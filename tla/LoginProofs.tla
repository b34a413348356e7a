----------------------------- MODULE LoginProofs -----------------------------
(***************************************************************************)
(* Proofs about Login, for every set of callers, of grants, and every      *)
(* bound. The inductive invariant says how the tokens in memory, in the    *)
(* keychain and at the server relate: outside a refresh, the bridge's      *)
(* refresh token is the server's newest, unless that one was lost.         *)
(***************************************************************************)
EXTENDS Login, TLAPS

(* What is saved is what is in memory.                                     *)
MemoryStored ==
  /\ access \in {NoToken, refresh}
  /\ unsaved => refresh # NoToken /\ access = refresh /\ refresh \notin everStored
  /\ ~unsaved /\ refresh # NoToken => stored = refresh
  /\ stored # NoToken => stored \in everStored

(* The tokens the bridge knows are the server's, none newer than its newest. *)
Issued(token) == token.grant \in granted /\ token.gen <= gen[token.grant]
TokensIssued ==
  /\ \A token \in everStored : token # NoToken /\ Issued(token)
  /\ refresh # NoToken => Issued(refresh)

(* A call that waits for the verdict was refused, and stays refused.       *)
VerdictRefused == \A w \in Callers : calls[w].at = "verdict" => ~Accepted(calls[w].tok)

(* During a refresh, what was saved stays; its answer is new.              *)
InRefresh ==
  /\ mu # "free" => ~unsaved /\ refresh # NoToken
  /\ \A w \in Callers : calls[w].at = "answer" =>
       IF calls[w].got = NoToken THEN refresh.grant \notin alive
       ELSE /\ calls[w].got.grant = refresh.grant
            /\ calls[w].got.gen = gen[refresh.grant]
            /\ \A token \in everStored : token.grant = refresh.grant => token.gen < gen[refresh.grant]

(* A login's tokens are of a grant that nothing else in the bridge has.    *)
LoginFresh ==
  login.at = "approved" =>
    /\ login.got # NoToken
    /\ login.got.grant \in granted /\ login.got.gen = gen[login.got.grant]
    /\ refresh.grant # login.got.grant
    /\ \A token \in everStored : token.grant # login.got.grant

(* A refresh token the server takes is its newest, unless that was lost.   *)
Current(token) ==
  token.grant \in alive => token.gen = gen[token.grant] \/ token.grant \in lossy
Answering == \E w \in Callers : calls[w].at = "answer"
BridgeCurrent ==
  ~Answering => Current(refresh) /\ (~unsaved => Current(stored))

IInv ==
  /\ TypeOK /\ MemoryStored /\ TokensIssued /\ SavedBeforeUse /\ VerdictRefused
  /\ InRefresh /\ LoginFresh /\ BridgeCurrent /\ ReuseOnlyAfterLoss

-----------------------------------------------------------------------------
(* The types.                                                              *)

LEMMA TokenTypes ==
  /\ NoToken \in Tokens
  /\ \A token \in Tokens : token # NoToken <=> token.grant \in Grants
  /\ \A token \in Tokens : token.gen \in Nat
  BY LoginAssumption DEF Tokens, NoToken

LEMMA IdleType == Idle \in CallType
  BY TokenTypes DEF Idle, CallType

LEMMA AnsweredType ==
  ASSUME NEW token \in Tokens, ServerTypeOK
  PROVE  Answered(token) \in Tokens
  BY TokenTypes DEF ServerTypeOK, Answered, Rotates, Tokens

(* A call moves to another place; mu is its own or free, before and after. *)
LEMMA CallMoves ==
  ASSUME TypeOK, NEW w \in Callers, NEW call \in CallType, calls' = [calls EXCEPT ![w] = call],
         mu \in {w, "free"},
         \/ call.at \in {"refresh", "answer"} /\ mu' = w
         \/ call.at \notin {"refresh", "answer"} /\ mu' = "free"
  PROVE  calls' \in [Callers -> CallType] /\ MuTypeOK'
  <1>1. calls' \in [Callers -> CallType]
    BY DEF TypeOK, ClientTypeOK
  <1>2. calls'[w] = call /\ \A v \in Callers \ {w} : calls'[v] = calls[v]
    BY DEF TypeOK, ClientTypeOK
  <1>3. MuTypeOK'
    BY <1>2, LoginAssumption DEF TypeOK, MuTypeOK
  <1> QED
    BY <1>1, <1>3

(* The entry of a call that asks, sends, is answered, or returns.          *)
LEMMA CallTypes ==
  ASSUME NEW call \in CallType, NEW token \in Tokens
  PROVE  /\ \A at \in {"token", "refresh", "send", "verdict"} : [call EXCEPT !.at = at] \in CallType
         /\ [call EXCEPT !.at = "answer", !.got = token] \in CallType
         /\ [call EXCEPT !.at = "send", !.tok = token] \in CallType
         /\ [call EXCEPT !.at = "send", !.tok = token, !.got = NoToken] \in CallType
  BY TokenTypes DEF CallType

LEMMA InitType == Init => TypeOK
  <1> SUFFICES ASSUME Init PROVE TypeOK
    OBVIOUS
  <1>1. ClientTypeOK
    BY TokenTypes, IdleType DEF Init, ClientTypeOK, NoLogin
  <1>2. MuTypeOK
    BY LoginAssumption DEF Init, MuTypeOK, Idle
  <1> QED
    BY <1>1, <1>2, LoginAssumption DEF Init, TypeOK, ServerTypeOK, HistoryTypeOK, BudgetType

(* One step of a call, with what each operator it is built from leaves.    *)
LEMMA SpendType ==
  ASSUME budget \in BudgetType, NEW what, Spend(what)
  PROVE  budget' \in BudgetType
  BY DEF Spend, BudgetType

LEMMA SaveType ==
  ASSUME TypeOK, NEW token \in Tokens, Save(token)
  PROVE  stored' \in Tokens /\ everStored' \subseteq Tokens /\ unsaved' \in BOOLEAN /\ budget' \in BudgetType
  BY SpendType DEF Save, TypeOK, ClientTypeOK, HistoryTypeOK, BudgetType

LEMMA EndType ==
  ASSUME TypeOK, End
  PROVE  /\ access' \in Tokens /\ refresh' \in Tokens /\ stored' \in Tokens
         /\ stale' \in BOOLEAN /\ unsaved' \in BOOLEAN /\ everStored' \subseteq Tokens
         /\ budget' \in BudgetType
  BY TokenTypes, SpendType DEF End, TypeOK, ClientTypeOK, HistoryTypeOK

LEMMA TokenType ==
  ASSUME TypeOK, NEW w \in Callers, Token(w)
  PROVE  TypeOK'
  <1>1. /\ access' \in Tokens /\ refresh' \in Tokens /\ stored' \in Tokens
        /\ stale' \in BOOLEAN /\ unsaved' \in BOOLEAN /\ everStored' \subseteq Tokens
        /\ budget' \in BudgetType
    BY SpendType DEF Token, Obtain, TypeOK, ClientTypeOK, HistoryTypeOK, client
  <1>2. calls[w] \in CallType /\ access \in Tokens /\ mu = "free"
    BY DEF Token, Lock, TypeOK, ClientTypeOK
  <1>3. \/ calls' = [calls EXCEPT ![w] = [@ EXCEPT !.at = "send", !.tok = access]] /\ mu' = mu
        \/ calls' = [calls EXCEPT ![w] = [@ EXCEPT !.at = "refresh"]] /\ mu' = w
        \/ calls' = [calls EXCEPT ![w] = Idle] /\ mu' = mu
    BY DEF Token, Obtain, Return
  <1>4. calls' \in [Callers -> CallType] /\ MuTypeOK'
    <2>1. CASE calls' = [calls EXCEPT ![w] = [@ EXCEPT !.at = "send", !.tok = access]] /\ mu' = mu
      <3>1. [calls[w] EXCEPT !.at = "send", !.tok = access] \in CallType
        BY <1>2, CallTypes
      <3> QED
        BY <1>2, <2>1, <3>1, CallMoves DEF CallType
    <2>2. CASE calls' = [calls EXCEPT ![w] = [@ EXCEPT !.at = "refresh"]] /\ mu' = w
      <3>1. [calls[w] EXCEPT !.at = "refresh"] \in CallType
        BY <1>2, CallTypes
      <3> QED
        BY <1>2, <2>2, <3>1, CallMoves DEF CallType
    <2>3. CASE calls' = [calls EXCEPT ![w] = Idle] /\ mu' = mu
      BY <1>2, <2>3, IdleType, CallMoves DEF Idle
    <2> QED
      BY <1>3, <2>1, <2>2, <2>3
  <1> QED
    BY <1>1, <1>4 DEF Token, TypeOK, ClientTypeOK, ServerTypeOK, HistoryTypeOK, server

LEMMA RefreshType ==
  ASSUME TypeOK, NEW w \in Callers, Refresh(w)
  PROVE  TypeOK'
  <1>1. Answered(refresh) \in Tokens /\ calls[w] \in CallType /\ mu = w
    BY AnsweredType DEF Refresh, TypeOK, ClientTypeOK, MuTypeOK
  <1>2. \/ calls' = [calls EXCEPT ![w] = Idle] /\ mu' = "free"
        \/ calls' = [calls EXCEPT ![w] = [@ EXCEPT !.at = "answer", !.got = Answered(refresh)]] /\ mu' = mu
    BY DEF Refresh, Unanswered, Return
  <1>3. calls' \in [Callers -> CallType] /\ MuTypeOK'
    <2>1. CASE calls' = [calls EXCEPT ![w] = Idle] /\ mu' = "free"
      BY <1>1, <2>1, IdleType, CallMoves DEF Idle
    <2>2. CASE calls' = [calls EXCEPT ![w] = [@ EXCEPT !.at = "answer", !.got = Answered(refresh)]] /\ mu' = mu
      <3>1. [calls[w] EXCEPT !.at = "answer", !.got = Answered(refresh)] \in CallType
        BY <1>1, CallTypes
      <3> QED
        BY <1>1, <2>2, <3>1, CallMoves DEF CallType
    <2> QED
      BY <1>2, <2>1, <2>2
  <1>4. ServerTypeOK'
    BY DEF Refresh, Rotate, TypeOK, ServerTypeOK
  <1>5. lossy' \subseteq Grants /\ reused' \subseteq Grants
    BY DEF Refresh, Rotate, Rotates, TypeOK, HistoryTypeOK, ServerTypeOK
  <1>6. budget' \in BudgetType
    BY SpendType DEF Refresh, Unanswered, TypeOK
  <1> QED
    BY <1>3, <1>4, <1>5, <1>6 DEF Refresh, TypeOK, ClientTypeOK, HistoryTypeOK, client

LEMMA AnswerType ==
  ASSUME TypeOK, NEW w \in Callers, Answer(w)
  PROVE  TypeOK'
  <1>1. calls[w] \in CallType /\ calls[w].got \in Tokens /\ mu = w /\ mu' = "free"
    BY DEF Answer, TypeOK, ClientTypeOK, CallType, MuTypeOK
  <1>2. /\ access' \in Tokens /\ refresh' \in Tokens /\ stored' \in Tokens
        /\ stale' \in BOOLEAN /\ unsaved' \in BOOLEAN /\ everStored' \subseteq Tokens
        /\ budget' \in BudgetType
    BY <1>1, EndType, SaveType DEF Answer, Adopt
  <1>3. \/ calls' = [calls EXCEPT ![w] = Idle]
        \/ calls' = [calls EXCEPT ![w] = [@ EXCEPT !.at = "send", !.tok = calls[w].got, !.got = NoToken]]
    BY DEF Answer, AfterSave, Return
  <1>4. calls' \in [Callers -> CallType] /\ MuTypeOK'
    <2>1. CASE calls' = [calls EXCEPT ![w] = Idle]
      BY <1>1, <2>1, IdleType, CallMoves DEF Idle
    <2>2. CASE calls' = [calls EXCEPT ![w] = [@ EXCEPT !.at = "send", !.tok = calls[w].got, !.got = NoToken]]
      <3>1. [calls[w] EXCEPT !.at = "send", !.tok = calls[w].got, !.got = NoToken] \in CallType
        BY <1>1, CallTypes
      <3> QED
        BY <1>1, <2>2, <3>1, CallMoves DEF CallType
    <2> QED
      BY <1>3, <2>1, <2>2
  <1> QED
    BY <1>2, <1>4 DEF Answer, TypeOK, ClientTypeOK, ServerTypeOK, HistoryTypeOK, server

LEMMA OtherCallType ==
  ASSUME TypeOK, NEW w \in Callers, Call(w) \/ Send(w) \/ Verdict(w)
  PROVE  TypeOK'
  <1>1. calls[w] \in CallType /\ calls[w].at \notin {"refresh", "answer"} /\ mu' = mu
    BY DEF Call, Send, Verdict, TypeOK, ClientTypeOK
  <1>2. calls' \in [Callers -> CallType] /\ MuTypeOK'
    <2>1. \E call \in CallType : call.at \notin {"refresh", "answer"} /\ calls' = [calls EXCEPT ![w] = call]
      <3>1. \A at \in {"token", "verdict"} : [calls[w] EXCEPT !.at = at, !.again = TRUE] \in CallType
        BY <1>1 DEF CallType
      <3>2. [calls[w] EXCEPT !.at = "token"] \in CallType /\ Idle \in CallType
        BY <1>1, CallTypes, TokenTypes, IdleType
      <3> QED
        BY <1>1, <3>1, <3>2 DEF Call, Send, Verdict, Return, Idle, CallType
    <2>2. PICK call \in CallType : call.at \notin {"refresh", "answer"} /\ calls' = [calls EXCEPT ![w] = call]
      BY <2>1
    <2>3. calls' \in [Callers -> CallType]
      BY <2>2 DEF TypeOK, ClientTypeOK
    <2>4. \A v \in Callers : calls'[v] = IF v = w THEN call ELSE calls[v]
      BY <2>2 DEF TypeOK, ClientTypeOK
    <2> QED
      BY <1>1, <2>2, <2>3, <2>4 DEF TypeOK, MuTypeOK
  <1>3. CASE Call(w) \/ Send(w)
    BY <1>2, <1>3 DEF Call, Send, TypeOK, ClientTypeOK, ServerTypeOK, HistoryTypeOK, client, server, history
  <1>4. CASE Verdict(w)
    <2>1. /\ access' \in Tokens /\ refresh' \in Tokens /\ stored' \in Tokens
          /\ stale' \in BOOLEAN /\ unsaved' \in BOOLEAN /\ everStored' \subseteq Tokens
          /\ budget' \in BudgetType
      BY <1>4, EndType DEF Verdict, TypeOK, ClientTypeOK, HistoryTypeOK, client
    <2> QED
      BY <1>2, <1>4, <2>1 DEF Verdict, TypeOK, ClientTypeOK, ServerTypeOK, HistoryTypeOK, server
  <1> QED
    BY <1>3, <1>4

LEMMA LoginType ==
  ASSUME TypeOK, StartLogin \/ Poll \/ AdoptLogin
  PROVE  TypeOK'
  <1>1. CASE StartLogin
    BY <1>1 DEF StartLogin, TypeOK, ClientTypeOK, ServerTypeOK, HistoryTypeOK, MuTypeOK, client, server, history
  <1>2. CASE Poll
    <2>1. login' \in [at : {"none", "polling", "approved"}, got : Tokens]
      BY <1>2, TokenTypes DEF Poll, NoLogin, Tokens
    <2>2. ServerTypeOK' /\ budget' \in BudgetType
      BY <1>2, SpendType DEF Poll, TypeOK, ServerTypeOK
    <2> QED
      BY <1>2, <2>1, <2>2 DEF Poll, TypeOK, ClientTypeOK, HistoryTypeOK, MuTypeOK, client, history
  <1>3. CASE AdoptLogin
    <2>1. login.got \in Tokens
      BY DEF TypeOK, ClientTypeOK
    <2>2. NoLogin \in [at : {"none", "polling", "approved"}, got : Tokens]
      BY TokenTypes DEF NoLogin
    <2> QED
      BY <1>3, <2>1, <2>2, SaveType
      DEF AdoptLogin, Adopt, TypeOK, ClientTypeOK, ServerTypeOK, HistoryTypeOK, MuTypeOK, server
  <1> QED
    BY <1>1, <1>2, <1>3

LEMMA OutsideType ==
  ASSUME TypeOK, Expire \/ Restart \/ \E g \in Grants : Lapse(g) \/ Revoke(g)
  PROVE  TypeOK'
  <1>1. CASE Expire
    BY <1>1, SpendType
    DEF Expire, TypeOK, ClientTypeOK, ServerTypeOK, HistoryTypeOK, MuTypeOK, server, history
  <1>2. CASE Restart
    <2>1. calls' \in [Callers -> CallType] /\ MuTypeOK'
      BY <1>2, IdleType, LoginAssumption DEF Restart, Idle, MuTypeOK
    <2>2. NoLogin \in [at : {"none", "polling", "approved"}, got : Tokens]
      BY TokenTypes DEF NoLogin
    <2> QED
      BY <1>2, <2>1, <2>2, TokenTypes, SpendType
      DEF Restart, TypeOK, ClientTypeOK, ServerTypeOK, HistoryTypeOK, server
  <1>3. CASE \E g \in Grants : Lapse(g) \/ Revoke(g)
    BY <1>3, SpendType
    DEF Lapse, Revoke, TypeOK, ClientTypeOK, ServerTypeOK, HistoryTypeOK, MuTypeOK, client, history
  <1> QED
    BY <1>1, <1>2, <1>3

LEMMA TypeStep == TypeOK /\ [Next]_vars => TypeOK'
  <1> SUFFICES ASSUME TypeOK, [Next]_vars PROVE TypeOK'
    OBVIOUS
  <1>1. CASE \E w \in Callers : Call(w) \/ CallStep(w)
    BY <1>1, TokenType, RefreshType, AnswerType, OtherCallType DEF CallStep
  <1>2. CASE StartLogin \/ Poll \/ AdoptLogin
    BY <1>2, LoginType
  <1>3. CASE Expire \/ Restart \/ \E g \in Grants : Lapse(g) \/ Revoke(g)
    BY <1>3, OutsideType
  <1>4. CASE UNCHANGED vars
    BY <1>4
    DEF TypeOK, ClientTypeOK, ServerTypeOK, HistoryTypeOK, MuTypeOK, vars, client, server, history
  <1> QED
    BY <1>1, <1>2, <1>3, <1>4 DEF Next

(* The variables keep their types, and mu is held by exactly the caller    *)
(* that is in a refresh.                                                   *)
THEOREM TypeCorrect == Spec => []TypeOK
  BY InitType, TypeStep, PTL DEF Spec

-----------------------------------------------------------------------------
(* The invariant: what each step leaves of it. A step of a call changes    *)
(* that call alone.                                                        *)

LEMMA OneCallMoves ==
  ASSUME TypeOK, NEW w \in Callers, NEW call, calls' = [calls EXCEPT ![w] = call]
  PROVE  calls'[w] = call /\ \A v \in Callers \ {w} : calls'[v] = calls[v]
  BY DEF TypeOK, ClientTypeOK

(* The bridge's tokens outside a refresh: the Store has what is in memory. *)
LEMMA BridgeFacts ==
  ASSUME IInv
  PROVE  /\ NoToken.grant \notin Grants /\ NoToken.grant \notin alive
         /\ refresh # NoToken => refresh.grant \in Grants
         /\ access # NoToken => refresh = access
         /\ refresh \in everStored => ~unsaved
         /\ mu # "free" => stored = refresh /\ refresh \in everStored
  BY TokenTypes DEF IInv, TypeOK, ClientTypeOK, ServerTypeOK, MemoryStored, InRefresh

LEMMA InitInv == Init => IInv
  <1> SUFFICES ASSUME Init PROVE IInv
    OBVIOUS
  <1>1. TypeOK
    BY InitType
  <1>2. MemoryStored /\ TokensIssued
    BY DEF Init, MemoryStored, TokensIssued
  <1>3. SavedBeforeUse /\ VerdictRefused /\ InRefresh
    BY DEF Init, Idle, SavedBeforeUse, VerdictRefused, InRefresh
  <1>4. LoginFresh /\ BridgeCurrent /\ ReuseOnlyAfterLoss
    BY DEF Init, NoLogin, NoToken, LoginFresh, BridgeCurrent, Current, ReuseOnlyAfterLoss
  <1> QED
    BY <1>1, <1>2, <1>3, <1>4 DEF IInv

LEMMA RefreshInv ==
  ASSUME IInv, NEW w \in Callers, Refresh(w)
  PROVE  IInv'
  <1> DEFINE Others == \A v \in Callers \ {w} : calls'[v] = calls[v]
             Returns == Others /\ calls'[w] = Idle
             IsAnswered == Others /\ calls'[w].at = "answer" /\ calls'[w].got = Answered(refresh)
  <1>1. TypeOK' /\ TypeOK
    BY RefreshType DEF IInv
  <1>2. mu = w /\ refresh # NoToken /\ refresh \in Tokens /\ refresh.grant \in Grants
    BY <1>1, BridgeFacts, LoginAssumption DEF Refresh, IInv, TypeOK, MuTypeOK, ClientTypeOK, InRefresh
  <1>3. stored = refresh /\ refresh \in everStored /\ ~unsaved
    BY <1>2, BridgeFacts, LoginAssumption
  <1>4. \A v \in Callers \ {w} : calls[v].at \notin {"refresh", "answer"}
    BY <1>1, <1>2 DEF TypeOK, MuTypeOK
  <1>5. Current(refresh)
    BY <1>4 DEF IInv, BridgeCurrent, Answering, Refresh
  <1>6. UNCHANGED <<access, stale, refresh, unsaved, stored, login, granted, lapsed, everStored>>
    BY DEF Refresh, client
  <1>7. \/ Returns /\ UNCHANGED <<alive, gen, lossy, reused>>
        \/ Returns /\ Rotate(refresh) /\ lossy' = IF Rotates(refresh) THEN lossy \cup {refresh.grant} ELSE lossy
        \/ IsAnswered /\ Rotate(refresh) /\ lossy' = lossy
    <2>1. calls[w] \in CallType
      BY <1>1 DEF TypeOK, ClientTypeOK
    <2>2. ASSUME Unanswered(w) PROVE Returns
      BY <2>2, <1>1, OneCallMoves DEF Unanswered, Return
    <2>3. ASSUME calls' = [calls EXCEPT ![w] = [@ EXCEPT !.at = "answer", !.got = Answered(refresh)]]
          PROVE  IsAnswered
      <3>1. calls' = [calls EXCEPT ![w] = [calls[w] EXCEPT !.at = "answer", !.got = Answered(refresh)]]
        BY <2>3
      <3>2. /\ calls'[w] = [calls[w] EXCEPT !.at = "answer", !.got = Answered(refresh)]
            /\ \A v \in Callers \ {w} : calls'[v] = calls[v]
        BY <3>1, <1>1, OneCallMoves
      <3> QED
        BY <2>1, <3>2 DEF CallType
    <2> HIDE DEF Returns, IsAnswered
    <2> QED
      BY <2>2, <2>3 DEF Refresh
  <1>8. Returns \/ IsAnswered
    BY <1>7
  <1>9. MemoryStored'
    BY <1>6 DEF IInv, MemoryStored
  <1>10. alive' \subseteq alive /\ \A g \in Grants : gen'[g] \in Nat /\ gen'[g] >= gen[g]
    BY <1>1, <1>2 DEF Refresh, Rotate, TypeOK, ServerTypeOK
  <1>11. TokensIssued'
    BY <1>1, <1>6, <1>10, <1>2, TokenTypes DEF IInv, TypeOK, ClientTypeOK, ServerTypeOK, HistoryTypeOK, TokensIssued, Issued
  <1>12. SavedBeforeUse' /\ VerdictRefused'
    BY <1>6, <1>8, <1>10 DEF IInv, SavedBeforeUse, VerdictRefused, Accepted, Idle
  <1>13. InRefresh'
    <2>1. ASSUME calls'[w].at = "answer", Rotates(refresh)
          PROVE  /\ calls'[w].got.grant = refresh.grant /\ calls'[w].got.gen = gen'[refresh.grant]
                 /\ calls'[w].got # NoToken
                 /\ \A token \in everStored : token.grant = refresh.grant => token.gen < gen'[refresh.grant]
      <3>1. Answered(refresh) = [refresh EXCEPT !.gen = @ + 1] /\ calls'[w].got = Answered(refresh)
        BY <2>1, <1>8 DEF Answered, Idle
      <3>2. gen' = [gen EXCEPT ![refresh.grant] = @ + 1]
        BY <2>1, <1>7 DEF Rotate, Idle
      <3>3. Answered(refresh).grant = refresh.grant /\ Answered(refresh).gen = refresh.gen + 1
        BY <3>1, <1>2 DEF Tokens, NoToken
      <3>4. gen'[refresh.grant] = gen[refresh.grant] + 1 /\ gen[refresh.grant] = refresh.gen
        BY <3>2, <2>1, <1>1, <1>2 DEF Rotates, TypeOK, ServerTypeOK
      <3>5. \A token \in everStored : token.grant = refresh.grant => token.gen < gen'[refresh.grant]
        BY <3>4, <1>1, <1>2, TokenTypes DEF IInv, TokensIssued, Issued, TypeOK, HistoryTypeOK, ServerTypeOK
      <3> QED
        BY <3>1, <3>3, <3>4, <3>5, <1>2, BridgeFacts
    <2>2. ASSUME calls'[w].at = "answer", ~Rotates(refresh)
          PROVE  calls'[w].got = NoToken /\ refresh.grant \notin alive'
      BY <2>2, <1>7 DEF Rotate, Answered, Idle
    <2>3. calls'[w].at = "answer" =>
            IF calls'[w].got = NoToken THEN refresh.grant \notin alive'
            ELSE /\ calls'[w].got.grant = refresh.grant
                 /\ calls'[w].got.gen = gen'[refresh.grant]
                 /\ \A token \in everStored : token.grant = refresh.grant => token.gen < gen'[refresh.grant]
      BY <2>1, <2>2
    <2>4. \A v \in Callers : calls'[v].at = "answer" => v = w
      BY <1>4, <1>8
    <2> QED
      BY <2>3, <2>4, <1>2, <1>3, <1>6 DEF InRefresh
  <1>14. LoginFresh'
    BY <1>1, <1>2, <1>6 DEF IInv, LoginFresh, Refresh, Rotate, TypeOK, ServerTypeOK, ClientTypeOK
  <1>15. BridgeCurrent'
    <2>1. CASE calls'[w].at = "answer"
      BY <2>1 DEF BridgeCurrent, Answering
    <2>2. CASE calls'[w].at # "answer"
      <3>1. Current(refresh)'
        <4>1. CASE Rotates(refresh) /\ gen' # gen
          BY <4>1, <2>2, <1>7, <1>6 DEF Current
        <4>2. CASE gen' = gen
          BY <4>2, <1>5, <1>6, <1>10 DEF Current, Refresh
        <4> QED
          BY <4>1, <4>2 DEF Refresh, Rotate
      <3> QED
        BY <3>1, <1>3, <1>6 DEF BridgeCurrent
    <2> QED
      BY <2>1, <2>2
  <1>16. ReuseOnlyAfterLoss'
    BY <1>5 DEF IInv, ReuseOnlyAfterLoss, Refresh, Rotate, Rotates, Current
  <1> QED
    BY <1>1, <1>9, <1>11, <1>12, <1>13, <1>14, <1>15, <1>16 DEF IInv

(* Saving fresh tokens, of an answer or a login, keeps what is known of    *)
(* the Store and the memory.                                               *)
LEMMA AdoptInv ==
  ASSUME IInv, NEW token \in Tokens, Adopt(token), token # NoToken, Issued(token), UNCHANGED server,
         token.gen = gen[token.grant], token \notin everStored
  PROVE  /\ MemoryStored' /\ TokensIssued' /\ Current(token)' /\ refresh' = token
         /\ everStored \subseteq everStored' /\ everStored' \subseteq everStored \cup {token}
         /\ ~unsaved' => stored' = token /\ token \in everStored'
  <1>1. /\ access' = token /\ refresh' = token
        /\ \/ stored' = token /\ everStored' = everStored \cup {token} /\ unsaved' = FALSE
           \/ unsaved' = TRUE /\ UNCHANGED <<stored, everStored>>
    BY DEF Adopt, Save
  <1> QED
    BY <1>1 DEF IInv, MemoryStored, TokensIssued, Issued, Current, server

LEMMA AnswerInv ==
  ASSUME IInv, NEW w \in Callers, Answer(w)
  PROVE  IInv'
  <1>1. TypeOK' /\ TypeOK
    BY AnswerType DEF IInv
  <1>2. mu = w /\ mu' = "free" /\ refresh # NoToken /\ refresh.grant \in Grants /\ refresh \in everStored
        /\ stored = refresh /\ ~unsaved
    BY <1>1, BridgeFacts, LoginAssumption DEF Answer, IInv, TypeOK, MuTypeOK, InRefresh
  <1>3. UNCHANGED <<login, server, lossy, reused>>
    BY DEF Answer
  <1>4. \A v \in Callers : calls'[v].at # "answer"
    BY <1>1, <1>2, LoginAssumption DEF TypeOK, MuTypeOK
  <1>5. InRefresh' /\ ReuseOnlyAfterLoss'
    BY <1>2, <1>3, <1>4 DEF IInv, InRefresh, ReuseOnlyAfterLoss
  <1>6. CASE calls[w].got = NoToken
    <2>1. /\ access' = NoToken /\ refresh' = NoToken /\ ~unsaved' /\ stored' \in {NoToken, stored}
          /\ everStored' = everStored /\ calls' = [calls EXCEPT ![w] = Idle]
      BY <1>6 DEF Answer, Adopt, End, Return
    <2>2. calls'[w] = Idle /\ \A v \in Callers \ {w} : calls'[v] = calls[v]
      BY <2>1, <1>1, OneCallMoves
    <2>3. refresh.grant \notin alive
      BY <1>6 DEF Answer, IInv, InRefresh
    <2>4. MemoryStored' /\ TokensIssued'
      BY <1>3, <2>1 DEF IInv, MemoryStored, TokensIssued, Issued, server
    <2>5. SavedBeforeUse' /\ VerdictRefused'
      BY <1>3, <2>1, <2>2 DEF IInv, SavedBeforeUse, VerdictRefused, Accepted, Idle, server
    <2>6. LoginFresh'
      BY <1>1, <1>3, <2>1, BridgeFacts DEF IInv, LoginFresh, TypeOK, ServerTypeOK, server
    <2>7. BridgeCurrent'
      BY <1>2, <1>3, <2>1, <2>3, BridgeFacts DEF BridgeCurrent, Current, server
    <2> QED
      BY <1>1, <1>5, <2>4, <2>5, <2>6, <2>7 DEF IInv
  <1>7. CASE calls[w].got # NoToken
    <2>0. calls[w] \in CallType /\ calls[w].got \in Tokens
      BY <1>1 DEF TypeOK, ClientTypeOK, CallType
    <2>1. PICK got \in Tokens : got = calls[w].got
      BY <2>0
    <2>2. /\ got.grant = refresh.grant /\ got.gen = gen[got.grant] /\ got \notin everStored
          /\ Issued(got)
      <3>1. /\ got.grant = refresh.grant /\ got.gen = gen[refresh.grant]
            /\ \A token \in everStored : token.grant = refresh.grant => token.gen < gen[refresh.grant]
        BY <1>7, <2>1 DEF Answer, IInv, InRefresh
      <3>2. gen[refresh.grant] \in Nat /\ refresh.grant \in granted
        BY <1>1, <1>2 DEF TypeOK, ServerTypeOK, IInv, TokensIssued, Issued
      <3> QED
        BY <3>1, <3>2 DEF Issued
    <2>3. Adopt(got) /\ AfterSave(w) /\ got # NoToken
      BY <1>7, <2>1 DEF Answer
    <2>4. /\ MemoryStored' /\ TokensIssued' /\ Current(got)' /\ refresh' = got
          /\ everStored \subseteq everStored' /\ everStored' \subseteq everStored \cup {got}
          /\ ~unsaved' => stored' = got /\ got \in everStored'
      BY <1>3, <2>2, <2>3, AdoptInv
    <2>5. /\ \A v \in Callers \ {w} : calls'[v] = calls[v]
          /\ calls'[w].at # "verdict"
          /\ calls'[w].at = "send" => ~unsaved' /\ calls'[w].tok = got
      <3> DEFINE sends == [calls[w] EXCEPT !.at = "send", !.tok = calls[w].got, !.got = NoToken]
      <3>1. calls' = [calls EXCEPT ![w] = IF unsaved' THEN Idle ELSE sends]
        BY <2>3 DEF AfterSave
      <3>2. sends.at = "send" /\ sends.tok = got
        BY <2>0, <2>1 DEF CallType
      <3>3. /\ calls'[w] = IF unsaved' THEN Idle ELSE sends
            /\ \A v \in Callers \ {w} : calls'[v] = calls[v]
        BY <1>1, <3>1, OneCallMoves
      <3> HIDE DEF sends
      <3> QED
        BY <1>1, <3>2, <3>3 DEF Idle, TypeOK, ClientTypeOK
    <2>6. SavedBeforeUse' /\ VerdictRefused'
      BY <1>3, <2>4, <2>5 DEF IInv, SavedBeforeUse, VerdictRefused, Accepted, server
    <2>7. LoginFresh'
      BY <1>3, <2>2, <2>4 DEF IInv, LoginFresh, server
    <2>8. BridgeCurrent'
      BY <2>4 DEF BridgeCurrent, Current
    <2> QED
      BY <1>1, <1>5, <2>4, <2>6, <2>7, <2>8 DEF IInv
  <1> QED
    BY <1>6, <1>7

LEMMA TokenInv ==
  ASSUME IInv, NEW w \in Callers, Token(w)
  PROVE  IInv'
  <1>1. TypeOK' /\ TypeOK /\ calls[w] \in CallType
    BY TokenType DEF IInv, TypeOK, ClientTypeOK
  <1>2. mu = "free" /\ (\A v \in Callers : calls[v].at # "answer") /\ calls[w].at = "token"
    BY <1>1, LoginAssumption DEF Token, Lock, TypeOK, MuTypeOK
  <1>3. UNCHANGED <<access, login, server, lossy, reused>>
    BY DEF Token, client
  (* What is saved, and where the refresh token comes from.                *)
  <1>4. \/ UNCHANGED <<refresh, unsaved, stored, everStored>> /\ mu' = mu
        \/ UNCHANGED <<refresh, unsaved, stored, everStored>> /\ ~unsaved /\ refresh # NoToken
        \/ /\ unsaved /\ ~unsaved' /\ refresh' = refresh /\ stored' = refresh
           /\ everStored' = everStored \cup {refresh}
        \/ /\ ~unsaved /\ refresh = NoToken /\ stored # NoToken /\ refresh' = stored
           /\ UNCHANGED <<unsaved, stored, everStored>>
    BY DEF Token, Obtain, client, IInv, MemoryStored
  <1>5. \/ calls' = [calls EXCEPT ![w] = [@ EXCEPT !.at = "send", !.tok = access]]
           /\ access # NoToken /\ ~unsaved'
        \/ calls' = [calls EXCEPT ![w] = [@ EXCEPT !.at = "refresh"]]
        \/ calls' = [calls EXCEPT ![w] = Idle]
    BY <1>1 DEF Token, Obtain, Return, Usable, TypeOK, ClientTypeOK
  <1>6. /\ \A v \in Callers \ {w} : calls'[v] = calls[v]
        /\ calls'[w].at \notin {"verdict", "answer"}
        /\ calls'[w].at = "send" => calls'[w].tok = access /\ access # NoToken /\ ~unsaved'
    <2>1. CASE calls' = [calls EXCEPT ![w] = [@ EXCEPT !.at = "send", !.tok = access]]
               /\ access # NoToken /\ ~unsaved'
      <3>1. calls' = [calls EXCEPT ![w] = [calls[w] EXCEPT !.at = "send", !.tok = access]]
        BY <2>1
      <3>2. /\ calls'[w] = [calls[w] EXCEPT !.at = "send", !.tok = access]
            /\ \A v \in Callers \ {w} : calls'[v] = calls[v]
        BY <1>1, <3>1, OneCallMoves
      <3> QED
        <4>1. /\ [calls[w] EXCEPT !.at = "send", !.tok = access].at = "send"
              /\ [calls[w] EXCEPT !.at = "send", !.tok = access].tok = access
          BY <1>1 DEF CallType
        <4> QED
          BY <2>1, <3>2, <4>1
    <2>2. CASE calls' = [calls EXCEPT ![w] = [@ EXCEPT !.at = "refresh"]]
      <3>1. calls' = [calls EXCEPT ![w] = [calls[w] EXCEPT !.at = "refresh"]]
        BY <2>2
      <3>2. /\ calls'[w] = [calls[w] EXCEPT !.at = "refresh"]
            /\ \A v \in Callers \ {w} : calls'[v] = calls[v]
        BY <1>1, <3>1, OneCallMoves
      <3> QED
        <4>1. [calls[w] EXCEPT !.at = "refresh"].at = "refresh"
          BY <1>1 DEF CallType
        <4> QED
          BY <3>2, <4>1
    <2>3. CASE calls' = [calls EXCEPT ![w] = Idle]
      <3>1. calls'[w] = Idle /\ \A v \in Callers \ {w} : calls'[v] = calls[v]
        BY <1>1, <2>3, OneCallMoves
      <3> QED
        BY <3>1 DEF Idle
    <2> QED
      BY <1>5, <2>1, <2>2, <2>3, Zenon
  <1>7. everStored' \subseteq everStored \cup {refresh} /\ everStored \subseteq everStored'
    BY <1>4
  <1>8. refresh' # NoToken => refresh' = refresh \/ (refresh' = stored /\ stored \in everStored)
    BY <1>4 DEF IInv, MemoryStored
  <1>9. MemoryStored'
    BY <1>3, <1>4 DEF IInv, MemoryStored
  <1>10. TokensIssued'
    <2>1. refresh \notin everStored' \/ refresh # NoToken \/ refresh \in everStored
      BY <1>4 DEF IInv, MemoryStored
    <2>2. \A token \in everStored' : token # NoToken /\ Issued(token)
      BY <1>4, <1>7 DEF IInv, TokensIssued, MemoryStored
    <2>3. refresh' # NoToken => Issued(refresh')
      BY <1>8 DEF IInv, TokensIssued
    <2> QED
      BY <1>3, <2>2, <2>3 DEF TokensIssued, Issued, server
  <1>11. SavedBeforeUse'
    <2>1. access # NoToken /\ ~unsaved' => access \in everStored'
      BY <1>3, <1>9, BridgeFacts DEF MemoryStored
    <2> QED
      BY <1>6, <1>7, <2>1 DEF IInv, SavedBeforeUse
  <1>12. VerdictRefused'
    BY <1>3, <1>6 DEF IInv, VerdictRefused, Accepted, server
  <1>13. InRefresh'
    <2>1. mu' # "free" => ~unsaved' /\ refresh' # NoToken
      BY <1>2, <1>4 DEF IInv, MemoryStored
    <2>2. \A v \in Callers : calls'[v].at # "answer"
      BY <1>2, <1>6
    <2> QED
      BY <2>1, <2>2 DEF InRefresh
  <1>14. LoginFresh'
    <2>1. login.at = "approved" => login.got.grant \in Grants /\ NoToken.grant \notin Grants
      BY <1>1, TokenTypes DEF IInv, LoginFresh, TypeOK, ClientTypeOK
    <2> QED
      BY <1>3, <1>7, <1>8, <2>1 DEF IInv, LoginFresh, server
  <1>15. BridgeCurrent'
    <2>1. Current(refresh) /\ (~unsaved => Current(stored))
      BY <1>2 DEF IInv, BridgeCurrent, Answering
    <2>2. Current(refresh') /\ (~unsaved' => Current(stored'))
      BY <1>4, <2>1
    <2> QED
      BY <1>3, <2>2 DEF BridgeCurrent, Current, server
  <1>16. ReuseOnlyAfterLoss'
    BY <1>3 DEF IInv, ReuseOnlyAfterLoss
  <1> QED
    BY <1>1, <1>9, <1>10, <1>11, <1>12, <1>13, <1>14, <1>15, <1>16 DEF IInv

(* A call that the server refused for good finds its token in the Store.   *)
LEMMA VerdictFacts ==
  ASSUME IInv, NEW w \in Callers, calls[w].at = "verdict", ~Replaced(calls[w].tok)
  PROVE  /\ refresh = calls[w].tok /\ stored = refresh /\ refresh \in everStored /\ ~unsaved
         /\ refresh # NoToken /\ ~Accepted(stored)
  <1>1. calls[w].tok \in everStored /\ calls[w].tok # NoToken /\ ~Accepted(calls[w].tok)
    BY DEF IInv, SavedBeforeUse, VerdictRefused, TokensIssued
  <1>2. refresh = calls[w].tok /\ refresh # NoToken
    BY <1>1, BridgeFacts DEF Replaced
  <1> QED
    BY <1>1, <1>2, BridgeFacts DEF IInv, MemoryStored

LEMMA VerdictInv ==
  ASSUME IInv, NEW w \in Callers, Verdict(w)
  PROVE  IInv'
  <1>1. TypeOK' /\ TypeOK /\ calls[w].at = "verdict"
    BY OtherCallType DEF IInv, Verdict
  <1>2. mu = "free" /\ mu' = "free" /\ \A v \in Callers : calls[v].at # "answer"
    BY <1>1, LoginAssumption DEF Verdict, Lock, TypeOK, MuTypeOK
  <1>3. UNCHANGED <<login, server, lossy, reused, everStored>>
    BY DEF Verdict, End
  <1>4. calls'[w] = Idle /\ \A v \in Callers \ {w} : calls'[v] = calls[v]
    BY <1>1, OneCallMoves DEF Verdict, Return
  <1>5. SavedBeforeUse' /\ VerdictRefused'
    BY <1>3, <1>4 DEF IInv, SavedBeforeUse, VerdictRefused, Accepted, Idle, server
  <1>6. InRefresh' /\ ReuseOnlyAfterLoss'
    BY <1>2, <1>3, <1>4 DEF IInv, InRefresh, ReuseOnlyAfterLoss, Idle
  <1>7. Current(refresh) /\ (~unsaved => Current(stored))
    BY <1>2 DEF IInv, BridgeCurrent, Answering
  <1>8. CASE Replaced(calls[w].tok)
    <2>1. UNCHANGED <<access, refresh, unsaved, stored>>
      BY <1>8, VerdictFacts DEF Verdict, client, End
    <2>2. MemoryStored' /\ TokensIssued' /\ LoginFresh'
      BY <1>3, <2>1 DEF IInv, MemoryStored, TokensIssued, Issued, LoginFresh, server
    <2>3. BridgeCurrent'
      BY <1>3, <1>7, <2>1 DEF BridgeCurrent, Current, server
    <2> QED
      BY <1>1, <1>5, <1>6, <2>2, <2>3 DEF IInv
  <1>9. CASE ~Replaced(calls[w].tok)
    <2>1. access' = NoToken /\ refresh' = NoToken /\ ~unsaved' /\ stored' \in {NoToken, stored}
      BY <1>9 DEF Verdict, End
    <2>2. stored = refresh
      BY <1>1, <1>9, VerdictFacts
    <2>3. MemoryStored' /\ TokensIssued'
      BY <1>3, <2>1 DEF IInv, MemoryStored, TokensIssued, Issued, server
    <2>4. LoginFresh'
      BY <1>1, <1>3, <2>1, BridgeFacts DEF IInv, LoginFresh, TypeOK, ServerTypeOK, server
    <2>5. BridgeCurrent'
      BY <1>3, <1>7, <2>1, <2>2, BridgeFacts DEF BridgeCurrent, Current, server
    <2> QED
      BY <1>1, <1>5, <1>6, <2>3, <2>4, <2>5 DEF IInv
  <1> QED
    BY <1>8, <1>9

LEMMA CallSendInv ==
  ASSUME IInv, NEW w \in Callers, Call(w) \/ Send(w)
  PROVE  IInv'
  <1>1. TypeOK' /\ TypeOK /\ calls[w] \in CallType
    BY OtherCallType DEF IInv, TypeOK, ClientTypeOK
  <1>2. UNCHANGED <<client, mu, login, server, history>>
    BY DEF Call, Send
  <1>3. /\ \A v \in Callers \ {w} : calls'[v] = calls[v]
        /\ calls[w].at # "answer" /\ calls'[w].at \notin {"answer", "send"}
        /\ calls'[w].at = "verdict" =>
             calls[w].at = "send" /\ calls'[w].tok = calls[w].tok /\ ~Accepted(calls[w].tok)
    <2>1. CASE Call(w)
      <3>1. calls' = [calls EXCEPT ![w] = [calls[w] EXCEPT !.at = "token"]] /\ calls[w].at = "idle"
        BY <2>1 DEF Call
      <3>2. calls'[w] = [calls[w] EXCEPT !.at = "token"] /\ \A v \in Callers \ {w} : calls'[v] = calls[v]
        BY <1>1, <3>1, OneCallMoves
      <3> QED
        <4>1. [calls[w] EXCEPT !.at = "token"].at = "token"
          BY <1>1 DEF CallType
        <4> QED
          BY <3>1, <3>2, <4>1
    <2>2. CASE calls[w].at = "send" /\ calls' = [calls EXCEPT ![w] = Idle]
      <3>1. calls'[w] = Idle /\ \A v \in Callers \ {w} : calls'[v] = calls[v]
        BY <1>1, <2>2, OneCallMoves
      <3> QED
        BY <2>2, <3>1 DEF Idle
    <2>3. CASE Send(w) /\ calls' # [calls EXCEPT ![w] = Idle]
      <3> DEFINE moved == [calls[w] EXCEPT !.at = IF calls[w].again THEN "verdict" ELSE "token", !.again = TRUE]
      <3>1. calls' = [calls EXCEPT ![w] = moved] /\ calls[w].at = "send" /\ ~Accepted(calls[w].tok)
        BY <2>3 DEF Send, Return
      <3>2. moved.at \in {"verdict", "token"} /\ moved.tok = calls[w].tok
        BY <1>1 DEF CallType
      <3>3. calls'[w] = moved /\ \A v \in Callers \ {w} : calls'[v] = calls[v]
        BY <1>1, <3>1, OneCallMoves
      <3> HIDE DEF moved
      <3> QED
        BY <3>1, <3>2, <3>3
    <2> QED
      BY <2>1, <2>2, <2>3 DEF Send, Return
  <1>4. MemoryStored' /\ TokensIssued' /\ LoginFresh' /\ ReuseOnlyAfterLoss'
    BY <1>2 DEF IInv, MemoryStored, TokensIssued, Issued, LoginFresh, ReuseOnlyAfterLoss, client, server, history
  <1>5. SavedBeforeUse' /\ VerdictRefused'
    BY <1>2, <1>3 DEF IInv, SavedBeforeUse, VerdictRefused, Accepted, server, history
  <1>6. InRefresh'
    BY <1>2, <1>3 DEF IInv, InRefresh, client, server, history
  <1>7. BridgeCurrent'
    BY <1>2, <1>3 DEF IInv, BridgeCurrent, Current, Answering, client, server, history
  <1> QED
    BY <1>1, <1>4, <1>5, <1>6, <1>7 DEF IInv

LEMMA LoginInv ==
  ASSUME IInv, StartLogin \/ Poll \/ AdoptLogin
  PROVE  IInv'
  <1>1. TypeOK' /\ TypeOK
    BY LoginType DEF IInv
  <1>2. CASE StartLogin
    <2>1. UNCHANGED <<client, mu, calls, server, history>> /\ login'.at = "polling"
      BY <1>1, <1>2 DEF StartLogin, TypeOK, ClientTypeOK
    <2> QED
      BY <1>1, <2>1
      DEF IInv, MemoryStored, TokensIssued, Issued, SavedBeforeUse, VerdictRefused, Accepted, InRefresh,
          LoginFresh, BridgeCurrent, Current, Answering, ReuseOnlyAfterLoss, client, server, history
  <1>3. CASE Poll
    <2>1. UNCHANGED <<client, mu, calls, lapsed, history>>
      BY <1>3 DEF Poll
    <2>2. CASE UNCHANGED <<granted, alive, gen>> /\ login' = NoLogin
      BY <1>1, <2>1, <2>2
      DEF IInv, MemoryStored, TokensIssued, Issued, SavedBeforeUse, VerdictRefused, Accepted, InRefresh,
          LoginFresh, BridgeCurrent, Current, Answering, ReuseOnlyAfterLoss, client, history, NoLogin
    <2>3. ASSUME NEW g \in Grants \ granted,
                 granted' = granted \cup {g}, alive' = alive \cup {g}, gen' = [gen EXCEPT ![g] = 1],
                 login' = NoLogin \/ login' = [at |-> "approved", got |-> [grant |-> g, gen |-> 1]]
          PROVE  IInv'
      (* The new grant is none of those the bridge or its calls know.      *)
      <3>1. /\ \A token \in everStored : token.grant # g /\ token.grant \in Grants
            /\ refresh.grant # g
        BY <1>1, <2>3, TokenTypes, BridgeFacts DEF IInv, TokensIssued, Issued, TypeOK, ServerTypeOK
      <3>2. gen'[g] = 1 /\ \A h \in Grants \ {g} : gen'[h] = gen[h]
        BY <1>1, <2>3 DEF TypeOK, ServerTypeOK
      <3>3. \A h : h # g => (h \in alive' <=> h \in alive) /\ (h \in granted' <=> h \in granted)
        BY <2>3
      <3>4. MemoryStored' /\ SavedBeforeUse' /\ ReuseOnlyAfterLoss'
        BY <2>1 DEF IInv, MemoryStored, SavedBeforeUse, ReuseOnlyAfterLoss, client, history
      <3>5. TokensIssued'
        <4>1. refresh # NoToken => refresh.grant \in Grants
          BY BridgeFacts
        <4> QED
          BY <2>1, <3>1, <3>2, <3>3, <4>1 DEF IInv, TokensIssued, Issued, client, history
      <3>6. VerdictRefused'
        BY <2>1, <3>1, <3>3 DEF IInv, SavedBeforeUse, VerdictRefused, Accepted
      <3>7. InRefresh'
        <4>1. \A v \in Callers : calls[v].at = "answer" => refresh.grant \in Grants
          BY <1>1, BridgeFacts, LoginAssumption DEF IInv, InRefresh, TypeOK, MuTypeOK
        <4> QED
          BY <2>1, <3>1, <3>2, <3>3, <4>1 DEF IInv, InRefresh, client, history
      <3>8. LoginFresh'
        BY <2>1, <2>3, <3>1, <3>2, BridgeFacts DEF LoginFresh, NoLogin, client, history
      <3>9. BridgeCurrent'
        <4>1. stored = NoToken \/ stored \in everStored
          BY DEF IInv, MemoryStored
        <4>2. stored.grant # g /\ NoToken.grant # g
          BY <3>1, <4>1, BridgeFacts
        <4>3. ASSUME NEW token, token.grant # g, token = NoToken \/ token.grant \in Grants, Current(token)
              PROVE  Current(token)'
          BY <2>1, <3>2, <3>3, <4>3, BridgeFacts DEF Current, history
        <4>4. Current(refresh) => Current(refresh)'
          BY <2>1, <3>1, <3>2, <3>3, BridgeFacts DEF Current, history, client
        <4>5. Current(stored) => Current(stored)'
          BY <2>1, <3>1, <3>2, <3>3, <4>1, <4>2, BridgeFacts DEF Current, history, client
        <4> QED
          BY <2>1, <4>4, <4>5 DEF IInv, BridgeCurrent, Answering, client
      <3> QED
        BY <1>1, <3>4, <3>5, <3>6, <3>7, <3>8, <3>9 DEF IInv
    <2> QED
      BY <1>3, <2>2, <2>3 DEF Poll
  <1>4. CASE AdoptLogin
    <2>1. /\ login.at = "approved" /\ Adopt(login.got) /\ login' = NoLogin /\ mu = "free" /\ mu' = "free"
          /\ UNCHANGED <<calls, server, lossy, reused>>
      BY <1>4 DEF AdoptLogin, Lock
    <2>2. \A v \in Callers : calls[v].at # "answer"
      BY <1>1, <2>1, LoginAssumption DEF TypeOK, MuTypeOK
    <2>3. PICK got \in Tokens : got = login.got
      BY <1>1 DEF TypeOK, ClientTypeOK
    <2>4. /\ got # NoToken /\ Issued(got) /\ got.gen = gen[got.grant] /\ got \notin everStored
          /\ Adopt(got)
      <3>1. got # NoToken /\ got.grant \in granted /\ got.gen = gen[got.grant] /\ got \notin everStored
        BY <2>1, <2>3 DEF IInv, LoginFresh
      <3>2. gen[got.grant] \in Nat
        BY <1>1, <3>1 DEF TypeOK, ServerTypeOK
      <3> QED
        BY <2>1, <2>3, <3>1, <3>2 DEF Issued
    <2>5. /\ MemoryStored' /\ TokensIssued' /\ Current(got)' /\ refresh' = got
          /\ everStored \subseteq everStored' /\ everStored' \subseteq everStored \cup {got}
          /\ ~unsaved' => stored' = got /\ got \in everStored'
      BY <2>1, <2>4, AdoptInv
    <2>6. SavedBeforeUse' /\ VerdictRefused' /\ ReuseOnlyAfterLoss'
      BY <2>1, <2>5 DEF IInv, SavedBeforeUse, VerdictRefused, Accepted, ReuseOnlyAfterLoss, server
    <2>7. InRefresh' /\ LoginFresh'
      BY <2>1, <2>2 DEF InRefresh, LoginFresh, NoLogin
    <2>8. BridgeCurrent'
      BY <2>5 DEF BridgeCurrent, Current
    <2> QED
      BY <1>1, <2>5, <2>6, <2>7, <2>8 DEF IInv
  <1> QED
    BY <1>2, <1>3, <1>4

LEMMA OutsideInv ==
  ASSUME IInv, Expire \/ \E g \in Grants : Lapse(g) \/ Revoke(g)
  PROVE  IInv'
  <1>1. TypeOK' /\ TypeOK
    BY OutsideType DEF IInv
  <1>2. /\ UNCHANGED <<access, refresh, unsaved, stored, mu, calls, login, granted, gen, history>>
        /\ alive' \subseteq alive
        /\ \A g \in Grants : lapsed'[g] \in Nat /\ lapsed'[g] >= lapsed[g]
    BY <1>1 DEF Expire, Lapse, Revoke, TypeOK, ServerTypeOK, client, server
  <1>3. MemoryStored' /\ TokensIssued' /\ SavedBeforeUse' /\ LoginFresh' /\ ReuseOnlyAfterLoss'
    BY <1>2 DEF IInv, MemoryStored, TokensIssued, Issued, SavedBeforeUse, LoginFresh, ReuseOnlyAfterLoss, history
  <1>4. VerdictRefused'
    <2>1. \A token \in everStored : token.grant \in Grants /\ token.gen \in Nat /\ lapsed[token.grant] \in Nat
      BY <1>1, TokenTypes DEF IInv, TokensIssued, TypeOK, HistoryTypeOK, ServerTypeOK
    <2> QED
      BY <1>2, <2>1 DEF IInv, SavedBeforeUse, VerdictRefused, Accepted
  <1>5. InRefresh'
    BY <1>2 DEF IInv, InRefresh, history
  <1>6. BridgeCurrent'
    BY <1>2 DEF IInv, BridgeCurrent, Current, Answering, history
  <1> QED
    BY <1>1, <1>3, <1>4, <1>5, <1>6 DEF IInv

(* The process ends: what was not saved is lost.                           *)
LEMMA RestartInv ==
  ASSUME IInv, Restart
  PROVE  IInv'
  <1>1. TypeOK' /\ TypeOK
    BY OutsideType DEF IInv
  <1>2. /\ access' = NoToken /\ refresh' = NoToken /\ ~unsaved' /\ mu' = "free" /\ login' = NoLogin
        /\ lossy' = lossy \cup (Unstored \cap Grants)
        /\ UNCHANGED <<stored, server, reused, everStored>>
    BY DEF Restart
  <1>3. \A w \in Callers : calls'[w] = Idle
    BY DEF Restart
  <1>4. MemoryStored' /\ TokensIssued'
    BY <1>2 DEF IInv, MemoryStored, TokensIssued, Issued, server
  <1>5. SavedBeforeUse' /\ VerdictRefused' /\ InRefresh'
    BY <1>2, <1>3 DEF SavedBeforeUse, VerdictRefused, InRefresh, Idle
  <1>6. LoginFresh' /\ ReuseOnlyAfterLoss'
    BY <1>2 DEF IInv, LoginFresh, NoLogin, ReuseOnlyAfterLoss
  <1>7. stored.grant \in alive => stored.gen = gen[stored.grant] \/ stored.grant \in lossy'
    <2> SUFFICES ASSUME stored.grant \in alive PROVE stored.gen = gen[stored.grant] \/ stored.grant \in lossy'
      OBVIOUS
    <2>1. stored.grant \in Grants
      BY <1>1 DEF TypeOK, ServerTypeOK
    <2>2. CASE unsaved
      BY <1>2, <2>1, <2>2 DEF Unstored
    <2>3. CASE ~unsaved /\ ~Answering
      BY <1>2, <2>3 DEF IInv, BridgeCurrent, Current
    <2>4. CASE Answering
      <3>1. PICK w \in Callers : calls[w].at = "answer"
        BY <2>4 DEF Answering
      <3>2. stored = refresh
        BY <1>1, <3>1, BridgeFacts, LoginAssumption DEF TypeOK, MuTypeOK
      <3>3. calls[w].got.grant = refresh.grant
        BY <3>1, <3>2 DEF IInv, InRefresh
      <3>4. stored.grant \in Unstored
        BY <3>1, <3>2, <3>3 DEF Unstored
      <3> QED
        BY <1>2, <2>1, <3>4
    <2> QED
      BY <2>2, <2>3, <2>4
  <1>8. BridgeCurrent'
    BY <1>2, <1>7, BridgeFacts DEF BridgeCurrent, Current, server
  <1> QED
    BY <1>1, <1>4, <1>5, <1>6, <1>8 DEF IInv

LEMMA InvStep == IInv /\ [Next]_vars => IInv'
  <1> SUFFICES ASSUME IInv, [Next]_vars PROVE IInv'
    OBVIOUS
  <1>1. CASE \E w \in Callers : Call(w) \/ CallStep(w)
    BY <1>1, CallSendInv, TokenInv, RefreshInv, AnswerInv, VerdictInv DEF CallStep
  <1>2. CASE StartLogin \/ Poll \/ AdoptLogin
    BY <1>2, LoginInv
  <1>3. CASE Expire \/ Restart \/ \E g \in Grants : Lapse(g) \/ Revoke(g)
    BY <1>3, OutsideInv, RestartInv
  <1>4. CASE UNCHANGED vars
    <2>1. TypeOK'
      BY <1>4, TypeStep DEF IInv
    <2> QED
      BY <1>4, <2>1
      DEF IInv, MemoryStored, TokensIssued, Issued, SavedBeforeUse, VerdictRefused, Accepted, InRefresh,
          LoginFresh, BridgeCurrent, Current, Answering, ReuseOnlyAfterLoss, vars, client, server, history
  <1> QED
    BY <1>1, <1>2, <1>3, <1>4 DEF Next

LEMMA Invariant == Spec => []IInv
  BY InitInv, InvStep, PTL DEF Spec

-----------------------------------------------------------------------------
(* What follows.                                                           *)

(* No request carries an access token whose refresh token was not saved    *)
(* before: auth.go adopts, saves, and only then sends.                     *)
THEOREM TokensSavedBeforeUse == Spec => []SavedBeforeUse
  <1>1. IInv => SavedBeforeUse
    BY DEF IInv
  <1> QED
    BY <1>1, Invariant, PTL

(* The bridge gets a grant revoked by sending a replaced refresh token     *)
(* only when it never saved the newest: mu, the save before the use and    *)
(* the grants' independence leave no other way.                            *)
THEOREM ReuseNeedsLoss == Spec => []ReuseOnlyAfterLoss
  <1>1. IInv => ReuseOnlyAfterLoss
    BY DEF IInv
  <1> QED
    BY <1>1, Invariant, PTL

(* No token is used before it is saved, and no replaced one without a loss. *)
THEOREM TokensAreSafe == Spec => []TokensSafe
  <1>1. IInv => TokensSafe
    BY DEF IInv, TokensSafe
  <1> QED
    BY <1>1, Invariant, PTL

(* A step that deletes the Store's login is one that learnt from the       *)
(* server that exactly this login is over.                                 *)
LEMMA EndStep ==
  IInv /\ [Next]_vars => [stored # NoToken /\ stored' = NoToken => ~Accepted(stored)]_vars
  <1> SUFFICES ASSUME IInv, Next, stored # NoToken, stored' = NoToken PROVE ~Accepted(stored)
    OBVIOUS
  <1>1. CASE \E w \in Callers : Verdict(w)
    <2>1. PICK w \in Callers : Verdict(w)
      BY <1>1
    <2>2. calls[w].at = "verdict" /\ ~Replaced(calls[w].tok)
      BY <2>1 DEF Verdict, client
    <2> QED
      BY <2>2, VerdictFacts
  <1>2. CASE \E w \in Callers : Answer(w)
    <2>1. PICK w \in Callers : Answer(w)
      BY <1>2
    <2>2. TypeOK /\ mu = w
      BY <2>1 DEF Answer, IInv, TypeOK, MuTypeOK
    <2>3. stored = refresh
      BY <2>2, BridgeFacts, LoginAssumption
    <2>4. calls[w].got = NoToken
      BY <2>1 DEF Answer, Adopt, Save
    <2> QED
      BY <2>1, <2>3, <2>4 DEF Answer, IInv, InRefresh, Accepted
  <1>3. CASE \E w \in Callers : Token(w)
    BY <1>3 DEF Token, Obtain, client, IInv, MemoryStored
  <1>4. CASE AdoptLogin
    BY <1>4 DEF AdoptLogin, Adopt, Save, IInv, LoginFresh
  <1>5. CASE UNCHANGED stored
    BY <1>5
  <1> QED
    BY <1>1, <1>2, <1>3, <1>4, <1>5
    DEF Next, CallStep, Call, Send, Refresh, StartLogin, Poll, Expire, Restart, Lapse, Revoke, client

(* The login in the keychain is deleted only when the server has refused   *)
(* it: a late 401 or a refusal never ends a newer login.                   *)
THEOREM OnlyServerEnds == Spec => EndedByServer
  BY Invariant, EndStep, PTL DEF Spec, EndedByServer
=============================================================================
