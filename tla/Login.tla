-------------------------------- MODULE Login --------------------------------
(***************************************************************************)
(* The bridge's login, bridge/internal/auth: the access and refresh tokens *)
(* in memory, the refresh token in the keychain, the calls that share them *)
(* (the uploader, the kit poller, the adapter download, the controller's   *)
(* retry of a save), the refresh, and the device login.                    *)
(*                                                                         *)
(* Around it stands the OAuth server, oidc-provider as                     *)
(* platform/src/oidc-tokens.ts sets it up: each refresh replaces the       *)
(* refresh token, and one that was replaced revokes its grant.             *)
(*                                                                         *)
(* A token is the grant it belongs to and its place in the sequence of the *)
(* grant's refreshes; the access and the refresh token of one answer have  *)
(* the same name.                                                          *)
(***************************************************************************)
EXTENDS Integers, FiniteSets

CONSTANTS
  Callers,   \* the goroutines that call Do or AccessToken
  Periodic,  \* those that call again and again: the kit poller
  Grants,    \* the grants the user may approve, one for each login
  Budgets    \* bounds on what the environment does, one for each story

NoToken == [grant |-> 0, gen |-> 0]

ASSUME LoginAssumption ==
  /\ Periodic \subseteq Callers /\ "free" \notin Callers
  /\ Grants \subseteq Nat \ {0}
  /\ Budgets \subseteq [expiries : Nat, lapses : Nat, faults : Nat, revokes : Nat, restarts : Nat]

VARIABLES
  access,   \* Client.access
  stale,    \* the clock has passed Client.expiry
  refresh,  \* Client.refresh
  unsaved,  \* Client.unsaved
  mu,       \* the caller that holds Client.mu through a refresh, or "free"
  stored,   \* the Store's refresh token
  calls,    \* where each call is, and its access token
  login,    \* where the device login is, and the tokens it got
  granted,  \* the grants the user has approved
  alive,    \* the grants that are not revoked
  gen,      \* the newest refresh of each grant
  lapsed,   \* the newest refresh of each grant whose access token has expired
  lossy,    \* history: the grants whose newest token the bridge never saved
  reused,   \* history: the grants a replaced refresh token was sent for
  everStored, \* history: the tokens the Store has held
  budget    \* what is left of the story's bounds

client == <<access, stale, refresh, unsaved, stored>>
server == <<granted, alive, gen, lapsed>>
history == <<lossy, reused, everStored>>
vars == <<client, mu, calls, login, server, history, budget>>

Idle == [at |-> "idle", tok |-> NoToken, got |-> NoToken, again |-> FALSE]
NoLogin == [at |-> "none", got |-> NoToken]

Init ==
  /\ access = NoToken /\ stale = FALSE /\ refresh = NoToken /\ unsaved = FALSE
  /\ mu = "free" /\ stored = NoToken
  /\ calls = [w \in Callers |-> Idle]
  /\ login = NoLogin
  /\ granted = {} /\ alive = {}
  /\ gen = [g \in Grants |-> 0] /\ lapsed = [g \in Grants |-> 0]
  /\ lossy = {} /\ reused = {} /\ everStored = {}
  /\ budget \in Budgets

Spend(what) == budget[what] > 0 /\ budget' = [budget EXCEPT ![what] = @ - 1]
Return(w) == calls' = [calls EXCEPT ![w] = Idle]

-----------------------------------------------------------------------------
(* The Store, the OS keychain: each operation may fail.                    *)

(* save: until it succeeds, the tokens in memory stay unused.              *)
Save(token) ==
  \/ stored' = token /\ everStored' = everStored \cup {token} /\ unsaved' = FALSE /\ UNCHANGED budget
  \/ unsaved' = TRUE /\ Spend("faults") /\ UNCHANGED <<stored, everStored>>

(* adopt: the tokens of an answer become the current ones.                 *)
Adopt(token) == access' = token /\ refresh' = token /\ stale' = FALSE /\ Save(token)

(* end: the login is over.                                                 *)
End ==
  /\ access' = NoToken /\ refresh' = NoToken /\ unsaved' = FALSE
  /\ \/ stored' = NoToken /\ UNCHANGED budget
     \/ Spend("faults") /\ UNCHANGED stored
  /\ UNCHANGED <<stale, everStored>>

-----------------------------------------------------------------------------
(* A call: Do or DoUpload, or AccessToken, which is their first step.      *)

Call(w) ==
  /\ calls[w].at = "idle"
  /\ calls' = [calls EXCEPT ![w] = [@ EXCEPT !.at = "token"]]
  /\ UNCHANGED <<client, mu, login, server, history, budget>>

Usable(refused) == access # NoToken /\ access # refused /\ ~stale

(* token, past the save: the access token, or a refresh, for which the     *)
(* caller keeps mu. The refresh token may have to come from the Store.     *)
Obtain(w) ==
  LET Use == calls' = [calls EXCEPT ![w] = [@ EXCEPT !.at = "send", !.tok = access]] /\ UNCHANGED mu
      Ask == calls' = [calls EXCEPT ![w] = [@ EXCEPT !.at = "refresh"]] /\ mu' = w
  IN \/ Usable(calls[w].tok) /\ Use /\ UNCHANGED <<refresh, budget>>
     \/ ~Usable(calls[w].tok) /\ refresh # NoToken /\ Ask /\ UNCHANGED <<refresh, budget>>
     \/ /\ ~Usable(calls[w].tok) /\ refresh = NoToken
        /\ \/ stored # NoToken /\ Ask /\ refresh' = stored /\ UNCHANGED budget
           \/ stored = NoToken /\ Return(w) /\ UNCHANGED <<refresh, mu, budget>>
           \/ Spend("faults") /\ Return(w) /\ UNCHANGED <<refresh, mu>>

(* A mutant of Lock: mu is not held through a refresh. *)
NoLock == TRUE

Lock == mu = "free"

(* A mutant of Token: an unsaved token is not saved by the next call. *)
TokenWithoutSave(w) ==
  /\ calls[w].at = "token" /\ Lock
  /\ \/ unsaved /\ Return(w) /\ UNCHANGED <<client, mu, everStored, budget>>
     \/ ~unsaved /\ Obtain(w) /\ UNCHANGED <<access, stale, unsaved, stored, everStored>>
  /\ UNCHANGED <<login, server, lossy, reused>>

(* token, under mu: what is not saved is saved first.                      *)
Token(w) ==
  /\ calls[w].at = "token" /\ Lock
  /\ \/ unsaved /\ Spend("faults") /\ Return(w) /\ UNCHANGED <<client, mu, everStored>>
     \/ /\ unsaved /\ Obtain(w)
        /\ unsaved' = FALSE /\ stored' = refresh /\ everStored' = everStored \cup {refresh}
        /\ UNCHANGED <<access, stale>>
     \/ ~unsaved /\ Obtain(w) /\ UNCHANGED <<access, stale, unsaved, stored, everStored>>
  /\ UNCHANGED <<login, server, lossy, reused>>

(* What the server makes of a refresh token: the next one, or a refusal;   *)
(* one that was replaced revokes its grant.                                *)
Rotates(token) == token.grant \in alive /\ token.gen = gen[token.grant]
Rotate(token) ==
  IF Rotates(token)
  THEN gen' = [gen EXCEPT ![token.grant] = @ + 1] /\ UNCHANGED <<alive, reused>>
  ELSE /\ alive' = alive \ {token.grant}
       /\ reused' = IF token.grant \in alive THEN reused \cup {token.grant} ELSE reused
       /\ UNCHANGED gen
Answered(token) ==
  IF Rotates(token) THEN [token EXCEPT !.gen = @ + 1] ELSE NoToken

Unanswered(w) == Spend("faults") /\ Return(w) /\ mu' = "free"

(* refreshWith: the request does not reach the server; or the server       *)
(* handles it, and answers or the answer is lost.                          *)
Refresh(w) ==
  /\ calls[w].at = "refresh"
  /\ \/ Unanswered(w) /\ UNCHANGED <<alive, gen, lossy, reused>>
     \/ /\ Rotate(refresh) /\ Unanswered(w)
        /\ lossy' = IF Rotates(refresh) THEN lossy \cup {refresh.grant} ELSE lossy
     \/ /\ Rotate(refresh)
        /\ calls' = [calls EXCEPT ![w] = [@ EXCEPT !.at = "answer", !.got = Answered(refresh)]]
        /\ UNCHANGED <<mu, lossy, budget>>
  /\ UNCHANGED <<client, login, granted, lapsed, everStored>>

AfterSave(w) ==
  calls' = [calls EXCEPT ![w] =
    IF unsaved' THEN Idle ELSE [@ EXCEPT !.at = "send", !.tok = calls[w].got, !.got = NoToken]]

(* The answer to a refresh: a refusal ends the login.                      *)
Answer(w) ==
  /\ calls[w].at = "answer"
  /\ \/ calls[w].got = NoToken /\ End /\ Return(w)
     \/ calls[w].got # NoToken /\ Adopt(calls[w].got) /\ AfterSave(w)
  /\ mu' = "free"
  /\ UNCHANGED <<login, server, lossy, reused>>

(* requireToken: the access token is for a live grant, and not expired.    *)
Accepted(token) == token.grant \in alive /\ token.gen > lapsed[token.grant]

(* The request itself. The first 401 goes for another token, the second to *)
(* the verdict. Any other answer, and no answer, ends the call, as does    *)
(* AccessToken, which sends nothing.                                       *)
Send(w) ==
  /\ calls[w].at = "send"
  /\ \/ Return(w)
     \/ /\ ~Accepted(calls[w].tok)
        /\ calls' = [calls EXCEPT ![w] =
             [@ EXCEPT !.at = IF calls[w].again THEN "verdict" ELSE "token", !.again = TRUE]]
  /\ UNCHANGED <<client, mu, login, server, history, budget>>

(* A mutant of Replaced: the verdict takes any refused token for its own. *)
NeverReplaced(token) == refresh = NoToken

Replaced(token) == refresh = NoToken \/ access # token

(* The second 401: it ends the login, unless its token was replaced.       *)
Verdict(w) ==
  /\ calls[w].at = "verdict" /\ Lock
  /\ \/ Replaced(calls[w].tok) /\ UNCHANGED <<client, everStored, budget>>
     \/ ~Replaced(calls[w].tok) /\ End
  /\ Return(w)
  /\ UNCHANGED <<mu, login, server, lossy, reused>>

-----------------------------------------------------------------------------
(* The device login. The controller runs one at a time.                    *)

StartLogin ==
  /\ login.at = "none" /\ granted # Grants
  /\ login' = [login EXCEPT !.at = "polling"]
  /\ UNCHANGED <<client, mu, calls, server, history, budget>>

(* The user approved, and a poll gets the tokens; or the answer is lost,   *)
(* and the next poll's code is spent; or the user denied, or was too late. *)
Poll ==
  /\ login.at = "polling"
  /\ \/ \E g \in Grants \ granted :
          /\ granted' = granted \cup {g} /\ alive' = alive \cup {g} /\ gen' = [gen EXCEPT ![g] = 1]
          /\ \/ login' = [at |-> "approved", got |-> [grant |-> g, gen |-> 1]] /\ UNCHANGED budget
             \/ login' = NoLogin /\ Spend("faults")
     \/ login' = NoLogin /\ UNCHANGED <<granted, alive, gen, budget>>
  /\ UNCHANGED <<client, mu, calls, lapsed, history>>

AdoptLogin ==
  /\ login.at = "approved" /\ Lock
  /\ Adopt(login.got)
  /\ login' = NoLogin
  /\ UNCHANGED <<mu, calls, server, lossy, reused>>

-----------------------------------------------------------------------------
(* Time, the user and the process.                                         *)

Expire ==
  /\ Spend("expiries") /\ access # NoToken /\ ~stale
  /\ stale' = TRUE
  /\ UNCHANGED <<access, refresh, unsaved, stored, mu, calls, login, server, history>>

(* The access tokens issued so far expire, by the server's clock. *)
Lapse(g) ==
  /\ Spend("lapses") /\ lapsed[g] < gen[g]
  /\ lapsed' = [lapsed EXCEPT ![g] = gen[g]]
  /\ UNCHANGED <<client, mu, calls, login, granted, alive, gen, history>>

(* The user revokes the device, or the grant expires. *)
Revoke(g) ==
  /\ Spend("revokes") /\ g \in alive
  /\ alive' = alive \ {g}
  /\ UNCHANGED <<client, mu, calls, login, granted, gen, lapsed, history>>

(* The tokens the Store does not have when the process ends, and the one   *)
(* it has in their place.                                                  *)
Unstored ==
  (IF unsaved THEN {refresh.grant, stored.grant} ELSE {})
    \cup {calls[w].got.grant : w \in {v \in Callers : calls[v].at = "answer"}}

(* The process ends, wherever its calls are, and is started again.         *)
Restart ==
  /\ Spend("restarts")
  /\ access' = NoToken /\ stale' = FALSE /\ refresh' = NoToken /\ unsaved' = FALSE
  /\ mu' = "free"
  /\ calls' = [w \in Callers |-> Idle]
  /\ login' = NoLogin
  /\ lossy' = lossy \cup (Unstored \cap Grants)
  /\ UNCHANGED <<stored, server, reused, everStored>>

-----------------------------------------------------------------------------
CallStep(w) == Token(w) \/ Refresh(w) \/ Answer(w) \/ Send(w) \/ Verdict(w)

Next ==
  \/ \E w \in Callers : Call(w) \/ CallStep(w)
  \/ StartLogin \/ Poll \/ AdoptLogin
  \/ Expire \/ Restart
  \/ \E g \in Grants : Lapse(g) \/ Revoke(g)

Spec == Init /\ [][Next]_vars

(* A Go mutex hands over to a waiter in the end; every request has a       *)
(* timeout; the poller calls again and again. Nobody has to log in.        *)
Fairness ==
  /\ \A w \in Callers : /\ SF_vars(Token(w)) /\ SF_vars(Verdict(w))
                        /\ WF_vars(Refresh(w)) /\ WF_vars(Answer(w)) /\ WF_vars(Send(w))
  /\ \A w \in Periodic : WF_vars(Call(w))

FairSpec == Spec /\ Fairness

-----------------------------------------------------------------------------
Tokens == [grant : Grants, gen : Nat] \cup {NoToken}
CallType ==
  [at : {"idle", "token", "refresh", "answer", "send", "verdict"}, tok : Tokens, got : Tokens, again : BOOLEAN]

ClientTypeOK ==
  /\ access \in Tokens /\ refresh \in Tokens /\ stored \in Tokens
  /\ stale \in BOOLEAN /\ unsaved \in BOOLEAN
  /\ calls \in [Callers -> CallType]
  /\ login \in [at : {"none", "polling", "approved"}, got : Tokens]
ServerTypeOK ==
  /\ granted \subseteq Grants /\ alive \subseteq granted
  /\ gen \in [Grants -> Nat] /\ lapsed \in [Grants -> Nat]
HistoryTypeOK == lossy \subseteq Grants /\ reused \subseteq Grants /\ everStored \subseteq Tokens
BudgetType == [expiries : Nat, lapses : Nat, faults : Nat, revokes : Nat, restarts : Nat]
(* mu is held by the one caller that is in a refresh.                      *)
MuTypeOK ==
  /\ mu \in Callers \cup {"free"}
  /\ \A w \in Callers : calls[w].at \in {"refresh", "answer"} <=> mu = w

TypeOK == ClientTypeOK /\ ServerTypeOK /\ HistoryTypeOK /\ MuTypeOK /\ budget \in BudgetType

(* "A new refresh token is saved to the Store before its access token is   *)
(* used": a crash while a request is out never leaves the Store with a     *)
(* token older than the request's.                                         *)
SavedBeforeUse ==
  \A w \in Callers : calls[w].at \in {"send", "verdict"} => calls[w].tok \in everStored

(* The bridge sends a replaced refresh token, which costs it the login,    *)
(* only when it never saved the newest: the answer with it was lost, or    *)
(* the process ended before the save. Concurrent calls, failed saves and   *)
(* new logins never do.                                                    *)
ReuseOnlyAfterLoss == reused \subseteq lossy

(* The login in the Store is deleted only when the server refuses it: a    *)
(* 401 or a refusal that an earlier login's tokens got does not end a      *)
(* newer login.                                                            *)
EndedByServer == [][stored # NoToken /\ stored' = NoToken => ~Accepted(stored)]_vars

(* A token is never used before it is saved, nor once it is replaced.      *)
TokensSafe == SavedBeforeUse /\ ReuseOnlyAfterLoss

(* Every call returns: no path leaves mu locked.                           *)
CallsReturn == \A w \in Callers : (calls[w].at # "idle") ~> (calls[w].at = "idle")

(* Once the keychain works again, the tokens in memory reach it, or a new  *)
(* login's do.                                                             *)
SavedInTheEnd == unsaved ~> ~unsaved

(* No call hangs, and no token stays only in memory.                       *)
CallsSettle == CallsReturn /\ SavedInTheEnd
=============================================================================
