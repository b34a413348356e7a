--------------------------------- MODULE SignIn ---------------------------------
(***************************************************************************)
(* Sign-in and the web sessions (platform/src/auth.ts, web-sessions.ts,    *)
(* identities.ts, sign-in-providers.ts), with the cleanup of expired web   *)
(* sessions (auth-cleanup.ts) and the delete of an account (account.ts).   *)
(*                                                                         *)
(* A browser has tabs, so the server handles several requests of it at     *)
(* once, and yields at each query and at the provider. A request carries   *)
(* the cookies its browser had when it was sent; its answer sets cookies,  *)
(* or is lost. Google and Discord answer whatever the flow allows.         *)
(***************************************************************************)
EXTENDS Integers, FiniteSets, Sequences

CONSTANTS
  Users,      \* users.id
  Browsers,
  Providers,  \* google, discord
  Accounts,   \* the accounts at the providers: [provider, id]
  Tokens,     \* the tokens of web sessions
  Requests,   \* the requests the server handles at once
  NoUser, NoToken,
  MaxSends, MaxFlows, MaxOthers \* bounds: the requests and the flows, and how often a session ages, a cookie goes or a request fails

Kinds == {"page", "begin", "link", "callback", "signout", "delete"}
Ages == {"fresh", "due", "expired"}
NoSession == [user |-> NoUser, by |-> NoUser, age |-> "expired"]
NoFlow == [n |-> 0, link |-> NoToken]
Untouched == [n |-> -1, link |-> NoToken] \* an answer that leaves the cookie alone

ASSUME SignInAssumption ==
  /\ NoUser \notin Users \cup Browsers /\ NoUser \notin Accounts /\ NoToken \notin Tokens
  /\ Providers # {} /\ \A a \in Accounts : a.provider \in Providers
  /\ MaxSends \in Nat /\ MaxFlows \in Nat /\ MaxOthers \in Nat

VARIABLES
  users,    \* the rows of users
  used,     \* the ids of users and tokens given so far
  owner,    \* oauth_identities: the user of each account
  sessions, \* web_sessions: by token
  jar,      \* each browser's session cookie
  flows,    \* each browser's sign-in cookie, by provider
  begun,    \* history: the browser, provider and linking user of each flow
  req,      \* the requests under way
  ended,    \* history: the tokens whose web session has ended
  sends, others \* counts, for the bounds

rows == <<users, used, owner, sessions, ended>>
cookies == <<jar, flows>>
vars == <<rows, cookies, begun, req, sends, others>>

(* cookie: whether the session of the request's cookie had ended when it was sent. *)
Idle == [at |-> "idle", kind |-> "page", browser |-> NoUser, token |-> NoToken, cookie |-> "live",
         provider |-> CHOOSE p \in Providers : TRUE, flow |-> NoFlow, n |-> 0, user |-> NoUser, account |-> NoUser,
         signer |-> NoUser, jar |-> "keep", flows |-> Untouched]

(* The next id, while there is one. *)
Fresh(ids, of) == IF ids \subseteq of THEN {} ELSE {CHOOSE id \in ids : id \notin of}

(* Nobody has signed in yet, or one browser has, with a web session of any age. *)
Init ==
  /\ \/ /\ users = {} /\ used = [users |-> {}, tokens |-> {}]
        /\ owner = [a \in Accounts |-> NoUser]
        /\ sessions = [t \in Tokens |-> NoSession]
        /\ jar = [b \in Browsers |-> NoToken]
     \/ \E u \in Fresh(Users, {}), account \in Accounts, token \in Fresh(Tokens, {}), browser \in Browsers, age \in Ages :
          /\ users = {u} /\ used = [users |-> {u}, tokens |-> {token}]
          /\ owner = [a \in Accounts |-> IF a = account THEN u ELSE NoUser]
          /\ sessions = [t \in Tokens |-> IF t = token THEN [user |-> u, by |-> account, age |-> age] ELSE NoSession]
          /\ jar = [b \in Browsers |-> IF b = browser THEN token ELSE NoToken]
  /\ flows = [b \in Browsers |-> [p \in Providers |-> NoFlow]]
  /\ begun = <<>> /\ ended = {}
  /\ req = [r \in Requests |-> Idle]
  /\ sends = 0 /\ others = 0

Is(r, at) == req[r].at = at
Goto(r, at) == req' = [req EXCEPT ![r].at = at]
End(t) == /\ sessions' = [sessions EXCEPT ![t] = NoSession]
          /\ ended' = IF sessions[t] = NoSession THEN ended ELSE ended \cup {t}

-----------------------------------------------------------------------------
(* The browser.                                                            *)

(* A request, with the cookies its browser has. *)
Sent(b, kind, p, n) ==
  [at |-> IF jar[b] = NoToken THEN "handle" ELSE "select", kind |-> kind, browser |-> b, token |-> jar[b],
   cookie |-> IF jar[b] \in ended THEN "ended" ELSE "live", provider |-> p, flow |-> flows[b][p], n |-> n,
   user |-> NoUser, account |-> NoUser, signer |-> NoUser, jar |-> "keep", flows |-> Untouched]

(* A request goes out with the cookies of its browser. The state of a      *)
(* callback is of any flow: the URL is what the browser was sent to.       *)
(* Without a session cookie the kinds that need a user change nothing.     *)
Send(r) ==
  /\ Is(r, "idle") /\ sends < MaxSends /\ sends' = sends + 1
  /\ \E b \in Browsers, kind \in Kinds, p \in Providers, n \in 0 .. Len(begun) :
       /\ (kind = "callback") <=> (n # 0)
       /\ n # 0 => begun[n].provider = p
       /\ kind \notin {"begin", "link", "callback"} => p = Idle.provider
       /\ kind \notin {"begin", "callback"} => jar[b] # NoToken
       /\ kind \in {"begin", "link"} => Len(begun) < MaxFlows
       /\ req' = [req EXCEPT ![r] = Sent(b, kind, p, n)]
  /\ UNCHANGED <<rows, cookies, begun, others>>

(* The answer arrives, and its cookies are kept; Fail stands for one that is lost. *)
Answer(r) ==
  /\ Is(r, "answer") /\ req' = [req EXCEPT ![r] = Idle]
  /\ LET q == req[r]
     IN /\ jar' = IF q.jar = "keep" THEN jar ELSE [jar EXCEPT ![q.browser] = q.jar]
        /\ flows' = IF q.flows = Untouched THEN flows ELSE [flows EXCEPT ![q.browser][q.provider] = q.flows]
  /\ UNCHANGED <<rows, begun, sends, others>>

(* A cookie expires, or its user clears it. *)
Forget(b) ==
  /\ others < MaxOthers /\ others' = others + 1
  /\ \/ jar[b] # NoToken /\ jar' = [jar EXCEPT ![b] = NoToken] /\ UNCHANGED flows
     \/ \E p \in Providers : flows[b][p] # NoFlow /\ flows' = [flows EXCEPT ![b][p] = NoFlow] /\ UNCHANGED jar
  /\ UNCHANGED <<rows, begun, req, sends>>

-----------------------------------------------------------------------------
(* The web session of a request, before its handler.                       *)

Select(r) ==
  /\ Is(r, "select")
  /\ LET row == sessions[req[r].token]
     IN \/ row = NoSession /\ req' = [req EXCEPT ![r].at = "handle", ![r].jar = NoToken]
        \/ row # NoSession /\ row.age = "expired" /\ Goto(r, "expire")
        \/ row.age = "due" /\ req' = [req EXCEPT ![r].at = "renew", ![r].user = row.user]
        \/ row.age = "fresh" /\ req' = [req EXCEPT ![r].at = "handle", ![r].user = row.user]
  /\ UNCHANGED <<rows, cookies, begun, sends, others>>

(* delete ... where id: whatever the row says by now. *)
Expire(r) ==
  /\ Is(r, "expire") /\ End(req[r].token)
  /\ req' = [req EXCEPT ![r].at = "handle", ![r].jar = NoToken]
  /\ UNCHANGED <<users, used, owner, cookies, begun, sends, others>>

(* A mutant of Renew: a row that is gone is stored again. *)
RenewOrStore(r) ==
  /\ Is(r, "renew") /\ req' = [req EXCEPT ![r].at = "handle", ![r].jar = req[r].token]
  /\ sessions' = [sessions EXCEPT ![req[r].token] =
                    [user |-> req[r].user, by |-> IF @ = NoSession THEN CHOOSE a \in Accounts : TRUE ELSE @.by, age |-> "fresh"]]
  /\ UNCHANGED <<users, used, owner, ended, cookies, begun, sends, others>>

(* update ... where id: nothing when the row is gone. The cookie is set again all the same. *)
Renew(r) ==
  /\ Is(r, "renew") /\ req' = [req EXCEPT ![r].at = "handle", ![r].jar = req[r].token]
  /\ sessions' = [sessions EXCEPT ![req[r].token].age = IF sessions[req[r].token] = NoSession THEN @ ELSE "fresh"]
  /\ UNCHANGED <<users, used, owner, ended, cookies, begun, sends, others>>

-----------------------------------------------------------------------------
(* The handlers.                                                           *)

(* A page, and any route that only reads the user. *)
Page(r) ==
  /\ Is(r, "handle") /\ req[r].kind = "page" /\ Goto(r, "answer")
  /\ UNCHANGED <<rows, cookies, begun, sends, others>>

(* GET /auth/<provider>: a link needs a user, and the cookie holds the web *)
(* session that asked for it. The provider may be off or out of reach.     *)
Begin(r) ==
  /\ Is(r, "handle") /\ req[r].kind \in {"begin", "link"}
  /\ \/ /\ req[r].kind = "begin" \/ req[r].user # NoUser
        /\ LET link == IF req[r].kind = "link" THEN req[r].token ELSE NoToken
           IN /\ begun' = Append(begun, [browser |-> req[r].browser, provider |-> req[r].provider,
                                         user |-> IF link = NoToken THEN NoUser ELSE req[r].user])
              /\ req' = [req EXCEPT ![r].at = "answer", ![r].flows = [n |-> Len(begun) + 1, link |-> link]]
     \/ Goto(r, "answer") /\ UNCHANGED begun
  /\ UNCHANGED <<rows, cookies, sends, others>>

(* The query's state is the sign-in cookie's, and a link is still of the   *)
(* web session that began it.                                              *)
Verified(q) == q.flow.n = q.n /\ (q.flow.link # NoToken => (q.user # NoUser /\ q.token = q.flow.link))

(* finish: the account the provider names, or NoUser when it refuses, an   *)
(* answer of it fails a check, or it is out of reach.                      *)
Redeem(p) == {a \in Accounts : a.provider = p} \cup {NoUser}

(* GET /auth/<provider>/callback clears the sign-in cookie, checks the     *)
(* state, and redeems the code at the provider.                            *)
Callback(r) ==
  /\ Is(r, "handle") /\ req[r].kind = "callback"
  /\ \/ /\ Verified(req[r])
        /\ \E a \in Redeem(req[r].provider) \ {NoUser} :
             req' = [req EXCEPT ![r].at = IF req[r].flow.link = NoToken THEN "find" ELSE "link", ![r].account = a, ![r].flows = NoFlow]
     \/ req' = [req EXCEPT ![r].at = "answer", ![r].flows = NoFlow]
  /\ UNCHANGED <<rows, cookies, begun, sends, others>>

(* A mutant of Link: the account is taken over from its owner. *)
LinkOver(r) ==
  /\ Is(r, "link") /\ Goto(r, "answer")
  /\ owner' = IF req[r].user \in users THEN [owner EXCEPT ![req[r].account] = req[r].user] ELSE owner
  /\ UNCHANGED <<users, used, sessions, ended, cookies, begun, sends, others>>

(* linkIdentity: the insert does nothing for an account that has an owner, *)
(* and fails for a user who is gone. The read of the owner only words the  *)
(* answer.                                                                 *)
Link(r) ==
  /\ Is(r, "link") /\ Goto(r, "answer")
  /\ owner' = IF owner[req[r].account] = NoUser /\ req[r].user \in users
              THEN [owner EXCEPT ![req[r].account] = req[r].user] ELSE owner
  /\ UNCHANGED <<users, used, sessions, ended, cookies, begun, sends, others>>

(* identityOwner, before and after the insert. *)
FindOwner(r) ==
  /\ Is(r, "find") \/ Is(r, "reread")
  /\ LET u == owner[req[r].account]
     IN \/ u # NoUser /\ req' = [req EXCEPT ![r].at = "replace", ![r].signer = u]
        \/ u = NoUser /\ Goto(r, IF Is(r, "find") THEN "create" ELSE "answer")
  /\ UNCHANGED <<rows, cookies, begun, sends, others>>

(* A mutant of CreateUser: the loser's user is committed. *)
CreateUserAnyway(r) ==
  /\ Is(r, "create")
  /\ \E u \in Fresh(Users, used.users) :
       /\ used' = [used EXCEPT !.users = @ \cup {u}] /\ users' = users \cup {u}
       /\ \/ owner[req[r].account] = NoUser /\ owner' = [owner EXCEPT ![req[r].account] = u] /\ req' = [req EXCEPT ![r].at = "replace", ![r].signer = u]
          \/ owner[req[r].account] # NoUser /\ UNCHANGED owner /\ Goto(r, "reread")
  /\ UNCHANGED <<sessions, ended, cookies, begun, sends, others>>

(* The transaction of a first sign-in: the user and the account, or, when  *)
(* another sign-in of the account came first, neither.                     *)
CreateUser(r) ==
  /\ Is(r, "create")
  /\ \/ \E u \in Fresh(Users, used.users) :
          /\ owner[req[r].account] = NoUser
          /\ owner' = [owner EXCEPT ![req[r].account] = u]
          /\ used' = [used EXCEPT !.users = @ \cup {u}] /\ users' = users \cup {u}
          /\ req' = [req EXCEPT ![r].at = "replace", ![r].signer = u]
     \/ owner[req[r].account] # NoUser /\ Goto(r, "reread") /\ UNCHANGED <<users, used, owner>>
  /\ UNCHANGED <<sessions, ended, cookies, begun, sends, others>>

(* The web session the browser had ends. *)
Replace(r) ==
  /\ Is(r, "replace") /\ Goto(r, "start")
  /\ IF req[r].user = NoUser THEN UNCHANGED <<sessions, ended>> ELSE End(req[r].token)
  /\ UNCHANGED <<users, used, owner, cookies, begun, sends, others>>

(* WebSessions.create: its foreign key fails for a user who is gone. *)
Start(r) ==
  /\ Is(r, "start")
  /\ \/ /\ req[r].signer \in users
        /\ \E t \in Fresh(Tokens, used.tokens) :
             /\ used' = [used EXCEPT !.tokens = @ \cup {t}]
             /\ sessions' = [sessions EXCEPT ![t] = [user |-> req[r].signer, by |-> req[r].account, age |-> "fresh"]]
             /\ req' = [req EXCEPT ![r].at = "answer", ![r].jar = t]
     \/ req[r].signer \notin users /\ Goto(r, "answer") /\ UNCHANGED <<used, sessions>>
  /\ UNCHANGED <<users, owner, ended, cookies, begun, sends, others>>

(* POST /auth/signout: the cookie is cleared with or without a user. *)
SignOut(r) ==
  /\ Is(r, "handle") /\ req[r].kind = "signout"
  /\ IF req[r].user = NoUser THEN UNCHANGED <<sessions, ended>> ELSE End(req[r].token)
  /\ req' = [req EXCEPT ![r].at = "answer", ![r].jar = NoToken]
  /\ UNCHANGED <<users, used, owner, cookies, begun, sends, others>>

(* DELETE /api/v1/account, one transaction, for a signed-in user. *)
DeleteAccount(r) ==
  /\ Is(r, "handle") /\ req[r].kind = "delete"
  /\ LET u == req[r].user
         theirs == {t \in Tokens : sessions[t] # NoSession /\ sessions[t].user = u}
     IN /\ users' = users \ {u}
        /\ owner' = [a \in Accounts |-> IF owner[a] = u THEN NoUser ELSE owner[a]]
        /\ sessions' = [t \in Tokens |-> IF t \in theirs THEN NoSession ELSE sessions[t]]
        /\ ended' = ended \cup theirs
  /\ req' = [req EXCEPT ![r].at = "answer", ![r].jar = IF req[r].user = NoUser THEN req[r].jar ELSE NoToken]
  /\ UNCHANGED <<used, cookies, begun, sends, others>>

-----------------------------------------------------------------------------
(* A query fails or the process ends: the request has no answer. *)
Fail(r) ==
  /\ others < MaxOthers /\ others' = others + 1
  /\ req[r].at # "idle" /\ req' = [req EXCEPT ![r] = Idle]
  /\ UNCHANGED <<rows, cookies, begun, sends>>

(* Time passes for a web session. *)
Age(t) ==
  /\ others < MaxOthers /\ others' = others + 1
  /\ sessions[t] # NoSession /\ sessions[t].age # "expired"
  /\ sessions' = [sessions EXCEPT ![t].age = IF @ = "fresh" THEN "due" ELSE "expired"]
  /\ UNCHANGED <<users, used, owner, ended, cookies, begun, req, sends>>

(* startAuthCleanup: the expired rows, in batches that skip locked ones. *)
Cleanup ==
  /\ \E T \in SUBSET {t \in Tokens : sessions[t] # NoSession /\ sessions[t].age = "expired"} :
       /\ T # {} /\ ended' = ended \cup T
       /\ sessions' = [t \in Tokens |-> IF t \in T THEN NoSession ELSE sessions[t]]
  /\ UNCHANGED <<users, used, owner, cookies, begun, req, sends, others>>

Handle(r) == Page(r) \/ Begin(r) \/ Callback(r) \/ SignOut(r) \/ DeleteAccount(r)
SignInSteps(r) == Link(r) \/ FindOwner(r) \/ CreateUser(r) \/ Replace(r) \/ Start(r)

Next ==
  \/ \E r \in Requests : Send(r) \/ Select(r) \/ Expire(r) \/ Renew(r) \/ Handle(r) \/ SignInSteps(r) \/ Answer(r) \/ Fail(r)
  \/ \E b \in Browsers : Forget(b)
  \/ \E t \in Tokens : Age(t)
  \/ Cleanup

Spec == Init /\ [][Next]_vars

-----------------------------------------------------------------------------
Flow == [n : Nat \cup {-1}, link : Tokens \cup {NoToken}]
Request ==
  [at : {"idle", "select", "expire", "renew", "handle", "find", "create", "reread", "replace", "start", "link", "answer"},
   kind : Kinds, browser : Browsers \cup {NoUser}, token : Tokens \cup {NoToken}, cookie : {"live", "ended"}, provider : Providers, flow : Flow, n : Nat,
   user : Users \cup {NoUser}, account : Accounts \cup {NoUser}, signer : Users \cup {NoUser},
   jar : Tokens \cup {NoToken, "keep"}, flows : Flow]

TypeOK ==
  /\ users \subseteq Users /\ used \in [users : SUBSET Users, tokens : SUBSET Tokens] /\ ended \subseteq Tokens
  /\ owner \in [Accounts -> Users \cup {NoUser}]
  /\ sessions \in [Tokens -> [user : Users, by : Accounts, age : Ages] \cup {NoSession}]
  /\ jar \in [Browsers -> Tokens \cup {NoToken}] /\ flows \in [Browsers -> [Providers -> Flow]]
  /\ begun \in Seq([browser : Browsers, provider : Providers, user : Users \cup {NoUser}])
  /\ req \in [Requests -> Request] /\ sends \in Nat /\ others \in Nat

(* Each web session is opened once and, once closed, stays so: the rows    *)
(* implement Lifecycle.                                                    *)
Open == {t \in Tokens : sessions[t] # NoSession}
Life == INSTANCE Lifecycle WITH Things <- Tokens, open <- Open, closed <- ended
LifeSpec == Life!Spec

(* A web session that ended, by a sign-out, a new sign-in, its expiry or   *)
(* the delete of its user, never opens again, and no request sent after    *)
(* that is served as its user: not even when a request that read the row   *)
(* before renews it after (web-sessions.ts:100-130).                       *)
EndedForGood ==
  /\ \A t \in ended : t \notin Open
  /\ \A r \in Requests : req[r].cookie = "ended" => req[r].user = NoUser

(* Every user has an account that signs in to it, and every web session is *)
(* of the user who owns the account it was signed in with: two first       *)
(* sign-ins of one account at once make one user, and neither a link nor a *)
(* delete between the steps of a sign-in leaves a session of someone else  *)
(* or a user nobody can sign in as (identities.ts:18-74, account.ts:134).  *)
OneUserPerAccount ==
  /\ \A u \in users : \E a \in Accounts : owner[a] = u
  /\ \A a \in Accounts : owner[a] \in users \cup {NoUser}
  /\ \A t \in Tokens : sessions[t] # NoSession => owner[sessions[t].by] = sessions[t].user

(* Accounts are never merged: an account changes hands only when its user  *)
(* is deleted, and is then nobody's (identities.ts:50-74).                 *)
NeverMerged ==
  [][\A a \in Accounts : owner[a] # NoUser =>
        owner'[a] = owner[a] \/ (owner'[a] = NoUser /\ owner[a] \notin users')]_vars

(* A callback is finished only in the browser that began its flow, and     *)
(* connects an account only to the user who asked for that, whatever tabs, *)
(* sign-outs and other sign-ins came between (auth.ts:116-160).            *)
OwnFlow ==
  \A r \in Requests :
    req[r].at \in {"find", "create", "reread", "replace", "start", "link"} =>
      /\ begun[req[r].n].browser = req[r].browser
      /\ Is(r, "link") => begun[req[r].n].user = req[r].user

(* A request acts only for whom it may: the user its web session still is, *)
(* the user and browser its flow was begun for, the one user of the        *)
(* account it signed in with.                                              *)
OwnUser == EndedForGood /\ OwnFlow /\ OneUserPerAccount
=============================================================================
