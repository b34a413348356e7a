--------------------------------- MODULE Grants ---------------------------------
(***************************************************************************)
(* The grants of bridges and agents, from the approval in the browser to   *)
(* the call with an access token: the interactions (platform/src/oidc.ts), *)
(* the rows of oidc-provider (oidc-adapter.ts), the devices (devices.ts),  *)
(* the connected agents (agents.ts), requireToken and the resources        *)
(* (oidc-tokens.ts), the delete of an account (account.ts) and the cleanup *)
(* of expired rows (auth-cleanup.ts).                                      *)
(*                                                                         *)
(* The server handles requests at once and yields at each query: a user    *)
(* revokes, signs in as someone else or deletes the account between any    *)
(* two of them. oidc-provider's own routes, which are not in this          *)
(* repository, are modelled from how it calls the adapter and the hooks.   *)
(***************************************************************************)
EXTENDS Integers, FiniteSets

CONSTANTS
  Users,        \* users.uuid
  GrantIds, Devices, Tokens, \* the ids of rows to come
  Interactions, \* interactions, and the code that each ends in
  Requests,     \* the requests the server handles at once
  NoUser, NoId,
  MaxSends, MaxOthers \* bounds: requests, and everything that comes between their steps

Clients == {"bridge", "agent"}
Resources == {"mcp", "bridge"}
Models == {"AccessToken", "RefreshToken", "Code", "Grant"}

ASSUME GrantsAssumption ==
  /\ NoUser \notin Users /\ NoId \notin GrantIds \cup Devices \cup Tokens \cup Interactions
  /\ MaxSends \in Nat /\ MaxOthers \in Nat

NoGrant == [account |-> NoUser, client |-> "agent", resource |-> "mcp", live |-> FALSE]
NoDevice == [user |-> NoUser, grant |-> NoId, revoked |-> FALSE]
NoToken == [kind |-> "AccessToken", grant |-> NoId, account |-> NoUser, client |-> "agent", resource |-> "mcp",
            used |-> FALSE, live |-> FALSE]
NoInteraction == [prompt |-> "none", client |-> "agent", resource |-> "mcp", account |-> NoUser, grant |-> NoId,
                  result |-> "none", given |-> NoId]
Idle == [at |-> "idle", kind |-> "visit", user |-> NoUser, of |-> NoId, seen |-> NoInteraction, grant |-> NoId,
         token |-> NoToken, resource |-> "mcp", left |-> {}]

VARIABLES
  users,   \* the rows of users
  web,     \* the user of the browser's web session
  held,    \* the grants oidc-provider's session in the browser holds, by client
  inter,   \* Interaction rows
  grants,  \* Grant rows
  codes,   \* DeviceCode and AuthorizationCode rows, once they have a grant
  tokens,  \* AccessToken and RefreshToken rows
  devices, \* the rows of devices
  req,     \* the requests under way
  closed,  \* history: the grants whose row was deleted, and that no approval saved since
  taken,   \* the ids of rows given so far
  sends, others \* counts, for the bounds

models == <<inter, grants, codes, tokens>>
vars == <<users, web, held, models, devices, req, closed, taken, sends, others>>

Init ==
  /\ users = Users /\ web \in Users /\ held = [c \in Clients |-> NoId]
  /\ inter = [i \in Interactions |-> NoInteraction]
  /\ grants = [g \in GrantIds |-> NoGrant]
  /\ codes = [i \in Interactions |-> NoToken]
  /\ tokens = [t \in Tokens |-> NoToken]
  /\ devices = [d \in Devices |-> NoDevice]
  /\ req = [r \in Requests |-> Idle]
  /\ closed = {} /\ taken = {}
  /\ sends = 0 /\ others = 0

Is(r, at) == req[r].at = at
Done(r) == req' = [req EXCEPT ![r] = Idle]
Goto(r, at) == req' = [req EXCEPT ![r].at = at]
Fresh(ids) == IF ids \subseteq taken THEN {} ELSE {CHOOSE id \in ids : id \notin taken} \* the next id, while there is one
Other == others < MaxOthers /\ others' = others + 1
LiveGrant(g) == g # NoId /\ grants[g].live

-----------------------------------------------------------------------------
(* What a flow may ask for.                                                *)

FlowOf(client) == IF client = "bridge" THEN "device" ELSE "code"
ScopeOf(resource) == IF resource = "mcp" THEN "read" ELSE "ingest"

(* The one resource of a flow; at the token endpoint the grant bounds it. *)
FlowResource(flow) == IF flow = "device" THEN "bridge" ELSE "mcp"

(* getResourceServerInfo, at the start of a flow. *)
MayAsk(client, resource, scopes) ==
  /\ (resource = "bridge") <=> (client = "bridge")
  /\ resource = FlowResource(FlowOf(client))
  /\ scopes \cap {"read", "ingest"} \subseteq {ScopeOf(resource)}

-----------------------------------------------------------------------------
(* oidc-provider's browser routes.                                         *)

(* A mutant of ExistingGrant: oidc-provider's default. *)
SessionGrant(client) == held[client]

(* loadExistingGrant: on the device page's routes only the grant the       *)
(* consent prompt saved counts, so a bridge never reuses the session's.    *)
ExistingGrant(client) == IF client = "agent" THEN held[client] ELSE NoId

(* An authorization request, or a user code confirmed on /device. The      *)
(* login prompt comes unless the web session is the account signed in.     *)
Start(i) ==
  /\ inter[i] = NoInteraction
  /\ \E client \in Clients, resource \in Resources, scopes \in SUBSET {"read", "ingest"} :
       /\ MayAsk(client, resource, scopes)
       /\ client = "bridge" => web # NoUser
       /\ inter' = [inter EXCEPT ![i] = [NoInteraction EXCEPT !.prompt = "login", !.client = client, !.resource = resource,
                                                             !.grant = ExistingGrant(client)]]
  /\ UNCHANGED <<users, web, held, grants, codes, tokens, devices, req, closed, taken, sends, others>>

(* The browser comes back with the result of a prompt. After the login the *)
(* consent prompt comes, or none when the account's grant covers the       *)
(* request; after the consent, the code, of a grant that is still there.   *)
Resume(i) ==
  /\ inter[i].prompt \in {"login", "consent"} /\ inter[i].result # "none"
  /\ LET it == inter[i]
         grant == IF it.result = "consent" THEN it.given ELSE it.grant
         covers == LiveGrant(grant) /\ grants[grant].account = it.account
         row == [kind |-> "Code", grant |-> grant, account |-> it.account, client |-> it.client, resource |-> it.resource,
                 used |-> FALSE, live |-> TRUE]
     IN \/ /\ it.result = "login"
           /\ inter' = [inter EXCEPT ![i].prompt = "consent", ![i].result = "none", ![i].grant = IF covers THEN @ ELSE NoId]
           /\ UNCHANGED <<codes, held>>
        \/ /\ covers /\ it.result \in {"login", "consent"}
           /\ inter' = [inter EXCEPT ![i].prompt = "done"]
           /\ codes' = [codes EXCEPT ![i] = row]
           /\ held' = [held EXCEPT ![it.client] = grant]
        \/ /\ it.result = "denied" \/ (it.result = "consent" /\ ~covers)
           /\ inter' = [inter EXCEPT ![i].prompt = "done"] /\ UNCHANGED <<codes, held>>
  /\ UNCHANGED <<users, web, grants, tokens, devices, req, closed, taken, sends, others>>

-----------------------------------------------------------------------------
(* The interaction routes.                                                 *)

(* A request under /interaction/:uid, with the web session's user. *)
Ask(r) ==
  /\ Is(r, "idle") /\ sends < MaxSends /\ sends' = sends + 1
  /\ \E i \in Interactions, kind \in {"visit", "approve", "deny"} :
       /\ inter[i].prompt \in {"login", "consent"}
       /\ req' = [req EXCEPT ![r] = [Idle EXCEPT !.at = "ask", !.kind = kind, !.user = web, !.of = i]]
  /\ UNCHANGED <<users, web, held, models, devices, closed, taken, others>>

(* needsFreshSignIn: the sign-in of the web session may be older than the  *)
(* request allows; the browser then signs in again first.                  *)
FreshEnough == BOOLEAN

(* Where a request goes on, by the interaction as it read it. A redirect   *)
(* and a refusal end it.                                                   *)
NextStep(kind, user, it) ==
  CASE it.prompt \notin {"login", "consent"} \/ user = NoUser -> {"idle"}
    [] kind = "visit" /\ (it.prompt = "login" \/ it.account # user) -> {IF fresh THEN "login" ELSE "idle" : fresh \in FreshEnough}
    [] kind = "visit" /\ it.client = "bridge" -> {IF it.result = "consent" THEN "idle" ELSE "new"}
    [] kind = "visit" -> {"idle"}
    [] it.client = "bridge" \/ it.account # user \/ it.prompt # "consent" -> {"idle"}
    [] OTHER -> {IF kind = "approve" THEN "find" ELSE "deny"}

FindInteraction(r) ==
  /\ Is(r, "ask")
  /\ LET it == inter[req[r].of]
     IN \E at \in NextStep(req[r].kind, req[r].user, it) :
          req' = [req EXCEPT ![r] = IF at = "idle" THEN Idle ELSE [@ EXCEPT !.at = at, !.seen = it]]
  /\ UNCHANGED <<users, web, held, models, devices, closed, taken, sends, others>>

(* consentGrant of an agent: the interaction's grant, if it is live. *)
FindGrant(r) ==
  /\ Is(r, "find")
  /\ LET g == req[r].seen.grant
     IN req' = [req EXCEPT ![r].at = IF LiveGrant(g) THEN "save" ELSE "new", ![r].grant = IF LiveGrant(g) THEN g ELSE NoId]
  /\ UNCHANGED <<users, web, held, models, devices, closed, taken, sends, others>>

(* grant.save(): the upsert of the Grant row. It stores the row again when *)
(* it was deleted after it was read.                                       *)
SaveGrant(r) ==
  /\ Is(r, "new") \/ Is(r, "save")
  /\ LET it == req[r].seen
     IN \E g \in IF Is(r, "save") THEN {req[r].grant} ELSE Fresh(GrantIds) :
          /\ grants' = [grants EXCEPT ![g] = [account |-> req[r].user, client |-> it.client, resource |-> it.resource, live |-> TRUE]]
          /\ closed' = closed \ {g} /\ taken' = taken \cup {g}
          /\ req' = [req EXCEPT ![r].at = IF it.client = "bridge" THEN "device" ELSE "consent", ![r].grant = g]
  /\ UNCHANGED <<users, web, held, inter, codes, tokens, devices, sends, others>>

(* createDevice: the foreign key fails for a user who is gone. *)
CreateDevice(r) ==
  /\ Is(r, "device")
  /\ \/ /\ req[r].user \in users
        /\ \E d \in Fresh(Devices) :
             /\ devices' = [devices EXCEPT ![d] = [user |-> req[r].user, grant |-> req[r].grant, revoked |-> FALSE]]
             /\ taken' = taken \cup {d}
        /\ Goto(r, "consent") /\ UNCHANGED others
     \/ /\ IF req[r].user \in users THEN Other ELSE UNCHANGED others
        /\ Goto(r, "undo") /\ UNCHANGED <<devices, taken>>
  /\ UNCHANGED <<users, web, held, models, closed, sends>>

Drop(gs) == /\ grants' = [g \in GrantIds |-> IF g \in gs THEN NoGrant ELSE grants[g]]
            /\ closed' = closed \cup {g \in gs : grants[g] # NoGrant}
DropCodes(gs) == codes' = [i \in Interactions |-> IF codes[i].grant \in gs THEN NoToken ELSE codes[i]]
DropTokens(gs, kinds) ==
  tokens' = [t \in Tokens |-> IF tokens[t].grant \in gs /\ tokens[t].kind \in kinds THEN NoToken ELSE tokens[t]]

(* grant.destroy(), and the request fails. *)
Undo(r) == Is(r, "undo") /\ Drop({req[r].grant}) /\ Done(r)
           /\ UNCHANGED <<users, web, held, inter, codes, tokens, devices, taken, sends, others>>

(* interactionResult: the result is stored with the interaction. *)
Result(r) ==
  /\ req[r].at \in {"login", "consent", "deny"} /\ Done(r)
  /\ LET i == req[r].of
     IN inter' = IF inter[i].prompt \notin {"login", "consent"} THEN inter
                 ELSE CASE Is(r, "login") -> [inter EXCEPT ![i].result = "login", ![i].account = req[r].user]
                        [] Is(r, "consent") -> [inter EXCEPT ![i].result = "consent", ![i].given = req[r].grant]
                        [] OTHER -> [inter EXCEPT ![i].result = "denied"]
  /\ UNCHANGED <<users, web, held, grants, codes, tokens, devices, closed, taken, sends, others>>

-----------------------------------------------------------------------------
(* oidc-provider's token and revocation endpoints.                         *)

(* A code or a refresh token is presented. One that was used before        *)
(* revokes its grant; another is redeemed while its grant and user exist.  *)
Redeem(r) ==
  /\ Is(r, "idle") /\ sends < MaxSends /\ sends' = sends + 1
  /\ \E row \in {codes[i] : i \in Interactions} \cup {tokens[t] : t \in {x \in Tokens : tokens[x].kind = "RefreshToken"}} :
       /\ row.live /\ LiveGrant(row.grant) /\ row.account \in users
       /\ req' = [req EXCEPT ![r] = IF row.used THEN [Idle EXCEPT !.at = "revoke", !.grant = row.grant, !.left = Models]
                                    ELSE [Idle EXCEPT !.at = "consume", !.token = row]]
  /\ UNCHANGED <<users, web, held, models, devices, closed, taken, others>>

(* consume: an update, so nothing when the row is gone. *)
Consume(r) ==
  /\ Is(r, "consume") /\ Goto(r, "AccessToken")
  /\ codes' = [i \in Interactions |-> IF codes[i] = req[r].token THEN [codes[i] EXCEPT !.used = TRUE] ELSE codes[i]]
  /\ tokens' = [t \in Tokens |-> IF tokens[t] = req[r].token THEN [tokens[t] EXCEPT !.used = TRUE] ELSE tokens[t]]
  /\ UNCHANGED <<users, web, held, inter, grants, devices, closed, taken, sends, others>>

(* The access token is stored, then the refresh token, whatever became of  *)
(* the grant since it was read.                                            *)
Issue(r) ==
  /\ req[r].at \in {"AccessToken", "RefreshToken"}
  /\ \E t \in Fresh(Tokens) :
       /\ tokens' = [tokens EXCEPT ![t] = [req[r].token EXCEPT !.kind = req[r].at]]
       /\ taken' = taken \cup {t}
  /\ IF Is(r, "AccessToken") THEN Goto(r, "RefreshToken") ELSE Done(r)
  /\ UNCHANGED <<users, web, held, inter, grants, codes, devices, closed, sends, others>>

(* /oauth/revoke of a refresh token. *)
AskRevoke(r) ==
  /\ Is(r, "idle") /\ sends < MaxSends /\ sends' = sends + 1
  /\ \E t \in Tokens : /\ tokens[t].kind = "RefreshToken" /\ tokens[t].live
                       /\ req' = [req EXCEPT ![r] = [Idle EXCEPT !.at = "revoke", !.grant = tokens[t].grant, !.left = Models]]
  /\ UNCHANGED <<users, web, held, models, devices, closed, taken, others>>

(* revokeByGrantId on each model in turn, and the Grant row: one statement each. *)
Revoke(r) ==
  /\ Is(r, "revoke")
  /\ \E m \in req[r].left :
       /\ IF req[r].left = {m} THEN Done(r) ELSE req' = [req EXCEPT ![r].left = @ \ {m}]
       /\ IF m = "Grant" THEN Drop({req[r].grant}) ELSE UNCHANGED <<grants, closed>>
       /\ IF m = "Code" THEN DropCodes({req[r].grant}) ELSE UNCHANGED codes
       /\ DropTokens({req[r].grant}, {m})
  /\ UNCHANGED <<users, web, held, inter, devices, taken, sends, others>>

-----------------------------------------------------------------------------
(* A call with an access token.                                            *)

Call(r) ==
  /\ Is(r, "idle") /\ sends < MaxSends /\ sends' = sends + 1
  /\ \E t \in Tokens, resource \in Resources :
       /\ tokens[t] # NoToken /\ tokens[t].kind = "AccessToken"
       /\ req' = [req EXCEPT ![r] = [Idle EXCEPT !.at = "call", !.of = t, !.resource = resource]]
  /\ UNCHANGED <<users, web, held, models, devices, closed, taken, others>>

(* A mutant of TokenFits: the audience is not compared. *)
AnyAudience(token, resource) == token.live

TokenFits(token, resource) == token.live /\ token.resource = resource

FindToken(r) ==
  /\ Is(r, "call")
  /\ LET token == tokens[req[r].of]
     IN req' = [req EXCEPT ![r] = IF TokenFits(token, req[r].resource) THEN [@ EXCEPT !.at = "grant", !.token = token] ELSE Idle]
  /\ UNCHANGED <<users, web, held, models, devices, closed, taken, sends, others>>

(* A mutant of GrantFits: the token's row is enough. *)
NoGrantLookup(token) == TRUE

GrantFits(token) ==
  /\ LiveGrant(token.grant) /\ grants[token.grant].client = token.client /\ grants[token.grant].account = token.account

(* requireToken lets the call through, or refuses it. *)
Accept(r) ==
  /\ Is(r, "grant") /\ Goto(r, IF GrantFits(req[r].token) THEN "accepted" ELSE "refused")
  /\ UNCHANGED <<users, web, held, models, devices, closed, taken, sends, others>>

Finish(r) == req[r].at \in {"accepted", "refused"} /\ Done(r)
             /\ UNCHANGED <<users, web, held, models, devices, closed, taken, sends, others>>

-----------------------------------------------------------------------------
(* The signed-in user.                                                     *)

(* Signs out, or in as someone. *)
SwitchUser == /\ Other /\ web' \in (users \cup {NoUser}) \ {web}
              /\ UNCHANGED <<users, held, models, devices, req, closed, taken, sends>>

(* One transaction: revoked_at, the grant's row and the rows of the grant. *)
RevokeDevice(d) ==
  /\ Other /\ web # NoUser /\ devices[d].user = web /\ ~devices[d].revoked
  /\ devices' = [devices EXCEPT ![d].revoked = TRUE]
  /\ Drop({devices[d].grant}) /\ DropCodes({devices[d].grant}) /\ DropTokens({devices[d].grant}, Models)
  /\ UNCHANGED <<users, web, held, inter, req, taken, sends>>

(* One statement, for a live grant of any client but the bridge. *)
RevokeAgentGrant(g) ==
  /\ Other /\ web # NoUser /\ grants[g].account = web /\ grants[g].client # "bridge"
  /\ Drop({g}) /\ DropCodes({g}) /\ DropTokens({g}, Models)
  /\ UNCHANGED <<users, web, held, inter, devices, req, taken, sends>>

(* One transaction: every row of oidc-provider that names the user or is   *)
(* of a grant of the user, the devices and the user.                       *)
DeleteAccount ==
  /\ Other /\ web # NoUser /\ web' = NoUser /\ users' = users \ {web}
  /\ LET gs == {g \in GrantIds : grants[g].account = web}
         theirs(row) == row.account = web \/ row.grant \in gs
     IN /\ Drop(gs)
        /\ codes' = [i \in Interactions |-> IF theirs(codes[i]) THEN NoToken ELSE codes[i]]
        /\ tokens' = [t \in Tokens |-> IF theirs(tokens[t]) THEN NoToken ELSE tokens[t]]
        /\ inter' = [i \in Interactions |-> IF inter[i].account = web THEN [inter[i] EXCEPT !.prompt = "done"] ELSE inter[i]]
        /\ devices' = [d \in Devices |-> IF devices[d].user = web THEN NoDevice ELSE devices[d]]
  /\ UNCHANGED <<held, req, taken, sends>>

(* A grant or a token expires: no lookup returns its row, and the cleanup  *)
(* deletes it at some later time.                                          *)
Expire ==
  /\ Other
  /\ \/ \E g \in GrantIds : LiveGrant(g) /\ grants' = [grants EXCEPT ![g].live = FALSE] /\ UNCHANGED tokens
     \/ \E t \in Tokens : tokens[t].live /\ tokens' = [tokens EXCEPT ![t].live = FALSE] /\ UNCHANGED grants
  /\ UNCHANGED <<users, web, held, inter, codes, devices, req, closed, taken, sends>>

DeleteExpired ==
  /\ \/ \E g \in GrantIds : grants[g] # NoGrant /\ ~grants[g].live /\ Drop({g}) /\ UNCHANGED tokens
     \/ \E t \in Tokens : tokens[t] # NoToken /\ ~tokens[t].live /\ tokens' = [tokens EXCEPT ![t] = NoToken] /\ UNCHANGED <<grants, closed>>
  /\ UNCHANGED <<users, web, held, inter, codes, devices, req, taken, sends, others>>

(* A query fails or the process ends: the request has no answer. *)
Fail(r) == Other /\ ~Is(r, "idle") /\ Done(r)
           /\ UNCHANGED <<users, web, held, models, devices, closed, taken, sends>>

Interact(r) == Ask(r) \/ FindInteraction(r) \/ FindGrant(r) \/ SaveGrant(r) \/ CreateDevice(r) \/ Undo(r) \/ Result(r)
TokenEndpoint(r) == Redeem(r) \/ Consume(r) \/ Issue(r) \/ AskRevoke(r) \/ Revoke(r)
RequireToken(r) == Call(r) \/ FindToken(r) \/ Accept(r) \/ Finish(r)

Next ==
  \/ \E i \in Interactions : Start(i) \/ Resume(i)
  \/ \E r \in Requests : Interact(r) \/ TokenEndpoint(r) \/ RequireToken(r) \/ Fail(r)
  \/ SwitchUser \/ DeleteAccount \/ Expire \/ DeleteExpired
  \/ \E d \in Devices : RevokeDevice(d)
  \/ \E g \in GrantIds : RevokeAgentGrant(g)

Spec == Init /\ [][Next]_vars

-----------------------------------------------------------------------------
Ids(S) == S \cup {NoId}
Accounts == Users \cup {NoUser}
Grant == [account : Accounts, client : Clients, resource : Resources, live : BOOLEAN]
Token == [kind : Models, grant : Ids(GrantIds), account : Accounts, client : Clients, resource : Resources,
          used : BOOLEAN, live : BOOLEAN]
Interaction == [prompt : {"none", "login", "consent", "done"}, client : Clients, resource : Resources, account : Accounts,
                grant : Ids(GrantIds), result : {"none", "login", "consent", "denied"}, given : Ids(GrantIds)]
Device == [user : Accounts, grant : Ids(GrantIds), revoked : BOOLEAN]
Request ==
  [at : {"idle", "ask", "login", "find", "new", "save", "device", "undo", "consent", "deny", "consume", "AccessToken",
         "RefreshToken", "revoke", "call", "grant", "accepted", "refused"},
   kind : {"visit", "approve", "deny"}, user : Accounts, of : Ids(Interactions \cup Tokens), seen : Interaction,
   grant : Ids(GrantIds), token : Token, resource : Resources, left : SUBSET Models]

TypeOK ==
  /\ users \subseteq Users /\ web \in Accounts /\ held \in [Clients -> Ids(GrantIds)]
  /\ inter \in [Interactions -> Interaction] /\ grants \in [GrantIds -> Grant]
  /\ codes \in [Interactions -> Token] /\ tokens \in [Tokens -> Token]
  /\ devices \in [Devices -> Device] /\ req \in [Requests -> Request]
  /\ closed \subseteq GrantIds
  /\ taken \subseteq GrantIds \cup Devices \cup Tokens
  /\ sends \in Nat /\ others \in Nat

(* No call is let through once its grant is revoked: by the user on the    *)
(* Devices or Connected agents page, by the bridge, by a reuse or with the *)
(* account, and even when the token endpoint stored the token after that   *)
(* (oidc-tokens.ts:40-43, devices.ts:286-293). A grant that an approval    *)
(* under way stores again counts as approved anew, but a revoked device's  *)
(* never is.                                                               *)
RevokedRefused ==
  [][\A r \in Requests : Is(r, "grant") /\ req'[r].at = "accepted" =>
       /\ req[r].token.grant \notin closed
       /\ \A d \in Devices : devices[d].grant = req[r].token.grant => ~devices[d].revoked]_vars

(* Every code and token a bridge holds, while its grant is there, is of a  *)
(* device its user can revoke, each approval has a grant of its own, and a *)
(* revoked device's grant is gone: whatever fails or ends between the      *)
(* grant's save and the device's row, whoever deletes the account between  *)
(* them (oidc.ts:391-410, devices.ts:286-321).                             *)
BridgeGrantHasDevice ==
  /\ \A row \in {codes[i] : i \in Interactions} \cup {tokens[t] : t \in Tokens} :
       row.client = "bridge" /\ LiveGrant(row.grant) =>
         \E d \in Devices : devices[d] = [user |-> row.account, grant |-> row.grant, revoked |-> FALSE]
  /\ \A i, j \in Interactions : codes[i].client = "bridge" /\ codes[i].live /\ codes[i].grant = codes[j].grant => i = j
  /\ \A d \in Devices : devices[d] # NoDevice =>
       /\ devices[d].revoked => grants[devices[d].grant] = NoGrant
       /\ \A e \in Devices : devices[e].grant = devices[d].grant => e = d

(* An accepted call at the bridge API is a bridge's, and one at /mcp is an *)
(* agent's (oidc-tokens.ts:22-38).                                         *)
OwnResource ==
  \A r \in Requests : Is(r, "accepted") => (req[r].resource = "bridge" <=> req[r].token.client = "bridge")
=============================================================================
