------------------------------ MODULE GrantsProofs ------------------------------
(***************************************************************************)
(* Proofs for Grants: what is revoked stays refused, every bridge's grant  *)
(* has a device of its own, and a token opens only its own resource.       *)
(***************************************************************************)
EXTENDS Grants, TLAPS

-----------------------------------------------------------------------------
(* The inductive invariant.                                                *)

Interacting == {"login", "find", "new", "save", "device", "undo", "consent", "deny"}
Granting == {"save", "device", "undo", "consent"}

(* A request has the ids its step works on. *)
HasIds(q) ==
  /\ q.at \in Interacting \cup {"ask"} => q.of \in Interactions
  /\ q.at = "call" => q.of \in Tokens
  /\ q.at \in Granting \cup {"revoke"} => q.grant \in GrantIds

OfGrant(row) == row.live => row.grant # NoId

Placed ==
  /\ \A r \in Requests : HasIds(req[r]) /\ OfGrant(req[r].token)
  /\ \A i \in Interactions : OfGrant(codes[i])
  /\ \A t \in Tokens : OfGrant(tokens[t])
  /\ \A d \in Devices : devices[d].user # NoUser => devices[d].grant # NoId

(* Every row and request has the resource of its client. *)
Matches(x) == x.resource = "bridge" <=> x.client = "bridge"
Matched ==
  /\ \A i \in Interactions : Matches(inter[i]) /\ Matches(codes[i])
  /\ \A t \in Tokens : Matches(tokens[t])
  /\ \A r \in Requests : /\ Matches(req[r].token)
                         /\ req[r].at \in {"grant", "accepted"} => req[r].token.resource = req[r].resource

(* A closed grant has no row. *)
ClosedGone == \A g \in closed : grants[g] = NoGrant

(* What names the grant g on behalf of the client c. *)
RowNames(row, c, g) == row.client = c /\ row.grant = g
InterNames(it, c, g) == it.client = c /\ (it.grant = g \/ it.given = g)
RequestNames(q, c, g) ==
  \/ RowNames(q.token, c, g)
  \/ q.at \in Interacting /\ q.seen.client = c /\ q.seen.grant = g
  \/ q.at \in Granting /\ q.seen.client = c /\ q.grant = g
Names(c, g) ==
  \/ held[c] = g
  \/ \E i \in Interactions : InterNames(inter[i], c, g) \/ RowNames(codes[i], c, g)
  \/ \E t \in Tokens : RowNames(tokens[t], c, g)
  \/ \E r \in Requests : RequestNames(req[r], c, g)
  \/ c = "bridge" /\ \E d \in Devices : devices[d].grant = g

(* No grant serves a bridge and an agent, and one that is named was given. *)
Apart == \A g \in GrantIds : ~(Names("bridge", g) /\ Names("agent", g))
Given ==
  /\ \A g \in GrantIds, c \in Clients : Names(c, g) => g \in taken
  /\ \A d \in Devices : devices[d] # NoDevice => d \in taken

(* A request that works on an interaction knows its client; only an agent  *)
(* is asked for its consent, only a bridge gets a device.                  *)
SeesClient(q) ==
  /\ q.at \in Interacting => inter[q.of].prompt # "none" /\ q.seen.client = inter[q.of].client
  /\ q.at \in {"find", "save", "deny"} => q.seen.client = "agent"
  /\ q.at \in {"device", "undo"} => q.seen.client = "bridge"
Sees == \A r \in Requests : SeesClient(req[r])

(* While a bridge's grant is live, its device is there. *)
Backed(g) == LiveGrant(g) => \E d \in Devices : devices[d] = [user |-> grants[g].account, grant |-> g, revoked |-> FALSE]
RowBacked(row) == row.client = "bridge" /\ LiveGrant(row.grant) => row.account = grants[row.grant].account /\ Backed(row.grant)
AllBacked ==
  /\ \A i \in Interactions : RowBacked(codes[i]) /\ (inter[i].client = "bridge" => Backed(inter[i].given))
  /\ \A t \in Tokens : RowBacked(tokens[t])
  /\ \A r \in Requests :
       /\ RowBacked(req[r].token)
       /\ req[r].at = "consent" /\ req[r].seen.client = "bridge" => Backed(req[r].grant)
       /\ req[r].at = "device" /\ LiveGrant(req[r].grant) => grants[req[r].grant].account = req[r].user

(* Each approval of a bridge has its own grant, and each grant its device. *)
Approving(q) == q.at \in {"device", "undo", "consent"} /\ q.seen.client = "bridge"
OwnGrant ==
  /\ \A i \in Interactions :
       /\ inter[i].client = "bridge" => inter[i].grant = NoId
       /\ codes[i].client = "bridge" => inter[i].client = "bridge" /\ inter[i].prompt = "done" /\ codes[i].grant = inter[i].given
  /\ \A i, j \in Interactions : inter[i].client = "bridge" /\ inter[i].given # NoId /\ inter[j].given = inter[i].given => i = j
  /\ \A r \in Requests : Approving(req[r]) =>
       /\ \A i \in Interactions : inter[i].given # req[r].grant
       /\ \A s \in Requests : Approving(req[s]) /\ req[s].grant = req[r].grant => s = r
       /\ req[r].at = "device" => \A d \in Devices : devices[d].grant # req[r].grant
OwnDevice ==
  \A d \in Devices : devices[d] # NoDevice =>
    /\ devices[d].grant # NoId
    /\ devices[d].revoked => grants[devices[d].grant] = NoGrant
    /\ \A e \in Devices : devices[e].grant = devices[d].grant => e = d

SmallTypes == users \subseteq Users /\ web \in Accounts /\ sends \in Nat /\ others \in Nat
RowTypes ==
  /\ held \in [Clients -> Ids(GrantIds)]
  /\ inter \in [Interactions -> Interaction] /\ grants \in [GrantIds -> Grant]
  /\ codes \in [Interactions -> Token] /\ tokens \in [Tokens -> Token]
  /\ devices \in [Devices -> Device] /\ req \in [Requests -> Request]
  /\ closed \subseteq GrantIds
  /\ taken \subseteq GrantIds \cup Devices \cup Tokens

Inv == RowTypes /\ Placed /\ Matched /\ ClosedGone /\ Apart /\ Given /\ Sees /\ AllBacked /\ OwnGrant /\ OwnDevice
IInv == SmallTypes /\ Inv

-----------------------------------------------------------------------------
(* The operators of the model.                                             *)

(* What is not given yet is an id of the set. *)
LEMMA FreshIds == ASSUME NEW ids, NEW id \in Fresh(ids) PROVE id \in ids /\ id \notin taken
BY DEF Fresh

LEMMA Nulls ==
  /\ NoGrant \in Grant /\ NoToken \in Token /\ NoDevice \in Device /\ NoInteraction \in Interaction /\ Idle \in Request
  /\ OfGrant(NoToken) /\ Matches(NoToken) /\ Matches(NoInteraction) /\ NoToken.client = "agent" /\ NoToken.grant = NoId
BY DEF NoGrant, NoToken, NoDevice, NoInteraction, Idle, Grant, Token, Device, Interaction, Request, Accounts, Ids, Clients,
  Resources, Models, OfGrant, Matches

-----------------------------------------------------------------------------
(* Steps that change nothing but where a request is.                       *)

Sound(q) ==
  /\ q \in Request /\ HasIds(q) /\ SeesClient(q) /\ ~Approving(q)
  /\ OfGrant(q.token) /\ Matches(q.token) /\ RowBacked(q.token)
  /\ q.at \in {"grant", "accepted"} => q.token.resource = q.resource
  /\ \A c \in Clients, g \in GrantIds : RequestNames(q, c, g) => Names(c, g)

Moved(r, q) == req' = [req EXCEPT ![r] = q] /\ UNCHANGED <<held, models, devices, closed, taken>>

LEMMA IdleSound == Inv => Sound(Idle)
<1>1. /\ Idle.at = "idle" /\ Idle.token = NoToken /\ NoToken.grant = NoId /\ NoToken.client = "agent"
  BY DEF Idle, NoToken
<1>2. HasIds(Idle) /\ SeesClient(Idle) /\ ~Approving(Idle)
  BY <1>1 DEF HasIds, SeesClient, Approving, Interacting, Granting
<1>3. RowBacked(Idle.token) BY <1>1 DEF RowBacked
<1>4. \A c \in Clients, g \in GrantIds : ~RequestNames(Idle, c, g)
  BY <1>1, GrantsAssumption DEF RequestNames, RowNames, Interacting, Granting
<1> QED BY <1>1, <1>2, <1>3, <1>4, Nulls DEF Sound

(* A row that a request may take up is sound, and names what it names. *)
LEMMA RowsAreSound ==
  ASSUME Inv, NEW row, row \in {codes[i] : i \in Interactions} \cup {tokens[t] : t \in Tokens}
  PROVE /\ row \in Token /\ OfGrant(row) /\ Matches(row) /\ RowBacked(row)
        /\ \A c \in Clients, g \in GrantIds : RowNames(row, c, g) => Names(c, g)
BY DEF Inv, RowTypes, Placed, Matched, AllBacked, Names

(* A request at a step of its own, with the token row it has in hand. *)
LEMMA SoundAt ==
  ASSUME Inv, NEW q \in Request, HasIds(q), q.at \notin Interacting, q.at \in {"grant", "accepted"} => q.token.resource = q.resource,
         q.token = NoToken \/ q.token \in {codes[i] : i \in Interactions} \cup {tokens[t] : t \in Tokens}
           \/ (\E r \in Requests : q.token = req[r].token)
  PROVE Sound(q)
<1>1. ~Approving(q) /\ SeesClient(q) BY DEF Approving, SeesClient, Interacting
<1>2. /\ OfGrant(q.token) /\ Matches(q.token) /\ RowBacked(q.token)
      /\ \A c \in Clients, g \in GrantIds : RowNames(q.token, c, g) => Names(c, g)
  <2>1. CASE q.token = NoToken
    BY <2>1, Nulls, GrantsAssumption DEF RowBacked, RowNames
  <2>2. CASE q.token \in {codes[i] : i \in Interactions} \cup {tokens[t] : t \in Tokens}
    BY <2>2, RowsAreSound
  <2>3. CASE \E r \in Requests : q.token = req[r].token
    BY <2>3 DEF Inv, Placed, Matched, AllBacked, Names, RequestNames
  <2> QED BY <2>1, <2>2, <2>3
<1>3. \A c \in Clients, g \in GrantIds : RequestNames(q, c, g) => Names(c, g)
  BY <1>2 DEF RequestNames, Interacting, Granting
<1> QED BY <1>1, <1>2, <1>3 DEF Sound

(* A request as it goes on from an interaction it has read. *)
LEMMA AskMoves ==
  ASSUME IInv, NEW r \in Requests, Ask(r)
  PROVE \E q \in Request : Sound(q) /\ Moved(r, q)
<1>1. PICK i \in Interactions, kind \in {"visit", "approve", "deny"} :
        /\ inter[i].prompt \in {"login", "consent"}
        /\ req' = [req EXCEPT ![r] = [Idle EXCEPT !.at = "ask", !.kind = kind, !.user = web, !.of = i]]
  BY DEF Ask
<1> DEFINE q == [Idle EXCEPT !.at = "ask", !.kind = kind, !.user = web, !.of = i]
<1>2. q \in Request /\ q.at = "ask" /\ q.of = i /\ q.token = NoToken
  BY Nulls DEF Idle, Request, IInv, Inv, SmallTypes, RowTypes, Ids
<1>3. HasIds(q) /\ q.at \notin Interacting BY <1>2 DEF HasIds, Interacting, Granting
<1> HIDE DEF q
<1>4. Sound(q) BY <1>2, <1>3, SoundAt DEF IInv
<1> QED BY <1>1, <1>2, <1>4 DEF Ask, Moved, models, q

LEMMA NextStepIs ==
  ASSUME NEW kind, NEW user, NEW it, it.client \in Clients, NEW at \in NextStep(kind, user, it)
  PROVE /\ at \in {"idle", "login", "new", "find", "deny"}
        /\ at # "idle" => it.prompt \in {"login", "consent"}
        /\ at \in {"find", "deny"} => it.client = "agent"
BY DEF NextStep, Clients

LEMMA FindInteractionMoves ==
  ASSUME Inv, NEW r \in Requests, FindInteraction(r)
  PROVE \E q \in Request : Sound(q) /\ Moved(r, q)
<1> DEFINE it == inter[req[r].of]
<1>1. PICK at \in NextStep(req[r].kind, req[r].user, it) :
        req' = [req EXCEPT ![r] = IF at = "idle" THEN Idle ELSE [req[r] EXCEPT !.at = at, !.seen = it]]
  BY DEF FindInteraction
<1>2. req[r].of \in Interactions /\ it \in Interaction /\ req[r] \in Request
  BY DEF FindInteraction, Is, Inv, RowTypes, Placed, HasIds
<1>3. /\ at \in {"idle", "login", "new", "find", "deny"}
      /\ at # "idle" => it.prompt \in {"login", "consent"}
      /\ at \in {"find", "deny"} => it.client = "agent"
  BY <1>2, NextStepIs DEF Interaction
<1>4. UNCHANGED <<held, models, devices, closed, taken>> BY DEF FindInteraction, models
<1>5. CASE at = "idle"
  BY <1>1, <1>4, <1>5, IdleSound, Nulls DEF Moved
<1>6. CASE at # "idle"
  <2> DEFINE q == [req[r] EXCEPT !.at = at, !.seen = it]
  <2>1. /\ q \in Request /\ q.at = at /\ q.seen = it /\ q.of = req[r].of /\ q.token = req[r].token
    BY <1>2, <1>3, <1>6 DEF Request
  <2> HIDE DEF q
  <2>2. HasIds(q) /\ ~Approving(q) /\ at \notin Granting /\ at \notin {"grant", "accepted"}
    BY <1>2, <1>3, <1>6, <2>1 DEF HasIds, Approving, Granting, Interacting
  <2>3. SeesClient(q)
    BY <1>3, <1>6, <2>1 DEF SeesClient
  <2>4. /\ OfGrant(q.token) /\ Matches(q.token) /\ RowBacked(q.token)
        /\ \A c \in Clients, g \in GrantIds : RowNames(q.token, c, g) => Names(c, g)
    BY <2>1 DEF Inv, Placed, Matched, AllBacked, Names, RequestNames
  <2>5. \A c \in Clients, g \in GrantIds : it.client = c /\ it.grant = g => Names(c, g)
    BY <1>2 DEF Names, InterNames
  <2>6. \A c \in Clients, g \in GrantIds : RequestNames(q, c, g) => Names(c, g)
    BY <2>1, <2>2, <2>4, <2>5 DEF RequestNames
  <2>7. Sound(q) BY <2>1, <2>2, <2>3, <2>4, <2>6 DEF Sound
  <2> QED BY <1>1, <1>4, <1>6, <2>1, <2>7 DEF Moved, q
<1> QED BY <1>5, <1>6

LEMMA FindGrantMoves ==
  ASSUME Inv, NEW r \in Requests, FindGrant(r)
  PROVE \E q \in Request : Sound(q) /\ Moved(r, q)
<1> DEFINE g0 == req[r].seen.grant
           at == IF LiveGrant(g0) THEN "save" ELSE "new"
           q == [req[r] EXCEPT !.at = at, !.grant = IF LiveGrant(g0) THEN g0 ELSE NoId]
<1>1. req' = [req EXCEPT ![r] = q] /\ UNCHANGED <<held, models, devices, closed, taken>> /\ req[r].at = "find"
  BY DEF FindGrant, Is, models, Inv, RowTypes, Request
<1>2. req[r] \in Request /\ g0 \in Ids(GrantIds) /\ req[r].of \in Interactions /\ SeesClient(req[r])
  BY <1>1 DEF Inv, RowTypes, Request, Interaction, Placed, HasIds, Interacting, Sees
<1>3. /\ q \in Request /\ q.at = at /\ q.seen = req[r].seen /\ q.of = req[r].of /\ q.token = req[r].token
      /\ at \in {"save", "new"} /\ (at = "save" => q.grant = g0 /\ g0 \in GrantIds)
  BY <1>2 DEF Request, Ids, LiveGrant
<1> HIDE DEF q, at
<1>4. HasIds(q) /\ ~Approving(q) /\ at \notin {"grant", "accepted"}
  BY <1>2, <1>3 DEF HasIds, Approving, Granting, Interacting
<1>5. SeesClient(q)
  BY <1>1, <1>2, <1>3 DEF SeesClient, Interacting
<1>6. /\ OfGrant(q.token) /\ Matches(q.token) /\ RowBacked(q.token)
  BY <1>3 DEF Inv, Placed, Matched, AllBacked
<1>7. \A c \in Clients, g \in GrantIds : RequestNames(q, c, g) => RequestNames(req[r], c, g)
  BY <1>1, <1>3 DEF RequestNames, Interacting, Granting
<1>8. \A c \in Clients, g \in GrantIds : RequestNames(q, c, g) => Names(c, g)
  BY <1>7 DEF Names
<1>9. Sound(q) BY <1>3, <1>4, <1>5, <1>6, <1>8 DEF Sound
<1> QED BY <1>1, <1>3, <1>9 DEF Moved

LEMMA RedeemMoves ==
  ASSUME Inv, NEW r \in Requests, Redeem(r)
  PROVE \E q \in Request : Sound(q) /\ Moved(r, q)
<1>1. PICK row \in {codes[i] : i \in Interactions} \cup {tokens[t] : t \in {x \in Tokens : tokens[x].kind = "RefreshToken"}} :
        /\ row.live /\ LiveGrant(row.grant)
        /\ req' = [req EXCEPT ![r] = IF row.used THEN [Idle EXCEPT !.at = "revoke", !.grant = row.grant, !.left = Models]
                                     ELSE [Idle EXCEPT !.at = "consume", !.token = row]]
  BY DEF Redeem
<1>2. row \in {codes[i] : i \in Interactions} \cup {tokens[t] : t \in Tokens} /\ row \in Token
  BY RowsAreSound
<1>3. UNCHANGED <<held, models, devices, closed, taken>> BY DEF Redeem, models
<1>4. CASE row.used
  <2> DEFINE q == [Idle EXCEPT !.at = "revoke", !.grant = row.grant, !.left = Models]
  <2>1. q \in Request /\ q.at = "revoke" /\ q.token = NoToken /\ q.grant \in GrantIds
    BY <1>1, <1>2, Nulls DEF Idle, Request, Token, Ids, LiveGrant
  <2> HIDE DEF q
  <2>2. HasIds(q) /\ q.at \notin Interacting BY <2>1 DEF HasIds, Interacting, Granting
  <2> QED BY <1>1, <1>3, <1>4, <2>1, <2>2, SoundAt DEF Moved, q
<1>5. CASE ~row.used
  <2> DEFINE q == [Idle EXCEPT !.at = "consume", !.token = row]
  <2>1. q \in Request /\ q.at = "consume" /\ q.token = row
    BY <1>2, Nulls DEF Idle, Request
  <2> HIDE DEF q
  <2>2. HasIds(q) /\ q.at \notin Interacting BY <2>1 DEF HasIds, Interacting, Granting
  <2> QED BY <1>1, <1>2, <1>3, <1>5, <2>1, <2>2, SoundAt DEF Moved, q
<1> QED BY <1>4, <1>5

LEMMA AskRevokeMoves ==
  ASSUME Inv, NEW r \in Requests, AskRevoke(r)
  PROVE \E q \in Request : Sound(q) /\ Moved(r, q)
<1>1. PICK t \in Tokens : /\ tokens[t].live
                          /\ req' = [req EXCEPT ![r] = [Idle EXCEPT !.at = "revoke", !.grant = tokens[t].grant, !.left = Models]]
  BY DEF AskRevoke
<1> DEFINE q == [Idle EXCEPT !.at = "revoke", !.grant = tokens[t].grant, !.left = Models]
<1>2. tokens[t] \in Token /\ tokens[t].grant # NoId BY <1>1 DEF Inv, RowTypes, Placed, OfGrant
<1>3. q \in Request /\ q.at = "revoke" /\ q.token = NoToken /\ q.grant \in GrantIds
  BY <1>2, Nulls DEF Idle, Request, Token, Ids
<1> HIDE DEF q
<1>4. HasIds(q) /\ q.at \notin Interacting BY <1>3 DEF HasIds, Interacting, Granting
<1> QED BY <1>1, <1>3, <1>4, SoundAt DEF AskRevoke, models, Moved, q

LEMMA CallMoves ==
  ASSUME Inv, NEW r \in Requests, Call(r)
  PROVE \E q \in Request : Sound(q) /\ Moved(r, q)
<1>1. PICK t \in Tokens, resource \in Resources :
        req' = [req EXCEPT ![r] = [Idle EXCEPT !.at = "call", !.of = t, !.resource = resource]]
  BY DEF Call
<1> DEFINE q == [Idle EXCEPT !.at = "call", !.of = t, !.resource = resource]
<1>2. q \in Request /\ q.at = "call" /\ q.token = NoToken /\ q.of = t
  BY Nulls DEF Idle, Request, Ids
<1> HIDE DEF q
<1>3. HasIds(q) /\ q.at \notin Interacting BY <1>2 DEF HasIds, Interacting, Granting
<1> QED BY <1>1, <1>2, <1>3, SoundAt DEF Call, models, Moved, q

LEMMA FindTokenMoves ==
  ASSUME Inv, NEW r \in Requests, FindToken(r)
  PROVE \E q \in Request : Sound(q) /\ Moved(r, q)
<1> DEFINE token == tokens[req[r].of]
           q == [req[r] EXCEPT !.at = "grant", !.token = token]
<1>1. /\ req' = [req EXCEPT ![r] = IF TokenFits(token, req[r].resource) THEN q ELSE Idle]
      /\ UNCHANGED <<held, models, devices, closed, taken>> /\ req[r].at = "call"
  BY DEF FindToken, Is, models
<1>2. req[r] \in Request /\ req[r].of \in Tokens BY <1>1 DEF Inv, RowTypes, Placed, HasIds
<1>3. token \in Token /\ q \in Request /\ q.at = "grant" /\ q.token = token /\ q.resource = req[r].resource
  BY <1>2 DEF Inv, RowTypes, Request
<1>4. CASE TokenFits(token, req[r].resource)
  <2> HIDE DEF q
  <2>1. HasIds(q) /\ q.at \notin Interacting /\ q.token.resource = q.resource
    BY <1>3, <1>4 DEF HasIds, Interacting, Granting, TokenFits
  <2>2. Sound(q) BY <1>2, <1>3, <2>1, SoundAt
  <2> QED BY <1>1, <1>3, <1>4, <2>2 DEF Moved
<1>5. CASE ~TokenFits(token, req[r].resource)
  BY <1>1, <1>5, IdleSound, Nulls DEF Moved
<1> QED BY <1>4, <1>5

LEMMA AcceptMoves ==
  ASSUME Inv, NEW r \in Requests, Accept(r)
  PROVE \E q \in Request : Sound(q) /\ Moved(r, q)
<1> DEFINE at == IF GrantFits(req[r].token) THEN "accepted" ELSE "refused"
           q == [req[r] EXCEPT !.at = at]
<1>1. req' = [req EXCEPT ![r] = q] /\ UNCHANGED <<held, models, devices, closed, taken>> /\ req[r].at = "grant"
  BY DEF Accept, Goto, Is, models, Inv, RowTypes, Request
<1>2. /\ req[r] \in Request /\ q \in Request /\ q.at = at /\ q.token = req[r].token /\ q.resource = req[r].resource
      /\ req[r].token.resource = req[r].resource
  BY <1>1 DEF Inv, RowTypes, Request, Matched
<1> HIDE DEF q
<1>3. HasIds(q) /\ q.at \notin Interacting BY <1>2 DEF HasIds, Interacting, Granting
<1> QED BY <1>1, <1>2, <1>3, SoundAt DEF Moved

LEMMA DoneMoves ==
  ASSUME Inv, NEW r \in Requests, Finish(r) \/ Fail(r)
  PROVE \E q \in Request : Sound(q) /\ Moved(r, q)
BY IdleSound, Nulls DEF Finish, Fail, Done, models, Moved
(* They keep the invariant: what a sound request names was named before,   *)
(* and it approves no bridge.                                              *)
LEMMA MovedKeeps ==
  ASSUME Inv, NEW r \in Requests, NEW q \in Request, Sound(q), Moved(r, q)
  PROVE Inv'
<1>1. /\ held' = held /\ inter' = inter /\ grants' = grants /\ codes' = codes /\ tokens' = tokens
      /\ devices' = devices /\ closed' = closed /\ taken' = taken
  BY DEF Moved, models
<1>2. \A s \in Requests : req'[s] = IF s = r THEN q ELSE req[s]
  BY DEF Moved, Inv, RowTypes
<1>3. RowTypes' BY <1>1 DEF Moved, Inv, RowTypes
<1>4. Placed' BY <1>1, <1>2 DEF Inv, Placed, Sound
<1>5. Matched' BY <1>1, <1>2 DEF Inv, Matched, Sound
<1>6. ClosedGone' BY <1>1 DEF Inv, ClosedGone
<1>7. \A c \in Clients, g \in GrantIds : Names(c, g)' => Names(c, g)
  <2> SUFFICES ASSUME NEW c \in Clients, NEW g \in GrantIds, Names(c, g)' PROVE Names(c, g)
    OBVIOUS
  <2>1. CASE \E s \in Requests : RequestNames(req'[s], c, g)
    BY <1>2, <2>1 DEF Names, Sound
  <2> QED BY <1>1, <2>1 DEF Names
<1>8. Apart' /\ Given'
  BY <1>1, <1>7 DEF Inv, Apart, Given, Clients
<1>9. Sees' BY <1>1, <1>2 DEF Inv, Sees, SeesClient, Sound
<1>10. AllBacked'
  <2>1. \A row : RowBacked(row)' <=> RowBacked(row) BY <1>1 DEF RowBacked, Backed, LiveGrant
  <2>2. \A g : Backed(g)' <=> Backed(g) BY <1>1 DEF Backed, LiveGrant
  <2>3. q.at # "device" /\ ~(q.at = "consent" /\ q.seen.client = "bridge")
    BY DEF Sound, SeesClient, Approving
  <2> QED BY <1>1, <1>2, <2>1, <2>2, <2>3 DEF Inv, AllBacked, Sound, LiveGrant
<1>11. OwnGrant' BY <1>1, <1>2 DEF Inv, OwnGrant, Sound
<1>12. OwnDevice' BY <1>1 DEF Inv, OwnDevice
<1> QED BY <1>3, <1>4, <1>5, <1>6, <1>8, <1>9, <1>10, <1>11, <1>12 DEF Inv

-----------------------------------------------------------------------------
(* Steps that end rows: revocations, the delete of the account, expiry,    *)
(* the cleanup, and the use of a code or a refresh token.                  *)

RowKept(old, new) ==
  /\ new \in Token
  /\ \/ new = NoToken
     \/ /\ new.grant = old.grant /\ new.account = old.account /\ new.client = old.client /\ new.resource = old.resource
        /\ new.live => old.live

(* A device changes only when its grant goes, unless that was another's.   *)
DeviceKept(d) ==
  \/ devices'[d] = devices[d]
  \/ /\ devices'[d] = NoDevice \/ (devices'[d] = [devices[d] EXCEPT !.revoked = TRUE] /\ grants'[devices[d].grant] = NoGrant)
     /\ devices[d].grant \in GrantIds
     /\ grants[devices[d].grant].account = devices[d].user => grants'[devices[d].grant] = NoGrant

(* A request ends, goes on with its row, or goes on revoking. *)
RequestKept(old, new) ==
  \/ new = old
  \/ new = Idle
  \/ /\ new \in Request /\ new.at \in {"AccessToken", "revoke"} /\ new.token = old.token
     /\ new.at = "revoke" => new.grant \in GrantIds

Ended ==
  /\ held' = held /\ taken' = taken
  /\ inter' \in [Interactions -> Interaction]
  /\ \A i \in Interactions : inter'[i] = inter[i] \/ inter'[i] = [inter[i] EXCEPT !.prompt = "done"]
  /\ codes' \in [Interactions -> Token] /\ \A i \in Interactions : RowKept(codes[i], codes'[i])
  /\ tokens' \in [Tokens -> Token] /\ \A t \in Tokens : RowKept(tokens[t], tokens'[t])
  /\ grants' \in [GrantIds -> Grant]
  /\ \A g \in GrantIds : grants'[g] \in {grants[g], NoGrant, [grants[g] EXCEPT !.live = FALSE]}
  /\ closed' \subseteq GrantIds /\ \A g \in closed' : grants'[g] = NoGrant
  /\ \A g \in GrantIds : grants[g] = NoGrant => grants'[g] = NoGrant
  /\ devices' \in [Devices -> Device] /\ \A d \in Devices : DeviceKept(d)
  /\ req' \in [Requests -> Request] /\ \A r \in Requests : RequestKept(req[r], req'[r])

LEMMA EndedKeeps ==
  ASSUME Inv, Ended
  PROVE Inv'
<1>1. RowTypes' BY DEF Ended, Inv, RowTypes
<1>2. \A i \in Interactions :
        /\ inter'[i].client = inter[i].client /\ inter'[i].grant = inter[i].grant /\ inter'[i].given = inter[i].given
        /\ inter'[i].resource = inter[i].resource /\ (inter[i].prompt # "none" => inter'[i].prompt # "none")
        /\ inter[i].prompt = "done" => inter'[i].prompt = "done"
  BY DEF Ended, Inv, RowTypes, Interaction
<1>3. \A old, new : RowKept(old, new) =>
        /\ OfGrant(old) => OfGrant(new)
        /\ Matches(old) => Matches(new)
        /\ \A c \in Clients, g \in GrantIds : RowNames(new, c, g) => RowNames(old, c, g)
  BY Nulls, GrantsAssumption DEF RowKept, OfGrant, Matches, RowNames
<1>4. \A r \in Requests : req'[r] = req[r] \/ (/\ req'[r].at \notin Interacting \cup {"ask", "call", "grant", "accepted"}
                                                /\ req'[r].token \in {req[r].token, NoToken} /\ HasIds(req'[r]))
  BY DEF Ended, RequestKept, HasIds, Idle, Interacting, Granting
<1>5. Placed'
  <2>1. \A r \in Requests : HasIds(req'[r]) /\ OfGrant(req'[r].token)
    BY <1>4, Nulls DEF Inv, Placed
  <2>2. (\A i \in Interactions : OfGrant(codes'[i])) /\ \A t \in Tokens : OfGrant(tokens'[t])
    BY <1>3 DEF Ended, Inv, Placed
  <2>3. \A d \in Devices : devices'[d].user # NoUser => devices'[d].grant # NoId
    BY DEF Ended, DeviceKept, Inv, RowTypes, Placed, NoDevice, Device
  <2> QED BY <2>1, <2>2, <2>3 DEF Placed
<1>6. Matched'
  <2>1. \A r \in Requests : /\ Matches(req'[r].token)
                            /\ req'[r].at \in {"grant", "accepted"} => req'[r].token.resource = req'[r].resource
    BY <1>4, Nulls DEF Inv, Matched
  <2> QED BY <1>2, <1>3, <2>1 DEF Ended, Inv, Matched, Matches
<1>7. ClosedGone' BY DEF Ended, ClosedGone
<1>8. \A c \in Clients, g \in GrantIds : Names(c, g)' => Names(c, g)
  <2> SUFFICES ASSUME NEW c \in Clients, NEW g \in GrantIds, Names(c, g)' PROVE Names(c, g)
    OBVIOUS
  <2>1. CASE \E i \in Interactions : InterNames(inter'[i], c, g) \/ RowNames(codes'[i], c, g)
    BY <1>2, <1>3, <2>1 DEF Names, InterNames, Ended
  <2>2. CASE \E t \in Tokens : RowNames(tokens'[t], c, g)
    BY <1>3, <2>2 DEF Names, Ended
  <2>3. CASE \E r \in Requests : RequestNames(req'[r], c, g)
    <3>1. PICK r \in Requests : RequestNames(req'[r], c, g) BY <2>3
    <3>2. ~RowNames(NoToken, c, g) BY Nulls, GrantsAssumption DEF RowNames
    <3> QED BY <1>4, <3>1, <3>2 DEF Names, RequestNames, Interacting, Granting
  <2>4. CASE c = "bridge" /\ \E d \in Devices : devices'[d].grant = g
    <3>1. PICK d \in Devices : devices'[d].grant = g BY <2>4
    <3>2. devices[d].grant = g
      BY <3>1, GrantsAssumption DEF Ended, DeviceKept, NoDevice, Inv, RowTypes, Device
    <3> QED BY <2>4, <3>2 DEF Names
  <2> QED BY <2>1, <2>2, <2>3, <2>4 DEF Names, Ended
<1>9. Apart' /\ Given'
  <2>1. \A d \in Devices : devices'[d] # NoDevice => devices[d] # NoDevice
    BY GrantsAssumption DEF Ended, DeviceKept, NoDevice, Inv, RowTypes, Device
  <2> QED BY <1>8, <2>1 DEF Inv, Apart, Given, Clients, Ended
<1>10. Sees'
  <2>1. \A r \in Requests : req'[r] = req[r] \/ req'[r].at \notin Interacting
    BY <1>4
  <2>2. \A r \in Requests : req[r].at \in Interacting => req[r].of \in Interactions
    BY DEF Inv, Placed, HasIds
  <2> QED BY <1>2, <2>1, <2>2 DEF Inv, Sees, SeesClient, Interacting
<1>11. \A g \in GrantIds : LiveGrant(g)' => LiveGrant(g) /\ grants'[g] = grants[g]
  BY DEF Ended, LiveGrant, NoGrant, Inv, RowTypes, Grant
<1>12. \A g \in GrantIds : Backed(g) => Backed(g)'
  <2> SUFFICES ASSUME NEW g \in GrantIds, Backed(g), LiveGrant(g)'
               PROVE \E d \in Devices : devices'[d] = [user |-> grants'[g].account, grant |-> g, revoked |-> FALSE]
    BY DEF Backed
  <2>1. PICK d \in Devices : devices[d] = [user |-> grants[g].account, grant |-> g, revoked |-> FALSE]
    BY <1>11 DEF Backed
  <2>2. grants'[g] # NoGrant BY DEF LiveGrant, NoGrant
  <2>3. devices'[d] = devices[d] BY <2>1, <2>2 DEF Ended, DeviceKept
  <2> QED BY <1>11, <2>1, <2>3
<1>13. AllBacked'
  <2>1. \A old, new : RowKept(old, new) /\ RowBacked(old) => RowBacked(new)'
    <3> SUFFICES ASSUME NEW old, NEW new, RowKept(old, new), RowBacked(old), new.client = "bridge", LiveGrant(new.grant)'
                 PROVE new.account = grants'[new.grant].account /\ Backed(new.grant)'
      BY DEF RowBacked
    <3>1. new \in Token /\ new.grant \in GrantIds /\ new # NoToken
      BY Nulls DEF RowKept, Token, Ids, LiveGrant
    <3>2. old.grant = new.grant /\ old.client = "bridge" /\ old.account = new.account
      BY <3>1 DEF RowKept
    <3> QED BY <1>11, <1>12, <3>1, <3>2 DEF RowBacked
  <2>2. \A row : row \in Token /\ RowBacked(row) => RowBacked(row)'
    BY <2>1 DEF RowKept
  <2>3. \A i \in Interactions : RowBacked(codes[i])'
    BY <2>1 DEF Ended, Inv, AllBacked, RowBacked
  <2>4. \A i \in Interactions : (inter[i].client = "bridge" => Backed(inter[i].given))'
    <3> SUFFICES ASSUME NEW i \in Interactions, inter'[i].client = "bridge" PROVE Backed(inter[i].given)'
      OBVIOUS
    <3>1. inter'[i].given = inter[i].given /\ Backed(inter[i].given) /\ inter[i].given \in Ids(GrantIds)
      BY <1>2 DEF Inv, AllBacked, RowTypes, Interaction
    <3> QED BY <1>12, <3>1 DEF Backed, LiveGrant, Ids
  <2>5. \A t \in Tokens : RowBacked(tokens[t])'
    BY <2>1 DEF Ended, Inv, AllBacked, RowBacked
  <2>6. \A r \in Requests : RowBacked(req[r].token)'
    <3> SUFFICES ASSUME NEW r \in Requests PROVE RowBacked(req[r].token)'
      OBVIOUS
    <3>1. req'[r].token \in {req[r].token, NoToken} /\ req[r].token \in Token /\ RowBacked(req[r].token)
      BY <1>4 DEF Inv, RowTypes, AllBacked, Request
    <3>2. PICK row \in Token : req'[r].token = row /\ RowBacked(row)
      BY <3>1, Nulls DEF RowBacked
    <3> QED BY <2>2, <3>2 DEF RowBacked
  <2>7. \A r \in Requests : req'[r].at \in {"consent", "device"} => req'[r] = req[r] /\ req[r].grant \in GrantIds
    BY <1>4 DEF Interacting, Inv, Placed, HasIds, Granting
  <2>8. \A r \in Requests : (req[r].at = "consent" /\ req[r].seen.client = "bridge" => Backed(req[r].grant))'
    <3> SUFFICES ASSUME NEW r \in Requests, req'[r].at = "consent", req'[r].seen.client = "bridge"
                 PROVE Backed(req[r].grant)'
      OBVIOUS
    <3>1. req'[r] = req[r] /\ req[r].grant \in GrantIds BY <2>7
    <3>2. Backed(req[r].grant) BY <3>1 DEF Inv, AllBacked
    <3>3. PICK g \in GrantIds : req'[r].grant = g /\ Backed(g) BY <3>1, <3>2 DEF Backed
    <3> QED BY <1>12, <3>3 DEF Backed
  <2>9. \A r \in Requests : (req[r].at = "device" /\ LiveGrant(req[r].grant) => grants[req[r].grant].account = req[r].user)'
    BY <1>11, <2>7 DEF Inv, AllBacked, LiveGrant
  <2> QED BY <2>3, <2>4, <2>5, <2>6, <2>8, <2>9 DEF AllBacked
<1>14. OwnGrant'
  <2>1. \A i \in Interactions : codes'[i].client = "bridge" =>
          inter'[i].client = "bridge" /\ inter'[i].prompt = "done" /\ codes'[i].grant = inter'[i].given
    BY <1>2, Nulls DEF Ended, RowKept, Inv, OwnGrant
  <2>2. \A r \in Requests : Approving(req'[r]) => req'[r] = req[r]
    BY <1>4 DEF Approving, Interacting
  <2>3. \A d \in Devices, r \in Requests : Approving(req[r]) => (devices[d].grant # req[r].grant => devices'[d].grant # req[r].grant)
    BY GrantsAssumption DEF Ended, DeviceKept, NoDevice, Inv, RowTypes, Device, Placed, HasIds, Approving, Granting
  <2> QED BY <1>2, <2>1, <2>2, <2>3 DEF Inv, OwnGrant
<1>15. OwnDevice'
  <2>1. \A d \in Devices : devices'[d] # NoDevice => devices[d] # NoDevice /\ devices'[d].grant = devices[d].grant
                                                     /\ (devices'[d].revoked => devices[d].revoked \/ grants'[devices[d].grant] = NoGrant)
    BY GrantsAssumption DEF Ended, DeviceKept, NoDevice, Inv, RowTypes, Device
  <2>2. \A d, e \in Devices : devices'[d] # NoDevice /\ devices'[e].grant = devices'[d].grant => devices[e].grant = devices[d].grant
    BY <2>1 DEF Ended, DeviceKept, NoDevice, Inv, OwnDevice, RowTypes, Device
  <2>3. \A d \in Devices : devices[d] # NoDevice /\ devices[d].grant # NoId => devices[d].grant \in GrantIds
    BY DEF Inv, RowTypes, Device, Ids
  <2> QED BY <2>1, <2>2, <2>3 DEF Inv, OwnDevice, Ended
<1> QED BY <1>1, <1>5, <1>6, <1>7, <1>9, <1>10, <1>13, <1>14, <1>15 DEF Inv

LEMMA DropIs ==
  ASSUME Inv, NEW gs, gs \subseteq GrantIds, Drop(gs)
  PROVE /\ grants' \in [GrantIds -> Grant]
        /\ \A g \in GrantIds : grants'[g] = IF g \in gs THEN NoGrant ELSE grants[g]
        /\ closed' \subseteq GrantIds /\ \A g \in closed' : grants'[g] = NoGrant
BY Nulls DEF Drop, Inv, RowTypes, ClosedGone

LEMMA DropRowsIs ==
  ASSUME Inv, NEW gs
  PROVE /\ DropCodes(gs) => codes' \in [Interactions -> Token] /\ \A i \in Interactions : RowKept(codes[i], codes'[i])
        /\ \A kinds : DropTokens(gs, kinds) => tokens' \in [Tokens -> Token] /\ \A t \in Tokens : RowKept(tokens[t], tokens'[t])
BY Nulls DEF DropCodes, DropTokens, RowKept, Inv, RowTypes

(* What is left alone is kept. *)
LEMMA UntouchedIsKept ==
  ASSUME Inv
  PROVE /\ UNCHANGED inter => /\ inter' \in [Interactions -> Interaction]
                              /\ \A i \in Interactions : inter'[i] = inter[i]
        /\ UNCHANGED codes => codes' \in [Interactions -> Token] /\ \A i \in Interactions : RowKept(codes[i], codes'[i])
        /\ UNCHANGED tokens => tokens' \in [Tokens -> Token] /\ \A t \in Tokens : RowKept(tokens[t], tokens'[t])
        /\ UNCHANGED <<grants, closed>> =>
             /\ grants' \in [GrantIds -> Grant] /\ \A g \in GrantIds : grants'[g] = grants[g]
             /\ closed' \subseteq GrantIds /\ \A g \in closed' : grants'[g] = NoGrant
        /\ UNCHANGED devices => devices' \in [Devices -> Device] /\ \A d \in Devices : DeviceKept(d)
        /\ UNCHANGED req => req' \in [Requests -> Request] /\ \A r \in Requests : RequestKept(req[r], req'[r])
BY DEF Inv, RowTypes, RowKept, DeviceKept, RequestKept, ClosedGone

LEMMA RequestIsKept ==
  ASSUME Inv, NEW r \in Requests, NEW q \in Request, RequestKept(req[r], q), req' = [req EXCEPT ![r] = q]
  PROVE req' \in [Requests -> Request] /\ \A s \in Requests : RequestKept(req[s], req'[s])
BY DEF Inv, RowTypes, RequestKept

LEMMA UndoEnds == ASSUME Inv, NEW r \in Requests, Undo(r) PROVE Ended
<1>1. req[r].grant \in GrantIds BY DEF Undo, Is, Inv, Placed, HasIds, Granting
<1>2. req' = [req EXCEPT ![r] = Idle] BY DEF Undo, Done
<1>3. Drop({req[r].grant}) /\ UNCHANGED <<held, inter, codes, tokens, devices, taken>> BY DEF Undo
<1> QED BY <1>1, <1>2, <1>3, DropIs, UntouchedIsKept, RequestIsKept, Nulls DEF Ended, RequestKept

LEMMA ConsumeEnds == ASSUME Inv, NEW r \in Requests, Consume(r) PROVE Ended
<1> DEFINE q == [req[r] EXCEPT !.at = "AccessToken"]
<1>1. req' = [req EXCEPT ![r] = q] BY DEF Consume, Goto, Inv, RowTypes, Request
<1>2. q \in Request /\ RequestKept(req[r], q) BY DEF Inv, RowTypes, Request, RequestKept
<1>3. codes' \in [Interactions -> Token] /\ \A i \in Interactions : RowKept(codes[i], codes'[i])
  BY DEF Consume, RowKept, Inv, RowTypes, Token
<1>4. tokens' \in [Tokens -> Token] /\ \A t \in Tokens : RowKept(tokens[t], tokens'[t])
  BY DEF Consume, RowKept, Inv, RowTypes, Token
<1>5. UNCHANGED <<held, inter, grants, devices, closed, taken>> BY DEF Consume
<1> HIDE DEF q
<1> QED BY <1>1, <1>2, <1>3, <1>4, <1>5, UntouchedIsKept, RequestIsKept DEF Ended

LEMMA RevokeEnds == ASSUME Inv, NEW r \in Requests, Revoke(r) PROVE Ended
<1>1. req[r].grant \in GrantIds BY DEF Revoke, Is, Inv, Placed, HasIds
<1>2. PICK m \in req[r].left :
        /\ IF req[r].left = {m} THEN Done(r) ELSE req' = [req EXCEPT ![r].left = @ \ {m}]
        /\ IF m = "Grant" THEN Drop({req[r].grant}) ELSE UNCHANGED <<grants, closed>>
        /\ IF m = "Code" THEN DropCodes({req[r].grant}) ELSE UNCHANGED codes
        /\ DropTokens({req[r].grant}, {m})
  BY DEF Revoke
<1> DEFINE q == IF req[r].left = {m} THEN Idle ELSE [req[r] EXCEPT !.left = req[r].left \ {m}]
<1>3. q \in Request /\ RequestKept(req[r], q)
  BY <1>1, Nulls DEF Revoke, Is, Inv, RowTypes, Request, RequestKept
<1>4. req' \in [Requests -> Request] /\ \A s \in Requests : RequestKept(req[s], req'[s])
  <2>1. req[r] \in Request BY DEF Inv, RowTypes
  <2>2. req' = [req EXCEPT ![r] = q] BY <1>2, <2>1 DEF Request, Done
  <2> HIDE DEF q
  <2> QED BY <1>3, <2>2, RequestIsKept
<1>5. /\ grants' \in [GrantIds -> Grant]
      /\ \A g \in GrantIds : grants'[g] \in {grants[g], NoGrant}
      /\ closed' \subseteq GrantIds /\ \A g \in closed' : grants'[g] = NoGrant
      /\ \A g \in GrantIds : grants[g] = NoGrant => grants'[g] = NoGrant
  BY <1>1, <1>2, DropIs, UntouchedIsKept
<1>6. /\ codes' \in [Interactions -> Token] /\ \A i \in Interactions : RowKept(codes[i], codes'[i])
      /\ tokens' \in [Tokens -> Token] /\ \A t \in Tokens : RowKept(tokens[t], tokens'[t])
  BY <1>2, DropRowsIs, UntouchedIsKept
<1>7. UNCHANGED <<held, inter, devices, taken>> BY DEF Revoke
<1> QED BY <1>4, <1>5, <1>6, <1>7, UntouchedIsKept DEF Ended

LEMMA RevokeDeviceEnds == ASSUME Inv, NEW d \in Devices, RevokeDevice(d) PROVE Ended
<1>1. devices[d].grant \in GrantIds
  BY DEF RevokeDevice, Inv, RowTypes, Placed, Device, Ids
<1>2. /\ Drop({devices[d].grant}) /\ DropCodes({devices[d].grant}) /\ DropTokens({devices[d].grant}, Models)
      /\ UNCHANGED <<held, inter, req, taken>>
  BY DEF RevokeDevice
<1>3. grants'[devices[d].grant] = NoGrant BY <1>1, <1>2, DropIs
<1>4. devices' \in [Devices -> Device] /\ \A e \in Devices : DeviceKept(e)
  BY <1>1, <1>3 DEF RevokeDevice, DeviceKept, Inv, RowTypes, Device
<1> QED BY <1>1, <1>2, <1>4, DropIs, DropRowsIs, UntouchedIsKept DEF Ended

LEMMA RevokeAgentGrantEnds == ASSUME Inv, NEW g \in GrantIds, RevokeAgentGrant(g) PROVE Ended
<1>1. /\ Drop({g}) /\ DropCodes({g}) /\ DropTokens({g}, Models)
      /\ UNCHANGED <<held, inter, devices, req, taken>>
  BY DEF RevokeAgentGrant
<1> QED BY <1>1, DropIs, DropRowsIs, UntouchedIsKept DEF Ended

LEMMA DeleteAccountEnds == ASSUME Inv, DeleteAccount PROVE Ended
<1> DEFINE gs == {g \in GrantIds : grants[g].account = web}
<1>1. Drop(gs) /\ UNCHANGED <<held, req, taken>> /\ web # NoUser BY DEF DeleteAccount
<1>2. codes' \in [Interactions -> Token] /\ \A i \in Interactions : RowKept(codes[i], codes'[i])
  BY Nulls DEF DeleteAccount, RowKept, Inv, RowTypes
<1>3. tokens' \in [Tokens -> Token] /\ \A t \in Tokens : RowKept(tokens[t], tokens'[t])
  BY Nulls DEF DeleteAccount, RowKept, Inv, RowTypes
<1>4. inter' \in [Interactions -> Interaction]
      /\ \A i \in Interactions : inter'[i] = inter[i] \/ inter'[i] = [inter[i] EXCEPT !.prompt = "done"]
  BY DEF DeleteAccount, Inv, RowTypes, Interaction
<1>5. devices' \in [Devices -> Device] /\ \A d \in Devices : DeviceKept(d)
  <2>1. devices' = [d \in Devices |-> IF devices[d].user = web THEN NoDevice ELSE devices[d]]
    BY DEF DeleteAccount
  <2>2. \A d \in Devices : devices[d].user = web => devices[d].grant \in GrantIds
    BY <1>1 DEF Inv, RowTypes, Placed, Device, Ids
  <2>3. \A g \in GrantIds : grants[g].account = web => grants'[g] = NoGrant
    BY <1>1, DropIs
  <2> QED BY <2>1, <2>2, <2>3, Nulls DEF DeviceKept, Inv, RowTypes
<1> QED BY <1>1, <1>2, <1>3, <1>4, <1>5, DropIs, UntouchedIsKept DEF Ended

LEMMA ExpireEnds == ASSUME Inv, Expire PROVE Ended
<1>1. UNCHANGED <<held, inter, codes, devices, req, closed, taken>> BY DEF Expire
<1>2. CASE \E g \in GrantIds : LiveGrant(g) /\ grants' = [grants EXCEPT ![g].live = FALSE] /\ UNCHANGED tokens
  <2>1. PICK g \in GrantIds : LiveGrant(g) /\ grants' = [grants EXCEPT ![g].live = FALSE] /\ UNCHANGED tokens BY <1>2
  <2>2. grants[g] # NoGrant BY <2>1 DEF LiveGrant, NoGrant
  <2>3. /\ grants' \in [GrantIds -> Grant]
        /\ \A h \in GrantIds : grants'[h] \in {grants[h], [grants[h] EXCEPT !.live = FALSE]} /\ (h # g => grants'[h] = grants[h])
    BY <2>1 DEF Inv, RowTypes, Grant
  <2>4. closed' \subseteq GrantIds /\ \A h \in closed' : grants'[h] = NoGrant
    BY <1>1, <2>2, <2>3 DEF Inv, RowTypes, ClosedGone
  <2> QED BY <1>1, <2>1, <2>2, <2>3, <2>4, UntouchedIsKept DEF Ended
<1>3. CASE \E t \in Tokens : tokens[t].live /\ tokens' = [tokens EXCEPT ![t].live = FALSE] /\ UNCHANGED grants
  <2>1. PICK t \in Tokens : tokens[t].live /\ tokens' = [tokens EXCEPT ![t].live = FALSE] /\ UNCHANGED grants BY <1>3
  <2>2. tokens[t] \in Token /\ [tokens[t] EXCEPT !.live = FALSE] \in Token BY DEF Inv, RowTypes, Token
  <2>3. tokens' \in [Tokens -> Token] /\ \A u \in Tokens : u # t => tokens'[u] = tokens[u]
    BY <2>1, <2>2 DEF Inv, RowTypes
  <2>4. RowKept(tokens[t], tokens'[t]) BY <2>1, <2>2 DEF RowKept, Token, Inv, RowTypes
  <2>5. \A u \in Tokens : RowKept(tokens[u], tokens'[u]) BY <2>3, <2>4 DEF RowKept, Inv, RowTypes
  <2> QED BY <1>1, <2>1, <2>3, <2>5, UntouchedIsKept DEF Ended
<1> QED BY <1>2, <1>3 DEF Expire

LEMMA DeleteExpiredEnds == ASSUME Inv, DeleteExpired PROVE Ended
<1>1. UNCHANGED <<held, inter, codes, devices, req, taken>> BY DEF DeleteExpired
<1>2. CASE \E g \in GrantIds : grants[g] # NoGrant /\ ~grants[g].live /\ Drop({g}) /\ UNCHANGED tokens
  BY <1>1, <1>2, DropIs, UntouchedIsKept DEF Ended
<1>3. CASE \E t \in Tokens : tokens' = [tokens EXCEPT ![t] = NoToken] /\ UNCHANGED <<grants, closed>>
  <2>1. tokens' \in [Tokens -> Token] /\ \A t \in Tokens : RowKept(tokens[t], tokens'[t])
    BY <1>3, Nulls DEF RowKept, Inv, RowTypes
  <2> QED BY <1>1, <1>3, <2>1, UntouchedIsKept DEF Ended
<1> QED BY <1>2, <1>3 DEF DeleteExpired

-----------------------------------------------------------------------------
(* Steps of an interaction: it and the code it ends in change.             *)

Linked(i, it, row) ==
  /\ it \in Interaction /\ row \in Token
  /\ inter' = [inter EXCEPT ![i] = it] /\ codes' = [codes EXCEPT ![i] = row]
  /\ held' \in [Clients -> Ids(GrantIds)] /\ req' \in [Requests -> Request]
  /\ UNCHANGED <<grants, tokens, devices, closed, taken>>
  /\ \A s \in Requests : req'[s] = req[s] \/ req'[s] = Idle
  /\ Matches(it) /\ Matches(row) /\ OfGrant(row)
  /\ \A c \in Clients, g \in GrantIds : held'[c] = g \/ InterNames(it, c, g) \/ RowNames(row, c, g) => Names(c, g)
  /\ inter[i].prompt # "none" => it.prompt # "none" /\ it.client = inter[i].client
  /\ it.client = "bridge" => Backed(it.given) /\ it.grant = NoId
  /\ RowBacked(row)
  /\ row.client = "bridge" => it.client = "bridge" /\ it.prompt = "done" /\ row.grant = it.given
  /\ it.client = "bridge" /\ it.given # NoId =>
       /\ \A j \in Interactions : inter[j].given = it.given => i = j
       /\ \A s \in Requests : Approving(req'[s]) => req'[s].grant # it.given

LEMMA LinkedKeeps ==
  ASSUME Inv, NEW i \in Interactions, NEW it, NEW row, Linked(i, it, row)
  PROVE Inv'
<1>1. RowTypes' BY DEF Linked, Inv, RowTypes
<1>2. /\ inter'[i] = it /\ codes'[i] = row
      /\ \A j \in Interactions : j # i => inter'[j] = inter[j] /\ codes'[j] = codes[j]
      /\ grants' = grants /\ tokens' = tokens /\ devices' = devices /\ closed' = closed /\ taken' = taken
  BY DEF Linked, Inv, RowTypes
<1>3. \A s \in Requests : req'[s] = req[s] \/ req'[s] = Idle
  BY DEF Linked
<1>4. /\ Idle.at = "idle" /\ Idle.token = NoToken /\ HasIds(Idle)
  BY DEF Idle, HasIds, Interacting, Granting
<1>5. Placed'
  BY <1>2, <1>3, <1>4, Nulls DEF Linked, Inv, Placed
<1>6. Matched'
  BY <1>2, <1>3, <1>4, Nulls DEF Linked, Inv, Matched
<1>7. ClosedGone' BY <1>2 DEF Inv, ClosedGone
<1>8. \A c \in Clients, g \in GrantIds : Names(c, g)' => Names(c, g)
  <2> SUFFICES ASSUME NEW c \in Clients, NEW g \in GrantIds, Names(c, g)' PROVE Names(c, g)
    OBVIOUS
  <2>1. CASE held'[c] = g BY <2>1 DEF Linked
  <2>2. CASE \E j \in Interactions : InterNames(inter'[j], c, g) \/ RowNames(codes'[j], c, g)
    BY <1>2, <2>2 DEF Linked, Names
  <2>3. CASE \E s \in Requests : RequestNames(req'[s], c, g)
    <3>1. ~RequestNames(Idle, c, g)
      BY <1>4, Nulls, GrantsAssumption DEF RequestNames, RowNames, Interacting, Granting
    <3> QED BY <1>3, <2>3, <3>1 DEF Names
  <2> QED BY <1>2, <2>1, <2>2, <2>3 DEF Names
<1>9. Apart' /\ Given' BY <1>2, <1>8 DEF Inv, Apart, Given, Clients
<1>10. Sees'
  <2> SUFFICES ASSUME NEW s \in Requests PROVE SeesClient(req[s])'
    BY DEF Sees
  <2>1. CASE req'[s] = Idle
    BY <1>4, <2>1 DEF SeesClient, Interacting
  <2>2. CASE req'[s] = req[s]
    <3>1. SeesClient(req[s]) /\ (req[s].at \in Interacting => req[s].of \in Interactions)
      BY DEF Inv, Sees, Placed, HasIds
    <3>2. req[s].at \in Interacting => inter'[req[s].of].prompt # "none" /\ inter'[req[s].of].client = inter[req[s].of].client
      BY <1>2, <3>1 DEF Linked, SeesClient
    <3> QED BY <2>2, <3>1, <3>2 DEF SeesClient
  <2> QED BY <1>3, <2>1, <2>2
<1>11. AllBacked'
  <2>1. \A r : RowBacked(r) => RowBacked(r)' BY <1>2 DEF RowBacked, Backed, LiveGrant
  <2>2. \A g : Backed(g) => Backed(g)' BY <1>2 DEF Backed, LiveGrant
  <2>3. \A j \in Interactions : RowBacked(codes[j])'
    BY <1>2, <2>1 DEF Linked, Inv, AllBacked, RowBacked
  <2>4. \A j \in Interactions : (inter[j].client = "bridge" => Backed(inter[j].given))'
    BY <1>2, <2>2 DEF Linked, Inv, AllBacked, Backed, LiveGrant
  <2>5. \A t \in Tokens : RowBacked(tokens[t])'
    BY <1>2, <2>1 DEF Inv, AllBacked, RowBacked
  <2>6. \A s \in Requests : RowBacked(req[s].token)'
    <3> SUFFICES ASSUME NEW s \in Requests PROVE RowBacked(req[s].token)'
      OBVIOUS
    <3>1. RowBacked(req[s].token) BY DEF Inv, AllBacked
    <3>2. CASE req'[s] = req[s] BY <2>1, <3>1, <3>2 DEF RowBacked
    <3>3. CASE req'[s] = Idle BY <1>4, <3>3, Nulls DEF RowBacked
    <3> QED BY <1>3, <3>2, <3>3
  <2>7. \A s \in Requests : (req[s].at = "consent" /\ req[s].seen.client = "bridge" => Backed(req[s].grant))'
    BY <1>2, <1>3, <1>4 DEF Inv, AllBacked, Backed, LiveGrant
  <2>8. \A s \in Requests : (req[s].at = "device" /\ LiveGrant(req[s].grant) => grants[req[s].grant].account = req[s].user)'
    BY <1>2, <1>3, <1>4 DEF Inv, AllBacked, LiveGrant
  <2> QED BY <2>3, <2>4, <2>5, <2>6, <2>7, <2>8 DEF AllBacked
<1>12. OwnGrant'
  <2>1. \A s \in Requests : Approving(req'[s]) => req'[s] = req[s] /\ req[s].grant \in GrantIds
    BY <1>3, <1>4 DEF Approving, Inv, Placed, HasIds, Granting
  <2>2. \A j \in Interactions :
          /\ inter'[j].client = "bridge" => inter'[j].grant = NoId
          /\ codes'[j].client = "bridge" => inter'[j].client = "bridge" /\ inter'[j].prompt = "done" /\ codes'[j].grant = inter'[j].given
    BY <1>2 DEF Linked, Inv, OwnGrant
  <2>3. \A j, k \in Interactions : inter'[j].client = "bridge" /\ inter'[j].given # NoId /\ inter'[k].given = inter'[j].given => j = k
    <3> SUFFICES ASSUME NEW j \in Interactions, NEW k \in Interactions, inter'[j].client = "bridge", inter'[j].given # NoId,
                        inter'[k].given = inter'[j].given
                 PROVE j = k
      OBVIOUS
    <3>1. CASE j = i BY <1>2, <3>1 DEF Linked
    <3>2. CASE j # i /\ k = i
      <4>1. it.given = inter[j].given /\ inter[j].client = "bridge" BY <1>2, <3>2
      <4>2. CASE it.client = "bridge" BY <3>2, <4>1, <4>2 DEF Linked, Inv, OwnGrant
      <4>3. CASE it.client = "agent"
        <5>1. it.given \in GrantIds BY <1>2, <3>2, <4>1 DEF Linked, Interaction, Ids
        <5>2. Names("bridge", it.given) BY <4>1 DEF Names, InterNames
        <5>3. Names("agent", it.given) BY <4>3, <5>1 DEF Linked, InterNames, Clients
        <5> QED BY <5>1, <5>2, <5>3 DEF Inv, Apart
      <4> QED BY <4>2, <4>3 DEF Linked, Interaction, Clients
    <3>3. CASE j # i /\ k # i BY <1>2, <3>3 DEF Inv, OwnGrant
    <3> QED BY <3>1, <3>2, <3>3
  <2>4. \A s \in Requests, j \in Interactions : Approving(req'[s]) => inter'[j].given # req'[s].grant
    <3> SUFFICES ASSUME NEW s \in Requests, NEW j \in Interactions, Approving(req'[s]), inter'[j].given = req'[s].grant
                 PROVE FALSE
      OBVIOUS
    <3>1. j = i /\ it.given = req[s].grant /\ req'[s] = req[s] /\ req[s].grant \in GrantIds
      BY <1>2, <2>1 DEF Inv, OwnGrant
    <3>2. it.client # "bridge" BY <3>1, GrantsAssumption DEF Linked
    <3>3. Names("agent", it.given)
      BY <3>1, <3>2 DEF Linked, InterNames, Interaction, Clients
    <3>4. Names("bridge", it.given)
      BY <3>1 DEF Names, RequestNames, Approving, Granting
    <3> QED BY <3>1, <3>3, <3>4 DEF Inv, Apart
  <2> QED BY <1>2, <2>1, <2>2, <2>3, <2>4 DEF Inv, OwnGrant
<1>13. OwnDevice' BY <1>2 DEF Inv, OwnDevice
<1> QED BY <1>1, <1>5, <1>6, <1>7, <1>9, <1>10, <1>11, <1>12, <1>13 DEF Inv

LEMMA StartLinks ==
  ASSUME Inv, NEW i \in Interactions, Start(i)
  PROVE \E it, row : Linked(i, it, row)
<1>1. PICK client \in Clients, resource \in Resources, scopes \in SUBSET {"read", "ingest"} :
        /\ MayAsk(client, resource, scopes)
        /\ inter' = [inter EXCEPT ![i] = [NoInteraction EXCEPT !.prompt = "login", !.client = client, !.resource = resource,
                                                             !.grant = ExistingGrant(client)]]
  BY DEF Start
<1> DEFINE it == [NoInteraction EXCEPT !.prompt = "login", !.client = client, !.resource = resource, !.grant = ExistingGrant(client)]
<1>2. ExistingGrant(client) \in Ids(GrantIds) /\ (client = "bridge" => ExistingGrant(client) = NoId)
  BY DEF ExistingGrant, Inv, RowTypes, Ids, Clients
<1>3. /\ it \in Interaction /\ it.prompt = "login" /\ it.client = client /\ it.resource = resource
      /\ it.grant = ExistingGrant(client) /\ it.given = NoId
  BY <1>2, Nulls DEF NoInteraction, Interaction, Ids
<1>4. /\ UNCHANGED <<held, grants, codes, tokens, devices, req, closed, taken>>
      /\ inter[i] = NoInteraction /\ inter[i].prompt = "none"
  BY DEF Start, NoInteraction
<1>5. codes[i] \in Token /\ Matches(codes[i]) /\ OfGrant(codes[i]) /\ RowBacked(codes[i]) /\ codes[i].client # "bridge"
  BY <1>4 DEF Inv, RowTypes, Matched, Placed, AllBacked, OwnGrant
<1>6. Matches(it) BY <1>1, <1>3 DEF Matches, MayAsk
<1> HIDE DEF it
<1>7. \A c \in Clients, g \in GrantIds : held[c] = g \/ InterNames(it, c, g) \/ RowNames(codes[i], c, g) => Names(c, g)
  BY <1>3, GrantsAssumption DEF InterNames, ExistingGrant, Names
<1>8. codes' = [codes EXCEPT ![i] = codes[i]] BY <1>4 DEF Inv, RowTypes
<1>9. Backed(NoId) BY DEF Backed, LiveGrant
<1>10. inter' = [inter EXCEPT ![i] = it] BY <1>1 DEF it
<1>11. held' \in [Clients -> Ids(GrantIds)] /\ req' \in [Requests -> Request] BY <1>4 DEF Inv, RowTypes
<1> QED BY <1>2, <1>3, <1>4, <1>5, <1>6, <1>7, <1>8, <1>9, <1>10, <1>11 DEF Linked

LEMMA ResumeLinks ==
  ASSUME Inv, NEW i \in Interactions, Resume(i)
  PROVE \E it, row : Linked(i, it, row)
<1> DEFINE old == inter[i]
           grant == IF old.result = "consent" THEN old.given ELSE old.grant
           covers == LiveGrant(grant) /\ grants[grant].account = old.account
           new == [kind |-> "Code", grant |-> grant, account |-> old.account, client |-> old.client, resource |-> old.resource,
                   used |-> FALSE, live |-> TRUE]
<1>1. /\ old \in Interaction /\ old.prompt \in {"login", "consent"} /\ codes[i] \in Token
      /\ Matches(old) /\ Matches(codes[i]) /\ OfGrant(codes[i]) /\ RowBacked(codes[i]) /\ codes[i].client # "bridge"
      /\ old.client = "bridge" => Backed(old.given) /\ old.grant = NoId
      /\ grant \in Ids(GrantIds)
  BY DEF Resume, Inv, RowTypes, Interaction, Matched, Placed, AllBacked, OwnGrant
<1>2. UNCHANGED <<grants, tokens, devices, req, closed, taken>> /\ req' \in [Requests -> Request]
  BY DEF Resume, Inv, RowTypes
<1>3. /\ \A c \in Clients, g \in GrantIds : held[c] = g \/ InterNames(old, c, g) \/ RowNames(codes[i], c, g) => Names(c, g)
      /\ held \in [Clients -> Ids(GrantIds)]
  BY DEF Names, Inv, RowTypes
<1>4. old.client = "bridge" /\ old.given # NoId =>
        /\ \A j \in Interactions : inter[j].given = old.given => i = j
        /\ \A s \in Requests : Approving(req'[s]) => req'[s].grant # old.given
  BY <1>2 DEF Inv, OwnGrant
<1>5. CASE /\ old.result = "login"
           /\ inter' = [inter EXCEPT ![i].prompt = "consent", ![i].result = "none", ![i].grant = IF covers THEN @ ELSE NoId]
           /\ UNCHANGED <<codes, held>>
  <2> DEFINE it == [old EXCEPT !.prompt = "consent", !.result = "none", !.grant = IF covers THEN old.grant ELSE NoId]
  <2>1. inter' = [inter EXCEPT ![i] = it] BY <1>1, <1>5 DEF Inv, RowTypes, Interaction
  <2>2. /\ it \in Interaction /\ it.prompt = "consent" /\ it.client = old.client /\ it.resource = old.resource
        /\ it.grant \in {old.grant, NoId} /\ it.given = old.given
    BY <1>1 DEF Interaction, Ids
  <2> HIDE DEF it, old
  <2>3. Matches(it) BY <1>1, <2>2 DEF Matches
  <2>4. \A c \in Clients, g \in GrantIds : InterNames(it, c, g) => InterNames(old, c, g)
    BY <2>2, GrantsAssumption DEF InterNames
  <2>5. codes' = [codes EXCEPT ![i] = codes[i]] BY <1>5 DEF Inv, RowTypes
  <2>6. Linked(i, it, codes[i])
    BY <1>1, <1>2, <1>3, <1>4, <1>5, <2>1, <2>2, <2>3, <2>4, <2>5 DEF Linked, old
  <2> QED BY <2>6
<1>6. CASE /\ covers /\ old.result \in {"login", "consent"}
           /\ inter' = [inter EXCEPT ![i].prompt = "done"]
           /\ codes' = [codes EXCEPT ![i] = new]
           /\ held' = [held EXCEPT ![old.client] = grant]
  <2> DEFINE it == [old EXCEPT !.prompt = "done"]
  <2>1. inter' = [inter EXCEPT ![i] = it] BY <1>1, <1>6 DEF Inv, RowTypes, Interaction
  <2>2. /\ it \in Interaction /\ it.prompt = "done" /\ it.client = old.client /\ it.resource = old.resource
        /\ it.grant = old.grant /\ it.given = old.given
    BY <1>1 DEF Interaction
  <2>3. new \in Token /\ new.grant = grant /\ new.client = old.client /\ new.account = old.account /\ new.resource = old.resource
    BY <1>1 DEF Token, Interaction, Models
  <2>4. grant # NoId /\ grant \in {old.given, old.grant} /\ covers BY <1>6 DEF LiveGrant
  <2>5. old.client = "bridge" => grant = old.given BY <1>1, <2>4
  <2> HIDE DEF it, old, grant, covers, new
  <2>6. Matches(it) /\ Matches(new) /\ OfGrant(new) BY <1>1, <2>2, <2>3, <2>4 DEF Matches, OfGrant
  <2>7. \A c \in Clients, g \in GrantIds :
          /\ InterNames(it, c, g) => InterNames(old, c, g)
          /\ RowNames(new, c, g) => InterNames(old, c, g)
    BY <2>2, <2>3, <2>4 DEF InterNames, RowNames
  <2>8. /\ held' \in [Clients -> Ids(GrantIds)]
        /\ \A c \in Clients, g \in GrantIds : held'[c] = g => held[c] = g \/ InterNames(old, c, g)
    BY <1>1, <1>3, <1>6, <2>4 DEF InterNames
  <2>9. RowBacked(new)
    BY <1>1, <2>3, <2>4, <2>5 DEF RowBacked, covers
  <2>10. Linked(i, it, new)
    BY <1>1, <1>2, <1>3, <1>4, <1>6, <2>1, <2>2, <2>3, <2>5, <2>6, <2>7, <2>8, <2>9 DEF Linked, old
  <2> QED BY <2>10
<1>7. CASE inter' = [inter EXCEPT ![i].prompt = "done"] /\ UNCHANGED <<codes, held>>
  <2> DEFINE it == [old EXCEPT !.prompt = "done"]
  <2>1. inter' = [inter EXCEPT ![i] = it] BY <1>1, <1>7 DEF Inv, RowTypes, Interaction
  <2>2. /\ it \in Interaction /\ it.prompt = "done" /\ it.client = old.client /\ it.resource = old.resource
        /\ it.grant = old.grant /\ it.given = old.given
    BY <1>1 DEF Interaction
  <2> HIDE DEF it, old
  <2>3. Matches(it) BY <1>1, <2>2 DEF Matches
  <2>4. \A c \in Clients, g \in GrantIds : InterNames(it, c, g) => InterNames(old, c, g)
    BY <2>2 DEF InterNames
  <2>5. codes' = [codes EXCEPT ![i] = codes[i]] BY <1>7 DEF Inv, RowTypes
  <2>6. Linked(i, it, codes[i])
    BY <1>1, <1>2, <1>3, <1>4, <1>7, <2>1, <2>2, <2>3, <2>4, <2>5 DEF Linked, old
  <2> QED BY <2>6
<1> QED BY <1>5, <1>6, <1>7 DEF Resume

LEMMA ResultLinks ==
  ASSUME Inv, NEW r \in Requests, Result(r)
  PROVE \E i \in Interactions : \E it, row : Linked(i, it, row)
<1> DEFINE i == req[r].of
           old == inter[i]
<1>1. /\ req[r].at \in {"login", "consent", "deny"} /\ req' = [req EXCEPT ![r] = Idle] /\ req[r] \in Request
      /\ UNCHANGED <<held, grants, codes, tokens, devices, closed, taken>> /\ i \in Interactions
      /\ SeesClient(req[r])
  BY DEF Result, Done, Inv, RowTypes, Placed, HasIds, Interacting, Sees
<1>2. /\ old \in Interaction /\ codes[i] \in Token
      /\ Matches(old) /\ Matches(codes[i]) /\ OfGrant(codes[i]) /\ RowBacked(codes[i])
      /\ old.client = "bridge" => Backed(old.given) /\ old.grant = NoId
      /\ codes[i].client = "bridge" => old.client = "bridge" /\ old.prompt = "done" /\ codes[i].grant = old.given
  BY <1>1 DEF Inv, RowTypes, Matched, Placed, AllBacked, OwnGrant
<1>3. /\ \A c \in Clients, g \in GrantIds : held[c] = g \/ InterNames(old, c, g) \/ RowNames(codes[i], c, g) => Names(c, g)
      /\ held \in [Clients -> Ids(GrantIds)] /\ codes' = [codes EXCEPT ![i] = codes[i]]
  BY <1>1 DEF Names, Inv, RowTypes
<1>4. req' \in [Requests -> Request] /\ \A s \in Requests : req'[s] = IF s = r THEN Idle ELSE req[s]
  BY <1>1, Nulls DEF Inv, RowTypes
<1>5. \A s \in Requests : Approving(req'[s]) => s # r /\ req'[s] = req[s]
  BY <1>4 DEF Approving, Idle
<1>6. old.client = "bridge" /\ old.given # NoId =>
        /\ \A j \in Interactions : inter[j].given = old.given => i = j
        /\ \A s \in Requests : Approving(req'[s]) => req'[s].grant # old.given
  BY <1>1, <1>5 DEF Inv, OwnGrant
<1>7. CASE old.prompt \notin {"login", "consent"}
  <2>1. inter' = [inter EXCEPT ![i] = old] BY <1>1, <1>7 DEF Result, Inv, RowTypes
  <2> HIDE DEF i, old
  <2>2. Linked(i, old, codes[i])
    BY <1>1, <1>2, <1>3, <1>4, <1>6, <2>1 DEF Linked, old
  <2> QED BY <1>1, <2>2
<1>8. CASE old.prompt \in {"login", "consent"} /\ req[r].at # "consent"
  <2> DEFINE it == IF req[r].at = "login" THEN [old EXCEPT !.result = "login", !.account = req[r].user]
                   ELSE [old EXCEPT !.result = "denied"]
  <2>1. inter' = [inter EXCEPT ![i] = it]
    BY <1>1, <1>2, <1>8 DEF Result, Is, Inv, RowTypes, Interaction
  <2>2. /\ it \in Interaction /\ it.prompt = old.prompt /\ it.client = old.client /\ it.resource = old.resource
        /\ it.grant = old.grant /\ it.given = old.given
    BY <1>1, <1>2 DEF Interaction, Request
  <2> HIDE DEF it, old, i
  <2>3. Matches(it) BY <1>2, <2>2 DEF Matches
  <2>4. \A c \in Clients, g \in GrantIds : InterNames(it, c, g) => InterNames(old, c, g)
    BY <2>2 DEF InterNames
  <2>5. Linked(i, it, codes[i])
    BY <1>1, <1>2, <1>3, <1>4, <1>6, <2>1, <2>2, <2>3, <2>4 DEF Linked, old
  <2> QED BY <1>1, <2>5
<1>9. CASE old.prompt \in {"login", "consent"} /\ req[r].at = "consent"
  <2> DEFINE it == [old EXCEPT !.result = "consent", !.given = req[r].grant]
  <2>1. inter' = [inter EXCEPT ![i] = it]
    BY <1>1, <1>2, <1>9 DEF Result, Is, Inv, RowTypes, Interaction
  <2>2. req[r].grant \in GrantIds /\ req[r].seen.client = old.client
    BY <1>1, <1>9 DEF Inv, Placed, HasIds, Granting, SeesClient, Interacting
  <2>3. /\ it \in Interaction /\ it.prompt = old.prompt /\ it.client = old.client /\ it.resource = old.resource
        /\ it.grant = old.grant /\ it.given = req[r].grant
    BY <1>2, <2>2 DEF Interaction, Ids
  <2> HIDE DEF it, old, i
  <2>4. Matches(it) BY <1>2, <2>3 DEF Matches
  <2>5. \A c \in Clients, g \in GrantIds : InterNames(it, c, g) => InterNames(old, c, g) \/ RequestNames(req[r], c, g)
    BY <1>9, <2>2, <2>3 DEF InterNames, RequestNames, Granting
  <2>6. \A c \in Clients, g \in GrantIds : InterNames(it, c, g) => Names(c, g)
    BY <1>3, <2>5 DEF Names
  <2>7. it.client = "bridge" => /\ Backed(it.given) /\ Approving(req[r])
                                /\ \A j \in Interactions : inter[j].given # it.given
                                /\ \A s \in Requests : Approving(req'[s]) => req'[s].grant # it.given
    <3> SUFFICES ASSUME it.client = "bridge"
                 PROVE /\ Backed(it.given) /\ Approving(req[r])
                       /\ \A j \in Interactions : inter[j].given # it.given
                       /\ \A s \in Requests : Approving(req'[s]) => req'[s].grant # it.given
      OBVIOUS
    <3>1. Approving(req[r]) BY <1>9, <2>2, <2>3 DEF Approving
    <3>2. Backed(req[r].grant) BY <1>9, <2>2, <2>3 DEF Inv, AllBacked
    <3> QED BY <1>5, <2>3, <3>1, <3>2 DEF Inv, OwnGrant
  <2>8. codes[i].client # "bridge" BY <1>2, <1>9
  <2>9. Linked(i, it, codes[i])
    BY <1>1, <1>2, <1>3, <1>4, <1>9, <2>1, <2>3, <2>4, <2>6, <2>7, <2>8 DEF Linked, old
  <2> QED BY <1>1, <2>9
<1> QED BY <1>7, <1>8, <1>9

-----------------------------------------------------------------------------
(* The three steps that add a row.                                         *)

(* A token row carries on the code or the refresh token it is issued for.  *)
LEMMA IssueKeeps ==
  ASSUME Inv, NEW r \in Requests, Issue(r)
  PROVE Inv'
<1>1. PICK t \in Fresh(Tokens) : /\ tokens' = [tokens EXCEPT ![t] = [req[r].token EXCEPT !.kind = req[r].at]]
                                 /\ taken' = taken \cup {t}
  BY DEF Issue
<1> DEFINE new == [req[r].token EXCEPT !.kind = req[r].at]
           old == req[r].token
           q == IF req[r].at = "AccessToken" THEN [req[r] EXCEPT !.at = "RefreshToken"] ELSE Idle
<1>2. t \in Tokens /\ req[r] \in Request /\ old \in Token BY <1>1, FreshIds DEF Inv, RowTypes, Request
<1>3. /\ new \in Token /\ new.grant = old.grant /\ new.account = old.account /\ new.client = old.client
      /\ new.resource = old.resource /\ new.live = old.live
  BY <1>2 DEF Issue, Token, Models
<1>4. /\ req' = [req EXCEPT ![r] = q]
      /\ UNCHANGED <<held, inter, grants, codes, devices, closed>>
  BY <1>2 DEF Issue, Is, Goto, Done, Request, Inv, RowTypes
<1>5. /\ q \in Request /\ q.at \in {"RefreshToken", "idle"} /\ q.token \in {old, NoToken}
  BY <1>2, Nulls DEF Request, Idle
<1>6. /\ tokens' = [tokens EXCEPT ![t] = new] /\ tokens'[t] = new /\ \A u \in Tokens : u # t => tokens'[u] = tokens[u]
  BY <1>1, <1>2 DEF Inv, RowTypes
<1> HIDE DEF new, old, q
<1>7. \A s \in Requests : req'[s] = IF s = r THEN q ELSE req[s]
  BY <1>4 DEF Inv, RowTypes
<1>8. /\ OfGrant(old) /\ Matches(old) /\ RowBacked(old)
      /\ \A c \in Clients, g \in GrantIds : RowNames(old, c, g) => Names(c, g)
  BY DEF Inv, Placed, Matched, AllBacked, Names, RequestNames, old
<1>9. /\ OfGrant(new) /\ Matches(new) /\ \A c \in Clients, g \in GrantIds : RowNames(new, c, g) => RowNames(old, c, g)
  BY <1>3, <1>8 DEF OfGrant, Matches, RowNames
<1>10. HasIds(q) /\ ~Approving(q) /\ q.at \notin Interacting
  BY <1>5 DEF HasIds, Interacting, Granting, Approving
<1>11. RowTypes' BY <1>1, <1>2, <1>3, <1>4, <1>5, <1>6 DEF Inv, RowTypes
<1>12. Placed' BY <1>4, <1>5, <1>6, <1>7, <1>8, <1>9, <1>10, Nulls DEF Inv, Placed
<1>13. Matched' BY <1>4, <1>5, <1>6, <1>7, <1>8, <1>9, Nulls DEF Inv, Matched
<1>14. ClosedGone' BY <1>4 DEF Inv, ClosedGone
<1>15. \A c \in Clients, g \in GrantIds : Names(c, g)' => Names(c, g)
  <2> SUFFICES ASSUME NEW c \in Clients, NEW g \in GrantIds, Names(c, g)' PROVE Names(c, g)
    OBVIOUS
  <2>1. CASE \E u \in Tokens : RowNames(tokens'[u], c, g)
    BY <1>6, <1>8, <1>9, <2>1 DEF Names
  <2>2. CASE \E s \in Requests : RequestNames(req'[s], c, g)
    <3>1. RequestNames(q, c, g) => RowNames(old, c, g)
      BY <1>5, <1>10, Nulls, GrantsAssumption DEF RequestNames, RowNames, Granting, Interacting
    <3> QED BY <1>7, <1>8, <2>2, <3>1 DEF Names
  <2> QED BY <1>4, <2>1, <2>2 DEF Names
<1>16. Apart' /\ Given' BY <1>1, <1>4, <1>15 DEF Inv, Apart, Given, Clients
<1>17. Sees' BY <1>4, <1>7, <1>10, <1>5 DEF Inv, Sees, SeesClient
<1>18. AllBacked'
  <2>1. \A x : RowBacked(x) => RowBacked(x)' BY <1>4 DEF RowBacked, Backed, LiveGrant
  <2>2. \A g : Backed(g) => Backed(g)' BY <1>4 DEF Backed, LiveGrant
  <2>3. \A i \in Interactions : RowBacked(codes[i])' /\ (inter[i].client = "bridge" => Backed(inter[i].given))'
    BY <1>4 DEF Inv, AllBacked, RowBacked, Backed, LiveGrant
  <2>4. RowBacked(new)
    BY <1>3, <1>8 DEF RowBacked
  <2>5. \A u \in Tokens : RowBacked(tokens[u])'
    BY <1>6, <2>1, <2>4 DEF Inv, AllBacked, RowBacked
  <2>6. \A s \in Requests : RowBacked(req[s].token)'
    BY <1>5, <1>7, <1>8, <2>1, Nulls DEF Inv, AllBacked, RowBacked
  <2>7. \A s \in Requests : (req[s].at = "consent" /\ req[s].seen.client = "bridge" => Backed(req[s].grant))'
    BY <1>4, <1>5, <1>7 DEF Inv, AllBacked, Backed, LiveGrant
  <2>8. \A s \in Requests : (req[s].at = "device" /\ LiveGrant(req[s].grant) => grants[req[s].grant].account = req[s].user)'
    BY <1>4, <1>5, <1>7 DEF Inv, AllBacked, LiveGrant
  <2> QED BY <2>3, <2>5, <2>6, <2>7, <2>8 DEF AllBacked
<1>19. OwnGrant' BY <1>4, <1>7, <1>10 DEF Inv, OwnGrant
<1>20. OwnDevice' BY <1>4 DEF Inv, OwnDevice
<1> QED BY <1>11, <1>12, <1>13, <1>14, <1>16, <1>17, <1>18, <1>19, <1>20 DEF Inv

(* The device's row, or, when it fails, the grant to undo. *)
LEMMA CreateDeviceKeeps ==
  ASSUME Inv, NEW r \in Requests, CreateDevice(r)
  PROVE Inv'
<1> DEFINE g == req[r].grant
<1>1. /\ req[r].at = "device" /\ req[r] \in Request /\ g \in GrantIds /\ req[r].of \in Interactions
      /\ HasIds(req[r]) /\ SeesClient(req[r]) /\ req[r].seen.client = "bridge" /\ Approving(req[r])
  BY DEF CreateDevice, Is, Inv, RowTypes, Placed, HasIds, Sees, SeesClient, Approving, Granting, Interacting
<1>2. UNCHANGED <<held, inter, grants, codes, tokens, closed>> BY DEF CreateDevice, models
<1>3. PICK at \in {"consent", "undo"} :
        /\ req' = [req EXCEPT ![r].at = at]
        /\ \/ /\ at = "consent"
              /\ \E d \in Fresh(Devices) : /\ devices' = [devices EXCEPT ![d] = [user |-> req[r].user, grant |-> g, revoked |-> FALSE]]
                                           /\ taken' = taken \cup {d}
           \/ at = "undo" /\ UNCHANGED <<devices, taken>>
  BY DEF CreateDevice, Goto
<1> DEFINE q == [req[r] EXCEPT !.at = at]
<1>4. /\ q \in Request /\ q.at = at /\ q.of = req[r].of /\ q.seen = req[r].seen /\ q.grant = g /\ q.token = req[r].token
      /\ q.user = req[r].user
  BY <1>1 DEF Request
<1>5. req' = [req EXCEPT ![r] = q] BY <1>1, <1>3 DEF Request, Inv, RowTypes
<1> HIDE DEF q
<1>6. \A s \in Requests : req'[s] = IF s = r THEN q ELSE req[s] BY <1>5 DEF Inv, RowTypes
<1>7. HasIds(q) /\ SeesClient(q)
  BY <1>1, <1>3, <1>4 DEF HasIds, SeesClient, Granting, Interacting
<1>8. \A c \in Clients, h \in GrantIds : RequestNames(q, c, h) => RequestNames(req[r], c, h)
  BY <1>1, <1>3, <1>4 DEF RequestNames, Granting, Interacting
<1>9. \A s \in Requests : /\ Approving(req'[s]) => Approving(req[s]) /\ req'[s].grant = req[s].grant
                          /\ req'[s].at = "device" => s # r
  BY <1>1, <1>3, <1>4, <1>6 DEF Approving
<1>10. Matched' BY <1>2, <1>3, <1>4, <1>6 DEF Inv, Matched
<1>11. ClosedGone' BY <1>2 DEF Inv, ClosedGone
<1>12. Sees'
  BY <1>2, <1>6, <1>7 DEF Inv, Sees, SeesClient
<1>13. (\A i \in Interactions : OfGrant(codes[i])') /\ (\A t \in Tokens : OfGrant(tokens[t])')
       /\ \A s \in Requests : HasIds(req'[s]) /\ OfGrant(req'[s].token)
  BY <1>2, <1>4, <1>6, <1>7 DEF Inv, Placed
<1>14. CASE at = "undo"
  <2>1. UNCHANGED <<devices, taken>> BY <1>3, <1>14
  <2>2. RowTypes' BY <1>2, <1>4, <1>5, <2>1 DEF Inv, RowTypes
  <2>3. Placed' BY <1>13, <2>1 DEF Inv, Placed
  <2>4. \A c \in Clients, h \in GrantIds : Names(c, h)' => Names(c, h)
    <3> SUFFICES ASSUME NEW c \in Clients, NEW h \in GrantIds, Names(c, h)' PROVE Names(c, h)
      OBVIOUS
    <3>1. CASE \E s \in Requests : RequestNames(req'[s], c, h) BY <1>6, <1>8, <3>1 DEF Names
    <3> QED BY <1>2, <2>1, <3>1 DEF Names
  <2>5. Apart' /\ Given' BY <2>1, <2>4 DEF Inv, Apart, Given, Clients
  <2>6. AllBacked'
    <3>1. \A row : RowBacked(row)' <=> RowBacked(row) BY <1>2, <2>1 DEF RowBacked, Backed, LiveGrant
    <3>2. \A h : Backed(h)' <=> Backed(h) BY <1>2, <2>1 DEF Backed, LiveGrant
    <3> QED BY <1>2, <1>4, <1>6, <1>14, <3>1, <3>2 DEF Inv, AllBacked, LiveGrant
  <2>7. OwnGrant' BY <1>2, <1>6, <1>9, <2>1 DEF Inv, OwnGrant
  <2>8. OwnDevice' BY <1>2, <2>1 DEF Inv, OwnDevice
  <2> QED BY <1>10, <1>11, <1>12, <2>2, <2>3, <2>5, <2>6, <2>7, <2>8 DEF Inv
<1>15. CASE at = "consent"
  <2>1. PICK d \in Fresh(Devices) : /\ devices' = [devices EXCEPT ![d] = [user |-> req[r].user, grant |-> g, revoked |-> FALSE]]
                                    /\ taken' = taken \cup {d}
    BY <1>3, <1>15
  <2> DEFINE new == [user |-> req[r].user, grant |-> g, revoked |-> FALSE]
  <2>2. new \in Device /\ d \in Devices /\ d \notin taken BY <1>1, <2>1, FreshIds DEF Device, Request, Ids
  <2>3. devices[d] = NoDevice /\ devices'[d] = new /\ \A e \in Devices : e # d => devices'[e] = devices[e]
    BY <2>1, <2>2 DEF Inv, RowTypes, Given
  <2>4. new.user = req[r].user /\ new.grant = g /\ new.revoked = FALSE OBVIOUS
  <2>5. RowTypes' BY <1>2, <1>4, <1>5, <2>1, <2>2 DEF Inv, RowTypes
  <2> HIDE DEF new, g
  <2>6. Placed'
    <3>1. \A e \in Devices : devices'[e].user # NoUser => devices'[e].grant # NoId
      BY <1>1, <2>3, <2>4, GrantsAssumption DEF Inv, Placed
    <3> QED BY <1>13, <3>1 DEF Placed
  <2>7. \A c \in Clients, h \in GrantIds : Names(c, h)' => Names(c, h)
    <3> SUFFICES ASSUME NEW c \in Clients, NEW h \in GrantIds, Names(c, h)' PROVE Names(c, h)
      OBVIOUS
    <3>1. CASE \E s \in Requests : RequestNames(req'[s], c, h) BY <1>6, <1>8, <3>1 DEF Names
    <3>2. CASE c = "bridge" /\ \E e \in Devices : devices'[e].grant = h
      <4>1. CASE devices'[d].grant = h
        <5>1. RequestNames(req[r], "bridge", h)
          BY <1>1, <2>3, <2>4, <4>1 DEF RequestNames, Granting, g
        <5> QED BY <3>2, <5>1 DEF Names
      <4>2. CASE devices'[d].grant # h BY <2>3, <3>2, <4>2 DEF Names
      <4> QED BY <4>1, <4>2
    <3> QED BY <1>2, <3>1, <3>2 DEF Names
  <2>8. Apart' /\ Given' BY <2>1, <2>3, <2>7 DEF Inv, Apart, Given, Clients
  <2>9. AllBacked'
    <3>1. \A h : Backed(h) => Backed(h)'
      <4> SUFFICES ASSUME NEW h, Backed(h), LiveGrant(h)
                   PROVE \E e \in Devices : devices'[e] = [user |-> grants[h].account, grant |-> h, revoked |-> FALSE]
        BY <1>2 DEF Backed, LiveGrant
      <4>1. PICK e \in Devices : devices[e] = [user |-> grants[h].account, grant |-> h, revoked |-> FALSE] BY DEF Backed
      <4>2. e # d BY <2>3, <4>1 DEF NoDevice, LiveGrant
      <4> QED BY <2>3, <4>1, <4>2
    <3>2. \A row : RowBacked(row) => RowBacked(row)' BY <1>2, <3>1 DEF RowBacked, LiveGrant
    <3>3. \A i \in Interactions : RowBacked(codes[i])' BY <1>2, <3>2 DEF Inv, AllBacked, RowBacked
    <3>4. \A i \in Interactions : (inter[i].client = "bridge" => Backed(inter[i].given))'
      BY <1>2, <3>1 DEF Inv, AllBacked, Backed, LiveGrant
    <3>5. \A t \in Tokens : RowBacked(tokens[t])' BY <1>2, <3>2 DEF Inv, AllBacked, RowBacked
    <3>6. \A s \in Requests : RowBacked(req[s].token)'
      BY <1>4, <1>6, <3>2 DEF Inv, AllBacked, RowBacked
    <3>7. \A s \in Requests : (req[s].at = "consent" /\ req[s].seen.client = "bridge" => Backed(req[s].grant))'
      <4> SUFFICES ASSUME NEW s \in Requests, req'[s].at = "consent", req'[s].seen.client = "bridge"
                   PROVE Backed(req[s].grant)'
        OBVIOUS
      <4>1. CASE s = r
        <5>1. req'[s].grant = g BY <1>4, <1>6, <4>1
        <5>2. LiveGrant(g) => grants[g].account = req[r].user BY <1>1 DEF Inv, AllBacked, g
        <5>3. LiveGrant(g) => devices'[d] = [user |-> grants[g].account, grant |-> g, revoked |-> FALSE]
          BY <2>3, <5>2 DEF new
        <5> QED BY <1>2, <2>2, <5>1, <5>3 DEF Backed, LiveGrant
      <4>2. CASE s # r
        <5>1. req'[s] = req[s] /\ Backed(req[s].grant) BY <1>6, <4>2 DEF Inv, AllBacked
        <5> QED BY <3>1, <5>1 DEF Backed, LiveGrant
      <4> QED BY <4>1, <4>2
    <3>8. \A s \in Requests : (req[s].at = "device" /\ LiveGrant(req[s].grant) => grants[req[s].grant].account = req[s].user)'
      BY <1>2, <1>6, <1>9 DEF Inv, AllBacked, LiveGrant
    <3> QED BY <3>3, <3>4, <3>5, <3>6, <3>7, <3>8 DEF AllBacked
  <2>10. OwnGrant'
    <3>1. \A s \in Requests : req'[s].at = "device" /\ Approving(req'[s]) => \A e \in Devices : devices'[e].grant # req'[s].grant
      BY <1>1, <1>6, <1>9, <2>3, <2>4 DEF Inv, OwnGrant, g
    <3> QED BY <1>2, <1>9, <3>1 DEF Inv, OwnGrant
  <2>11. OwnDevice'
    <3>1. \A e \in Devices : devices[e].grant # g BY <1>1 DEF Inv, OwnGrant, g
    <3>2. g # NoId BY <1>1, GrantsAssumption
    <3> QED BY <1>2, <2>3, <2>4, <3>1, <3>2 DEF Inv, OwnDevice
  <2> QED BY <1>10, <1>11, <1>12, <2>5, <2>6, <2>8, <2>9, <2>10, <2>11 DEF Inv
<1> QED BY <1>3, <1>14, <1>15

(* A Grant row is stored: a new one, or an agent's again. *)
LEMMA SaveGrantKeeps ==
  ASSUME Inv, NEW r \in Requests, SaveGrant(r)
  PROVE Inv'
<1> DEFINE it == req[r].seen
<1>1. /\ req[r].at \in {"new", "save"} /\ req[r] \in Request /\ it \in Interaction /\ it.client \in Clients
      /\ HasIds(req[r]) /\ SeesClient(req[r]) /\ ~Approving(req[r]) /\ req[r].at \in Interacting
      /\ UNCHANGED <<held, inter, codes, tokens, devices>>
  BY DEF SaveGrant, Is, Inv, RowTypes, Request, Interaction, Placed, Sees, Approving, Interacting
<1>2. PICK g \in IF req[r].at = "save" THEN {req[r].grant} ELSE Fresh(GrantIds) :
        /\ grants' = [grants EXCEPT ![g] = [account |-> req[r].user, client |-> it.client, resource |-> it.resource, live |-> TRUE]]
        /\ closed' = closed \ {g} /\ taken' = taken \cup {g}
        /\ req' = [req EXCEPT ![r].at = IF it.client = "bridge" THEN "device" ELSE "consent", ![r].grant = g]
  BY DEF SaveGrant, Is
<1>3. g \in GrantIds /\ (req[r].at # "save" => g \notin taken) BY <1>1, <1>2, FreshIds DEF HasIds, Granting
<1> DEFINE at == IF it.client = "bridge" THEN "device" ELSE "consent"
           q == [req[r] EXCEPT !.at = at, !.grant = g]
           new == [account |-> req[r].user, client |-> it.client, resource |-> it.resource, live |-> TRUE]
<1>4. /\ q \in Request /\ q.at = at /\ q.of = req[r].of /\ q.seen = it /\ q.grant = g /\ q.token = req[r].token
      /\ q.user = req[r].user /\ new \in Grant /\ new.account = req[r].user
  BY <1>1, <1>3 DEF Request, Ids, Grant, Interaction
<1>5. req' = [req EXCEPT ![r] = q] BY <1>1, <1>2 DEF Request, Inv, RowTypes
<1>6. grants'[g] = new /\ \A h : h # g => grants'[h] = grants[h] BY <1>2, <1>3 DEF Inv, RowTypes
<1>7. RowTypes' BY <1>1, <1>2, <1>3, <1>4, <1>5 DEF Inv, RowTypes
<1> HIDE DEF q, new
<1>8. \A s \in Requests : req'[s] = IF s = r THEN q ELSE req[s] BY <1>5 DEF Inv, RowTypes
<1>9. at \in {"device", "consent"} /\ (at = "device" <=> it.client = "bridge") OBVIOUS
<1>10. HasIds(q) /\ SeesClient(q)
  BY <1>1, <1>3, <1>4, <1>9 DEF HasIds, SeesClient, Granting, Interacting
<1>11. \A s \in Requests : s # r /\ Approving(req[s]) => Names("bridge", req[s].grant) /\ req[s].grant \in GrantIds
  BY DEF Names, RequestNames, Approving, Granting, Inv, Placed, HasIds
<1>12. ~Names("bridge", g)
  <2>1. CASE req[r].at = "save"
    <3>1. RequestNames(req[r], "agent", g) BY <1>1, <1>2, <2>1 DEF RequestNames, SeesClient, Granting
    <3>2. Names("agent", g) BY <3>1 DEF Names
    <3> QED BY <1>3, <3>2 DEF Inv, Apart
  <2>2. CASE req[r].at # "save" BY <1>3, <2>2 DEF Inv, Given, Clients
  <2> QED BY <2>1, <2>2
<1>13. \A c \in Clients, h \in GrantIds : Names(c, h)' => Names(c, h) \/ (c = it.client /\ h = g)
  <2> SUFFICES ASSUME NEW c \in Clients, NEW h \in GrantIds, Names(c, h)' PROVE Names(c, h) \/ (c = it.client /\ h = g)
    OBVIOUS
  <2>1. CASE \E s \in Requests : RequestNames(req'[s], c, h)
    <3>1. RequestNames(q, c, h) => RequestNames(req[r], c, h) \/ (c = it.client /\ h = g)
      BY <1>1, <1>4 DEF RequestNames
    <3> QED BY <1>8, <2>1, <3>1 DEF Names
  <2> QED BY <1>1, <2>1 DEF Names
<1>14. it.client = "bridge" => req[r].at = "new" /\ \A c \in Clients : ~Names(c, g)
  BY <1>1, <1>3 DEF SeesClient, Inv, Given
<1>15. Apart'
  <2> SUFFICES ASSUME NEW h \in GrantIds, Names("bridge", h)', Names("agent", h)' PROVE FALSE
    BY DEF Apart
  <2>1. h = g BY <1>13 DEF Inv, Apart, Clients
  <2> QED BY <1>12, <1>13, <1>14, <2>1 DEF Clients
<1>16. Given' BY <1>1, <1>2, <1>13 DEF Inv, Given
<1>17. Placed' BY <1>1, <1>4, <1>8, <1>10 DEF Inv, Placed
<1>18. Matched' BY <1>1, <1>4, <1>8, <1>9 DEF Inv, Matched
<1>19. ClosedGone' BY <1>2, <1>6 DEF Inv, ClosedGone
<1>20. Sees' BY <1>1, <1>8, <1>10 DEF Inv, Sees, SeesClient
<1>21. AllBacked'
  <2>1. \A h : h # g /\ Backed(h) => Backed(h)' BY <1>1, <1>6 DEF Backed, LiveGrant
  <2>3. \A i \in Interactions : RowBacked(codes[i])'
    <3> SUFFICES ASSUME NEW i \in Interactions PROVE RowBacked(codes[i])'
      OBVIOUS
    <3>1. RowBacked(codes[i]) /\ (codes[i].client = "bridge" /\ codes[i].grant = g => Names("bridge", g))
      BY DEF Inv, AllBacked, Names, RowNames
    <3> QED BY <1>1, <1>6, <1>12, <2>1, <3>1 DEF RowBacked, LiveGrant
  <2>4. \A i \in Interactions : (inter[i].client = "bridge" => Backed(inter[i].given))'
    <3> SUFFICES ASSUME NEW i \in Interactions, inter[i].client = "bridge" PROVE Backed(inter[i].given)'
      BY <1>1
    <3>1. inter'[i] = inter[i] /\ Backed(inter[i].given) BY <1>1 DEF Inv, AllBacked
    <3>2. inter[i].given # g BY <1>12 DEF Names, InterNames
    <3> QED BY <2>1, <3>1, <3>2 DEF Backed, LiveGrant
  <2>5. \A t \in Tokens : RowBacked(tokens[t])'
    <3> SUFFICES ASSUME NEW t \in Tokens PROVE RowBacked(tokens[t])'
      OBVIOUS
    <3>1. RowBacked(tokens[t]) /\ (tokens[t].client = "bridge" /\ tokens[t].grant = g => Names("bridge", g))
      BY DEF Inv, AllBacked, Names, RowNames
    <3> QED BY <1>1, <1>6, <1>12, <2>1, <3>1 DEF RowBacked, LiveGrant
  <2>6. \A s \in Requests : RowBacked(req[s].token)'
    <3> SUFFICES ASSUME NEW s \in Requests PROVE RowBacked(req[s].token)'
      OBVIOUS
    <3>1. RowBacked(req[s].token) /\ (req[s].token.client = "bridge" /\ req[s].token.grant = g => Names("bridge", g))
      BY DEF Inv, AllBacked, Names, RequestNames, RowNames
    <3>2. req'[s].token = req[s].token BY <1>4, <1>8
    <3> QED BY <1>6, <1>12, <2>1, <3>1, <3>2 DEF RowBacked, LiveGrant
  <2>7. \A s \in Requests : (req[s].at = "consent" /\ req[s].seen.client = "bridge" => Backed(req[s].grant))'
    <3> SUFFICES ASSUME NEW s \in Requests, req'[s].at = "consent", req'[s].seen.client = "bridge"
                 PROVE Backed(req[s].grant)'
      OBVIOUS
    <3>1. s # r /\ req'[s] = req[s] BY <1>4, <1>8, <1>9
    <3>2. Backed(req[s].grant) /\ req[s].grant # g
      BY <1>11, <1>12, <3>1 DEF Inv, AllBacked, Approving
    <3> QED BY <2>1, <3>1, <3>2 DEF Backed, LiveGrant
  <2>8. \A s \in Requests : (req[s].at = "device" /\ LiveGrant(req[s].grant) => grants[req[s].grant].account = req[s].user)'
    <3> SUFFICES ASSUME NEW s \in Requests, req'[s].at = "device", LiveGrant(req[s].grant)'
                 PROVE grants'[req'[s].grant].account = req'[s].user
      OBVIOUS
    <3>1. CASE s = r BY <1>4, <1>6, <1>8, <3>1
    <3>2. CASE s # r
      <4>1. req'[s] = req[s] /\ Approving(req[s]) BY <1>8, <3>2 DEF Inv, Sees, SeesClient, Approving
      <4>2. req[s].grant # g BY <1>11, <1>12, <3>2, <4>1
      <4> QED BY <1>6, <4>1, <4>2 DEF Inv, AllBacked, LiveGrant
    <3> QED BY <3>1, <3>2
  <2> QED BY <2>3, <2>4, <2>5, <2>6, <2>7, <2>8 DEF AllBacked
<1>22. OwnGrant'
  <2>1. it.client = "bridge" => /\ \A i \in Interactions : inter[i].given # g
                                /\ \A d \in Devices : devices[d].grant # g
    <3>1. \A i \in Interactions : inter[i].given = g => Names(inter[i].client, g) /\ inter[i].client \in Clients
      BY DEF Names, InterNames, Inv, RowTypes, Interaction
    <3> QED BY <1>12, <1>14, <3>1 DEF Names
  <2>2. Approving(q) => it.client = "bridge" BY <1>4 DEF Approving
  <2>3. \A s \in Requests : s # r /\ Approving(req[s]) => req[s].grant # g BY <1>11, <1>12
  <2>4. \A s \in Requests : Approving(req'[s]) =>
          /\ \A i \in Interactions : inter'[i].given # req'[s].grant
          /\ \A t \in Requests : Approving(req'[t]) /\ req'[t].grant = req'[s].grant => t = s
          /\ req'[s].at = "device" => \A d \in Devices : devices'[d].grant # req'[s].grant
    BY <1>1, <1>4, <1>8, <2>1, <2>2, <2>3 DEF Inv, OwnGrant
  <2> QED BY <1>1, <2>4 DEF Inv, OwnGrant
<1>23. OwnDevice'
  <2>1. \A d \in Devices : devices[d].grant # g BY <1>12 DEF Names
  <2> QED BY <1>1, <1>6, <2>1 DEF Inv, OwnDevice
<1> QED BY <1>7, <1>15, <1>16, <1>17, <1>18, <1>19, <1>20, <1>21, <1>22, <1>23 DEF Inv

-----------------------------------------------------------------------------
(* The invariant holds in every state.                                     *)

LEMMA InitInv == Init => IInv
<1> SUFFICES ASSUME Init PROVE IInv
  OBVIOUS
<1>1. /\ held = [c \in Clients |-> NoId] /\ inter = [i \in Interactions |-> NoInteraction]
      /\ grants = [g \in GrantIds |-> NoGrant] /\ codes = [i \in Interactions |-> NoToken]
      /\ tokens = [t \in Tokens |-> NoToken] /\ devices = [d \in Devices |-> NoDevice]
      /\ req = [r \in Requests |-> Idle] /\ closed = {} /\ taken = {}
  BY DEF Init
<1>2. /\ Idle.at = "idle" /\ Idle.token = NoToken /\ NoToken.client = "agent" /\ NoToken.grant = NoId
      /\ NoInteraction.client = "agent" /\ NoInteraction.grant = NoId /\ NoInteraction.given = NoId
      /\ NoDevice.grant = NoId /\ NoDevice.user = NoUser
  BY DEF Idle, NoToken, NoInteraction, NoDevice
<1>3. HasIds(Idle) /\ SeesClient(Idle) /\ ~Approving(Idle)
  BY <1>2 DEF HasIds, SeesClient, Approving, Interacting, Granting
<1>4. SmallTypes BY DEF Init, SmallTypes, Accounts
<1>5. RowTypes BY <1>1, Nulls DEF RowTypes, Ids
<1>6. Placed BY <1>1, <1>2, <1>3, Nulls DEF Placed
<1>7. Matched BY <1>1, <1>2, Nulls DEF Matched
<1>8. ClosedGone BY <1>1 DEF ClosedGone
<1>9. \A c \in Clients, g \in GrantIds : ~Names(c, g)
  BY <1>1, <1>2, GrantsAssumption DEF Names, InterNames, RowNames, RequestNames, Interacting, Granting
<1>10. Apart /\ Given BY <1>1, <1>9 DEF Apart, Given, Clients
<1>11. Sees BY <1>1, <1>3 DEF Sees
<1>12. AllBacked BY <1>1, <1>2 DEF AllBacked, RowBacked
<1>13. OwnGrant BY <1>1, <1>2, <1>3 DEF OwnGrant
<1>14. OwnDevice BY <1>1 DEF OwnDevice
<1> QED BY <1>4, <1>5, <1>6, <1>7, <1>8, <1>10, <1>11, <1>12, <1>13, <1>14 DEF IInv, Inv

LEMMA SmallTypesKept == ASSUME SmallTypes, Next PROVE SmallTypes'
<1>1. ASSUME NEW i \in Interactions, Start(i) \/ Resume(i) PROVE SmallTypes'
  BY <1>1 DEF SmallTypes, Start, Resume
<1>2. ASSUME NEW r \in Requests, Interact(r) PROVE SmallTypes'
  <2>1. CASE Ask(r) BY <2>1 DEF SmallTypes, Ask
  <2>2. CASE FindInteraction(r) \/ FindGrant(r) \/ SaveGrant(r)
    BY <2>2 DEF SmallTypes, FindInteraction, FindGrant, SaveGrant
  <2>3. CASE CreateDevice(r) BY <2>3 DEF SmallTypes, CreateDevice, Other
  <2>4. CASE Undo(r) \/ Result(r) BY <2>4 DEF SmallTypes, Undo, Result
  <2> QED BY <1>2, <2>1, <2>2, <2>3, <2>4 DEF Interact
<1>3. ASSUME NEW r \in Requests, TokenEndpoint(r) PROVE SmallTypes'
  <2>1. Redeem(r) \/ AskRevoke(r) => users' = users /\ web' = web /\ others' = others /\ sends' = sends + 1
    BY DEF Redeem, AskRevoke
  <2>2. CASE Consume(r) \/ Issue(r) \/ Revoke(r) BY <2>2 DEF SmallTypes, Consume, Issue, Revoke
  <2> QED BY <1>3, <2>1, <2>2 DEF TokenEndpoint, SmallTypes
<1>4. ASSUME NEW r \in Requests, RequireToken(r) \/ Fail(r) PROVE SmallTypes'
  <2>1. /\ Call(r) => users' = users /\ web' = web /\ others' = others /\ sends' = sends + 1
        /\ Fail(r) => users' = users /\ web' = web /\ others' = others + 1 /\ sends' = sends
    BY DEF Call, Fail, Other
  <2>2. CASE FindToken(r) \/ Accept(r) \/ Finish(r) BY <2>2 DEF SmallTypes, FindToken, Accept, Finish
  <2> QED BY <1>4, <2>1, <2>2 DEF RequireToken, SmallTypes
<1>5. CASE SwitchUser \/ DeleteAccount
  BY <1>5 DEF SmallTypes, SwitchUser, DeleteAccount, Other, Accounts
<1>6. CASE Expire \/ DeleteExpired
  BY <1>6 DEF SmallTypes, Expire, DeleteExpired, Other
<1>7. ASSUME NEW d \in Devices, RevokeDevice(d) PROVE SmallTypes'
  BY <1>7 DEF SmallTypes, RevokeDevice, Other
<1>8. ASSUME NEW g \in GrantIds, RevokeAgentGrant(g) PROVE SmallTypes'
  BY <1>8 DEF SmallTypes, RevokeAgentGrant, Other
<1> QED BY <1>1, <1>2, <1>3, <1>4, <1>5, <1>6, <1>7, <1>8 DEF Next

LEMMA StepKeeps == IInv /\ [Next]_vars => IInv'
<1> SUFFICES ASSUME IInv, [Next]_vars PROVE IInv'
  OBVIOUS
<1> USE DEF IInv
<1>1. ASSUME NEW i \in Interactions, Start(i) \/ Resume(i) PROVE Inv'
  <2>1. \E it, row : Linked(i, it, row) BY <1>1, StartLinks, ResumeLinks
  <2> QED BY <2>1, LinkedKeeps
<1>2. ASSUME NEW r \in Requests, Interact(r) PROVE Inv'
  <2>1. CASE Ask(r) \/ FindInteraction(r) \/ FindGrant(r)
    BY <2>1, AskMoves, FindInteractionMoves, FindGrantMoves, MovedKeeps
  <2>2. CASE SaveGrant(r) \/ CreateDevice(r) BY <2>2, SaveGrantKeeps, CreateDeviceKeeps
  <2>3. CASE Undo(r) BY <2>3, UndoEnds, EndedKeeps
  <2>4. CASE Result(r) BY <2>4, ResultLinks, LinkedKeeps
  <2> QED BY <1>2, <2>1, <2>2, <2>3, <2>4 DEF Interact
<1>3. ASSUME NEW r \in Requests, TokenEndpoint(r) PROVE Inv'
  <2>1. CASE Redeem(r) \/ AskRevoke(r) BY <2>1, RedeemMoves, AskRevokeMoves, MovedKeeps
  <2>2. CASE Consume(r) \/ Revoke(r) BY <2>2, ConsumeEnds, RevokeEnds, EndedKeeps
  <2>3. CASE Issue(r) BY <2>3, IssueKeeps
  <2> QED BY <1>3, <2>1, <2>2, <2>3 DEF TokenEndpoint
<1>4. ASSUME NEW r \in Requests, RequireToken(r) \/ Fail(r) PROVE Inv'
  BY <1>4, CallMoves, FindTokenMoves, AcceptMoves, DoneMoves, MovedKeeps DEF RequireToken
<1>5. ASSUME DeleteAccount \/ Expire \/ DeleteExpired \/ (\E d \in Devices : RevokeDevice(d)) \/ \E g \in GrantIds : RevokeAgentGrant(g)
      PROVE Inv'
  <2>1. Ended BY <1>5, DeleteAccountEnds, ExpireEnds, DeleteExpiredEnds, RevokeDeviceEnds, RevokeAgentGrantEnds
  <2> QED BY <2>1, EndedKeeps
<1>6. ASSUME SwitchUser \/ UNCHANGED vars PROVE Inv'
  <2>1. /\ held' = held /\ inter' = inter /\ grants' = grants /\ codes' = codes /\ tokens' = tokens
        /\ devices' = devices /\ req' = req /\ closed' = closed /\ taken' = taken
    BY <1>6 DEF SwitchUser, vars, models
  <2>2. (RowTypes /\ Placed /\ Matched /\ ClosedGone)' BY <2>1 DEF Inv, RowTypes, Placed, Matched, ClosedGone
  <2>3. \A c, g : Names(c, g)' <=> Names(c, g) BY <2>1 DEF Names
  <2>4. (Apart /\ Given /\ Sees)' BY <2>1, <2>3 DEF Inv, Apart, Given, Sees, SeesClient
  <2>5. \A g : Backed(g)' <=> Backed(g) BY <2>1 DEF Backed, LiveGrant
  <2>6. \A row : RowBacked(row)' <=> RowBacked(row) BY <2>1, <2>5 DEF RowBacked, LiveGrant
  <2>7. AllBacked' BY <2>1, <2>5, <2>6 DEF Inv, AllBacked, LiveGrant
  <2>8. (OwnGrant /\ OwnDevice)' BY <2>1 DEF Inv, OwnGrant, OwnDevice
  <2> QED BY <2>2, <2>4, <2>7, <2>8 DEF Inv
<1>7. SmallTypes' BY SmallTypesKept DEF SmallTypes, vars
<1> QED BY <1>1, <1>2, <1>3, <1>4, <1>5, <1>6, <1>7 DEF Next

LEMMA Invariance == Spec => []IInv
BY InitInv, StepKeeps, PTL DEF Spec

-----------------------------------------------------------------------------
(* The results.                                                            *)

(* Every variable keeps its type (the rows of oidc-adapter.ts, devices.ts  *)
(* and the requests of oidc.ts and oidc-tokens.ts).                        *)
THEOREM TypeCorrect == Spec => []TypeOK
<1>1. IInv => TypeOK BY DEF IInv, Inv, SmallTypes, RowTypes, TypeOK
<1> QED BY <1>1, Invariance, PTL

(* A call is accepted only where its grant is found. *)
NoneAccepted == \A r \in Requests : req'[r] = req[r] \/ req'[r].at # "accepted"

LEMMA OnlyAcceptAccepts ==
  ASSUME req \in [Requests -> Request], Next, NEW r \in Requests, req[r].at = "grant", req'[r].at = "accepted"
  PROVE GrantFits(req[r].token)
<1>1. \A s \in Requests : \A q : req' = [req EXCEPT ![s] = q] /\ q.at # "accepted" => NoneAccepted
  BY DEF NoneAccepted
<1>2. \A s \in Requests : \A at : Goto(s, at) /\ at # "accepted" => NoneAccepted
  BY DEF NoneAccepted, Goto, Request
<1>3. \A s \in Requests : Done(s) => NoneAccepted
  BY <1>1 DEF Done, Idle
<1>4. req' = req => NoneAccepted BY DEF NoneAccepted
<1>5. ~NoneAccepted BY DEF NoneAccepted
<1> HIDE DEF NoneAccepted
<1>6. ASSUME NEW s \in Requests, Interact(s) PROVE FALSE
  <2>1. CASE Ask(s)
    <3>1. PICK i \in Interactions, kind \in {"visit", "approve", "deny"} :
            req' = [req EXCEPT ![s] = [Idle EXCEPT !.at = "ask", !.kind = kind, !.user = web, !.of = i]]
      BY <2>1 DEF Ask
    <3>2. [Idle EXCEPT !.at = "ask", !.kind = kind, !.user = web, !.of = i].at = "ask" BY DEF Idle
    <3> QED BY <1>1, <1>5, <3>1, <3>2
  <2>2. CASE FindInteraction(s)
    <3>1. PICK at \in NextStep(req[s].kind, req[s].user, inter[req[s].of]) :
            req' = [req EXCEPT ![s] = IF at = "idle" THEN Idle ELSE [req[s] EXCEPT !.at = at, !.seen = inter[req[s].of]]]
      BY <2>2 DEF FindInteraction
    <3>2. at # "accepted" BY DEF NextStep
    <3>3. (IF at = "idle" THEN Idle ELSE [req[s] EXCEPT !.at = at, !.seen = inter[req[s].of]]).at # "accepted"
      BY <3>2 DEF Idle, Request
    <3> QED BY <1>1, <1>5, <3>1, <3>3
  <2>3. CASE FindGrant(s)
    BY <1>5, <2>3 DEF FindGrant, NoneAccepted, Request
  <2>4. CASE SaveGrant(s)
    BY <1>5, <2>4 DEF SaveGrant, NoneAccepted, Request
  <2>5. CASE CreateDevice(s) BY <1>2, <1>5, <2>5 DEF CreateDevice
  <2>6. CASE Undo(s) \/ Result(s) BY <1>3, <1>5, <2>6 DEF Undo, Result
  <2> QED BY <1>6, <2>1, <2>2, <2>3, <2>4, <2>5, <2>6 DEF Interact
<1>7. ASSUME NEW s \in Requests, TokenEndpoint(s) PROVE FALSE
  <2>1. CASE Redeem(s)
    <3>1. PICK row : req' = [req EXCEPT ![s] = IF row.used THEN [Idle EXCEPT !.at = "revoke", !.grant = row.grant, !.left = Models]
                                               ELSE [Idle EXCEPT !.at = "consume", !.token = row]]
      BY <2>1 DEF Redeem
    <3>2. (IF row.used THEN [Idle EXCEPT !.at = "revoke", !.grant = row.grant, !.left = Models]
           ELSE [Idle EXCEPT !.at = "consume", !.token = row]).at # "accepted"
      BY DEF Idle
    <3> QED BY <1>1, <1>5, <3>1, <3>2
  <2>2. CASE Consume(s) BY <1>2, <1>5, <2>2 DEF Consume
  <2>3. CASE Issue(s) BY <1>2, <1>3, <1>5, <2>3 DEF Issue
  <2>4. CASE AskRevoke(s)
    <3>1. PICK t \in Tokens : req' = [req EXCEPT ![s] = [Idle EXCEPT !.at = "revoke", !.grant = tokens[t].grant, !.left = Models]]
      BY <2>4 DEF AskRevoke
    <3>2. [Idle EXCEPT !.at = "revoke", !.grant = tokens[t].grant, !.left = Models].at = "revoke" BY DEF Idle
    <3> QED BY <1>1, <1>5, <3>1, <3>2
  <2>5. CASE Revoke(s)
    <3>1. req[s].at = "revoke" /\ (Done(s) \/ \E left : req' = [req EXCEPT ![s].left = left])
      BY <2>5 DEF Revoke, Is
    <3>2. CASE \E left : req' = [req EXCEPT ![s].left = left]
      BY <1>5, <3>1, <3>2 DEF NoneAccepted, Request
    <3> QED BY <1>3, <1>5, <3>1, <3>2
  <2> QED BY <1>7, <2>1, <2>2, <2>3, <2>4, <2>5 DEF TokenEndpoint
<1>8. ASSUME NEW s \in Requests, RequireToken(s) \/ Fail(s) PROVE GrantFits(req[r].token)
  <2>1. CASE Call(s)
    <3>1. PICK t \in Tokens, resource \in Resources :
            req' = [req EXCEPT ![s] = [Idle EXCEPT !.at = "call", !.of = t, !.resource = resource]]
      BY <2>1 DEF Call
    <3>2. [Idle EXCEPT !.at = "call", !.of = t, !.resource = resource].at = "call" BY DEF Idle
    <3> QED BY <1>1, <1>5, <3>1, <3>2
  <2>2. CASE FindToken(s)
    <3>1. PICK q : req' = [req EXCEPT ![s] = q] /\ q.at # "accepted"
      BY <2>2 DEF FindToken, Idle, Request
    <3> QED BY <1>1, <1>5, <3>1
  <2>3. CASE Accept(s)
    <3>1. CASE s # r BY <2>3, <3>1 DEF Accept, Goto, Request
    <3>2. CASE s = r BY <2>3, <3>2 DEF Accept, Goto, Request
    <3> QED BY <3>1, <3>2
  <2>4. CASE Finish(s) \/ Fail(s) BY <1>3, <1>5, <2>4 DEF Finish, Fail
  <2> QED BY <1>8, <2>1, <2>2, <2>3, <2>4 DEF RequireToken
<1>9. ASSUME req' = req PROVE FALSE BY <1>4, <1>5, <1>9
<1>10. (\E i \in Interactions : Start(i) \/ Resume(i)) => req' = req BY DEF Start, Resume
<1>11. SwitchUser \/ DeleteAccount \/ Expire \/ DeleteExpired => req' = req
  BY DEF SwitchUser, DeleteAccount, Expire, DeleteExpired
<1>12. (\E d \in Devices : RevokeDevice(d)) \/ (\E g \in GrantIds : RevokeAgentGrant(g)) => req' = req
  BY DEF RevokeDevice, RevokeAgentGrant
<1> QED BY <1>6, <1>7, <1>8, <1>9, <1>10, <1>11, <1>12 DEF Next

(* requireToken lets no call through whose grant is revoked, however the   *)
(* token's row came to outlive it (oidc-tokens.ts:40-43).                  *)
THEOREM RevocationsHold == Spec => RevokedRefused
<1> DEFINE Refused == \A r \in Requests : Is(r, "grant") /\ req'[r].at = "accepted" =>
                         /\ req[r].token.grant \notin closed
                         /\ \A d \in Devices : devices[d].grant = req[r].token.grant => ~devices[d].revoked
<1>1. IInv /\ [Next]_vars => [Refused]_vars
  <2> SUFFICES ASSUME IInv, Next PROVE Refused
    BY DEF vars
  <2> SUFFICES ASSUME NEW r \in Requests, req[r].at = "grant", req'[r].at = "accepted"
               PROVE /\ req[r].token.grant \notin closed
                     /\ \A d \in Devices : devices[d].grant = req[r].token.grant => ~devices[d].revoked
    BY DEF Is
  <2>1. GrantFits(req[r].token) BY OnlyAcceptAccepts DEF IInv, Inv, RowTypes
  <2>2. grants[req[r].token.grant] # NoGrant BY <2>1 DEF GrantFits, LiveGrant, NoGrant
  <2>3. \A d \in Devices : devices[d].revoked => devices[d] # NoDevice BY DEF NoDevice
  <2> QED BY <2>2, <2>3 DEF IInv, Inv, ClosedGone, OwnDevice
<1> QED BY <1>1, Invariance, PTL DEF Spec, RevokedRefused

(* No bridge holds a code or a token that works and that its user cannot   *)
(* find and revoke on the Devices page (oidc.ts:391-410).                  *)
THEOREM BridgesHaveDevices == Spec => []BridgeGrantHasDevice
<1>1. IInv => BridgeGrantHasDevice
  <2> SUFFICES ASSUME Inv PROVE BridgeGrantHasDevice
    BY DEF IInv
  <2>1. \A row \in {codes[i] : i \in Interactions} \cup {tokens[t] : t \in Tokens} :
          row.client = "bridge" /\ LiveGrant(row.grant) =>
            \E d \in Devices : devices[d] = [user |-> row.account, grant |-> row.grant, revoked |-> FALSE]
    BY RowsAreSound DEF RowBacked, Backed
  <2>2. \A i, j \in Interactions : codes[i].client = "bridge" /\ codes[i].live /\ codes[i].grant = codes[j].grant => i = j
    <3> SUFFICES ASSUME NEW i \in Interactions, NEW j \in Interactions, codes[i].client = "bridge", codes[i].live,
                        codes[i].grant = codes[j].grant
                 PROVE i = j
      OBVIOUS
    <3>1. codes[i].grant # NoId /\ codes[i].grant \in Ids(GrantIds) /\ codes[j].client \in Clients
      BY DEF Inv, Placed, OfGrant, RowTypes, Token
    <3>2. Names("bridge", codes[i].grant) BY DEF Names, RowNames
    <3>3. codes[j].client # "agent"
      <4>1. codes[j].client = "agent" => Names("agent", codes[i].grant) BY DEF Names, RowNames
      <4> QED BY <3>1, <3>2, <4>1 DEF Inv, Apart, Ids
    <3> QED BY <3>1, <3>3 DEF Inv, OwnGrant, Clients
  <2> QED BY <2>1, <2>2 DEF BridgeGrantHasDevice, Inv, OwnDevice
<1> QED BY <1>1, Invariance, PTL

(* An accepted call is at the API its token was issued for                 *)
(* (oidc-tokens.ts:22-38).                                                 *)
THEOREM TokensFitTheirResource == Spec => []OwnResource
<1>1. IInv => OwnResource BY DEF IInv, Inv, Matched, Matches, OwnResource, Is
<1> QED BY <1>1, Invariance, PTL
=============================================================================
