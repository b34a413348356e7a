------------------------------- MODULE Limits -------------------------------
(* The limits one platform process keeps in memory: the buckets of uploads      *)
(* (ingest-limit.ts), of client registrations (oidc-registration.ts) and of     *)
(* misses on the user code page (devices.ts), all over token-bucket.ts, and the *)
(* counts and the key cache of the fetches of client documents (cimd.ts). The   *)
(* four share nothing, so `limiter` says which one a behaviour uses. A take is  *)
(* one step of the event loop; a post and a fetch wait between two.             *)
(*                                                                              *)
(* Outside this module: what the limited requests do.                           *)
EXTENDS Integers, Sequences, FiniteSets, SequencesExt, FiniteSetsExt

CONSTANTS
  Instances, Devices, DeviceOf,   \* source instances, and the device of each
  Addresses, TrustedRange,        \* addresses that register, and those in a trusted range
  CodeUsers,                      \* who posts user codes
  CodePosts,                      \* posts of user codes under way at once
  Hosts, Callers, Clients,        \* hosts of documents and keys, addresses that cause fetches, who waits for keys
  FullOf, RateOf,                 \* by group of names: its burst and its rate
  Cost,                           \* what a request takes (rates may be less than one request)
  Tracked,                        \* how many names each map keeps (MAX_TRACKED_UPLOAD_KEYS, _ADDRESSES, _USERS)
  SweepInterval,                  \* SWEEP_INTERVAL_MS
  PerMinute, PerHost, PerAddress, \* CimdFetchLimits
  Minute, MaxAge, CacheSize,      \* MINUTE_MS, a key set's age, JWKS_CACHE_SIZE
  MaxTime                         \* bound on the time from a start

VARIABLES
  limiter,       \* which limiter this behaviour uses
  now,           \* the time since the process started
  buckets,       \* the buckets kept, by name
  order,         \* the names of each map, least recently used first
  sweptAt,       \* the last sweep
  posts,         \* the posts of user codes under way
  windows,       \* MinuteCounts, by what they count: their start
  counts,        \* and their counts since then
  recent,        \* history: the fetches that went out in the last Minute
  entries,       \* JwksCache: the URLs registered, oldest first, with what is cached
  fetching,      \* the URLs being fetched
  asks           \* who waits for keys

bucketVars == <<buckets, order, sweptAt>>
fetchVars == <<windows, counts, recent, entries, fetching, asks>>
limitsVars == <<limiter, now, bucketVars, posts, fetchVars>>

----------------------------------------------------------------------------
(* token-bucket.ts *)

AllTrusted == "trusted ranges"
AllRegistrations == "all registrations"
AllMisses == "all misses"
Single == {AllTrusted, AllRegistrations, AllMisses}

Maps == {"instances", "devices", "addresses", "users"}
NamesOf == [instances |-> Instances, devices |-> Devices, addresses |-> Addresses, users |-> CodeUsers]
Names == (UNION {NamesOf[m] : m \in Maps}) \cup Single
Group(n) == IF n \in Single THEN n ELSE CHOOSE m \in Maps : n \in NamesOf[m]

\* Names are of one kind each, a rate is not zero (config.ts), every instance
\* has its device, the two maps of uploads keep as many names, and the sizes and
\* times of cimd.ts are constants over zero.
ASSUME LimitsAssumption ==
  /\ \A m \in Maps : NamesOf[m] \cap Single = {} /\ \A k \in Maps \ {m} : NamesOf[m] \cap NamesOf[k] = {}
  /\ FullOf \in [Maps \cup Single -> Nat] /\ RateOf \in [Maps \cup Single -> Nat \ {0}] /\ Cost \in Nat
  /\ DeviceOf \in [Instances -> Devices] /\ Tracked \in [Maps -> Nat] /\ Tracked.instances = Tracked.devices
  /\ PerMinute \in Nat /\ PerHost \in Nat /\ PerAddress \in Nat
  /\ Minute \in Nat \ {0} /\ MaxAge \in Nat \ {0} /\ CacheSize \in Nat \ {0}

Full == [n \in Names |-> FullOf[Group(n)]]
Rate == [n \in Names |-> RateOf[Group(n)]]

Lesser(x, y) == IF x <= y THEN x ELSE y

\* level: a bucket that is not kept is full.
LevelAt(kept, n, t) ==
  IF n \in DOMAIN kept THEN Lesser(Full[n], kept[n].tokens + (t - kept[n].at) * Rate[n]) ELSE Full[n]
Level(n) == LevelAt(buckets, n, now)

\* waitSeconds: the units of time until a bucket holds a request.
Wait(n) == IF Level(n) >= Cost THEN 0 ELSE (Cost - Level(n) + Rate[n] - 1) \div Rate[n]

\* The wait of a request is its longest.
WaitFor(used) == Max({Wait(n) : n \in used})

----------------------------------------------------------------------------
(* keep of ingest-limit.ts, #keep of oidc-registration.ts and devices.ts *)

Others(m, used) == (DOMAIN buckets \cap NamesOf[m]) \ used

\* A mutant of Refilled: a bucket that holds a request counts as refilled.
HoldingOne(n) == Level(n) >= Cost

\* The sweep drops the buckets that are full, which none is the same as.
Refilled(n) == Level(n) >= Full[n]

\* Uploads sweep once per interval and also a full map; registrations once per
\* interval; posts never.
Sweeps(m, used) ==
  \/ m # "users" /\ now - sweptAt >= SweepInterval
  \/ m \in {"instances", "devices"} /\ Cardinality(Others(m, used)) >= Tracked[m]

LeftAfterSweep(m, used) ==
  IF Sweeps(m, used) THEN {n \in Others(m, used) : ~Refilled(n)} ELSE Others(m, used)

\* A map that is still full drops its least recently used name.
LeftInMap(m, used) ==
  LET left == LeftAfterSweep(m, used)
      oldest == SelectSeq(order[m], LAMBDA n : n \in left)
  IN  IF Cardinality(left) >= Tracked[m] THEN left \ {Head(oldest)} ELSE left

\* The buckets of `used` get `level`, as the most recently used of their maps.
KeepBuckets(used, level) ==
  LET touched == {m \in Maps : used \cap NamesOf[m] # {}}
      kept == [m \in Maps |-> IF m \in touched THEN LeftInMap(m, used) ELSE Others(m, {})]
  IN  /\ buckets' = [n \in (UNION {kept[m] : m \in Maps}) \cup (DOMAIN buckets \cap Single) \cup used |->
                       IF n \in used THEN [tokens |-> level[n], at |-> now] ELSE buckets[n]]
      /\ order' = [m \in Maps |-> SelectSeq(order[m], LAMBDA n : n \in kept[m])
                                    \o SetToSeq(used \cap NamesOf[m])]
      /\ sweptAt' = IF now - sweptAt >= SweepInterval /\ touched \ {"users"} # {} THEN now ELSE sweptAt

Take(used) ==
  /\ WaitFor(used) = 0
  /\ KeepBuckets(used, [n \in used |-> Level(n) - Cost])


\* Math.min(burst, level + 1)
Returned(n) == Lesser(Full[n], Level(n) + Cost)

----------------------------------------------------------------------------
(* UploadLimiter.take, RegistrationLimiter.take *)

LimitUpload(i) ==
  /\ limiter = "uploads"
  /\ Take({i, DeviceOf[i]})
  /\ UNCHANGED <<limiter, now, posts, fetchVars>>

\* A registration takes from its address's bucket, or from the one its range shares.
Register(a) ==
  /\ limiter = "registrations"
  /\ Take({IF a \in TrustedRange THEN AllTrusted ELSE a, AllRegistrations})
  /\ UNCHANGED <<limiter, now, posts, fetchVars>>

----------------------------------------------------------------------------
(* MissLimiter and the middleware of devices.ts *)

NoPost == [user |-> AllMisses, out |-> FALSE]
PostOf(u) == {u, AllMisses}

\* A post takes a miss before it looks its code up.
PostTakes(u) == Take(PostOf(u))

Post(p, u) ==
  /\ limiter = "misses"
  /\ ~posts[p].out
  /\ PostTakes(u)
  /\ posts' = [posts EXCEPT ![p] = [user |-> u, out |-> TRUE]]
  /\ UNCHANGED <<limiter, now, fetchVars>>

\* The finally: a post that did not miss gives its miss back.
FinishPost(p, missed) ==
  /\ posts[p].out
  /\ IF missed THEN UNCHANGED bucketVars
     ELSE KeepBuckets(PostOf(posts[p].user), [n \in PostOf(posts[p].user) |-> Returned(n)])
  /\ posts' = [posts EXCEPT ![p] = NoPost]
  /\ UNCHANGED <<limiter, now, fetchVars>>

----------------------------------------------------------------------------
(* cimd.ts: FetchLimiter *)

Windows == {"hosts", "all", "addresses"}
KeysOf == [hosts |-> Hosts, all |-> {"all"}, addresses |-> Callers]
MostOf == [hosts |-> PerHost, all |-> PerMinute, addresses |-> PerAddress]
KeyOf(h, a) == [hosts |-> h, all |-> "all", addresses |-> a]
NoCounts(w) == [k \in KeysOf[w] |-> 0]
NothingCounted == [w \in Windows |-> NoCounts(w)]

\* MinuteCounts.get: a window that is over starts anew when it is next read.
Over(w) == now - windows[w] >= Minute
CountsNow(w) == IF Over(w) THEN NoCounts(w) ELSE counts[w]
Reached(w, h, a) == CountsNow(w)[KeyOf(h, a)[w]] >= MostOf[w]

\* #check reads the host's count, then all, then the address's, up to the first
\* that is reached.
Read(h, a) ==
  {"hosts"} \cup (IF Reached("hosts", h, a) THEN {}
                  ELSE {"all"} \cup (IF Reached("all", h, a) THEN {} ELSE {"addresses"}))

Fits(h, a) == \A w \in Windows : ~Reached(w, h, a)

\* A mutant of Counted: the fetch goes by `fits`, which counts nothing.
Uncounted(h, a) == FALSE

\* `take` counts the fetch it lets go.
Counted(h, a) == Fits(h, a)

Check(h, a, count) ==
  /\ windows' = [w \in Windows |-> IF w \in Read(h, a) /\ Over(w) THEN now ELSE windows[w]]
  /\ counts' = [w \in Windows |->
                  LET base == IF w \in Read(h, a) THEN CountsNow(w) ELSE counts[w]
                  IN  IF count /\ Counted(h, a) THEN [base EXCEPT ![KeyOf(h, a)[w]] = @ + 1] ELSE base]

\* allowFetch: whether the document's fetch would fit.
AllowFetch(h, a) ==
  /\ limiter = "fetches"
  /\ Check(h, a, FALSE)
  /\ UNCHANGED <<limiter, now, bucketVars, posts, recent, entries, fetching, asks>>

\* A fetch that goes out, and how many went before it at its time.
Sent(h, a) ==
  [of |-> KeyOf(h, a), at |-> now, after |-> Cardinality({f \in recent : f.of = KeyOf(h, a) /\ f.at = now})]

Send(h, a) == recent' = recent \cup {f \in {Sent(h, a)} : Fits(h, a)}

\* The fetch of a document, or of a key set that is not registered.
Document(h, a) ==
  /\ limiter = "fetches"
  /\ Check(h, a, TRUE)
  /\ Send(h, a)
  /\ UNCHANGED <<limiter, now, bucketVars, posts, entries, fetching, asks>>

----------------------------------------------------------------------------
(* cimd.ts: JwksCache. A host's clients name one key set, on that host. *)

NoAsk == [host |-> "none", state |-> "idle", age |-> 0, saw |-> FALSE]
Registered(h) == \E e \in ToSet(entries) : e.host = h
Entry(h) == CHOOSE e \in ToSet(entries) : e.host = h
NotCached(h) == [host |-> h, cached |-> FALSE, from |-> 0]

\* allowClient registers the key set of a client that is used.
UseClient(h) ==
  /\ limiter = "fetches"
  /\ ~Registered(h)
  /\ entries' = Append(IF Len(entries) >= CacheSize THEN Tail(entries) ELSE entries, NotCached(h))
  /\ UNCHANGED <<limiter, now, bucketVars, posts, windows, counts, recent, fetching, asks>>

AnswerKeys(c, h, state, age, saw) == asks' = [asks EXCEPT ![c] = [host |-> h, state |-> state, age |-> age, saw |-> saw]]

\* JwksCache.get: what is cached, or the fetch under way, or one that the limit
\* lets go or refuses.
AskKeys(c, h, a) ==
  /\ limiter = "fetches"
  /\ asks[c].state = "idle"
  /\ Registered(h)
  /\ IF Entry(h).cached /\ now < Entry(h).from + MaxAge
     THEN AnswerKeys(c, h, "keys", now - Entry(h).from, FALSE) /\ UNCHANGED <<windows, counts, recent, fetching>>
     ELSE IF fetching[h] = "none"
     THEN /\ Check(h, a, TRUE)
          /\ Send(h, a)
          /\ IF Fits(h, a)
             THEN AnswerKeys(c, h, "waiting", 0, FALSE) /\ fetching' = [fetching EXCEPT ![h] = "out"]
             ELSE AnswerKeys(c, h, "error", 0, TRUE) /\ UNCHANGED fetching
     ELSE /\ AnswerKeys(c, h, IF fetching[h] = "out" THEN "waiting" ELSE "error", 0, FALSE)
          /\ UNCHANGED <<windows, counts, recent, fetching>>
  /\ UNCHANGED <<limiter, now, bucketVars, posts, entries>>

\* A mutant of Settled: only a fetch that succeeded is forgotten.
SettledWhen(ok) == IF ok THEN "none" ELSE "failed"

\* The promise settles and is no longer pending, either way.
Settled(ok) == "none"

\* The fetch ends: its keys are cached while the URL is registered, and whoever
\* waits for it has its outcome.
Fetched(h, ok) ==
  /\ fetching[h] = "out"
  /\ fetching' = [fetching EXCEPT ![h] = Settled(ok)]
  /\ entries' = [i \in DOMAIN entries |->
                   IF ok /\ entries[i].host = h THEN [host |-> h, cached |-> TRUE, from |-> now] ELSE entries[i]]
  /\ asks' = [c \in Clients |->
                IF asks[c].host = h /\ asks[c].state = "waiting"
                THEN [asks[c] EXCEPT !.state = IF ok THEN "keys" ELSE "error", !.saw = TRUE]
                ELSE asks[c]]
  /\ UNCHANGED <<limiter, now, bucketVars, posts, windows, counts, recent>>

Answered(c) ==
  /\ asks[c].state \in {"keys", "error"}
  /\ asks' = [asks EXCEPT ![c] = NoAsk]
  /\ UNCHANGED <<limiter, now, bucketVars, posts, windows, counts, recent, entries, fetching>>

----------------------------------------------------------------------------
(* The environment *)

Pass ==
  /\ now < MaxTime
  /\ now' = now + 1
  /\ recent' = {f \in recent : now + 1 - f.at < Minute}
  /\ UNCHANGED <<limiter, bucketVars, posts, windows, counts, entries, fetching, asks>>

\* What a process has when it starts: buckets, counts and caches are in memory.
NoBuckets == [n \in {} |-> [tokens |-> 0, at |-> 0]]
NoOrder == [m \in Maps |-> <<>>]
NoPosts == [p \in CodePosts |-> NoPost]
NoWindows == [w \in Windows |-> -Minute]
NonePending == [h \in Hosts |-> "none"]
NoAsks == [c \in Clients |-> NoAsk]

Started ==
  /\ now = 0
  /\ buckets = NoBuckets /\ order = NoOrder /\ sweptAt = 0
  /\ posts = NoPosts
  /\ windows = NoWindows /\ counts = NothingCounted /\ recent = {}
  /\ entries = <<>> /\ fetching = NonePending /\ asks = NoAsks

LimitsInit == limiter \in {"uploads", "registrations", "misses", "fetches"} /\ Started

Restart ==
  /\ now' = 0
  /\ buckets' = NoBuckets /\ order' = NoOrder /\ sweptAt' = 0
  /\ posts' = NoPosts
  /\ windows' = NoWindows /\ counts' = NothingCounted /\ recent' = {}
  /\ entries' = <<>> /\ fetching' = NonePending /\ asks' = NoAsks
  /\ UNCHANGED limiter

LimitsNext ==
  \/ \E i \in Instances : LimitUpload(i)
  \/ \E a \in Addresses : Register(a)
  \/ \E p \in CodePosts, u \in CodeUsers : Post(p, u)
  \/ \E p \in CodePosts, missed \in BOOLEAN : FinishPost(p, missed)
  \/ \E h \in Hosts, a \in Callers : AllowFetch(h, a) \/ Document(h, a)
  \/ \E h \in Hosts : UseClient(h)
  \/ \E c \in Clients, h \in Hosts, a \in Callers : AskKeys(c, h, a)
  \/ \E h \in Hosts, ok \in BOOLEAN : Fetched(h, ok)
  \/ \E c \in Clients : Answered(c)
  \/ Pass \/ Restart

LimitsSpec == LimitsInit /\ [][LimitsNext]_limitsVars

----------------------------------------------------------------------------
(* Properties *)

\* The buckets of a process, with their sweeps and dropped names, are those of
\* Buckets: a name's bucket is what it would be were every name kept, a sweep
\* changes none, one is forgotten only where the code says so, and a post holds
\* what it took until it gives it back, once, or has missed.
Pairs ==
  {{i, DeviceOf[i]} : i \in Instances} \cup {{a, AllRegistrations} : a \in Addresses}
    \cup {{AllTrusted, AllRegistrations}} \cup {{u, AllMisses} : u \in CodeUsers}
Ideal == INSTANCE Buckets WITH
  Requested <- Pairs,
  Kept <- {Instances, Devices},
  Cached <- {Addresses, CodeUsers},
  MaxTracked <- Tracked.instances,
  Holders <- CodePosts,
  level <- [n \in Names |-> Level(n)],
  out <- {<<p, PostOf(posts[p].user)>> : p \in {p \in CodePosts : posts[p].out}}
BucketsHold == Ideal!Spec

\* In no minute, wherever it starts, more fetches go out than two windows allow,
\* to one host, for one address or together, however the three windows drift.
FetchesBounded ==
  \A w \in Windows : \A k \in KeysOf[w] :
    Cardinality({f \in recent : f.of[w] = k}) <= 2 * MostOf[w]

\* Keys that are answered are no older than their age allows, and an error is
\* of a fetch that failed, or was refused, while the client waited: a failure is
\* shared by those who wait and kept for nobody.
KeysOfTheWait ==
  \A c \in Clients :
    /\ asks[c].state = "keys" => asks[c].age < MaxAge
    /\ asks[c].state = "error" => asks[c].saw
=============================================================================
