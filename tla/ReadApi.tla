------------------------------- MODULE ReadApi -------------------------------
(***************************************************************************)
(* The query handlers of the HTTP and gRPC servers (internal/api,          *)
(* internal/grpc), their parameters, and the replay cache in Redis         *)
(* (internal/cache) that answers replays of users: GET, replay on a miss,  *)
(* SET with a TTL, while the log grows.  Products and orders are replayed  *)
(* without it.                                                             *)
(*                                                                         *)
(* A commit is one step here, and so is the save of a snapshot: module     *)
(* Commands shows that the write path appends atomically, module           *)
(* TimeTravel which contents a snapshot can have.  A replay is two: it     *)
(* reads the newest snapshot, then the events.                             *)
(*                                                                         *)
(* A result is the set of versions it is made of and the version up to     *)
(* which it came out of JSON, where 0 says that all of it came from rows   *)
(* that pgx scanned.                                                       *)
(***************************************************************************)
EXTENDS Integers, Sequences, FiniteSets, FiniteSetsExt

CONSTANTS
    Handlers,       \* goroutines that serve queries, in any instance
    Users, Catalog, \* ids of users; ids of products and orders
    Requests,       \* what clients send: [route, agg] and its parameters
    Fields,         \* keys of ToMap for what events carry
    LocalIsUTC,     \* the local time zone of the processes is UTC
    Nil,            \* a nil *Version or *At, a missing event
    TTL,            \* REPLAY_CACHE_TTL
    SearchLimit,    \* LIMIT of Store.Search
    MaxEvents,      \* bound: events of an entity
    MaxSnapshots,   \* bound: rows of table snapshots
    MaxLag,         \* bound: age of a transaction when it commits
    MaxClock,       \* bound: the clock
    MaxCalls        \* bound: requests in a behaviour

VARIABLES
    now,        \* the time
    events,     \* visible events of each entity: [created, visible, writes]
    snapshots,  \* rows of table snapshots: [agg, version, state]
    redis,      \* cached replays: [key, found, expires]
    job,        \* the locals of each handler
    answer,     \* history variable: the reply this step gave, if it gave one
    slowest,    \* history variable: the longest a SET came after its replay
    calls       \* requests so far

vars == <<now, events, snapshots, redis, job, answer, slowest, calls>>

NumbersAssumption ==
    /\ TTL \in Nat \ {0} /\ SearchLimit \in Nat \ {0}
    /\ MaxEvents \in Nat /\ MaxSnapshots \in Nat /\ MaxCalls \in Nat
    /\ MaxLag \in Nat /\ MaxClock \in Nat /\ MaxLag < MaxClock

Entities == Users \cup Catalog

Current      == [version |-> Nil, at |-> Nil]
ByVersion(n) == [version |-> n, at |-> Nil]
ByInstant(t) == [version |-> Nil, at |-> t]

(* What rows yield, and what json.Unmarshal makes of the JSON of a state   *)
Scanned(S) == [versions |-> S, decoded |-> 0]
Decoded(S) == [versions |-> S, decoded |-> Max(S)]

(* New(id), an aggregate at version 0 *)
Fresh == Scanned({})

Idle == [pc |-> "idle", request |-> Nil, source |-> "none", plan |-> <<>>,
         got |-> <<>>, found |-> Fresh, asked |-> 0, loaded |-> 0]

NoAnswer == [status |-> 0, request |-> Nil, source |-> "none", plan |-> <<>>,
             got |-> <<>>, asked |-> 0, told |-> 0]

Init ==
    /\ now = MaxLag + 1
    /\ events = [a \in Entities |-> <<>>]
    /\ snapshots = {} /\ redis = {}
    /\ job = [h \in Handlers |-> Idle]
    /\ answer = NoAnswer
    /\ slowest = 0 /\ calls = 0

-----------------------------------------------------------------------------
(* The log and the clock *)

(* An event becomes visible; it was created when its transaction began.    *)
(* The first creates, with a value for every field.                        *)
Commit(a) ==
    /\ Len(events[a]) < MaxEvents
    /\ \E lag \in 0 .. MaxLag, f \in Fields :
          events' = [events EXCEPT ![a] =
              Append(@, [created |-> now - lag, visible |-> now,
                         writes |-> IF @ = <<>> THEN Fields ELSE {f}])]
    /\ answer' = NoAnswer
    /\ UNCHANGED <<now, snapshots, redis, job, slowest, calls>>

Tick ==
    /\ now < MaxClock /\ now' = now + 1
    /\ answer' = NoAnswer
    /\ UNCHANGED <<events, snapshots, redis, job, slowest, calls>>

Versions(a) == 1 .. Len(events[a])

(* The SnapshotBuilder saves the result of all versions, or of those since *)
(* the snapshot it started from; the user service saves the projection     *)
(* row, which is made of the latest event alone.  Either may come late.    *)
SaveSnapshot(a) ==
    /\ \E v \in Versions(a) : \E first \in 1 .. v :
          /\ a \in Catalog => first = 1
          /\ snapshots' = {s \in snapshots : s.agg # a \/ s.version # v}
                              \cup {[agg |-> a, version |-> v, state |-> first .. v]}
    /\ Cardinality(snapshots') <= MaxSnapshots
    /\ answer' = NoAnswer
    /\ UNCHANGED <<now, events, redis, job, slowest, calls>>

(* The versions LoadEventsUntil selects *)
Replayed(log, q) ==
    {v \in DOMAIN log : /\ q.version # Nil => v <= q.version
                        /\ q.at # Nil => log[v].created <= q.at}

-----------------------------------------------------------------------------
(* Parameters: [form, n] with a form "absent", "word" (no number, no       *)
(* time), "number", "prefixed" (v3) or "instant"                           *)

Given(p) == IF p.form = "absent" THEN Nil ELSE p.n

(* ?at= must be a time and ?version= a number, without a prefix. *)
Readable(r) == /\ r.at.form \in {"absent", "instant"}
               /\ r.version.form \in {"absent", "number"}

QueryOf(r) == [version |-> Given(r.version), at |-> Given(r.at)]

IsTemporal(q) == q.version # Nil \/ q.at # Nil

(* ?from= and ?to= name a version, with or without the v, or a time. *)
BoundOf(p) ==
    IF p.form = "absent" THEN Current
    ELSE IF p.form = "instant" THEN ByInstant(p.n) ELSE ByVersion(p.n)

(* A body that is no JSON object is ignored; a field that cannot be        *)
(* decoded is left as a pointer to its zero value.                         *)
BodyQuery(r) ==
    LET Value(p) == IF p.form = "word" THEN 0 ELSE Given(p)
    IN  IF r.json THEN [version |-> Value(r.version), at |-> Value(r.at)]
        ELSE Current

(* A protobuf version that is not positive is no version. *)
EntityQuery(r) == [version |-> IF r.int64 > 0 THEN r.int64 ELSE Nil,
                   at |-> Given(r.at)]

(* What the fields of a request are, by its route *)
Parameters == [form : {"absent", "word", "number", "prefixed", "instant"}, n : Int]

RequestsAssumption ==
    /\ Nil \notin Int
    /\ \A r \in Requests :
          /\ r.agg \in Entities
          /\ r.route \in {"get", "replay", "GetEntity", "Replay"} => r.at \in Parameters
          /\ r.route \in {"get", "replay"} => r.version \in Parameters
          /\ r.route = "replay" => r.json \in BOOLEAN
          /\ r.route \in {"GetEntity", "Replay"} => r.int64 \in Int
          /\ r.route \in {"diff", "search", "SearchEvents"} =>
                r.from \in Parameters /\ r.to \in Parameters

(* A query names a version or an instant, not both. *)
OneBound(q) == q.version = Nil \/ q.at = Nil

(* So do the requests for users, whose replays are cached. *)
SingleBounds ==
    \A r \in Requests : r.agg \in Users =>
        /\ r.route = "get" => OneBound(QueryOf(r))
        /\ r.route = "replay" => OneBound(BodyQuery(r))
        /\ r.route \in {"GetEntity", "Replay"} => OneBound(EntityQuery(r))

-----------------------------------------------------------------------------
(* What each handler does with its request: refuse it, or answer the       *)
(* queries of a plan, one after the other, from a source                   *)

FirstStep(source) == CASE source = "cache"      -> "get"
                       [] source = "projection" -> "select"
                       [] source = "search"     -> "search"
                       [] source = "engine"     -> "snapshot"
                       [] OTHER                 -> "load"

Reply(h, status, got) ==
    /\ job' = [job EXCEPT ![h] = Idle]
    /\ answer' = [status |-> status, request |-> job[h].request,
                  source |-> job[h].source, plan |-> job[h].plan, got |-> got,
                  asked |-> job[h].asked, told |-> now]

Receive(h) ==
    /\ job[h].pc = "idle" /\ calls < MaxCalls
    /\ calls' = calls + 1
    /\ UNCHANGED <<now, events, snapshots, redis, slowest>>

Serve(h, r, source, plan) ==
    /\ job' = [job EXCEPT ![h] =
           [Idle EXCEPT !.pc = FirstStep(source), !.request = r, !.source = source,
                        !.plan = plan, !.asked = now]]
    /\ answer' = NoAnswer

BadRequest(h, r) ==
    /\ answer' = [NoAnswer EXCEPT !.status = 400, !.request = r, !.asked = now,
                                  !.told = now]
    /\ UNCHANGED job

ServeIf(readable, h, r, source, plan) ==
    \/ readable /\ Serve(h, r, source, plan)
    \/ ~readable /\ BadRequest(h, r)

Asks(r, route, entities) == r.route = route /\ r.agg \in entities

GetUser(h, r) ==
    /\ Receive(h) /\ Asks(r, "get", Users)
    /\ ServeIf(Readable(r), h, r,
               IF IsTemporal(QueryOf(r)) THEN "cache" ELSE "projection", <<QueryOf(r)>>)

GetCatalog(h, r) ==
    /\ Receive(h) /\ Asks(r, "get", Catalog)
    /\ ServeIf(Readable(r), h, r,
               IF IsTemporal(QueryOf(r)) THEN "engine" ELSE "projection", <<QueryOf(r)>>)

UserDiff(h, r) ==
    /\ Receive(h) /\ Asks(r, "diff", Users)
    /\ ServeIf("word" \notin {r.from.form, r.to.form}, h, r, "cache",
               <<BoundOf(r.from), BoundOf(r.to)>>)

(* The error of a bound is dropped and its query left empty. *)
CatalogBound(p) == IF p.form = "word" THEN Current ELSE BoundOf(p)

CatalogDiff(h, r) ==
    /\ Receive(h) /\ Asks(r, "diff", Catalog)
    /\ Serve(h, r, "engine", <<CatalogBound(r.from), CatalogBound(r.to)>>)

UserReplay(h, r) ==
    /\ Receive(h) /\ Asks(r, "replay", Users)
    /\ Serve(h, r, "cache", <<BodyQuery(r)>>)

CatalogReplay(h, r) ==
    /\ Receive(h) /\ Asks(r, "replay", Catalog)
    /\ Serve(h, r, "engine", <<BodyQuery(r)>>)

GrpcGetUser(h, r) ==
    /\ Receive(h) /\ Asks(r, "GetEntity", Users)
    /\ Serve(h, r, IF IsTemporal(EntityQuery(r)) THEN "cache" ELSE "projection",
             <<EntityQuery(r)>>)

GrpcReplayUser(h, r) ==
    /\ Receive(h) /\ Asks(r, "Replay", Users)
    /\ Serve(h, r, "cache", <<EntityQuery(r)>>)

GrpcGetCatalog(h, r) ==
    /\ Receive(h) /\ Asks(r, "GetEntity", Catalog)
    /\ Serve(h, r, IF IsTemporal(EntityQuery(r)) THEN "engine" ELSE "projection",
             <<EntityQuery(r)>>)

GrpcReplayCatalog(h, r) ==
    /\ Receive(h) /\ Asks(r, "Replay", Catalog)
    /\ Serve(h, r, "engine", <<EntityQuery(r)>>)

(* All events of an entity, which LoadEventsUntil and Timeline select *)
EntityHistory(h, r) ==
    /\ Receive(h) /\ r.route = "history"
    /\ Serve(h, r, "history", <<Current>>)

EntityTimeline(h, r) ==
    /\ Receive(h) /\ r.route = "timeline"
    /\ Serve(h, r, "timeline", <<Current>>)

SearchEvents(h, r) ==
    /\ Receive(h) /\ r.route = "search"
    /\ ServeIf({r.from.form, r.to.form} \subseteq {"absent", "instant"}, h, r,
               "search", <<Current>>)

(* The same two over gRPC: an entity without events has an empty timeline, *)
(* and the messages have no range (their from and to are absent).          *)
GrpcGetTimeline(h, r) ==
    /\ Receive(h) /\ r.route = "GetTimeline"
    /\ Serve(h, r, "entries", <<Current>>)

GrpcSearchEvents(h, r) ==
    /\ Receive(h) /\ r.route = "SearchEvents"
    /\ Serve(h, r, "search", <<Current>>)

-----------------------------------------------------------------------------
(* The replay cache *)

cacheKey(a, q) == IF q.version # Nil THEN <<"v", a, q.version>>
                  ELSE IF q.at # Nil THEN <<"at", a, q.at>>
                  ELSE <<"current", a, 0>>

Question(h) == job[h].plan[Len(job[h].got) + 1]

Key(h) == cacheKey(job[h].request.agg, Question(h))

(* Mutant: an entry never expires. *)
Entries(key) == {e \in redis : e.key = key}

(* An expired key is gone. *)
Live(key) == {e \in redis : e.key = key /\ now < e.expires}

(* Mutant: the two states of a diff change places. *)
CollectInFront(h, found) ==
    LET got == <<found>> \o job[h].got
    IN  \/ /\ Len(got) = Len(job[h].plan)
           /\ Reply(h, 200, got)
        \/ /\ Len(got) < Len(job[h].plan)
           /\ job' = [job EXCEPT ![h].got = got, ![h].found = Fresh, ![h].loaded = 0,
                                   ![h].pc = FirstStep(job[h].source)]
           /\ answer' = NoAnswer

(* The answer to the next query of the plan; after the last one the reply. *)
Collect(h, found) ==
    LET got == Append(job[h].got, found)
    IN  \/ /\ Len(got) = Len(job[h].plan)
           /\ Reply(h, 200, got)
        \/ /\ Len(got) < Len(job[h].plan)
           /\ job' = [job EXCEPT ![h].got = got, ![h].found = Fresh, ![h].loaded = 0,
                                   ![h].pc = FirstStep(job[h].source)]
           /\ answer' = NoAnswer

Hit(h) ==
    /\ job[h].pc = "get"
    /\ \E e \in Live(Key(h)) : Collect(h, Decoded(e.found))
    /\ UNCHANGED <<now, events, snapshots, redis, slowest, calls>>

(* Nothing is under the key, be it expired, evicted or never stored, or    *)
(* the GET failed, or there is no Redis.                                   *)
Miss(h) ==
    /\ job[h].pc = "get"
    /\ job' = [job EXCEPT ![h].pc = "snapshot"]
    /\ answer' = NoAnswer
    /\ UNCHANGED <<now, events, snapshots, redis, slowest, calls>>

(* Only a target version below the snapshot's rules the snapshot out. *)
Usable(version, q) == q.version = Nil \/ q.version >= version

(* snapshots.Latest: start from it or from New(id). *)
ReadSnapshot(h) ==
    LET Own    == {s \in snapshots : s.agg = job[h].request.agg}
        Latest == {s \in Own : /\ \A t \in Own : s.version >= t.version
                               /\ Usable(s.version, Question(h))}
    IN  /\ job[h].pc = "snapshot"
        /\ \E base \in {Decoded(s.state) : s \in Latest}
                          \cup (IF Latest = {} THEN {Fresh} ELSE {}) :
              job' = [job EXCEPT ![h].pc = "load", ![h].found = base]
        /\ answer' = NoAnswer
        /\ UNCHANGED <<now, events, snapshots, redis, slowest, calls>>

(* Versions up to the snapshot's are skipped, the others applied. *)
Applied(h) ==
    [job[h].found EXCEPT !.versions = @ \cup
        {v \in Replayed(events[job[h].request.agg], Question(h)) : v > job[h].found.decoded}]

(* Mutant: ErrNotFound is cached like a state. *)
ReplayAny(h) ==
    /\ job[h].pc = "load"
    /\ LET found == Applied(h)
       IN  \/ /\ job[h].source = "cache"
              /\ job' = [job EXCEPT ![h].pc = "set", ![h].found = found,
                                      ![h].loaded = now]
              /\ answer' = NoAnswer
           \/ job[h].source # "cache" /\ Collect(h, found)
    /\ UNCHANGED <<now, events, snapshots, redis, slowest, calls>>

(* LoadEventsUntil and the loop over its events; an aggregate still at     *)
(* version 0, like an empty history or timeline, is ErrNotFound.           *)
Replay(h) ==
    /\ job[h].pc = "load"
    /\ LET found == Applied(h)
       IN  \/ found.versions = {} /\ job[h].source # "entries" /\ Reply(h, 404, <<>>)
           \/ /\ found.versions # {} /\ job[h].source = "cache"
              /\ job' = [job EXCEPT ![h].pc = "set", ![h].found = found,
                                      ![h].loaded = now]
              /\ answer' = NoAnswer
           \/ /\ job[h].source # "cache"
              /\ found.versions # {} \/ job[h].source = "entries"
              /\ Collect(h, found)
    /\ UNCHANGED <<now, events, snapshots, redis, slowest, calls>>

Entry(h) == [key |-> Key(h), found |-> job[h].found.versions, expires |-> now + TTL]

Store(h) ==
    /\ job[h].pc = "set"
    /\ redis' = {e \in redis : e.key # Key(h)} \cup {Entry(h)}
    /\ slowest' = Max({slowest, now - job[h].loaded})
    /\ Collect(h, job[h].found)
    /\ UNCHANGED <<now, events, snapshots, calls>>

(* The error of the SET is ignored. *)
StoreFails(h) ==
    /\ job[h].pc = "set"
    /\ Collect(h, job[h].found)
    /\ UNCHANGED <<now, events, snapshots, redis, slowest, calls>>

-----------------------------------------------------------------------------
(* The other reads, one SELECT each *)

(* The projection row is made of the latest event and New(id); only its    *)
(* created_at stays that of the first.                                     *)
SelectRow(h) ==
    /\ job[h].pc = "select"
    /\ LET version == Len(events[job[h].request.agg])
       IN  \/ version = 0 /\ Reply(h, 404, <<>>)
           \/ version > 0 /\ Collect(h, Scanned({version}))
    /\ UNCHANGED <<now, events, snapshots, redis, slowest, calls>>

(* Mutant: the end of the range is exclusive. *)
MatchesBefore(e, r) ==
    /\ r.from.form # "absent" => e.created >= r.from.n
    /\ r.to.form # "absent" => e.created < r.to.n

(* The WHERE clause of Store.Search for one entity *)
Matches(e, r) ==
    /\ r.from.form # "absent" => e.created >= r.from.n
    /\ r.to.form # "absent" => e.created <= r.to.n

(* ORDER BY created_at DESC LIMIT: ties in any order *)
FirstMatches(log, r) ==
    LET all == {v \in DOMAIN log : Matches(log[v], r)}
    IN  {S \in SUBSET all :
            /\ Cardinality(S) = Min({SearchLimit, Cardinality(all)})
            /\ \A v \in S, w \in all \ S : log[v].created >= log[w].created}

Search(h) ==
    /\ job[h].pc = "search"
    /\ \E S \in FirstMatches(events[job[h].request.agg], job[h].request) :
          Collect(h, Scanned(S))
    /\ UNCHANGED <<now, events, snapshots, redis, slowest, calls>>

(* A database call fails. *)
QueryFails(h) ==
    /\ job[h].pc \in {"snapshot", "load", "select", "search"}
    /\ Reply(h, 500, <<>>)
    /\ UNCHANGED <<now, events, snapshots, redis, slowest, calls>>

Ask(h, r) ==
    \/ GetUser(h, r) \/ GetCatalog(h, r) \/ UserDiff(h, r) \/ CatalogDiff(h, r)
    \/ UserReplay(h, r) \/ CatalogReplay(h, r)
    \/ GrpcGetUser(h, r) \/ GrpcReplayUser(h, r)
    \/ GrpcGetCatalog(h, r) \/ GrpcReplayCatalog(h, r)
    \/ EntityHistory(h, r) \/ EntityTimeline(h, r) \/ SearchEvents(h, r)
    \/ GrpcGetTimeline(h, r) \/ GrpcSearchEvents(h, r)

Next ==
    \/ \E a \in Entities : Commit(a) \/ SaveSnapshot(a)
    \/ Tick
    \/ \E h \in Handlers, r \in Requests : Ask(h, r)
    \/ \E h \in Handlers :
            \/ Hit(h) \/ Miss(h) \/ ReadSnapshot(h) \/ Replay(h)
            \/ Store(h) \/ StoreFails(h) \/ SelectRow(h) \/ Search(h) \/ QueryFails(h)

Spec == Init /\ [][Next]_vars

-----------------------------------------------------------------------------
(* The diff of two states *)

(* The version of a state, 0 if nothing was applied *)
VersionOf(S) == Max(S \cup {0})

(* A time is local when pgx scanned it; JSON ends a UTC offset with a Z,   *)
(* and what ends with a Z is decoded as UTC, another *Location.            *)
Zoned(at, decoded) ==
    [at |-> at, zone |-> IF decoded /\ LocalIsUTC THEN "UTC" ELSE "Local"]

NoTime == [at |-> 0, zone |-> "UTC"]

(* Every event gives what it writes a value of its own: the version. *)
ToMap(a, state) ==
    LET S       == state.versions
        log     == events[a]
        version == VersionOf(S)
    IN  [k \in Fields \cup {"version", "created_at", "updated_at"} |->
            CASE k = "version"    -> version
              [] k = "created_at" -> IF 1 \in S THEN Zoned(log[1].created, state.decoded > 0)
                                     ELSE NoTime
              [] k = "updated_at" -> IF S # {} THEN Zoned(log[version].created,
                                                          state.decoded = version)
                                     ELSE NoTime
              [] OTHER            -> VersionOf({v \in S : k \in log[v].writes})]

At(m, k) == IF k \in DOMAIN m THEN m[k] ELSE Nil

Compare(from, to) ==
    LET changed == {k \in DOMAIN from \cup DOMAIN to :
                        k \notin DOMAIN from \cap DOMAIN to \/ from[k] # to[k]}
    IN  [k \in changed |-> [from |-> At(from, k), to |-> At(to, k)]]

-----------------------------------------------------------------------------
(* Properties *)

(* Shapes of the snapshots, of the keys in Redis and of a handler's        *)
(* locals: one row per version, one entry per key, and nothing cached or   *)
(* answered that is not found (handleQueryError and ReplayCache.ReplayUser *)
(* return before).                                                         *)
TypeOK ==
    /\ now \in 1 .. MaxClock /\ calls \in 0 .. MaxCalls /\ slowest \in 0 .. MaxClock
    /\ \A a \in Entities, v \in 1 .. MaxEvents : v \in Versions(a) =>
          events[a][v] \in [created : 1 .. now, visible : 1 .. now, writes : SUBSET Fields]
    /\ \A s \in snapshots :
          /\ s.agg \in Entities /\ s.version \in s.state
          /\ s.state \subseteq Versions(s.agg) \cap 1 .. s.version
          /\ \A t \in snapshots : t.agg = s.agg /\ t.version = s.version => t = s
    /\ \A e \in redis :
          /\ e.key[2] \in Users /\ e.found # {} /\ e.found \subseteq Versions(e.key[2])
          /\ e.expires <= now + TTL
          /\ \A d \in redis : d.key = e.key => d = e
    /\ \A h \in Handlers :
          /\ job[h].pc \in {"idle", "get", "snapshot", "load", "set", "select", "search"}
          /\ job[h].pc \in {"get", "set"} => job[h].request.agg \in Users
          /\ job[h].pc # "idle" => Len(job[h].got) < Len(job[h].plan)
    /\ answer.status = 200 => Len(answer.got) = Len(answer.plan)

(* The reply of this step, if it is an answer *)
Answers == {x \in {answer} : x.status = 200}

(* What was visible of a log at some moment from time t1 to time t2 *)
Moments(log, t1, t2) ==
    {SubSeq(log, 1, n) : n \in {m \in 0 .. Len(log) :
        /\ m = 0 \/ log[m].visible <= t2
        /\ m = Len(log) \/ log[m + 1].visible >= t1}}

(* How old the log behind an answer may be when it is asked for: nothing   *)
(* without the cache, and the TTL and the time a fill took with it.        *)
Age(x) == IF x.source = "cache" THEN TTL + slowest - 1 ELSE 0

(* The snapshots an answer may start from; 0 stands for New(id). *)
Taken(a) == {s.version : s \in {t \in snapshots : t.agg = a}}

Bases(source, a) == {0} \cup (IF source \in {"cache", "engine"} THEN Taken(a) ELSE {})

(* How a source makes its result of the versions that are due *)
MadeOf(source, S, due) ==
    /\ S \subseteq due /\ VersionOf(S) = VersionOf(due)
    /\ source = "projection" => S = {VersionOf(due)}
    /\ source \notin {"projection", "cache"} => S = due

(* Every answer is due at some moment between the request and the reply,   *)
(* or, through the cache, at most a TTL and a fill earlier (ADR-006): it   *)
(* has the version that the matching events of the log of that moment and  *)
(* the events behind a usable snapshot lead to, and is made of no others.  *)
(* Replays of products and orders, histories and timelines are made of all *)
(* of them, a row is made of the latest.  Which of them a user's state is  *)
(* made of is left open (see SnapshotSound), and so is which snapshot      *)
(* serves an instant (see TimeQueryExact).  Keys of other entities,        *)
(* versions and instants, overtaking fills, failures of Redis and          *)
(* evictions make no difference.                                           *)
StalenessBounded ==
    \A x \in Answers : x.source # "search" =>
        \A i \in DOMAIN x.got :
            \E log \in Moments(events[x.request.agg], x.asked - Age(x), x.told),
               base \in Bases(x.source, x.request.agg) :
                /\ base = 0 \/ Usable(base, x.plan[i])
                /\ base <= Len(log)
                /\ MadeOf(x.source, x.got[i].versions,
                          Replayed(log, x.plan[i]) \cup 1 .. base)

NotAfter(q, p) ==
    \/ p = Current
    \/ q.version # Nil /\ p.version # Nil /\ q.version <= p.version
    \/ q.at # Nil /\ p.at # Nil /\ q.at <= p.at

Diffs == {x \in Answers : Len(x.plan) = 2 /\ x.source = "engine"}

DiffOf(x) == Compare(ToMap(x.request.agg, x.got[1]), ToMap(x.request.agg, x.got[2]))

(* The keys that the events of the second state which the first lacks write *)
Touched(x) ==
    LET new == x.got[2].versions \ x.got[1].versions
        log == events[x.request.agg]
    IN  (UNION {log[v].writes \cup {"version", "updated_at"} : v \in new})
            \cup (IF 1 \in new THEN {"created_at"} ELSE {})

(* A diff of a product or order whose bounds are in order never runs       *)
(* backwards, although its states are replayed one after the other, each   *)
(* from the newest snapshot it finds: the first state's events are among   *)
(* the second's, the changes lead from the first state to the second, and  *)
(* the others wrote them.  Only the times may be changed by no event, when *)
(* one state owes more of itself to a snapshot than the other.             *)
DiffTellsEvents ==
    \A x \in Diffs : NotAfter(x.plan[1], x.plan[2]) =>
        LET from == ToMap(x.request.agg, x.got[1])
            diff == DiffOf(x)
        IN  /\ x.got[1].versions \subseteq x.got[2].versions
            /\ ToMap(x.request.agg, x.got[2]) =
                   [k \in DOMAIN from |-> IF k \in DOMAIN diff THEN diff[k].to ELSE from[k]]
            /\ \A k \in DOMAIN diff \ Touched(x) :
                   /\ k \in {"created_at", "updated_at"}
                   /\ x.got[1].decoded # x.got[2].decoded

(* Without that exception: every change a diff reports was written by an   *)
(* event.  DIFF_ENGINE.md:5 has it "report which fields changed".          *)
DiffOnlyOfEvents ==
    \A x \in Diffs : NotAfter(x.plan[1], x.plan[2]) => DOMAIN DiffOf(x) \subseteq Touched(x)

(* The events of a log created in the range a search names, counted by     *)
(* what replays of its two ends apply *)
Between(log, r) ==
    Replayed(log, ByInstant(Given(r.to)))
        \ (IF r.from.form = "absent" THEN {} ELSE Replayed(log, ByInstant(r.from.n - 1)))

(* A search shows the events a replay at the end of its range applies and  *)
(* one before its start does not (both ends inclusive), all that were      *)
(* visible when it was asked unless LIMIT leaves the oldest out.           *)
SearchComplete ==
    \A x \in Answers : x.source = "search" =>
        LET log   == events[x.request.agg]
            shown == x.got[1].versions
        IN  /\ shown \subseteq Between(log, x.request)
            /\ \A v \in Between(log, x.request) \ shown :
                  \/ log[v].visible >= x.asked
                  \/ /\ Cardinality(shown) = SearchLimit
                     /\ \A w \in shown : log[w].created >= log[v].created
=============================================================================
