---------------------------- MODULE ReadApiProofs ----------------------------
(***************************************************************************)
(* Proofs about ReadApi for any handlers, entities, requests and TTL: what *)
(* an answer says of the log, through the cache and without it.            *)
(***************************************************************************)
EXTENDS ReadApi, FiniteSetTheorems, WellFoundedInduction, TLAPS

Event == [created : Int, visible : Int, writes : SUBSET Fields]

(* The log: nothing in it lies ahead. *)
LogInv ==
    /\ now \in Int /\ MaxLag < now /\ now <= MaxClock
    /\ events \in [Entities -> Seq(Event)]
    /\ \A a \in Entities, v \in Nat : v \in 1 .. Len(events[a]) =>
          events[a][v].created \in 1 .. now /\ events[a][v].visible \in 1 .. now

(* A snapshot holds its version's event and no later one; of products and  *)
(* orders it holds all before it.                                          *)
SnapInv ==
    \A s \in snapshots :
        /\ s.agg \in Entities /\ s.version \in s.state /\ s.state \subseteq 1 .. s.version
        /\ s.version \in Versions(s.agg)
        /\ s.agg \in Catalog => s.state = 1 .. s.version
        /\ \A t \in snapshots : t.agg = s.agg /\ t.version = s.version => t = s

Results == [versions : SUBSET Nat, decoded : Nat]

(* What a request was turned into: queries of one source.  Only the cache  *)
(* and the engine are asked two, the bounds of a diff.                     *)
Sources == {"cache", "engine", "projection", "history", "timeline", "entries", "search"}

Queries == [version : Int \cup {Nil}, at : Int \cup {Nil}]

Planned(r, source, plan) ==
    /\ r \in Requests /\ source \in Sources
    /\ Len(plan) \in {1, 2} /\ \A i \in 1 .. Len(plan) : plan[i] \in Queries
    /\ Len(plan) = 2 => /\ source \in {"cache", "engine"}
                        /\ OneBound(plan[1]) /\ OneBound(plan[2])
    /\ source = "cache" => r.agg \in Users /\ (SingleBounds => OneBound(plan[1]))
    /\ source = "engine" => r.agg \in Catalog
    /\ source = "projection" => plan[1] = Current
    /\ source = "search" => r.from \in Parameters /\ r.to \in Parameters

JobFields == {"pc", "request", "source", "plan", "got", "found", "asked", "loaded"}

(* What a replay starts from, before it has read the events *)
Started(h) ==
    LET j == job[h]
        b == j.found.decoded
    IN  \/ j.found = Fresh
        \/ /\ b \in Taken(j.request.agg) /\ j.source \in {"cache", "engine"}
           /\ Usable(b, Question(h))
           /\ j.found.versions \subseteq 1 .. b /\ b \in j.found.versions
           /\ j.source = "engine" => j.found.versions = 1 .. b

(* The locals of a handler: where it is follows from its source. *)
JobInv(h) ==
    LET j == job[h]
    IN  /\ DOMAIN j = JobFields
        /\ j.pc \in {"idle", "get", "snapshot", "load", "set", "select", "search"}
        /\ j.pc # "idle" =>
              /\ Planned(j.request, j.source, j.plan)
              /\ j.got \in Seq(Results) /\ j.found \in Results /\ Len(j.got) < Len(j.plan)
              /\ j.asked \in 1 .. now
              /\ j.pc \in {"get", "set"} => j.source = "cache"
              /\ j.pc = "snapshot" => j.source \in {"cache", "engine"}
              /\ j.pc = "select" <=> j.source = "projection"
              /\ j.pc = "search" <=> j.source = "search"
        /\ j.pc = "load" => Started(h)
        /\ j.pc = "set" =>
              /\ j.found.versions # {} /\ j.found.versions \subseteq Versions(j.request.agg)
              /\ j.loaded \in j.asked .. now

CacheInv ==
    /\ slowest \in 0 .. now
    /\ \A e \in redis :
          /\ e.key[2] \in Users /\ e.found # {} /\ e.found \subseteq Versions(e.key[2])
          /\ e.expires \in Int /\ e.expires <= now + TTL
          /\ \A d \in redis : d.key = e.key => d = e

AnswerInv == answer.status = 200 => Len(answer.got) = Len(answer.plan)

TInv ==
    /\ LogInv /\ SnapInv /\ CacheInv /\ AnswerInv
    /\ calls \in 0 .. MaxCalls
    /\ DOMAIN job = Handlers /\ \A h \in Handlers : JobInv(h)

-----------------------------------------------------------------------------
(* What an answer says of the log *)

(* The versions a replay of the first n events of a log applies *)
Upto(log, n, q) ==
    {v \in 1 .. n : /\ q.version # Nil => v <= q.version
                    /\ q.at # Nil => log[v].created <= q.at}

(* It had its first n events, and no others, at some moment from t1 to t2. *)
HadOnly(log, n, t1, t2) ==
    /\ n \in 0 .. Len(log)
    /\ n = 0 \/ log[n].visible <= t2
    /\ n = Len(log) \/ log[n + 1].visible >= t1

(* Bases of a table of snapshots *)
BasesIn(rows, source, a) ==
    {0} \cup (IF source \in {"cache", "engine"}
                THEN {s.version : s \in {t \in rows : t.agg = a}} ELSE {})

Seen(log, bases, t1, t2, q, source, found) ==
    \E n \in Nat, b \in bases :
        /\ HadOnly(log, n, t1, t2) /\ b <= n /\ (b = 0 \/ Usable(b, q))
        /\ MadeOf(source, found, Upto(log, n, q) \cup 1 .. b)

AgeOf(source, fill) == IF source = "cache" THEN TTL + fill - 1 ELSE 0

(* What a handler has collected so far, and what it is about to store *)
JobSound(h) ==
    LET j == job[h]
    IN  /\ j.pc # "idle" /\ j.source # "search" => \A i \in 1 .. Len(j.got) :
              Seen(events[j.request.agg], BasesIn(snapshots, j.source, j.request.agg),
                   j.asked - AgeOf(j.source, slowest), now,
                   j.plan[i], j.source, j.got[i].versions)
        /\ j.pc = "set" =>
              Seen(events[j.request.agg], BasesIn(snapshots, "cache", j.request.agg),
                   j.loaded, j.loaded, Question(h), "cache", j.found.versions)

(* An entry was replayed from the log as it was when the query that its    *)
(* key stands for was asked, before its TTL and the slowest fill began.    *)
EntrySound(e) ==
    \A a \in Entities, q \in Queries :
        OneBound(q) /\ e.key = cacheKey(a, q) =>
            \E t \in Int : /\ e.expires - TTL - slowest <= t /\ t <= now
                           /\ Seen(events[a], BasesIn(snapshots, "cache", a), t, t, q,
                                   "cache", e.found)

SInv ==
    /\ \A h \in Handlers : JobSound(h)
    /\ \A e \in redis : EntrySound(e)
    /\ StalenessBounded

(* The first state of a diff of the engine is one of the log so far, and a *)
(* second that may not look at versions starts no earlier than it did.     *)
FirstOfTwo(h) ==
    LET j == job[h]
        a == j.request.agg
    IN  j.pc # "idle" /\ j.source = "engine" /\ Len(j.got) = 1 =>
            \E n \in 0 .. Len(events[a]), b \in BasesIn(snapshots, "engine", a) :
                /\ b <= n /\ (b = 0 \/ Usable(b, j.plan[1]))
                /\ j.got[1].versions = Upto(events[a], n, j.plan[1]) \cup 1 .. b
                /\ j.pc = "load" => Question(h).version # Nil \/ b <= j.found.decoded

DInv == DiffTellsEvents /\ \A h \in Handlers : FirstOfTwo(h)

-----------------------------------------------------------------------------
(* Replays and prefixes of the log *)

LEMMA ReplayedAll ==
    ASSUME LogInv, NEW a \in Entities, NEW q
    PROVE  Replayed(events[a], q) = Upto(events[a], Len(events[a]), q)
<1>1. DOMAIN events[a] = 1 .. Len(events[a])
  BY DEF LogInv
<1> QED
  BY <1>1 DEF Replayed, Upto

LEMMA ReplayedPrefix ==
    ASSUME LogInv, NEW a \in Entities, NEW q, NEW n \in 0 .. Len(events[a])
    PROVE  Replayed(SubSeq(events[a], 1, n), q) = Upto(events[a], n, q)
<1> DEFINE s == SubSeq(events[a], 1, n)
<1>1. events[a] \in Seq(Event) /\ Len(events[a]) \in Nat
  BY DEF LogInv
<1>2. /\ s \in Seq(Event) /\ Len(s) = n
      /\ \A v \in 1 .. n : s[v] = events[a][v]
  BY <1>1
<1>3. DOMAIN s = 1 .. n
  BY <1>2
<1> QED
  BY <1>2, <1>3 DEF Replayed, Upto

LEMMA SeenInMoments ==
    ASSUME LogInv, NEW a \in Entities, NEW bases, NEW t1, NEW t2, NEW q, NEW source, NEW found,
           Seen(events[a], bases, t1, t2, q, source, found)
    PROVE  \E log \in Moments(events[a], t1, t2), base \in bases :
              /\ (base = 0 \/ Usable(base, q)) /\ base <= Len(log)
              /\ MadeOf(source, found, Replayed(log, q) \cup 1 .. base)
<1>1. PICK n \in Nat, b \in bases :
         /\ HadOnly(events[a], n, t1, t2) /\ b <= n /\ (b = 0 \/ Usable(b, q))
         /\ MadeOf(source, found, Upto(events[a], n, q) \cup 1 .. b)
  BY DEF Seen
<1>2. SubSeq(events[a], 1, n) \in Moments(events[a], t1, t2)
  BY <1>1 DEF HadOnly, Moments
<1>3. Replayed(SubSeq(events[a], 1, n), q) = Upto(events[a], n, q)
  BY <1>1, ReplayedPrefix DEF HadOnly
<1>4. Len(SubSeq(events[a], 1, n)) = n
  <2>1. events[a] \in Seq(Event) /\ n \in 0 .. Len(events[a])
    BY <1>1 DEF LogInv, HadOnly
  <2> QED
    BY <2>1
<1> QED
  BY <1>1, <1>2, <1>3, <1>4

LEMMA SeenNow ==
    ASSUME LogInv, NEW a \in Entities, NEW bases, NEW q, NEW t1, NEW source, NEW found,
           NEW b \in bases, b <= Len(events[a]), b = 0 \/ Usable(b, q),
           MadeOf(source, found, Upto(events[a], Len(events[a]), q) \cup 1 .. b)
    PROVE  Seen(events[a], bases, t1, now, q, source, found)
<1>1. Len(events[a]) \in Nat
  BY DEF LogInv
<1>2. HadOnly(events[a], Len(events[a]), t1, now)
  <2>1. Len(events[a]) = 0 \/ events[a][Len(events[a])].visible \in 1 .. now
    BY <1>1 DEF LogInv
  <2> QED
    BY <1>1, <2>1 DEF HadOnly, LogInv
<1> QED
  BY <1>1, <1>2 DEF Seen

LEMMA SeenWider ==
    ASSUME LogInv, NEW a \in Entities, NEW bases, NEW q, NEW source, NEW found,
           NEW t1 \in Int, NEW t2 \in Int, NEW u1 \in Int, NEW u2 \in Int,
           u1 <= t1, t2 <= u2, Seen(events[a], bases, t1, t2, q, source, found)
    PROVE  Seen(events[a], bases, u1, u2, q, source, found)
<1>1. PICK n \in Nat, b \in bases :
         /\ HadOnly(events[a], n, t1, t2) /\ b <= n /\ (b = 0 \/ Usable(b, q))
         /\ MadeOf(source, found, Upto(events[a], n, q) \cup 1 .. b)
  BY DEF Seen
<1>2. \A v \in 1 .. Len(events[a]) : events[a][v].visible \in Int
  BY DEF LogInv
<1>3. HadOnly(events[a], n, u1, u2)
  <2>1. n \in 0 .. Len(events[a]) /\ Len(events[a]) \in Nat
    BY <1>1 DEF HadOnly, LogInv
  <2>2. n # 0 => n \in 1 .. Len(events[a])
    BY <2>1
  <2>3. n # Len(events[a]) => n + 1 \in 1 .. Len(events[a])
    BY <2>1
  <2> QED
    BY <1>1, <1>2, <2>1, <2>2, <2>3 DEF HadOnly
<1> QED
  BY <1>1, <1>3 DEF Seen

-----------------------------------------------------------------------------
(* Greatest numbers and versions *)

LEMMA MaxExists ==
    ASSUME NEW n \in Nat, NEW S \in SUBSET (0 .. n), S # {}
    PROVE  Max(S) \in S /\ \A y \in S : Max(S) >= y
<1> DEFINE Above == {n - y : y \in S}
<1>1. \A y \in S : y \in Int /\ n - y \in Nat
  OBVIOUS
<1>2. Above \subseteq Nat /\ Above # {}
  BY <1>1
<1>3. PICK m \in Above : \A k \in Above : ~ (<<k, m>> \in OpToRel(<, Nat))
  BY <1>2, NatLessThanWellFounded, WFMin, Zenon
<1>4. PICK x \in S : m = n - x
  OBVIOUS
<1>5. ASSUME NEW y \in S PROVE x >= y
  <2>1. n - y \in Above /\ n - y \in Nat /\ m \in Nat /\ x \in Int /\ y \in Int
    BY <1>1, <1>2
  <2>2. <<n - y, m>> \in Nat \X Nat
    BY <2>1
  <2>3. ~ (n - y < m)
    BY <1>3, <2>1, <2>2 DEF OpToRel
  <2> QED
    BY <1>4, <2>1, <2>3
<1> QED
  BY <1>4, <1>5 DEF Max

LEMMA MaxIs ==
    ASSUME NEW S \in SUBSET Int, NEW m \in S, \A y \in S : m >= y
    PROVE  Max(S) = m
<1>1. \A z \in S : (\A y \in S : z >= y) => z = m
  OBVIOUS
<1> QED
  BY <1>1 DEF Max

(* A set has the version of a larger one whose greatest number it shares. *)
LEMMA SameVersion ==
    ASSUME NEW n \in Nat, NEW D \in SUBSET (1 .. n), NEW S \in SUBSET D,
           \A v \in D : \E w \in S : w >= v
    PROVE  VersionOf(S) = VersionOf(D)
<1> DEFINE D0 == D \cup {0}
           S0 == S \cup {0}
<1>1. D0 \in SUBSET (0 .. n) /\ D0 # {} /\ S0 \subseteq D0
  OBVIOUS
<1>2. PICK m \in D0 : m = Max(D0) /\ \A y \in D0 : m >= y
  BY <1>1, MaxExists
<1>3. m \in S0
  <2>1. CASE m \in D
    <3>1. PICK w \in S : w >= m
      BY <2>1
    <3>2. w \in D0 /\ w \in Int /\ m \in Int
      BY <1>1, <1>2
    <3> QED
      BY <1>2, <3>1, <3>2
  <2> QED
    BY <1>2, <2>1
<1>4. S0 \in SUBSET Int /\ \A y \in S0 : m >= y
  BY <1>1, <1>2
<1> HIDE DEF S0, D0
<1>5. Max(S0) = m
  BY <1>3, <1>4, MaxIs
<1> QED
  BY <1>2, <1>5 DEF S0, D0, VersionOf

-----------------------------------------------------------------------------
(* The log grows, and what it adds becomes visible now *)

Grows ==
    /\ now' \in Int /\ now <= now'
    /\ \A a \in Entities :
          /\ Len(events[a]) <= Len(events'[a])
          /\ \A v \in 1 .. Len(events[a]) : events'[a][v] = events[a][v]
          /\ \A v \in Len(events[a]) + 1 .. Len(events'[a]) : events'[a][v].visible >= now

LEMMA NowPositive ==
    ASSUME NumbersAssumption, LogInv
    PROVE  now \in 1 .. now /\ now \in Nat
BY DEF NumbersAssumption, LogInv

LEMMA CommitGrows ==
    ASSUME NumbersAssumption, LogInv, NEW a \in Entities, Commit(a)
    PROVE  LogInv' /\ Grows
<1>1. PICK lag \in 0 .. MaxLag, f \in Fields :
         events' = [events EXCEPT ![a] =
             Append(@, [created |-> now - lag, visible |-> now,
                        writes |-> IF @ = <<>> THEN Fields ELSE {f}])]
  BY DEF Commit
<1> DEFINE e == [created |-> now - lag, visible |-> now,
                 writes |-> IF events[a] = <<>> THEN Fields ELSE {f}]
           n == Len(events[a])
<1>2. now' = now /\ now \in Int /\ now - lag \in 1 .. now /\ now \in 1 .. now /\ e \in Event
  BY DEF Commit, LogInv, NumbersAssumption, Event
<1>3. events[a] \in Seq(Event) /\ n \in Nat
  BY DEF LogInv
<1>4. events'[a] = Append(events[a], e) /\ \A b \in Entities : b # a => events'[b] = events[b]
  BY <1>1 DEF LogInv
<1> HIDE DEF e
<1>5. /\ events'[a] \in Seq(Event) /\ Len(events'[a]) = n + 1 /\ events'[a][n + 1] = e
      /\ \A v \in 1 .. n : events'[a][v] = events[a][v]
  BY <1>2, <1>3, <1>4
<1>6. events' \in [Entities -> Seq(Event)]
  BY <1>1, <1>2, <1>3 DEF LogInv, e
<1>7. e.visible = now /\ e.created \in 1 .. now
  BY <1>2 DEF e
<1>8. \A v \in Nat : v \in 1 .. n + 1 => v \in 1 .. n \/ v = n + 1
  BY <1>3
<1>9. \A b \in Entities, v \in Nat : v \in 1 .. Len(events'[b]) =>
         events'[b][v].created \in 1 .. now /\ events'[b][v].visible \in 1 .. now
  <2> SUFFICES ASSUME NEW b \in Entities, NEW v \in Nat, v \in 1 .. Len(events'[b])
               PROVE  events'[b][v].created \in 1 .. now /\ events'[b][v].visible \in 1 .. now
    OBVIOUS
  <2>1. CASE b # a
    BY <1>4, <2>1 DEF LogInv
  <2>2. CASE b = a
    BY <1>2, <1>5, <1>7, <1>8, <2>2 DEF LogInv
  <2> QED
    BY <2>1, <2>2
<1>10. Grows
  <2> SUFFICES ASSUME NEW b \in Entities
               PROVE  /\ Len(events[b]) <= Len(events'[b])
                      /\ \A v \in 1 .. Len(events[b]) : events'[b][v] = events[b][v]
                      /\ \A v \in Len(events[b]) + 1 .. Len(events'[b]) :
                            events'[b][v].visible >= now
    BY <1>2 DEF Grows
  <2>1. CASE b # a
    <3>1. events'[b] = events[b] /\ Len(events[b]) \in Nat
      BY <1>4, <2>1 DEF LogInv
    <3> QED
      BY <3>1
  <2>2. CASE b = a
    <3>1. \A v \in n + 1 .. n + 1 : v = n + 1
      BY <1>3
    <3> QED
      BY <1>2, <1>3, <1>5, <1>7, <2>2, <3>1
  <2> QED
    BY <2>1, <2>2
<1> QED
  BY <1>2, <1>6, <1>9, <1>10 DEF LogInv

LEMMA SameGrows ==
    ASSUME NumbersAssumption, LogInv, events' = events,
           now' \in {now, now + 1}, now' <= MaxClock
    PROVE  LogInv' /\ Grows
<1>1. now' \in Int /\ now <= now'
  BY DEF LogInv
<1>2. LogInv'
  <2>1. MaxLag < now' /\ \A t \in 1 .. now : t \in 1 .. now'
    BY <1>1 DEF LogInv, NumbersAssumption
  <2> QED
    BY <1>1, <2>1 DEF LogInv
<1>3. \A a \in Entities : Len(events[a]) \in Nat
  BY DEF LogInv
<1> QED
  BY <1>1, <1>2, <1>3 DEF Grows

LEMMA SeenStable ==
    ASSUME LogInv, LogInv', Grows, NEW a \in Entities, NEW bases, NEW more, bases \subseteq more,
           NEW q, NEW source, NEW found, NEW t1 \in Int, NEW t2 \in Int, t1 <= now,
           Seen(events[a], bases, t1, t2, q, source, found)
    PROVE  Seen(events'[a], more, t1, t2, q, source, found)
<1>1. PICK n \in Nat, b \in bases :
         /\ HadOnly(events[a], n, t1, t2) /\ b <= n /\ (b = 0 \/ Usable(b, q))
         /\ MadeOf(source, found, Upto(events[a], n, q) \cup 1 .. b)
  BY DEF Seen
<1>2. n \in 0 .. Len(events[a]) /\ Len(events[a]) \in Nat /\ now \in Int
  BY <1>1 DEF HadOnly, LogInv
<1>3. \A v \in 1 .. n : events'[a][v] = events[a][v]
  BY <1>2 DEF Grows
<1>4. Upto(events'[a], n, q) = Upto(events[a], n, q)
  BY <1>3 DEF Upto
<1>5. HadOnly(events'[a], n, t1, t2)
  <2> DEFINE m == Len(events[a])
             k == Len(events'[a])
  <2>1. k \in Nat /\ m <= k
    BY DEF LogInv, Grows
  <2>2. n = 0 \/ events'[a][n].visible <= t2
    BY <1>1, <1>2, <1>3 DEF HadOnly
  <2>3. n = k \/ events'[a][n + 1].visible >= t1
    <3>1. CASE n = m /\ m # k
      <4>1. n + 1 \in m + 1 .. k /\ n + 1 \in 1 .. k
        BY <1>2, <2>1, <3>1
      <4>2. events'[a][n + 1].visible >= now /\ events'[a][n + 1].visible \in Int
        BY <4>1 DEF Grows, LogInv
      <4> QED
        BY <1>2, <4>2
    <3>2. CASE n # m
      <4>1. n + 1 \in 1 .. m
        BY <1>2, <3>2
      <4>2. events'[a][n + 1] = events[a][n + 1]
        BY <4>1 DEF Grows
      <4> QED
        BY <1>1, <3>2, <4>2 DEF HadOnly
    <3> QED
      BY <3>1, <3>2
  <2>4. n \in 0 .. k
    BY <1>2, <2>1
  <2> QED
    BY <2>2, <2>3, <2>4 DEF HadOnly
<1> QED
  BY <1>1, <1>4, <1>5 DEF Seen

-----------------------------------------------------------------------------
(* What a request becomes *)

LEMMA ParsedQueries ==
    ASSUME RequestsAssumption
    PROVE  /\ Current \in Queries /\ OneBound(Current)
           /\ \A p \in Parameters : /\ Given(p) \in Int \cup {Nil}
                                    /\ BoundOf(p) \in Queries /\ OneBound(BoundOf(p))
                                    /\ CatalogBound(p) \in Queries /\ OneBound(CatalogBound(p))
           /\ \A r \in Requests :
                 /\ r.route = "get" => QueryOf(r) \in Queries
                 /\ r.route = "replay" => BodyQuery(r) \in Queries
                 /\ r.route \in {"GetEntity", "Replay"} => EntityQuery(r) \in Queries
<1>1. \A v \in Int \cup {Nil}, t \in Int \cup {Nil} : [version |-> v, at |-> t] \in Queries
  BY DEF Queries
<1>2. Current \in Queries /\ OneBound(Current)
  BY <1>1 DEF Current, OneBound
<1>3. ASSUME NEW p \in Parameters
      PROVE  /\ Given(p) \in Int \cup {Nil}
             /\ BoundOf(p) \in Queries /\ OneBound(BoundOf(p))
             /\ CatalogBound(p) \in Queries /\ OneBound(CatalogBound(p))
  <2>1. p.n \in Int
    BY DEF Parameters
  <2>2. Given(p) \in Int \cup {Nil}
    BY <2>1 DEF Given
  <2>3. BoundOf(p) \in Queries /\ OneBound(BoundOf(p))
    BY <1>1, <1>2, <2>1 DEF BoundOf, ByVersion, ByInstant, OneBound
  <2> QED
    BY <1>2, <2>2, <2>3 DEF CatalogBound
<1>4. ASSUME NEW r \in Requests, r.route = "get" PROVE QueryOf(r) \in Queries
  <2>1. r.at \in Parameters /\ r.version \in Parameters
    BY <1>4 DEF RequestsAssumption
  <2> QED
    BY <1>1, <1>3, <2>1 DEF QueryOf
<1>5. ASSUME NEW r \in Requests, r.route = "replay" PROVE BodyQuery(r) \in Queries
  <2>1. r.at \in Parameters /\ r.version \in Parameters /\ r.json \in BOOLEAN
    BY <1>5 DEF RequestsAssumption
  <2>2. CASE r.json
    <3> DEFINE Value(p) == IF p.form = "word" THEN 0 ELSE Given(p)
    <3>1. \A p \in Parameters : Value(p) \in Int \cup {Nil}
      BY <1>3
    <3>2. [version |-> Value(r.version), at |-> Value(r.at)] \in Queries
      BY <1>1, <2>1, <3>1
    <3>3. BodyQuery(r) = [version |-> Value(r.version), at |-> Value(r.at)]
      BY <2>2 DEF BodyQuery
    <3> QED
      BY <3>2, <3>3
  <2>3. CASE ~ r.json
    BY <1>2, <2>3 DEF BodyQuery
  <2> QED
    BY <2>1, <2>2, <2>3
<1>6. ASSUME NEW r \in Requests, r.route \in {"GetEntity", "Replay"}
      PROVE  EntityQuery(r) \in Queries
  <2>1. r.at \in Parameters /\ r.int64 \in Int
    BY <1>6 DEF RequestsAssumption
  <2> QED
    BY <1>1, <1>3, <2>1 DEF EntityQuery
<1> QED
  BY <1>2, <1>3, <1>4, <1>5, <1>6

(* One query of any source, or the two bounds of a diff *)
LEMMA OnePlan ==
    ASSUME NEW r \in Requests, NEW source \in Sources, NEW q \in Queries,
           source = "cache" => r.agg \in Users /\ (SingleBounds => OneBound(q)),
           source = "engine" => r.agg \in Catalog,
           source = "projection" => q = Current,
           source = "search" => r.from \in Parameters /\ r.to \in Parameters
    PROVE  Planned(r, source, <<q>>)
<1>1. Len(<<q>>) = 1 /\ <<q>>[1] = q
  OBVIOUS
<1> QED
  BY <1>1 DEF Planned

LEMMA TwoPlans ==
    ASSUME NEW r \in Requests, NEW p \in Queries, NEW q \in Queries, OneBound(p), OneBound(q),
           NEW source \in {"cache", "engine"}, source = "cache" => r.agg \in Users,
           source = "engine" => r.agg \in Catalog
    PROVE  Planned(r, source, <<p, q>>)
<1>1. Len(<<p, q>>) = 2 /\ <<p, q>>[1] = p /\ <<p, q>>[2] = q
  OBVIOUS
<1>2. \A i \in 1 .. 2 : i = 1 \/ i = 2
  OBVIOUS
<1> QED
  BY <1>1, <1>2 DEF Planned, Sources

Begun(h, r) ==
    \E source \in Sources : \E plan : Planned(r, source, plan) /\ Serve(h, r, source, plan)

LEMMA AskPlans ==
    ASSUME RequestsAssumption, NEW h \in Handlers, NEW r \in Requests, Ask(h, r)
    PROVE  Receive(h) /\ (BadRequest(h, r) \/ Begun(h, r))
<1>0. \A source \in Sources : \A plan :
         Planned(r, source, plan) /\ Serve(h, r, source, plan) => Begun(h, r)
  BY DEF Begun
<1>1. CASE GetUser(h, r) \/ GetCatalog(h, r)
  <2>1. r.route = "get" /\ QueryOf(r) \in Queries
    BY <1>1, ParsedQueries DEF GetUser, GetCatalog, Asks
  <2> DEFINE q == QueryOf(r)
  <2>2. ~ IsTemporal(q) => q = Current
    BY <2>1 DEF IsTemporal, Queries, Current
  <2>3. /\ r.agg \in Users => Planned(r, IF IsTemporal(q) THEN "cache" ELSE "projection", <<q>>)
        /\ r.agg \in Catalog =>
              Planned(r, IF IsTemporal(q) THEN "engine" ELSE "projection", <<q>>)
    BY <2>1, <2>2, OnePlan DEF SingleBounds, Sources
  <2> QED
    BY <1>0, <1>1, <2>3 DEF GetUser, GetCatalog, ServeIf, Asks, Sources
<1>2. CASE UserDiff(h, r) \/ CatalogDiff(h, r)
  <2>1. r.from \in Parameters /\ r.to \in Parameters
    BY <1>2 DEF UserDiff, CatalogDiff, Asks, RequestsAssumption
  <2>2. /\ r.agg \in Users => Planned(r, "cache", <<BoundOf(r.from), BoundOf(r.to)>>)
        /\ r.agg \in Catalog =>
              Planned(r, "engine", <<CatalogBound(r.from), CatalogBound(r.to)>>)
    BY <2>1, ParsedQueries, TwoPlans
  <2> QED
    BY <1>0, <1>2, <2>2 DEF UserDiff, CatalogDiff, ServeIf, Asks, Sources
<1>3. CASE UserReplay(h, r) \/ CatalogReplay(h, r)
  <2>1. r.route = "replay" /\ BodyQuery(r) \in Queries
    BY <1>3, ParsedQueries DEF UserReplay, CatalogReplay, Asks
  <2>2. /\ r.agg \in Users => Planned(r, "cache", <<BodyQuery(r)>>)
        /\ r.agg \in Catalog => Planned(r, "engine", <<BodyQuery(r)>>)
    BY <2>1, OnePlan DEF SingleBounds, Sources
  <2> QED
    BY <1>0, <1>3, <2>2 DEF UserReplay, CatalogReplay, Asks, Sources
<1>4. CASE \/ GrpcGetUser(h, r) \/ GrpcReplayUser(h, r)
           \/ GrpcGetCatalog(h, r) \/ GrpcReplayCatalog(h, r)
  <2>1. r.route \in {"GetEntity", "Replay"} /\ EntityQuery(r) \in Queries
    BY <1>4, ParsedQueries
    DEF GrpcGetUser, GrpcReplayUser, GrpcGetCatalog, GrpcReplayCatalog, Asks
  <2> DEFINE q == EntityQuery(r)
  <2>2. ~ IsTemporal(q) => q = Current
    BY <2>1 DEF IsTemporal, Queries, Current
  <2>3. /\ r.agg \in Users =>
              /\ Planned(r, IF IsTemporal(q) THEN "cache" ELSE "projection", <<q>>)
              /\ Planned(r, "cache", <<q>>)
        /\ r.agg \in Catalog =>
              /\ Planned(r, IF IsTemporal(q) THEN "engine" ELSE "projection", <<q>>)
              /\ Planned(r, "engine", <<q>>)
    BY <2>1, <2>2, OnePlan DEF SingleBounds, Sources
  <2> QED
    BY <1>0, <1>4, <2>3
    DEF GrpcGetUser, GrpcReplayUser, GrpcGetCatalog, GrpcReplayCatalog, Asks, Sources
<1>5. CASE \/ EntityHistory(h, r) \/ EntityTimeline(h, r) \/ GrpcGetTimeline(h, r)
  <2>1. \A source \in {"history", "timeline", "entries"} : Planned(r, source, <<Current>>)
    BY ParsedQueries, OnePlan DEF Sources
  <2> QED
    BY <1>0, <1>5, <2>1 DEF EntityHistory, EntityTimeline, GrpcGetTimeline, Sources
<1>6. CASE SearchEvents(h, r) \/ GrpcSearchEvents(h, r)
  <2>1. r.from \in Parameters /\ r.to \in Parameters
    BY <1>6 DEF SearchEvents, GrpcSearchEvents, RequestsAssumption
  <2>2. Planned(r, "search", <<Current>>)
    BY <2>1, ParsedQueries, OnePlan DEF Sources
  <2> QED
    BY <1>0, <1>6, <2>2 DEF SearchEvents, GrpcSearchEvents, ServeIf, Sources
<1> QED
  BY <1>1, <1>2, <1>3, <1>4, <1>5, <1>6 DEF Ask

-----------------------------------------------------------------------------
(* What a step of a handler can be *)

HandlerStep(h) ==
    \/ Hit(h) \/ Miss(h) \/ ReadSnapshot(h) \/ Replay(h) \/ Store(h) \/ StoreFails(h)
    \/ SelectRow(h) \/ Search(h) \/ QueryFails(h)

Log(h) == events[job[h].request.agg]

Only(h) == DOMAIN job' = Handlers /\ \A o \in Handlers \ {h} : job'[o] = job[o]

Moves(h) ==
    /\ job[h].pc = "get" /\ job'[h] = [job[h] EXCEPT !.pc = "snapshot"]
    /\ answer' = NoAnswer

(* The newest snapshot is the base unless it is newer than a version asked for. *)
Base(h, base) ==
    LET a == job[h].request.agg
    IN  /\ Question(h).version # Nil \/ \A v \in Taken(a) : v <= base.decoded
        /\ \/ base = Fresh
           \/ \E s \in snapshots : /\ s.agg = a /\ base = [versions |-> s.state, decoded |-> s.version]
                                   /\ Usable(s.version, Question(h))

Starts(h) ==
    /\ job[h].pc = "snapshot"
    /\ \E base : Base(h, base) /\ job'[h] = [job[h] EXCEPT !.pc = "load", !.found = base]
    /\ answer' = NoAnswer

Loads(h) ==
    /\ job[h].pc = "load" /\ job[h].source = "cache" /\ Applied(h).versions # {}
    /\ job'[h] = [job[h] EXCEPT !.pc = "set", !.found = Applied(h), !.loaded = now]
    /\ answer' = NoAnswer

Ends(h) == job'[h] = Idle /\ answer'.status \in {404, 500}

(* Where an answer to the next query of the plan comes from *)
Yields(h, found) ==
    \/ job[h].pc = "get" /\ \E e \in Live(Key(h)) : found = Decoded(e.found)
    \/ job[h].pc = "set" /\ found = job[h].found
    \/ job[h].pc = "load" /\ job[h].source # "cache" /\ found = Applied(h)
    \/ job[h].pc = "select" /\ Len(Log(h)) > 0 /\ found = Scanned({Len(Log(h))})
    \/ job[h].pc = "search" /\ \E S \in FirstMatches(Log(h), job[h].request) : found = Scanned(S)

(* The plan goes on, or this was its last query. *)
Continues(h, found) ==
    /\ Len(job[h].got) + 1 < Len(job[h].plan)
    /\ DOMAIN job'[h] = JobFields
    /\ job'[h].pc = FirstStep(job[h].source) /\ job'[h].request = job[h].request
    /\ job'[h].source = job[h].source /\ job'[h].plan = job[h].plan
    /\ job'[h].asked = job[h].asked /\ job'[h].got = Append(job[h].got, found)
    /\ job'[h].found = Fresh
    /\ answer' = NoAnswer

Answered(h, found) ==
    /\ Len(job[h].got) + 1 = Len(job[h].plan)
    /\ job'[h] = Idle
    /\ answer' = [status |-> 200, request |-> job[h].request, source |-> job[h].source,
                  plan |-> job[h].plan, got |-> Append(job[h].got, found),
                  asked |-> job[h].asked, told |-> now]

LEMMA CollectKinds ==
    ASSUME TInv, NEW h \in Handlers, job[h].pc # "idle",
           NEW found \in Results, Collect(h, found)
    PROVE  Only(h) /\ (Continues(h, found) \/ Answered(h, found))
<1>1. /\ DOMAIN job = Handlers /\ DOMAIN job[h] = JobFields /\ job[h].got \in Seq(Results)
  BY DEF TInv, JobInv
<1>2. Len(Append(job[h].got, found)) = Len(job[h].got) + 1
  BY <1>1
<1>3. CASE /\ Len(Append(job[h].got, found)) = Len(job[h].plan)
           /\ Reply(h, 200, Append(job[h].got, found))
  BY <1>1, <1>2, <1>3 DEF Reply, Only, Answered
<1>4. CASE /\ Len(Append(job[h].got, found)) < Len(job[h].plan)
           /\ job' = [job EXCEPT ![h].got = Append(job[h].got, found), ![h].found = Fresh,
                                 ![h].loaded = 0, ![h].pc = FirstStep(job[h].source)]
           /\ answer' = NoAnswer
  BY <1>1, <1>2, <1>4 DEF Only, Continues, JobFields
<1> QED
  BY <1>3, <1>4 DEF Collect

LEMMA EndKinds ==
    ASSUME TInv, NEW h \in Handlers, NEW status \in {404, 500}, Reply(h, status, <<>>)
    PROVE  Only(h) /\ Ends(h)
BY DEF TInv, Reply, Only, Ends

LEMMA KeyNames ==
    ASSUME NEW a, NEW q
    PROVE  cacheKey(a, q)[2] = a
BY DEF cacheKey

(* The query a handler asks, of an entity there is *)
LEMMA Asked ==
    ASSUME RequestsAssumption, TInv, NEW h \in Handlers, job[h].pc # "idle"
    PROVE  /\ job[h].request \in Requests /\ job[h].request.agg \in Entities
           /\ Len(job[h].got) \in Nat /\ job[h].got \in Seq(Results) /\ job[h].found \in Results
           /\ Len(job[h].got) + 1 \in 1 .. Len(job[h].plan)
           /\ Question(h) \in Queries
           /\ job[h].source = "cache" => job[h].request.agg \in Users
           /\ job[h].source = "engine" => job[h].request.agg \in Catalog
           /\ Key(h)[2] = job[h].request.agg
           /\ Log(h) \in Seq(Event) /\ DOMAIN Log(h) = 1 .. Len(Log(h)) /\ Len(Log(h)) \in Nat
<1>1. JobInv(h) /\ LogInv
  BY DEF TInv
<1>2. /\ Planned(job[h].request, job[h].source, job[h].plan)
      /\ job[h].got \in Seq(Results) /\ job[h].found \in Results
      /\ Len(job[h].got) < Len(job[h].plan)
  BY <1>1 DEF JobInv
<1>3. job[h].request \in Requests /\ job[h].request.agg \in Entities
  BY <1>2 DEF Planned, RequestsAssumption
<1>4. Len(job[h].got) \in Nat /\ Len(job[h].got) + 1 \in 1 .. Len(job[h].plan)
  BY <1>2 DEF Planned
<1>5. Question(h) \in Queries
  BY <1>2, <1>4 DEF Planned, Question
<1>6. Key(h)[2] = job[h].request.agg
  BY KeyNames DEF Key
<1>7. Log(h) \in Seq(Event) /\ DOMAIN Log(h) = 1 .. Len(Log(h)) /\ Len(Log(h)) \in Nat
  BY <1>1, <1>3 DEF LogInv, Log
<1> QED
  BY <1>2, <1>3, <1>4, <1>5, <1>6, <1>7 DEF Planned

(* A snapshot names a version of its log, decoded or taken as a base. *)
LEMMA SnapshotVersions ==
    ASSUME TInv, NEW s \in snapshots
    PROVE  /\ s.version \in 1 .. Len(events[s.agg]) /\ s.version \in Taken(s.agg)
           /\ s.state \subseteq 1 .. s.version /\ s.version \in s.state
           /\ s.agg \in Catalog => s.state = 1 .. s.version
           /\ Decoded(s.state) = [versions |-> s.state, decoded |-> s.version]
<1>1. /\ s.version \in 1 .. Len(events[s.agg]) /\ s.agg \in Entities
      /\ s.state \subseteq 1 .. s.version /\ s.version \in s.state
      /\ s.agg \in Catalog => s.state = 1 .. s.version
  BY DEF TInv, SnapInv, Versions
<1>2. s.state \in SUBSET Int /\ \A y \in s.state : s.version >= y
  BY <1>1
<1>3. Max(s.state) = s.version
  BY <1>1, <1>2, MaxIs
<1>4. s.version \in Taken(s.agg)
  BY DEF Taken
<1> QED
  BY <1>1, <1>3, <1>4 DEF Decoded

LEMMA TakenVersions ==
    ASSUME TInv, NEW a \in Entities
    PROVE  Taken(a) \subseteq 1 .. Len(events[a]) /\ Len(events[a]) \in Nat
<1>1. ASSUME NEW v \in Taken(a) PROVE v \in 1 .. Len(events[a])
  <2>1. PICK s \in snapshots : s.agg = a /\ v = s.version
    BY <1>1 DEF Taken
  <2> QED
    BY <2>1, SnapshotVersions
<1>2. Len(events[a]) \in Nat
  BY DEF TInv, LogInv
<1> QED
  BY <1>1, <1>2

(* What a replay has read applies to its base: the version that the log    *)
(* and the base lead to, and of products and orders all events behind it.  *)
LEMMA LoadYields ==
    ASSUME RequestsAssumption, TInv, NEW h \in Handlers, job[h].pc = "load"
    PROVE  \E b \in BasesIn(snapshots, job[h].source, job[h].request.agg) :
              /\ b = job[h].found.decoded /\ b \in Nat /\ b <= Len(Log(h))
              /\ b = 0 \/ Usable(b, Question(h))
              /\ Applied(h) \in Results /\ Applied(h).decoded = b
              /\ Applied(h).versions \subseteq Versions(job[h].request.agg)
              /\ MadeOf(job[h].source, Applied(h).versions,
                        Upto(Log(h), Len(Log(h)), Question(h)) \cup 1 .. b)
<1> DEFINE a == job[h].request.agg
           b == job[h].found.decoded
           base == job[h].found.versions
           n == Len(Log(h))
           up == Upto(Log(h), n, Question(h))
           S == base \cup {v \in up : v > b}
           source == job[h].source
<1>1. JobInv(h) /\ LogInv /\ Started(h)
  BY DEF TInv, JobInv
<1>2. /\ a \in Entities /\ job[h].found \in Results /\ n \in Nat /\ source # "projection"
      /\ Question(h) \in Queries /\ Taken(a) \subseteq 1 .. n
  BY <1>1, Asked, TakenVersions DEF JobInv, Log
<1>3. up \subseteq 1 .. n
  BY DEF Upto
<1>4. Applied(h) = [versions |-> S, decoded |-> b]
  <2>1. Replayed(events[a], Question(h)) = up
    BY <1>1, <1>2, ReplayedAll DEF Log
  <2>2. job[h].found = [versions |-> base, decoded |-> b]
    BY <1>2 DEF Results
  <2>3. Applied(h) = [versions |-> base \cup {v \in Replayed(events[a], Question(h)) : v > b},
                      decoded |-> b]
    BY <2>2 DEF Applied
  <2> QED
    BY <2>1, <2>3
<1>5. /\ b \in Nat /\ b <= n /\ (b = 0 \/ Usable(b, Question(h)))
      /\ b \in BasesIn(snapshots, source, a)
      /\ base \subseteq 1 .. b /\ (b # 0 => b \in base)
      /\ (source # "cache" => base = 1 .. b)
  <2>1. CASE job[h].found = Fresh
    <3>1. b = 0 /\ base = {}
      BY <2>1 DEF Fresh, Scanned
    <3> QED
      BY <1>2, <3>1 DEF BasesIn
  <2>2. CASE job[h].found # Fresh
    BY <1>1, <1>2, <2>2 DEF Started, BasesIn, Taken
  <2> QED
    BY <2>1, <2>2
<1>6. S \subseteq up \cup 1 .. b /\ S \subseteq 1 .. n
  BY <1>2, <1>3, <1>5
<1>7. VersionOf(S) = VersionOf(up \cup 1 .. b)
  <2>1. ASSUME NEW v \in up \cup 1 .. b PROVE \E w \in S : w >= v
    <3>1. v \in Int /\ v >= 1
      BY <1>2, <1>3, <1>5
    <3>2. CASE v > b
      <4>1. v \in S /\ v >= v
        BY <1>5, <3>1, <3>2
      <4> QED
        BY <4>1
    <3>3. CASE v <= b
      <4>1. b \in S
        BY <1>5, <3>1, <3>3
      <4> QED
        BY <3>3, <4>1, <1>5, <3>1
    <3> QED
      BY <1>5, <3>1, <3>2, <3>3
  <2>2. up \cup 1 .. b \in SUBSET (1 .. n) /\ n \in Nat
    BY <1>2, <1>3, <1>5
  <2> HIDE DEF S, up, n, b
  <2> QED
    BY <1>6, <2>1, <2>2, SameVersion
<1>8. source # "cache" => S = up \cup 1 .. b
  BY <1>3, <1>5
<1>9. MadeOf(source, S, up \cup 1 .. b)
  BY <1>2, <1>6, <1>7, <1>8 DEF MadeOf
<1>10. Applied(h) \in Results /\ Applied(h).decoded = b /\ Applied(h).versions = S
  BY <1>2, <1>4, <1>5, <1>6 DEF Results
<1> HIDE DEF S
<1> QED
  BY <1>5, <1>6, <1>9, <1>10 DEF Log, Versions

(* Whatever a query yields is made of versions of its log. *)
LEMMA YieldsVersions ==
    ASSUME RequestsAssumption, TInv, NEW h \in Handlers, job[h].pc # "idle",
           NEW found, Yields(h, found)
    PROVE  found \in Results /\ found.versions \subseteq Versions(job[h].request.agg)
<1> DEFINE a == job[h].request.agg
           n == Len(events[a])
<1>0. a \in Entities /\ n \in Nat /\ Log(h) = events[a] /\ DOMAIN Log(h) = 1 .. n
  BY Asked DEF Log
<1>1. ASSUME NEW S, S \subseteq 1 .. n
      PROVE  Scanned(S) \in Results /\ Scanned(S).versions \subseteq Versions(a)
  BY <1>0, <1>1 DEF Scanned, Results, Versions
<1>2. CASE job[h].pc = "get" /\ \E e \in Live(Key(h)) : found = Decoded(e.found)
  <2>1. PICK e \in Live(Key(h)) : found = Decoded(e.found)
    BY <1>2
  <2>2. e.found # {} /\ e.found \subseteq Versions(e.key[2]) /\ e.key = Key(h)
    BY <2>1 DEF Live, TInv, CacheInv
  <2>3. e.found # {} /\ e.found \subseteq 1 .. n
    BY <2>2, Asked DEF Versions
  <2>4. e.found \in SUBSET (0 .. n)
    BY <1>0, <2>3
  <2> HIDE DEF n, a
  <2>5. Max(e.found) \in e.found
    BY <1>0, <2>3, <2>4, MaxExists
  <2>6. Max(e.found) \in Nat
    BY <1>0, <2>4, <2>5
  <2> QED
    BY <1>0, <2>1, <2>3, <2>6 DEF Decoded, Results, Versions, a, n
<1>3. CASE job[h].pc = "set" /\ found = job[h].found
  BY <1>3, Asked DEF TInv, JobInv
<1>4. CASE job[h].pc = "load" /\ found = Applied(h)
  BY <1>4, LoadYields
<1>5. CASE Len(Log(h)) > 0 /\ found = Scanned({Len(Log(h))})
  BY <1>0, <1>1, <1>5
<1>6. CASE \E S \in FirstMatches(Log(h), job[h].request) : found = Scanned(S)
  <2>1. PICK S \in FirstMatches(Log(h), job[h].request) : found = Scanned(S)
    BY <1>6
  <2>2. S \subseteq 1 .. n
    BY <1>0, <2>1 DEF FirstMatches
  <2> QED
    BY <1>1, <2>1, <2>2
<1> QED
  BY <1>2, <1>3, <1>4, <1>5, <1>6 DEF Yields

LEMMA Collected ==
    ASSUME RequestsAssumption, TInv, NEW h \in Handlers, job[h].pc # "idle",
           NEW found, Yields(h, found), Collect(h, found)
    PROVE  /\ Only(h)
           /\ \E f \in Results : Yields(h, f) /\ (Continues(h, f) \/ Answered(h, f))
<1>1. found \in Results
  BY YieldsVersions
<1>2. Only(h) /\ (Continues(h, found) \/ Answered(h, found))
  BY <1>1, CollectKinds
<1> QED
  BY <1>1, <1>2

(* The base that ReadSnapshot chooses *)
LEMMA BaseChosen ==
    ASSUME RequestsAssumption, TInv, NEW h \in Handlers, ReadSnapshot(h)
    PROVE  Only(h) /\ Starts(h)
<1> DEFINE Own    == {s \in snapshots : s.agg = job[h].request.agg}
           Latest == {s \in Own : /\ \A t \in Own : s.version >= t.version
                                  /\ Usable(s.version, Question(h))}
<1>1. PICK base \in {Decoded(s.state) : s \in Latest}
                       \cup (IF Latest = {} THEN {Fresh} ELSE {}) :
         job' = [job EXCEPT ![h].pc = "load", ![h].found = base]
  BY DEF ReadSnapshot
<1>2. DOMAIN job = Handlers /\ DOMAIN job[h] = JobFields /\ job[h].pc = "snapshot"
  BY DEF TInv, JobInv, ReadSnapshot
<1>3. Only(h) /\ job'[h] = [job[h] EXCEPT !.pc = "load", !.found = base]
  BY <1>1, <1>2 DEF Only
<1>4. \A v \in Taken(job[h].request.agg) : \E s \in Own : v = s.version
  BY DEF Taken
<1>5. CASE base \in {Decoded(s.state) : s \in Latest}
  <2>1. PICK s \in Latest : base = Decoded(s.state)
    BY <1>5
  <2>2. base = [versions |-> s.state, decoded |-> s.version]
    BY <2>1, SnapshotVersions
  <2>3. \A v \in Taken(job[h].request.agg) : v <= s.version
    BY <1>4, <2>1, SnapshotVersions
  <2>4. Base(h, base)
    BY <2>1, <2>2, <2>3 DEF Base
  <2> QED
    BY <1>2, <1>3, <2>4 DEF Starts, ReadSnapshot
<1>6. CASE base = Fresh /\ Latest = {}
  <2>1. ASSUME Question(h).version = Nil PROVE Own = {}
    <3> SUFFICES ASSUME Own # {} PROVE FALSE
      OBVIOUS
    <3> DEFINE a == job[h].request.agg
               n == Len(events[a])
               V == {s.version : s \in Own}
    <3>1. a \in Entities /\ n \in Nat
      BY <1>2, Asked DEF Log
    <3>2. V \in SUBSET (0 .. n) /\ V # {}
      <4>1. ASSUME NEW s \in Own PROVE s.version \in 0 .. n
        <5>1. s \in snapshots /\ s.agg = a
          OBVIOUS
        <5>2. s.version \in 1 .. Len(events[a])
          BY <5>1, SnapshotVersions
        <5> QED
          BY <3>1, <5>2
      <4> QED
        BY <4>1
    <3>3. PICK m \in V : \A y \in V : m >= y
      BY <3>1, <3>2, MaxExists
    <3>4. PICK s \in Own : s.version = m
      OBVIOUS
    <3>5. s \in Latest
      BY <2>1, <3>3, <3>4 DEF Usable
    <3> QED
      BY <1>6, <3>5
  <2>2. Base(h, base)
    BY <1>4, <1>6, <2>1 DEF Base
  <2> QED
    BY <1>2, <1>3, <2>2 DEF Starts, ReadSnapshot
<1> QED
  BY <1>1, <1>5, <1>6

LEMMA HandlerKinds ==
    ASSUME RequestsAssumption, TInv, NEW h \in Handlers, HandlerStep(h)
    PROVE  /\ UNCHANGED <<now, events, snapshots, calls>> /\ job[h].pc # "idle" /\ Only(h)
           /\ (redis' = redis /\ slowest' = slowest) \/ Store(h)
           /\ \/ Moves(h) \/ Starts(h) \/ Loads(h) \/ Ends(h)
              \/ \E found \in Results :
                    Yields(h, found) /\ (Continues(h, found) \/ Answered(h, found))
<1> USE DEF HandlerStep
<1>0. DOMAIN job = Handlers /\ DOMAIN job[h] = JobFields
  BY DEF TInv, JobInv
<1>1. CASE Hit(h)
  <2>1. PICK e \in Live(Key(h)) : Collect(h, Decoded(e.found))
    BY <1>1 DEF Hit
  <2>2. job[h].pc = "get" /\ Yields(h, Decoded(e.found))
    BY <1>1 DEF Hit, Yields
  <2> QED
    BY <1>1, <2>1, <2>2, Collected DEF Hit
<1>2. CASE Miss(h)
  BY <1>0, <1>2 DEF Miss, Only, Moves
<1>3. CASE ReadSnapshot(h)
  BY <1>3, BaseChosen DEF ReadSnapshot
<1>4. CASE Replay(h)
  <2>1. CASE Reply(h, 404, <<>>)
    BY <1>4, <2>1, EndKinds DEF Replay
  <2>2. CASE /\ Applied(h).versions # {} /\ job[h].source = "cache" /\ answer' = NoAnswer
             /\ job' = [job EXCEPT ![h].pc = "set", ![h].found = Applied(h),
                                     ![h].loaded = now]
    BY <1>0, <1>4, <2>2 DEF Replay, Only, Loads
  <2>3. CASE job[h].source # "cache" /\ Collect(h, Applied(h))
    <3>1. job[h].pc = "load" /\ Yields(h, Applied(h))
      BY <1>4, <2>3 DEF Replay, Yields
    <3> QED
      BY <1>4, <2>3, <3>1, Collected DEF Replay
  <2> QED
    BY <1>4, <2>1, <2>2, <2>3 DEF Replay
<1>5. CASE Store(h)
  BY <1>5, Collected DEF Store, Yields
<1>6. CASE StoreFails(h)
  BY <1>6, Collected DEF StoreFails, Yields
<1>7. CASE SelectRow(h)
  <2>1. CASE Reply(h, 404, <<>>)
    BY <1>7, <2>1, EndKinds DEF SelectRow
  <2>2. CASE Len(Log(h)) > 0 /\ Collect(h, Scanned({Len(Log(h))}))
    <3>1. Yields(h, Scanned({Len(Log(h))})) /\ job[h].pc # "idle"
      BY <1>7, <2>2 DEF Yields, SelectRow
    <3> QED
      BY <1>7, <2>2, <3>1, Collected DEF SelectRow
  <2> QED
    BY <1>7, <2>1, <2>2 DEF SelectRow, Log
<1>8. CASE Search(h)
  <2>1. PICK S \in FirstMatches(Log(h), job[h].request) : Collect(h, Scanned(S))
    BY <1>8 DEF Search, Log
  <2>2. Yields(h, Scanned(S)) /\ job[h].pc # "idle"
    BY <1>8, <2>1 DEF Search, Yields
  <2> QED
    BY <1>8, <2>1, <2>2, Collected DEF Search
<1>9. CASE QueryFails(h)
  BY <1>9, EndKinds DEF QueryFails
<1> QED
  BY <1>1, <1>2, <1>3, <1>4, <1>5, <1>6, <1>7, <1>8, <1>9

-----------------------------------------------------------------------------
(* Type correctness *)

LEMMA LogStep ==
    ASSUME NumbersAssumption, RequestsAssumption, TInv, [Next]_vars
    PROVE  LogInv' /\ Grows
<1> USE DEF TInv
<1>1. ASSUME NEW a \in Entities, Commit(a) PROVE LogInv' /\ Grows
  BY <1>1, CommitGrows
<1>2. CASE events' = events /\ now' \in {now, now + 1} /\ now' <= MaxClock
  BY <1>2, SameGrows
<1>3. CASE Tick
  BY <1>2, <1>3 DEF Tick, LogInv, NumbersAssumption
<1>4. ASSUME NEW h \in Handlers, NEW r \in Requests, Ask(h, r) PROVE LogInv' /\ Grows
  BY <1>2, <1>4, AskPlans DEF Receive, LogInv
<1>5. ASSUME NEW h \in Handlers, HandlerStep(h) PROVE LogInv' /\ Grows
  BY <1>2, <1>5, HandlerKinds DEF LogInv
<1>6. CASE UNCHANGED vars
  BY <1>2, <1>6 DEF vars, LogInv
<1>7. ASSUME NEW a \in Entities, SaveSnapshot(a) PROVE LogInv' /\ Grows
  BY <1>2, <1>7 DEF SaveSnapshot, LogInv
<1> QED
  BY <1>1, <1>3, <1>4, <1>5, <1>6, <1>7 DEF Next, HandlerStep

(* A save replaces the row of its version, and removes no version. *)
Kept == \A a \in Entities : Taken(a) \subseteq Taken(a)'

LEMMA SaveKeeps ==
    ASSUME TInv, NEW a \in Entities, SaveSnapshot(a)
    PROVE  SnapInv' /\ Kept
<1>1. PICK v \in Versions(a) : \E first \in 1 .. v :
         /\ a \in Catalog => first = 1
         /\ snapshots' = {s \in snapshots : s.agg # a \/ s.version # v}
                            \cup {[agg |-> a, version |-> v, state |-> first .. v]}
  BY DEF SaveSnapshot
<1>2. PICK first \in 1 .. v :
         /\ a \in Catalog => first = 1
         /\ snapshots' = {s \in snapshots : s.agg # a \/ s.version # v}
                            \cup {[agg |-> a, version |-> v, state |-> first .. v]}
  BY <1>1
<1> DEFINE new == [agg |-> a, version |-> v, state |-> first .. v]
<1>3. /\ new.agg = a /\ new.version = v /\ new.state = first .. v
      /\ snapshots' = {s \in snapshots : s.agg # a \/ s.version # v} \cup {new}
      /\ events' = events /\ v \in 1 .. Len(events[a]) /\ Len(events[a]) \in Nat
  BY <1>2 DEF SaveSnapshot, Versions, TInv, LogInv
<1>4. v \in first .. v /\ first .. v \subseteq 1 .. v /\ (a \in Catalog => first .. v = 1 .. v)
  BY <1>2, <1>3
<1> HIDE DEF new
<1>5. SnapInv'
  BY <1>3, <1>4 DEF TInv, SnapInv, Versions
<1>6. Kept
  <2> SUFFICES ASSUME NEW b \in Entities, NEW s \in snapshots, s.agg = b
               PROVE  \E t \in snapshots' : t.agg = b /\ t.version = s.version
    BY DEF Kept, Taken
  <2>1. CASE s \in snapshots'
    BY <2>1
  <2>2. CASE s \notin snapshots'
    BY <1>3, <2>2
  <2> QED
    BY <2>1, <2>2
<1> QED
  BY <1>5, <1>6

LEMMA SnapshotsStep ==
    ASSUME NumbersAssumption, RequestsAssumption, TInv, [Next]_vars
    PROVE  SnapInv' /\ Kept
<1>1. CASE snapshots' = snapshots
  <2>1. \A a \in Entities : Versions(a) \subseteq Versions(a)'
    BY LogStep DEF Grows, LogInv, Versions
  <2>2. SnapInv'
    BY <1>1, <2>1 DEF TInv, SnapInv
  <2> QED
    BY <1>1, <2>2 DEF Kept, Taken
<1>2. ASSUME NEW h \in Handlers, NEW r \in Requests, Ask(h, r) PROVE snapshots' = snapshots
  BY <1>2, AskPlans DEF Receive
<1>3. ASSUME NEW h \in Handlers, HandlerStep(h) PROVE snapshots' = snapshots
  BY <1>3, HandlerKinds
<1> QED
  BY <1>1, <1>2, <1>3, SaveKeeps DEF Next, HandlerStep, Commit, Tick, vars

LEMMA JobStable ==
    ASSUME RequestsAssumption, LogInv, LogInv', Grows, Kept,
           NEW h \in Handlers, JobInv(h), job'[h] = job[h]
    PROVE  JobInv(h)'
<1>1. \A t \in Int : t <= now => t <= now'
  BY DEF LogInv, Grows
<1>2. \A a \in Entities : Versions(a) \subseteq 1 .. Len(events'[a])
  BY DEF LogInv, Grows, Versions
<1>3. CASE job[h].pc = "idle"
  BY <1>3 DEF JobInv
<1>4. CASE job[h].pc # "idle"
  <2>1. job[h].request.agg \in Entities
    BY <1>4 DEF JobInv, Planned, RequestsAssumption
  <2>2. job[h].pc = "set" => job[h].found.versions \subseteq 1 .. Len(events'[job[h].request.agg])
    BY <1>2, <2>1 DEF JobInv
  <2>3. /\ job[h].asked \in 1 .. now'
        /\ job[h].pc = "set" => job[h].loaded \in job[h].asked .. now'
    BY <1>4 DEF JobInv, LogInv, Grows
  <2>4. job[h].pc = "load" => Started(h)'
    BY <2>1 DEF JobInv, Started, Kept, Question
  <2> QED
    BY <1>4, <2>2, <2>3, <2>4 DEF JobInv, Versions
<1> QED
  BY <1>3, <1>4

LEMMA BegunJob ==
    ASSUME NumbersAssumption, TInv, LogInv', Grows,
           NEW h \in Handlers, NEW r \in Requests, now' = now, Begun(h, r)
    PROVE  Only(h) /\ JobInv(h)' /\ answer' = NoAnswer
<1>1. PICK source \in Sources : \E plan : Planned(r, source, plan) /\ Serve(h, r, source, plan)
  BY DEF Begun
<1>2. PICK plan : Planned(r, source, plan) /\ Serve(h, r, source, plan)
  BY <1>1
<1> DEFINE j == [Idle EXCEPT !.pc = FirstStep(source), !.request = r, !.source = source,
                             !.plan = plan, !.asked = now]
<1>3. DOMAIN job = Handlers /\ job' = [job EXCEPT ![h] = j] /\ answer' = NoAnswer
  BY <1>2 DEF Serve, TInv
<1>4. /\ DOMAIN j = JobFields /\ j.pc = FirstStep(source) /\ j.request = r /\ j.source = source
      /\ j.plan = plan /\ j.asked = now /\ j.got = <<>> /\ j.found = Fresh
  BY DEF Idle, JobFields
<1>5. /\ FirstStep(source) \in {"get", "snapshot", "load", "select", "search"}
      /\ FirstStep(source) = "get" => source = "cache"
      /\ FirstStep(source) = "snapshot" => source = "engine"
      /\ FirstStep(source) = "select" <=> source = "projection"
      /\ FirstStep(source) = "search" <=> source = "search"
  BY DEF FirstStep, Sources
<1>6. <<>> \in Seq(Results) /\ Len(<<>>) = 0 /\ Len(plan) \in {1, 2} /\ now \in 1 .. now
  BY <1>2, NowPositive DEF Planned, TInv
<1> HIDE DEF j
<1>7. job'[h] = j /\ Only(h)
  BY <1>3 DEF Only
<1>8. j.pc # "idle" /\ j.pc # "set"
  BY <1>4, <1>5
<1>9. Planned(j.request, j.source, j.plan) /\ Len(j.got) < Len(j.plan)
  <2>1. Planned(j.request, j.source, j.plan)
    BY <1>2, <1>4, Zenon
  <2>2. Len(j.got) = 0 /\ Len(j.plan) \in {1, 2}
    BY <1>4, <1>6, Zenon
  <2>3. \A m, n : m = 0 /\ n \in {1, 2} => m < n
    OBVIOUS
  <2>4. Len(j.got) < Len(j.plan)
    BY <2>2, <2>3, Zenon
  <2> QED
    BY <2>1, <2>4
<1>10. j.got \in Seq(Results) /\ j.asked \in 1 .. now' /\ Fresh \in Results
  BY <1>4, <1>6 DEF Fresh, Scanned, Results
<1>11. JobInv(h)'
  BY <1>4, <1>5, <1>7, <1>8, <1>9, <1>10 DEF JobInv, Started
<1> QED
  BY <1>3, <1>7, <1>11

LEMMA BegunLocals ==
    ASSUME TInv, NEW h \in Handlers, NEW r \in Requests, Begun(h, r)
    PROVE  job'[h].pc # "set" /\ job'[h].got = <<>>
<1>1. PICK source \in Sources : \E plan : Planned(r, source, plan) /\ Serve(h, r, source, plan)
  BY DEF Begun
<1>2. PICK plan : Serve(h, r, source, plan)
  BY <1>1
<1>3. job'[h] = [Idle EXCEPT !.pc = FirstStep(source), !.request = r, !.source = source,
                             !.plan = plan, !.asked = now]
  BY <1>2 DEF Serve, TInv
<1> QED
  BY <1>3 DEF Idle, FirstStep

LEMMA ContinuedJob ==
    ASSUME RequestsAssumption, TInv, NEW h \in Handlers, job[h].pc # "idle", now' = now,
           NEW found \in Results, Continues(h, found)
    PROVE  JobInv(h)'
<1>1. JobInv(h) /\ Planned(job[h].request, job[h].source, job[h].plan)
  BY DEF TInv, JobInv
<1>2. /\ FirstStep(job[h].source) \in {"get", "snapshot", "load", "select", "search"}
      /\ FirstStep(job[h].source) = "get" => job[h].source = "cache"
      /\ FirstStep(job[h].source) = "snapshot" => job[h].source = "engine"
      /\ FirstStep(job[h].source) = "select" <=> job[h].source = "projection"
      /\ FirstStep(job[h].source) = "search" <=> job[h].source = "search"
  BY <1>1 DEF FirstStep, Sources, Planned
<1>3. /\ Append(job[h].got, found) \in Seq(Results)
      /\ Len(Append(job[h].got, found)) = Len(job[h].got) + 1
  BY Asked
<1>4. Planned(job'[h].request, job'[h].source, job'[h].plan)
  BY <1>1, Zenon DEF Continues
<1>5. /\ DOMAIN job'[h] = JobFields /\ job'[h].pc = FirstStep(job'[h].source)
      /\ job'[h].source = job[h].source /\ job'[h].asked \in 1 .. now'
      /\ job'[h].got \in Seq(Results) /\ Len(job'[h].got) < Len(job'[h].plan)
      /\ job'[h].found = Fresh /\ Fresh \in Results
  BY <1>1, <1>3 DEF Continues, JobInv, Fresh, Scanned, Results
<1> QED
  BY <1>2, <1>4, <1>5 DEF JobInv, Started

LEMMA StartedJob ==
    ASSUME RequestsAssumption, TInv, NEW h \in Handlers, Starts(h),
           UNCHANGED <<now, events, snapshots>>
    PROVE  JobInv(h)'
<1>1. /\ JobInv(h) /\ job[h].pc = "snapshot" /\ DOMAIN job[h] = JobFields
      /\ Planned(job[h].request, job[h].source, job[h].plan)
      /\ job[h].source \in {"cache", "engine"}
  BY DEF Starts, TInv, JobInv
<1>2. PICK base : Base(h, base) /\ job'[h] = [job[h] EXCEPT !.pc = "load", !.found = base]
  BY DEF Starts
<1>3. /\ DOMAIN job'[h] = JobFields /\ job'[h].pc = "load" /\ job'[h].found = base
      /\ job'[h].request = job[h].request /\ job'[h].source = job[h].source
      /\ job'[h].plan = job[h].plan /\ job'[h].got = job[h].got
      /\ job'[h].asked = job[h].asked
  BY <1>1, <1>2 DEF JobFields
<1>4. base \in Results /\ Started(h)'
  <2>1. \A a : Taken(a)' = Taken(a)
    BY DEF Taken
  <2>2. Question(h)' = Question(h)
    BY <1>3 DEF Question
  <2>3. CASE base = Fresh
    BY <1>3, <2>3 DEF Started, Fresh, Scanned, Results
  <2>4. CASE base # Fresh
    <3>1. PICK s \in snapshots :
             /\ s.agg = job[h].request.agg
             /\ base = [versions |-> s.state, decoded |-> s.version]
             /\ Usable(s.version, Question(h))
      BY <1>2, <2>4 DEF Base
    <3>2. /\ s.version \in Taken(job[h].request.agg) /\ s.version \in Nat
          /\ s.state \subseteq 1 .. s.version /\ s.version \in s.state
          /\ s.agg \in Catalog => s.state = 1 .. s.version
      <4>1. Len(events[s.agg]) \in Nat
        BY <1>1, <3>1, Asked DEF Log
      <4> QED
        BY <3>1, <4>1, SnapshotVersions
    <3>3. base \in Results /\ base.decoded = s.version /\ base.versions = s.state
      BY <3>1, <3>2 DEF Results
    <3>4. job[h].source = "engine" => s.agg \in Catalog
      BY <1>1, <3>1 DEF Planned
    <3> QED
      BY <1>1, <1>3, <2>1, <2>2, <3>1, <3>2, <3>3, <3>4 DEF Started
  <2> QED
    BY <2>3, <2>4
<1>5. Planned(job'[h].request, job'[h].source, job'[h].plan)
  BY <1>1, <1>3, Zenon
<1> QED
  BY <1>1, <1>3, <1>4, <1>5 DEF JobInv

LEMMA HandlerJob ==
    ASSUME RequestsAssumption, TInv, LogInv', NEW h \in Handlers, HandlerStep(h)
    PROVE  JobInv(h)'
<1>1. now' = now /\ events' = events /\ job[h].pc # "idle" /\ JobInv(h)
  BY HandlerKinds DEF TInv
<1>2. CASE Moves(h)
  <2>1. job[h].source = "cache" /\ DOMAIN job[h] = JobFields
    BY <1>1, <1>2 DEF Moves, JobInv
  <2> DEFINE j == [job[h] EXCEPT !.pc = "snapshot"]
  <2>2. /\ DOMAIN j = JobFields /\ j.pc = "snapshot" /\ j.source = "cache"
        /\ j.request = job[h].request /\ j.plan = job[h].plan /\ j.got = job[h].got
        /\ j.asked = job[h].asked /\ j.found = job[h].found
    BY <2>1 DEF JobFields
  <2>3. job'[h] = j
    BY <1>2 DEF Moves
  <2> HIDE DEF j
  <2>4. Planned(j.request, j.source, j.plan)
    BY <1>1, <2>1, <2>2, Zenon DEF JobInv
  <2> QED
    BY <1>1, <2>2, <2>3, <2>4 DEF JobInv
<1>3. CASE Loads(h)
  <2>1. job[h].source = "cache" /\ DOMAIN job[h] = JobFields
    BY <1>1, <1>3 DEF Loads, JobInv
  <2> DEFINE found == Applied(h)
             j == [job[h] EXCEPT !.pc = "set", !.found = found, !.loaded = now]
  <2>2. /\ DOMAIN j = JobFields /\ j.pc = "set" /\ j.source = "cache"
        /\ j.request = job[h].request /\ j.plan = job[h].plan /\ j.got = job[h].got
        /\ j.asked = job[h].asked /\ j.found = found /\ j.loaded = now
    BY <2>1 DEF JobFields
  <2>3. job'[h] = j
    BY <1>3 DEF Loads
  <2>4. /\ found \in Results /\ found.versions # {}
        /\ found.versions \subseteq Versions(j.request.agg)
    BY <1>1, <1>3, <2>2, LoadYields DEF Loads
  <2>5. now \in job[h].asked .. now
    BY <1>1 DEF JobInv, TInv, LogInv
  <2> HIDE DEF j, found
  <2>6. Planned(j.request, j.source, j.plan)
    BY <1>1, <2>1, <2>2, Zenon DEF JobInv
  <2> QED
    BY <1>1, <2>2, <2>3, <2>4, <2>5, <2>6 DEF JobInv, Versions
<1>4. CASE job'[h] = Idle
  BY <1>4 DEF JobInv, Idle, JobFields
<1>6. CASE Starts(h)
  BY <1>6, StartedJob, HandlerKinds DEF JobInv
<1>5. ASSUME NEW found \in Results, Continues(h, found) PROVE JobInv(h)'
  BY <1>1, <1>5, ContinuedJob
<1> QED
  BY <1>2, <1>3, <1>4, <1>5, <1>6, HandlerKinds DEF Ends, Answered

LEMMA JobsStep ==
    ASSUME NumbersAssumption, RequestsAssumption, TInv, LogInv', Grows, Kept, [Next]_vars
    PROVE  DOMAIN job' = Handlers /\ \A h \in Handlers : JobInv(h)'
<1>0. DOMAIN job = Handlers /\ LogInv /\ \A h \in Handlers : JobInv(h)
  BY DEF TInv
<1>1. CASE job' = job
  BY <1>0, <1>1, JobStable
<1>2. ASSUME NEW h \in Handlers, Only(h), JobInv(h)'
      PROVE  DOMAIN job' = Handlers /\ \A o \in Handlers : JobInv(o)'
  <2>1. ASSUME NEW o \in Handlers \ {h} PROVE JobInv(o)'
    BY <1>0, <1>2, JobStable DEF Only
  <2> QED
    BY <1>2, <2>1 DEF Only
<1>3. ASSUME NEW h \in Handlers, NEW r \in Requests, Ask(h, r)
      PROVE  DOMAIN job' = Handlers /\ \A o \in Handlers : JobInv(o)'
  BY <1>1, <1>2, <1>3, AskPlans, BegunJob DEF Receive, BadRequest
<1>4. ASSUME NEW h \in Handlers, HandlerStep(h)
      PROVE  DOMAIN job' = Handlers /\ \A o \in Handlers : JobInv(o)'
  BY <1>2, <1>4, HandlerKinds, HandlerJob
<1> QED
  BY <1>1, <1>3, <1>4 DEF Next, HandlerStep, Commit, SaveSnapshot, Tick, vars

LEMMA MaxPair ==
    ASSUME NEW m \in Int, NEW n \in Int
    PROVE  Max({m, n}) = IF m >= n THEN m ELSE n
<1>1. (IF m >= n THEN m ELSE n) \in {m, n}
  OBVIOUS
<1>2. \A y \in {m, n} : (IF m >= n THEN m ELSE n) >= y
  OBVIOUS
<1>3. \A z \in {m, n} : (\A y \in {m, n} : z >= y) => z = IF m >= n THEN m ELSE n
  OBVIOUS
<1> QED
  BY <1>1, <1>2, <1>3 DEF Max

(* A SET makes the slowest fill no quicker, and no slower than this one. *)
LEMMA Slowest ==
    ASSUME RequestsAssumption, TInv, NEW h \in Handlers, Store(h)
    PROVE  /\ slowest' \in 0 .. now /\ slowest <= slowest'
           /\ now - job[h].loaded <= slowest'
           /\ job[h].pc = "set" /\ job[h].source = "cache"
           /\ job[h].loaded \in 1 .. now
<1>1. job[h].pc = "set" /\ JobInv(h) /\ LogInv /\ slowest \in 0 .. now
  BY DEF Store, TInv, CacheInv
<1>2. job[h].loaded \in 1 .. now /\ job[h].source = "cache" /\ now \in Int
  BY <1>1 DEF JobInv, LogInv
<1>3. slowest' = IF slowest >= now - job[h].loaded THEN slowest ELSE now - job[h].loaded
  BY <1>1, <1>2, MaxPair DEF Store
<1> QED
  BY <1>1, <1>2, <1>3

LEMMA CacheStep ==
    ASSUME NumbersAssumption, RequestsAssumption, TInv, LogInv', Grows, [Next]_vars
    PROVE  CacheInv' /\ slowest <= slowest'
<1>0. /\ CacheInv /\ LogInv /\ Users \subseteq Entities
      /\ now \in Int /\ now' \in Int /\ now <= now'
  BY DEF TInv, Entities, Grows, LogInv
<1>1. \A a \in Entities : Versions(a) \subseteq 1 .. Len(events'[a])
  BY DEF TInv, LogInv, Grows, Versions
<1>2. TTL \in Int
  BY DEF NumbersAssumption
<1>3. \A e \in redis :
         /\ e.key[2] \in Users /\ e.found # {} /\ e.found \subseteq 1 .. Len(events'[e.key[2]])
         /\ e.expires \in Int /\ e.expires <= now' + TTL
  BY <1>0, <1>1, <1>2 DEF CacheInv
<1>4. CASE redis' = redis /\ slowest' = slowest
  BY <1>0, <1>3, <1>4 DEF CacheInv, Versions
<1>5. ASSUME NEW h \in Handlers, Store(h) PROVE CacheInv' /\ slowest <= slowest'
  <2> DEFINE new == [key |-> Key(h), found |-> job[h].found.versions, expires |-> now + TTL]
  <2>1. /\ redis' = {e \in redis : e.key # Key(h)} \cup {new}
        /\ now' = now /\ events' = events
    BY <1>5 DEF Store, Entry
  <2>2. /\ slowest' \in 0 .. now /\ slowest <= slowest' /\ job[h].pc = "set"
    BY <1>5, Slowest
  <2>3. JobInv(h) /\ job[h].source = "cache"
    BY <1>5, Slowest DEF TInv
  <2>4. Key(h)[2] = job[h].request.agg /\ job[h].request.agg \in Users
    BY <2>2, <2>3, Asked
  <2>5. /\ job[h].found.versions # {}
        /\ job[h].found.versions \subseteq 1 .. Len(events'[job[h].request.agg])
    BY <2>1, <2>2, <2>3 DEF JobInv, Versions
  <2>6. /\ new.key = Key(h) /\ new.key[2] \in Users /\ new.found # {}
        /\ new.found \subseteq 1 .. Len(events'[new.key[2]])
        /\ new.expires \in Int /\ new.expires <= now' + TTL
    BY <1>0, <1>2, <2>1, <2>4, <2>5
  <2> HIDE DEF new
  <2>7. ASSUME NEW e \in redis'
        PROVE  /\ e.key[2] \in Users /\ e.found # {}
               /\ e.found \subseteq 1 .. Len(events'[e.key[2]])
               /\ e.expires \in Int /\ e.expires <= now' + TTL
               /\ \A d \in redis' : d.key = e.key => d = e
    <3>1. CASE e = new
      BY <2>1, <2>6, <3>1
    <3>2. CASE e \in redis /\ e.key # Key(h)
      BY <1>0, <1>3, <2>1, <2>6, <3>2 DEF CacheInv
    <3> QED
      BY <2>1, <3>1, <3>2
  <2> QED
    BY <2>1, <2>2, <2>7 DEF CacheInv, Versions
<1>6. ASSUME NEW h \in Handlers, HandlerStep(h) PROVE CacheInv' /\ slowest <= slowest'
  BY <1>4, <1>5, <1>6, HandlerKinds
<1>7. ASSUME NEW h \in Handlers, NEW r \in Requests, Ask(h, r)
      PROVE  CacheInv' /\ slowest <= slowest'
  BY <1>4, <1>7, AskPlans DEF Receive
<1> QED
  BY <1>4, <1>6, <1>7 DEF Next, HandlerStep, Commit, SaveSnapshot, Tick, vars

(* The reply of a step, if it is an answer, is the last that was collected. *)
LEMMA AnswerStep ==
    ASSUME NumbersAssumption, RequestsAssumption, TInv, LogInv', Grows, [Next]_vars
    PROVE  \/ answer' = answer /\ UNCHANGED vars
           \/ answer'.status # 200
           \/ \E h \in Handlers : \E found \in Results :
                 HandlerStep(h) /\ Yields(h, found) /\ Answered(h, found)
<1>1. NoAnswer.status # 200
  BY DEF NoAnswer
<1>2. ASSUME NEW h \in Handlers, NEW r \in Requests, Ask(h, r) PROVE answer'.status # 200
  <2>1. CASE BadRequest(h, r)
    BY <2>1 DEF BadRequest, NoAnswer
  <2>2. CASE Begun(h, r)
    BY <1>1, <1>2, <2>2, BegunJob, AskPlans DEF Receive
  <2> QED
    BY <1>2, <2>1, <2>2, AskPlans
<1>3. ASSUME NEW h \in Handlers, HandlerStep(h)
      PROVE  \/ answer'.status # 200
             \/ \E found \in Results : Yields(h, found) /\ Answered(h, found)
  <2>1. CASE Moves(h) \/ Starts(h) \/ Loads(h)
    BY <1>1, <2>1 DEF Moves, Starts, Loads
  <2>2. CASE Ends(h)
    BY <2>2 DEF Ends
  <2>3. ASSUME NEW found \in Results, Continues(h, found) PROVE answer'.status # 200
    BY <1>1, <2>3 DEF Continues
  <2>4. \/ Moves(h) \/ Starts(h) \/ Loads(h) \/ Ends(h)
        \/ \E found \in Results :
              Yields(h, found) /\ (Continues(h, found) \/ Answered(h, found))
    BY <1>3, HandlerKinds
  <2> QED
    BY <2>1, <2>2, <2>3, <2>4
<1> QED
  BY <1>1, <1>2, <1>3 DEF Next, HandlerStep, Commit, SaveSnapshot, Tick, vars

(* Begin and end of a request leave the number of calls within its bound. *)
LEMMA CallsStep ==
    ASSUME NumbersAssumption, RequestsAssumption, TInv, [Next]_vars
    PROVE  calls' \in 0 .. MaxCalls
<1>1. calls \in 0 .. MaxCalls
  BY DEF TInv
<1>2. ASSUME NEW h \in Handlers, NEW r \in Requests, Ask(h, r) PROVE calls' \in 0 .. MaxCalls
  BY <1>1, <1>2, AskPlans DEF Receive, NumbersAssumption
<1>3. ASSUME NEW h \in Handlers, HandlerStep(h) PROVE calls' = calls
  BY <1>3, HandlerKinds
<1> QED
  BY <1>1, <1>2, <1>3 DEF Next, HandlerStep, Commit, SaveSnapshot, Tick, vars

LEMMA TypeStep ==
    ASSUME NumbersAssumption, RequestsAssumption, TInv, [Next]_vars
    PROVE  TInv'
<1>1. LogInv' /\ Grows /\ SnapInv' /\ Kept
  BY LogStep, SnapshotsStep
<1>2. CacheInv' /\ DOMAIN job' = Handlers /\ \A h \in Handlers : JobInv(h)'
  BY <1>1, CacheStep, JobsStep
<1>3. calls' \in 0 .. MaxCalls
  BY CallsStep
<1>4. AnswerInv'
  <2>1. CASE answer' = answer
    BY <2>1 DEF TInv, AnswerInv
  <2>2. ASSUME NEW h \in Handlers, NEW found \in Results, HandlerStep(h), Answered(h, found)
        PROVE  AnswerInv'
    <3>1. job[h].got \in Seq(Results)
      BY <2>2, HandlerKinds, Asked
    <3> QED
      BY <2>2, <3>1 DEF Answered, AnswerInv
  <2> QED
    BY <1>1, <2>1, <2>2, AnswerStep DEF AnswerInv
<1> QED
  BY <1>1, <1>2, <1>3, <1>4 DEF TInv

LEMMA TypeInit ==
    ASSUME NumbersAssumption, Init
    PROVE  TInv
<1>1. LogInv
  <2>1. now = MaxLag + 1 /\ events = [a \in Entities |-> <<>>]
    BY DEF Init
  <2>2. now \in Int /\ MaxLag < now /\ now <= MaxClock
    BY <2>1 DEF NumbersAssumption
  <2>3. events \in [Entities -> Seq(Event)] /\ \A a \in Entities : Len(events[a]) = 0
    BY <2>1
  <2> QED
    BY <2>2, <2>3 DEF LogInv
<1>2. CacheInv
  BY <1>1, NowPositive DEF Init, CacheInv
<1>3. DOMAIN job = Handlers /\ \A h \in Handlers : JobInv(h)
  BY DEF Init, Idle, JobInv, JobFields
<1> QED
  BY <1>1, <1>2, <1>3 DEF Init, TInv, SnapInv, AnswerInv, NoAnswer, NumbersAssumption

LEMMA TypeInvariant ==
    ASSUME NumbersAssumption, RequestsAssumption
    PROVE  Spec => []TInv
<1>1. Init => TInv
  BY TypeInit
<1>2. TInv /\ [Next]_vars => TInv'
  BY TypeStep
<1> QED
  BY <1>1, <1>2, PTL DEF Spec

(* Type correctness: the log holds nothing from the future; a snapshot has *)
(* its version's event and none the log lacks; Redis has one entry per     *)
(* key, of a user, never empty (ErrNotFound is not cached) and never of    *)
(* versions the log lacks; only handlers of users are at the cache, and a  *)
(* reply answers every query of its plan.                                  *)
THEOREM TypeCorrect ==
    ASSUME NumbersAssumption, RequestsAssumption
    PROVE  Spec => []TypeOK
<1>1. TInv => TypeOK
  <2> SUFFICES ASSUME TInv PROVE TypeOK
    OBVIOUS
  <2>1. now \in 1 .. MaxClock /\ calls \in 0 .. MaxCalls /\ slowest \in 0 .. MaxClock
    BY DEF TInv, LogInv, CacheInv, NumbersAssumption
  <2>2. \A a \in Entities, v \in 1 .. MaxEvents : v \in Versions(a) =>
           events[a][v] \in [created : 1 .. now, visible : 1 .. now, writes : SUBSET Fields]
    <3> SUFFICES ASSUME NEW a \in Entities, NEW v \in 1 .. MaxEvents, v \in Versions(a)
                 PROVE  events[a][v] \in [created : 1 .. now, visible : 1 .. now,
                                          writes : SUBSET Fields]
      OBVIOUS
    <3>1. v \in 1 .. Len(events[a]) /\ v \in Nat /\ events[a] \in Seq(Event)
      BY DEF Versions, TInv, LogInv
    <3>2. events[a][v] \in Event
      BY <3>1
    <3>3. events[a][v].created \in 1 .. now /\ events[a][v].visible \in 1 .. now
      BY <3>1 DEF TInv, LogInv
    <3> QED
      BY <3>2, <3>3 DEF Event
  <2>3. \A e \in redis :
           /\ e.key[2] \in Users /\ e.found # {} /\ e.found \subseteq Versions(e.key[2])
           /\ e.expires <= now + TTL
           /\ \A d \in redis : d.key = e.key => d = e
    BY DEF TInv, CacheInv
  <2>4. \A h \in Handlers :
           /\ job[h].pc \in {"idle", "get", "snapshot", "load", "set",
                                          "select", "search"}
           /\ job[h].pc \in {"get", "set"} => job[h].request.agg \in Users
           /\ job[h].pc # "idle" => Len(job[h].got) < Len(job[h].plan)
    <3> SUFFICES ASSUME NEW h \in Handlers
                 PROVE  /\ job[h].pc \in {"idle", "get", "snapshot", "load", "set",
                                          "select", "search"}
                        /\ job[h].pc \in {"get", "set"} => job[h].request.agg \in Users
                        /\ job[h].pc # "idle" => Len(job[h].got) < Len(job[h].plan)
      OBVIOUS
    <3>1. JobInv(h)
      BY DEF TInv
    <3>2. job[h].pc \in {"get", "set"} => job[h].pc # "idle" /\ job[h].source = "cache"
      BY <3>1 DEF JobInv
    <3> QED
      BY <3>1, <3>2 DEF JobInv, Planned
  <2>5. \A s \in snapshots :
           /\ s.agg \in Entities /\ s.version \in s.state
           /\ s.state \subseteq Versions(s.agg) \cap 1 .. s.version
           /\ \A t \in snapshots : t.agg = s.agg /\ t.version = s.version => t = s
    <3> SUFFICES ASSUME NEW s \in snapshots
                 PROVE  /\ s.agg \in Entities /\ s.version \in s.state
                        /\ s.state \subseteq Versions(s.agg) \cap 1 .. s.version
                        /\ \A t \in snapshots :
                              t.agg = s.agg /\ t.version = s.version => t = s
      OBVIOUS
    <3>1. /\ s.agg \in Entities /\ s.version \in s.state /\ s.state \subseteq 1 .. s.version
          /\ s.version \in Versions(s.agg)
          /\ \A t \in snapshots : t.agg = s.agg /\ t.version = s.version => t = s
      BY DEF TInv, SnapInv
    <3>2. Len(events[s.agg]) \in Nat
      BY <3>1 DEF TInv, LogInv
    <3> QED
      BY <3>1, <3>2 DEF Versions
  <2> QED
    BY <2>1, <2>2, <2>3, <2>4, <2>5 DEF TypeOK, TInv, AnswerInv
<1> QED
  BY <1>1, TypeInvariant, PTL

-----------------------------------------------------------------------------
(* How old an answer is *)

(* A key stands for one query of one entity, if queries have one bound. *)
LEMMA KeysDiffer ==
    ASSUME NEW a, NEW b, NEW q \in Queries, NEW p \in Queries, OneBound(q), OneBound(p),
           Nil \notin Int, cacheKey(a, q) = cacheKey(b, p)
    PROVE  a = b /\ q = p
<1>1. a = b
  BY KeyNames
<1>2. cacheKey(a, q)[1] = cacheKey(b, p)[1] /\ cacheKey(a, q)[3] = cacheKey(b, p)[3]
  OBVIOUS
<1>3. q.version = p.version /\ q.at = p.at
  BY <1>2 DEF cacheKey, OneBound, Queries
<1> QED
  BY <1>1, <1>3 DEF Queries

(* The cache is asked one bound at a time. *)
LEMMA CacheAsked ==
    ASSUME SingleBounds, RequestsAssumption, TInv, NEW h \in Handlers,
           job[h].pc # "idle", job[h].source = "cache"
    PROVE  OneBound(Question(h))
<1>1. Planned(job[h].request, job[h].source, job[h].plan)
  BY DEF TInv, JobInv
<1>2. Len(job[h].got) \in Nat /\ Len(job[h].got) + 1 <= Len(job[h].plan)
  BY Asked
<1>3. Len(job[h].got) + 1 = 1 \/ (Len(job[h].got) + 1 = 2 /\ Len(job[h].plan) = 2)
  BY <1>1, <1>2 DEF Planned
<1> QED
  BY <1>1, <1>3 DEF Planned, Question

(* A projection shows the version of the current state. *)
LEMMA RowIsCurrent ==
    ASSUME RequestsAssumption, TInv, NEW h \in Handlers, job[h].pc = "select",
           Len(Log(h)) > 0
    PROVE  MadeOf(job[h].source, {Len(Log(h))},
                  Upto(Log(h), Len(Log(h)), Question(h)) \cup 1 .. 0)
<1>1. /\ Planned(job[h].request, job[h].source, job[h].plan) /\ job[h].source = "projection"
  BY DEF TInv, JobInv
<1>2. Len(job[h].got) \in Nat /\ Len(job[h].got) + 1 <= Len(job[h].plan) /\ Len(Log(h)) \in Nat
  BY Asked
<1>3. Len(job[h].plan) = 1
  BY <1>1 DEF Planned
<1>4. Len(job[h].got) + 1 = 1 /\ Question(h) = Current
  BY <1>1, <1>2, <1>3 DEF Planned, Question
<1> DEFINE n == Len(Log(h))
           due == Upto(Log(h), n, Question(h)) \cup 1 .. 0
<1>5. due = 1 .. n
  BY <1>2, <1>4 DEF Upto, Current
<1>6. n \in Nat /\ n > 0
  BY <1>2
<1> HIDE DEF n, due
<1>7. VersionOf({n}) = VersionOf(due)
  <2>1. {n} \in SUBSET due /\ due \in SUBSET (1 .. n) /\ \A v \in due : \E w \in {n} : w >= v
    BY <1>5, <1>6
  <2> QED
    BY <1>6, <2>1, SameVersion
<1>8. VersionOf({n}) = n
  <2>1. /\ {n} \cup {0} \in SUBSET Int /\ n \in {n} \cup {0}
        /\ \A y \in {n} \cup {0} : n >= y
    BY <1>6
  <2> QED
    BY <2>1, MaxIs DEF VersionOf
<1>9. MadeOf("projection", {n}, due)
  BY <1>5, <1>6, <1>7, <1>8 DEF MadeOf
<1> QED
  BY <1>1, <1>9 DEF n, due

(* Whatever a query yields was true at most this long before the request. *)
LEMMA YieldsSound ==
    ASSUME NumbersAssumption, RequestsAssumption, SingleBounds, TInv,
           NEW h \in Handlers, job[h].pc # "idle", job[h].source # "search",
           JobSound(h), \A e \in redis : EntrySound(e), NEW found, Yields(h, found),
           NEW fill \in Int, slowest <= fill
    PROVE  Seen(Log(h), BasesIn(snapshots, job[h].source, job[h].request.agg),
                job[h].asked - AgeOf(job[h].source, fill), now,
                Question(h), job[h].source, found.versions)
<1> DEFINE a == job[h].request.agg
           source == job[h].source
           bases == BasesIn(snapshots, source, a)
           from == job[h].asked - AgeOf(source, fill)
<1>1. JobInv(h) /\ LogInv /\ now \in Int /\ a \in Entities /\ slowest \in Nat
  BY Asked DEF TInv, LogInv, CacheInv
<1>2. job[h].asked \in Int /\ job[h].asked <= now /\ TTL \in Int /\ TTL >= 1
  BY <1>1 DEF JobInv, NumbersAssumption
<1>3. from \in Int /\ from <= job[h].asked
  BY <1>1, <1>2 DEF AgeOf
<1>4. job[h].source = "cache" => from = job[h].asked - (TTL + fill - 1)
  BY DEF AgeOf
<1> SUFFICES Seen(events[a], bases, from, now, Question(h), source, found.versions)
  BY DEF Log
<1> HIDE DEF from
<1>5. CASE job[h].pc = "get" /\ \E e \in Live(Key(h)) : found = Decoded(e.found)
  <2>1. PICK e \in Live(Key(h)) : found.versions = e.found
    BY <1>5 DEF Decoded
  <2>2. e \in redis /\ e.key = Key(h) /\ now < e.expires /\ e.expires \in Int
    BY <2>1 DEF Live, TInv, CacheInv
  <2>3. source = "cache" /\ OneBound(Question(h)) /\ Question(h) \in Queries
    BY <1>1, <1>5, CacheAsked, Asked DEF JobInv
  <2>4. PICK t \in Int : /\ e.expires - TTL - slowest <= t /\ t <= now
                         /\ Seen(events[a], bases, t, t, Question(h), source, e.found)
    BY <1>1, <2>2, <2>3 DEF EntrySound, Key
  <2>5. from <= t
    BY <1>1, <1>2, <1>3, <1>4, <2>2, <2>3, <2>4
  <2>6. Seen(events[a], bases, from, now, Question(h), source, e.found)
    BY <1>1, <1>3, <2>4, <2>5, SeenWider
  <2> QED
    BY <2>1, <2>6
<1>6. CASE job[h].pc = "set" /\ found = job[h].found
  <2>1. job[h].loaded \in Int /\ job[h].asked <= job[h].loaded /\ job[h].loaded <= now
    BY <1>1, <1>2, <1>6 DEF JobInv
  <2>2. Seen(events[a], bases, job[h].loaded, job[h].loaded, Question(h), source,
             found.versions)
    BY <1>1, <1>6 DEF JobSound, JobInv
  <2>3. from <= job[h].loaded
    BY <1>2, <1>3, <2>1
  <2> QED
    BY <1>1, <1>3, <2>1, <2>2, <2>3, SeenWider
<1>7. CASE job[h].pc = "load" /\ found = Applied(h)
  <2>1. \E b \in bases :
           /\ b <= Len(events[a]) /\ (b = 0 \/ Usable(b, Question(h)))
           /\ MadeOf(source, found.versions,
                     Upto(events[a], Len(events[a]), Question(h)) \cup 1 .. b)
    BY <1>7, LoadYields DEF Log
  <2> QED
    BY <1>1, <2>1, SeenNow
<1>8. CASE /\ job[h].pc = "select" /\ Len(Log(h)) > 0
           /\ found = Scanned({Len(Log(h))})
  <2>1. MadeOf(source, found.versions,
               Upto(events[a], Len(events[a]), Question(h)) \cup 1 .. 0)
    BY <1>8, RowIsCurrent DEF Scanned, Log
  <2>2. 0 \in bases /\ 0 <= Len(events[a])
    BY <1>1 DEF BasesIn, LogInv
  <2> QED
    BY <1>1, <2>1, <2>2, SeenNow
<1>9. job[h].pc # "search"
  BY <1>1 DEF JobInv
<1> QED
  BY <1>5, <1>6, <1>7, <1>8, <1>9 DEF Yields

(* So was all that a handler has collected with it. *)
LEMMA GotSound ==
    ASSUME NumbersAssumption, RequestsAssumption, SingleBounds, TInv,
           NEW h \in Handlers, job[h].pc # "idle", job[h].source # "search",
           JobSound(h), \A e \in redis : EntrySound(e), NEW found, Yields(h, found),
           NEW fill \in Int, slowest <= fill
    PROVE  \A i \in 1 .. Len(job[h].got) + 1 :
              Seen(Log(h), BasesIn(snapshots, job[h].source, job[h].request.agg),
                   job[h].asked - AgeOf(job[h].source, fill), now,
                   job[h].plan[i], job[h].source, Append(job[h].got, found)[i].versions)
<1> DEFINE a == job[h].request.agg
           source == job[h].source
           bases == BasesIn(snapshots, source, a)
           n == Len(job[h].got)
<1>1. /\ a \in Entities /\ n \in Nat /\ job[h].got \in Seq(Results) /\ found \in Results
      /\ LogInv /\ now \in Int /\ slowest \in Int /\ job[h].asked \in Int /\ TTL \in Int
  <2>1. JobInv(h) /\ LogInv /\ CacheInv
    BY DEF TInv
  <2>2. now \in Int /\ slowest \in Int /\ job[h].asked \in Int /\ TTL \in Int
    BY <2>1 DEF JobInv, LogInv, CacheInv, NumbersAssumption
  <2> QED
    BY <2>1, <2>2, Asked, YieldsVersions
<1>2. ASSUME NEW i \in 1 .. n
      PROVE  Seen(Log(h), bases, job[h].asked - AgeOf(job[h].source, fill), now,
                  job[h].plan[i], source, job[h].got[i].versions)
  <2> DEFINE since == job[h].asked - AgeOf(job[h].source, fill)
             from == job[h].asked - AgeOf(job[h].source, slowest)
  <2>1. Seen(events[a], bases, from, now, job[h].plan[i], source, job[h].got[i].versions)
    BY DEF JobSound
  <2>2. since \in Int /\ from \in Int /\ since <= from
    BY <1>1 DEF AgeOf
  <2>3. LogInv /\ a \in Entities /\ now \in Int /\ now <= now
    BY <1>1
  <2> HIDE DEF since, from
  <2>4. Seen(events[a], bases, since, now, job[h].plan[i], source, job[h].got[i].versions)
    BY <2>1, <2>2, <2>3, SeenWider
  <2> QED
    BY <2>4 DEF since, Log
<1>3. /\ Append(job[h].got, found)[n + 1] = found
      /\ \A i \in 1 .. n : Append(job[h].got, found)[i] = job[h].got[i]
  BY <1>1
<1>4. Seen(Log(h), bases, job[h].asked - AgeOf(job[h].source, fill), now,
           job[h].plan[n + 1], source, found.versions)
  BY YieldsSound DEF Question
<1>5. \A i \in 1 .. n + 1 : i \in 1 .. n \/ i = n + 1
  BY <1>1
<1> QED
  BY <1>2, <1>3, <1>4, <1>5

(* What was seen stays seen while the log grows, and so do entries and the *)
(* locals of handlers that take no step.                                   *)
LEMMA SeenLater ==
    ASSUME LogInv, LogInv', Grows, NEW a \in Entities, NEW bases, NEW more, bases \subseteq more,
           NEW q, NEW source, NEW found,
           NEW t1 \in Int, NEW t2 \in Int, NEW u1 \in Int, NEW u2 \in Int,
           u1 <= t1, t2 <= u2, u1 <= now, Seen(events[a], bases, t1, t2, q, source, found)
    PROVE  Seen(events'[a], more, u1, u2, q, source, found)
BY SeenWider, SeenStable

LEMMA BasesKept ==
    ASSUME Kept, NEW a \in Entities, NEW source
    PROVE  BasesIn(snapshots, source, a) \subseteq BasesIn(snapshots', source, a)
BY DEF Kept, BasesIn, Taken

LEMMA EntryStable ==
    ASSUME NumbersAssumption, LogInv, LogInv', Grows, Kept, NEW e, e.expires \in Int,
           slowest \in Int, slowest' \in Int, slowest <= slowest', EntrySound(e)
    PROVE  EntrySound(e)'
<1> SUFFICES ASSUME NEW a \in Entities, NEW q \in Queries, OneBound(q), e.key = cacheKey(a, q)
             PROVE  \E t \in Int : /\ e.expires - TTL - slowest' <= t /\ t <= now'
                                   /\ Seen(events'[a], BasesIn(snapshots', "cache", a), t, t, q, "cache", e.found)
  BY DEF EntrySound
<1>1. PICK t \in Int : /\ e.expires - TTL - slowest <= t /\ t <= now
                       /\ Seen(events[a], BasesIn(snapshots, "cache", a), t, t, q, "cache", e.found)
  BY DEF EntrySound
<1>2. /\ e.expires - TTL - slowest' <= t /\ t <= now'
  BY <1>1 DEF NumbersAssumption, Grows, LogInv
<1>3. Seen(events'[a], BasesIn(snapshots', "cache", a), t, t, q, "cache", e.found)
  BY <1>1, BasesKept, SeenStable
<1> QED
  BY <1>2, <1>3

LEMMA JobSoundStable ==
    ASSUME NumbersAssumption, RequestsAssumption, TInv, LogInv', Grows, Kept, slowest' \in Int,
           slowest <= slowest', NEW h \in Handlers, job'[h] = job[h], JobSound(h)
    PROVE  JobSound(h)'
<1>1. /\ LogInv /\ now \in Int /\ now' \in Int /\ now <= now' /\ slowest \in Nat
      /\ TTL \in Int /\ TTL >= 1
  <2>1. LogInv /\ CacheInv
    BY DEF TInv
  <2> QED
    BY <2>1 DEF LogInv, Grows, CacheInv, NumbersAssumption
<1>2. CASE job[h].pc = "idle"
  BY <1>2 DEF JobSound
<1>3. CASE job[h].pc # "idle"
  <2> DEFINE a == job[h].request.agg
             source == job[h].source
             bases == BasesIn(snapshots, source, a)
             more == BasesIn(snapshots', source, a)
             from == job[h].asked - AgeOf(job[h].source, slowest)
             since == job[h].asked - AgeOf(job[h].source, slowest')
  <2>1. a \in Entities /\ job[h].asked \in Int /\ job[h].asked <= now
    BY <1>1, <1>3, Asked DEF TInv, JobInv
  <2>0. bases \subseteq more
    BY <2>1, BasesKept
  <2>2. from \in Int /\ since \in Int /\ since <= from /\ since <= now
    BY <1>1, <2>1 DEF AgeOf
  <2>3. ASSUME job[h].source # "search", NEW i \in 1 .. Len(job[h].got)
        PROVE  Seen(events'[a], more, since, now', job[h].plan[i], source,
                    job[h].got[i].versions)
    <3>1. Seen(events[a], bases, from, now, job[h].plan[i], source, job[h].got[i].versions)
      BY <1>3, <2>3 DEF JobSound
    <3> HIDE DEF from, since
    <3> QED
      BY <1>1, <2>0, <2>1, <2>2, <3>1, SeenLater
  <2>4. ASSUME job[h].pc = "set"
        PROVE  Seen(events'[a], BasesIn(snapshots', "cache", a), job[h].loaded, job[h].loaded,
                    Question(h), "cache", job[h].found.versions)
    <3>1. Seen(events[a], BasesIn(snapshots, "cache", a), job[h].loaded, job[h].loaded,
               Question(h), "cache", job[h].found.versions)
      BY <2>4 DEF JobSound
    <3>2. job[h].loaded \in Int /\ job[h].loaded <= now
      BY <1>1, <2>1, <2>4 DEF TInv, JobInv
    <3>3. BasesIn(snapshots, "cache", a) \subseteq BasesIn(snapshots', "cache", a)
      BY <2>1, BasesKept
    <3> QED
      BY <1>1, <2>1, <3>1, <3>2, <3>3, SeenLater
  <2>5. Question(h)' = Question(h)
    BY DEF Question
  <2>6. BasesIn(snapshots', job'[h].source, job'[h].request.agg) = more
    OBVIOUS
  <2> HIDE DEF more, since
  <2> QED
    BY <2>3, <2>4, <2>5, <2>6 DEF JobSound, since
<1> QED
  BY <1>2, <1>3

(* One step: an answer that ends a plan, a state that was just replayed, a *)
(* SET, or a step that shows no more than the log.                         *)
LEMMA HandlerSound ==
    ASSUME NumbersAssumption, RequestsAssumption, SingleBounds, TInv, slowest' \in Int,
           slowest <= slowest', SInv, NEW h \in Handlers, HandlerStep(h)
    PROVE  JobSound(h)'
<1>1. /\ now' = now /\ events' = events /\ job[h].pc # "idle" /\ JobInv(h) /\ JobSound(h)
      /\ \A e \in redis : EntrySound(e)
  BY HandlerKinds DEF TInv, SInv
<1>2. CASE job'[h] = Idle
  BY <1>2 DEF JobSound, Idle
<1>3. /\ job[h].request.agg \in Entities
      /\ Len(job[h].got) \in Nat /\ job[h].got \in Seq(Results)
  BY <1>1, Asked
<1>4. LogInv /\ slowest \in Int /\ now \in Int /\ job[h].asked \in Int /\ TTL \in Int
  <2>1. LogInv /\ CacheInv
    BY DEF TInv
  <2> QED
    BY <1>1, <2>1 DEF LogInv, CacheInv, JobInv, NumbersAssumption
<1> DEFINE a == job[h].request.agg
           n == Len(job[h].got)
           source == job[h].source
           bases == BasesIn(snapshots, source, a)
           since == job[h].asked - AgeOf(job[h].source, slowest')
(* What was collected before, however long the slowest fill takes now *)
<1>5. ASSUME job[h].source # "search", NEW i \in 1 .. n
      PROVE  Seen(events[a], bases, since, now, job[h].plan[i], source, job[h].got[i].versions)
  <2> DEFINE from == job[h].asked - AgeOf(job[h].source, slowest)
  <2>1. Seen(events[a], bases, from, now, job[h].plan[i], source, job[h].got[i].versions)
    BY <1>1, <1>5 DEF JobSound
  <2>2. since \in Int /\ from \in Int /\ since <= from
    BY <1>4 DEF AgeOf
  <2>3. LogInv /\ a \in Entities /\ now \in Int /\ now <= now
    BY <1>3, <1>4
  <2> HIDE DEF since, from
  <2>4. Seen(events[a], bases, since, now, job[h].plan[i], source, job[h].got[i].versions)
    BY <2>1, <2>2, <2>3, SeenWider
  <2> QED
    BY <2>4 DEF since
<1>0. /\ BasesIn(snapshots', source, a) = BasesIn(snapshots, source, a)
      /\ BasesIn(snapshots', "cache", a) = BasesIn(snapshots, "cache", a)
  BY HandlerKinds
<1>6. ASSUME /\ DOMAIN job'[h] = JobFields /\ job'[h].pc \notin {"idle", "set"}
             /\ job'[h].request = job[h].request /\ job'[h].plan = job[h].plan
             /\ job'[h].got = job[h].got /\ job'[h].source = job[h].source
             /\ job'[h].asked = job[h].asked
      PROVE  JobSound(h)'
  BY <1>0, <1>1, <1>5, <1>6 DEF JobSound
<1>7. CASE Moves(h)
  <2>1. DOMAIN job[h] = JobFields /\ job'[h] = [job[h] EXCEPT !.pc = "snapshot"]
    BY <1>1, <1>7 DEF Moves, JobInv
  <2>2. /\ DOMAIN job'[h] = JobFields /\ job'[h].pc = "snapshot"
        /\ job'[h].request = job[h].request
        /\ job'[h].plan = job[h].plan /\ job'[h].got = job[h].got
        /\ job'[h].source = job[h].source /\ job'[h].asked = job[h].asked
    BY <2>1 DEF JobFields
  <2> QED
    BY <1>6, <2>2
<1>8. CASE Starts(h)
  <2>1. /\ DOMAIN job[h] = JobFields
        /\ \E base : job'[h] = [job[h] EXCEPT !.pc = "load", !.found = base]
    BY <1>1, <1>8 DEF Starts, JobInv
  <2>2. /\ DOMAIN job'[h] = JobFields /\ job'[h].pc = "load"
        /\ job'[h].request = job[h].request
        /\ job'[h].plan = job[h].plan /\ job'[h].got = job[h].got
        /\ job'[h].source = job[h].source /\ job'[h].asked = job[h].asked
    BY <2>1 DEF JobFields
  <2> QED
    BY <1>6, <2>2
<1>9. CASE Loads(h)
  <2>1. job[h].source = "cache" /\ DOMAIN job[h] = JobFields
    BY <1>1, <1>9 DEF Loads, JobInv
  <2> DEFINE found == Applied(h)
  <2>2. /\ job'[h].pc = "set" /\ job'[h].request = job[h].request
        /\ job'[h].plan = job[h].plan /\ job'[h].got = job[h].got
        /\ job'[h].source = job[h].source /\ job'[h].asked = job[h].asked
        /\ job'[h].found = found /\ job'[h].loaded = now
    BY <1>9, <2>1 DEF Loads, JobFields
  <2>3. Seen(events[a], bases, now, now, Question(h), source, found.versions)
    <3>1. \E b \in bases :
             /\ b <= Len(events[a]) /\ (b = 0 \/ Usable(b, Question(h)))
             /\ MadeOf(source, found.versions,
                       Upto(events[a], Len(events[a]), Question(h)) \cup 1 .. b)
      BY <1>9, LoadYields DEF Log, Loads
    <3> QED
      BY <1>3, <1>4, <3>1, SeenNow
  <2>4. Question(h)' = Question(h)
    BY <2>2 DEF Question
  <2> HIDE DEF found
  <2> QED
    BY <1>0, <1>1, <1>5, <2>1, <2>2, <2>3, <2>4 DEF JobSound
<1>10. ASSUME NEW found \in Results, Yields(h, found), Continues(h, found)
      PROVE  JobSound(h)'
  <2>1. /\ job'[h].request = job[h].request /\ job'[h].source = job[h].source
        /\ job'[h].plan = job[h].plan /\ job'[h].asked = job[h].asked
        /\ job'[h].got = Append(job[h].got, found) /\ job'[h].pc # "set"
    BY <1>10 DEF Continues, FirstStep
  <2>2. Len(job'[h].got) = Len(job[h].got) + 1
    BY <1>3, <2>1
  <2>3. job[h].source # "search" => \A i \in 1 .. Len(job[h].got) + 1 :
              Seen(events[a], bases, since, now, job[h].plan[i], source,
                   Append(job[h].got, found)[i].versions)
    BY <1>1, <1>10, GotSound DEF Log
  <2> QED
    BY <1>0, <1>1, <2>1, <2>2, <2>3 DEF JobSound
<1> QED
  BY <1>2, <1>7, <1>8, <1>9, <1>10, HandlerKinds DEF Ends, Answered

(* What is about to be answered *)
LEMMA AnswerSound ==
    ASSUME NumbersAssumption, RequestsAssumption, SingleBounds, TInv, slowest' \in Int,
           slowest <= slowest', SInv, NEW h \in Handlers, HandlerStep(h),
           NEW found \in Results, Yields(h, found), Answered(h, found)
    PROVE  StalenessBounded'
<1>1. /\ now' = now /\ events' = events /\ job[h].pc # "idle" /\ JobSound(h)
      /\ \A e \in redis : EntrySound(e)
  BY HandlerKinds DEF SInv
<1>2. /\ job[h].request.agg \in Entities /\ LogInv /\ Len(job[h].got) \in Nat
      /\ job[h].got \in Seq(Results)
  BY <1>1, Asked DEF TInv
<1>3. DOMAIN Append(job[h].got, found) = 1 .. Len(job[h].got) + 1
  BY <1>2
<1>4. /\ answer'.request = job[h].request /\ answer'.source = job[h].source
      /\ answer'.plan = job[h].plan /\ answer'.got = Append(job[h].got, found)
      /\ answer'.asked = job[h].asked /\ answer'.told = now
  BY DEF Answered
<1> DEFINE a == job[h].request.agg
           source == job[h].source
           bases == BasesIn(snapshots, source, a)
           since == job[h].asked - AgeOf(source, slowest')
<1>5. ASSUME source # "search", NEW i \in 1 .. Len(job[h].got) + 1
      PROVE  \E log \in Moments(events[a], since, now), base \in bases :
                /\ base = 0 \/ Usable(base, job[h].plan[i])
                /\ base <= Len(log)
                /\ MadeOf(source, Append(job[h].got, found)[i].versions,
                          Replayed(log, job[h].plan[i]) \cup 1 .. base)
  <2> DEFINE state == Append(job[h].got, found)[i].versions
             q == job[h].plan[i]
  <2>1. Seen(events[a], bases, since, now, q, source, state)
    BY <1>1, <1>5, GotSound DEF Log
  <2>2. LogInv /\ a \in Entities
    BY <1>2
  <2> HIDE DEF since, a, bases, source, state, q
  <2>3. \E log \in Moments(events[a], since, now), base \in bases :
           /\ base = 0 \/ Usable(base, q)
           /\ base <= Len(log)
           /\ MadeOf(source, state, Replayed(log, q) \cup 1 .. base)
    BY <2>1, <2>2, SeenInMoments
  <2> QED
    BY <2>3 DEF state, q
<1>6. /\ answer'.asked - AgeOf(answer'.source, slowest') = since
      /\ BasesIn(snapshots', answer'.source, answer'.request.agg) = bases
  BY <1>4, HandlerKinds
<1> HIDE DEF since, bases
<1>7. ASSUME answer'.source # "search", NEW i \in DOMAIN answer'.got
      PROVE  \E log \in Moments(events'[answer'.request.agg],
                                answer'.asked - AgeOf(answer'.source, slowest'), answer'.told),
                base \in BasesIn(snapshots', answer'.source, answer'.request.agg) :
                /\ base = 0 \/ Usable(base, answer'.plan[i])
                /\ base <= Len(log)
                /\ MadeOf(answer'.source, answer'.got[i].versions,
                          Replayed(log, answer'.plan[i]) \cup 1 .. base)
  BY <1>1, <1>3, <1>4, <1>5, <1>6, <1>7
<1>8. \A src, b : Bases(src, b)' = BasesIn(snapshots', src, b)
  BY DEF Bases, Taken, BasesIn
<1>9. \A x : Age(x)' = AgeOf(x.source, slowest')
  BY DEF Age, AgeOf
<1>10. \A x \in Answers' : x = answer'
  BY DEF Answers
<1> QED
  BY <1>7, <1>8, <1>9, <1>10 DEF StalenessBounded

LEMMA StoredSound ==
    ASSUME NumbersAssumption, RequestsAssumption, SingleBounds, TInv, LogInv', Grows, Kept,
           SInv, NEW h \in Handlers, Store(h)
    PROVE  \A e \in redis' : EntrySound(e)'
<1>1. /\ slowest \in Int /\ slowest' \in Int /\ slowest <= slowest'
      /\ now - job[h].loaded <= slowest' /\ job[h].loaded \in 1 .. now
      /\ job[h].pc = "set" /\ job[h].source = "cache"
  BY Slowest DEF TInv, CacheInv
<1>2. /\ redis' = {e \in redis : e.key # Key(h)} \cup {Entry(h)}
      /\ now' = now /\ events' = events
      /\ \A a : BasesIn(snapshots', "cache", a) = BasesIn(snapshots, "cache", a)
  BY DEF Store, Bases, Taken
<1>3. LogInv /\ now \in Int /\ TTL \in Int
  <2>1. LogInv
    BY DEF TInv
  <2>2. now \in Int
    BY <2>1 DEF LogInv
  <2>3. TTL \in Int
    BY DEF NumbersAssumption
  <2> QED
    BY <2>1, <2>2, <2>3
<1>4. ASSUME NEW e \in redis PROVE EntrySound(e)'
  <2>1. e.expires \in Int /\ EntrySound(e)
    BY DEF TInv, CacheInv, SInv
  <2> QED
    BY <1>1, <1>3, <2>1, EntryStable
<1>5. ASSUME NEW new, new.key = Key(h), new.found = job[h].found.versions, new.expires = now + TTL
      PROVE  EntrySound(new)'
  <2> SUFFICES ASSUME NEW a \in Entities, NEW q \in Queries, OneBound(q),
                      new.key = cacheKey(a, q)
               PROVE  \E t \in Int : /\ new.expires - TTL - slowest' <= t /\ t <= now'
                                     /\ Seen(events'[a], BasesIn(snapshots', "cache", a), t, t, q, "cache",
                                             new.found)
    BY DEF EntrySound
  <2>1. /\ Question(h) \in Queries /\ OneBound(Question(h))
        /\ cacheKey(a, q) = cacheKey(job[h].request.agg, Question(h))
    BY <1>1, <1>5, Asked, CacheAsked DEF Key
  <2>2. a = job[h].request.agg /\ q = Question(h)
    BY <2>1, KeysDiffer DEF RequestsAssumption
  <2>3. Seen(events[a], BasesIn(snapshots, "cache", a), job[h].loaded, job[h].loaded, q, "cache",
             job[h].found.versions)
    BY <1>1, <2>2 DEF SInv, JobSound
  <2>4. new.expires - TTL - slowest' <= job[h].loaded /\ job[h].loaded <= now
    BY <1>1, <1>3, <1>5
  <2> QED
    BY <1>1, <1>2, <1>5, <2>3, <2>4
<1>6. /\ Entry(h).key = Key(h) /\ Entry(h).found = job[h].found.versions /\ Entry(h).expires = now + TTL
  BY DEF Entry
<1>7. ASSUME NEW e, e = Entry(h) PROVE EntrySound(e)'
  BY <1>5, <1>6, <1>7
<1> QED
  BY <1>2, <1>4, <1>7

LEMMA SoundStep ==
    ASSUME NumbersAssumption, RequestsAssumption, SingleBounds, TInv, SInv, [Next]_vars
    PROVE  SInv'
<1>1. LogInv' /\ Grows /\ CacheInv' /\ slowest <= slowest' /\ Kept
  BY LogStep, CacheStep, SnapshotsStep
<1>2. LogInv /\ slowest \in Int /\ slowest' \in Int /\ \A e \in redis : e.expires \in Int
  BY <1>1 DEF TInv, CacheInv
<1>3. ASSUME NEW h \in Handlers PROVE JobSound(h)'
  <2>1. CASE job'[h] = job[h]
    BY <1>1, <1>2, <2>1, JobSoundStable DEF SInv
  <2>2. ASSUME NEW r \in Requests, Ask(h, r) PROVE JobSound(h)'
    <3>1. Receive(h) /\ (BadRequest(h, r) \/ Begun(h, r))
      BY <2>2, AskPlans
    <3>2. CASE BadRequest(h, r)
      BY <2>1, <3>2 DEF BadRequest
    <3>3. CASE Begun(h, r)
      <4>1. job'[h].pc # "set" /\ job'[h].got = <<>>
        BY <3>1, <3>3, BegunLocals DEF Receive
      <4> QED
        BY <4>1 DEF JobSound
    <3> QED
      BY <3>1, <3>2, <3>3
  <2>3. CASE HandlerStep(h)
    BY <1>1, <1>2, <2>3, HandlerSound
  <2>4. ASSUME NEW o \in Handlers \ {h}, HandlerStep(o) PROVE job'[h] = job[h]
    BY <2>4, HandlerKinds DEF Only
  <2>5. ASSUME NEW o \in Handlers \ {h}, NEW r \in Requests, Ask(o, r) PROVE job'[h] = job[h]
    BY <2>5, AskPlans, BegunJob, <1>1 DEF Only, BadRequest, Receive
  <2> QED
    BY <2>1, <2>2, <2>3, <2>4, <2>5 DEF Next, HandlerStep, Commit, SaveSnapshot, Tick, vars
<1>4. ASSUME NEW e \in redis' PROVE EntrySound(e)'
  <2>1. CASE redis' = redis
    BY <1>1, <1>2, <2>1, EntryStable DEF SInv
  <2>2. ASSUME NEW h \in Handlers, Store(h) PROVE EntrySound(e)'
    BY <1>1, <2>2, StoredSound
  <2>3. ASSUME NEW h \in Handlers, HandlerStep(h) PROVE redis' = redis \/ Store(h)
    BY <2>3, HandlerKinds
  <2>4. ASSUME NEW h \in Handlers, NEW r \in Requests, Ask(h, r) PROVE redis' = redis
    BY <2>4, AskPlans DEF Receive
  <2> QED
    BY <2>1, <2>2, <2>3, <2>4 DEF Next, HandlerStep, Commit, SaveSnapshot, Tick, vars
<1>5. StalenessBounded'
  <2>1. CASE UNCHANGED vars
    <3>1. Answers' = Answers /\ events' = events
      BY <2>1 DEF Answers, vars
    <3>2. \A x : Age(x)' = Age(x)
      BY <2>1 DEF Age, vars
    <3>3. \A source, a : Bases(source, a)' = Bases(source, a)
      BY <2>1 DEF Bases, Taken, vars
    <3> QED
      BY <3>1, <3>2, <3>3 DEF SInv, StalenessBounded
  <2>2. CASE answer'.status # 200
    BY <2>2 DEF StalenessBounded, Answers
  <2>3. ASSUME NEW h \in Handlers, NEW found \in Results, HandlerStep(h),
               Yields(h, found), Answered(h, found)
        PROVE  StalenessBounded'
    BY <1>1, <1>2, <2>3, AnswerSound
  <2> QED
    BY <1>1, <2>1, <2>2, <2>3, AnswerStep
<1> QED
  BY <1>3, <1>4, <1>5 DEF SInv

LEMMA SoundInit ==
    ASSUME Init
    PROVE  SInv
<1>1. \A h \in Handlers : JobSound(h)
  BY DEF Init, JobSound, Idle
<1>2. StalenessBounded
  BY DEF Init, StalenessBounded, Answers, NoAnswer
<1> QED
  BY <1>1, <1>2 DEF SInv, Init

(* Every answer of every handler, over HTTP or gRPC, has the version of    *)
(* the matching events and of those behind a usable snapshot, on the log   *)
(* as it was at some moment between request and reply, or, through the     *)
(* cache, less than a TTL and the slowest fill earlier; it is made of no   *)
(* others, and of all of them if the replay is of a product or an order.   *)
(* For any number of handlers, users, snapshots and entries; SingleBounds  *)
(* is needed: cacheKey drops the instant of a query that names a version.  *)
THEOREM AnswersAreFreshEnough ==
    ASSUME NumbersAssumption, RequestsAssumption, SingleBounds
    PROVE  Spec => []StalenessBounded
<1>1. Init => SInv
  BY SoundInit
<1>2. TInv /\ SInv /\ [Next]_vars => SInv'
  BY SoundStep
<1>3. SInv => StalenessBounded
  BY DEF SInv
<1> QED
  BY <1>1, <1>2, <1>3, TypeInvariant, PTL DEF Spec

-----------------------------------------------------------------------------
(* Diffs *)

(* A diff of two states, the second of which has the first's events *)
LEMMA DiffOfStates ==
    ASSUME NEW x, x.got[1].versions \subseteq x.got[2].versions
    PROVE  LET from == ToMap(x.request.agg, x.got[1])
               to   == ToMap(x.request.agg, x.got[2])
               diff == DiffOf(x)
           IN  /\ to = [k \in DOMAIN from |->
                           IF k \in DOMAIN diff THEN diff[k].to ELSE from[k]]
               /\ \A k \in DOMAIN diff \ Touched(x) :
                     /\ k \in {"created_at", "updated_at"}
                     /\ x.got[1].decoded # x.got[2].decoded
<1> DEFINE a    == x.request.agg
           S    == x.got[1].versions
           T    == x.got[2].versions
           c    == x.got[1].decoded
           d    == x.got[2].decoded
           from == ToMap(a, x.got[1])
           to   == ToMap(a, x.got[2])
           diff == DiffOf(x)
           keys == Fields \cup {"version", "created_at", "updated_at"}
<1>1. /\ DOMAIN from = keys /\ DOMAIN to = keys
      /\ to = [k \in keys |-> to[k]]
  BY DEF ToMap
<1>2. ASSUME NEW k \in keys, from[k] # to[k], k \notin Touched(x)
      PROVE  k \in {"created_at", "updated_at"} /\ c # d
  <2> DEFINE log == events[a]
             writing(V) == {v \in V : k \in log[v].writes}
  <2>1. /\ \A v \in T \ S : k \notin log[v].writes /\ k \notin {"version", "updated_at"}
        /\ 1 \in T \ S => k # "created_at"
    <3>1. ASSUME NEW v \in T \ S, k \in log[v].writes \cup {"version", "updated_at"}
          PROVE  k \in Touched(x)
      <4>1. k \in UNION {log[w].writes \cup {"version", "updated_at"} : w \in T \ S}
        BY <3>1
      <4> QED
        BY <4>1 DEF Touched
    <3>2. ASSUME 1 \in T \ S PROVE "created_at" \in Touched(x)
      <4>1. "created_at" \in IF 1 \in T \ S THEN {"created_at"} ELSE {}
        BY <3>2
      <4> QED
        BY <4>1 DEF Touched
    <3> QED
      BY <1>2, <3>1, <3>2
  <2>2. CASE k = "version"
    <3>1. from[k] = VersionOf(S) /\ to[k] = VersionOf(T)
      BY <2>2 DEF ToMap
    <3>2. T = S
      BY <2>1, <2>2
    <3> QED
      BY <1>2, <3>1, <3>2
  <2>3. CASE k = "created_at"
    <3>1. /\ from[k] = IF 1 \in S THEN Zoned(log[1].created, c > 0) ELSE NoTime
          /\ to[k] = IF 1 \in T THEN Zoned(log[1].created, d > 0) ELSE NoTime
      BY <2>3 DEF ToMap
    <3>2. 1 \in S <=> 1 \in T
      BY <2>1, <2>3
    <3> QED
      BY <1>2, <2>3, <3>1, <3>2
  <2>4. CASE k = "updated_at"
    <3>1. /\ from[k] = IF S # {} THEN Zoned(log[VersionOf(S)].created, c = VersionOf(S))
                       ELSE NoTime
          /\ to[k] = IF T # {} THEN Zoned(log[VersionOf(T)].created, d = VersionOf(T))
                     ELSE NoTime
      BY <2>4 DEF ToMap
    <3>2. T = S
      BY <2>1, <2>4
    <3> QED
      BY <1>2, <2>4, <3>1, <3>2
  <2>5. CASE k \notin {"version", "created_at", "updated_at"}
    <3>1. from[k] = VersionOf(writing(S)) /\ to[k] = VersionOf(writing(T))
      BY <2>5 DEF ToMap
    <3>2. writing(S) = writing(T)
      BY <2>1
    <3> QED
      BY <1>2, <3>1, <3>2
  <2> QED
    BY <2>2, <2>3, <2>4, <2>5
<1> HIDE DEF from, to
<1>3. /\ DOMAIN diff = {k \in keys : from[k] # to[k]}
      /\ \A k \in DOMAIN diff : diff[k].to = to[k]
  BY <1>1 DEF DiffOf, Compare, At, from, to
<1> HIDE DEF diff
<1>4. to = [k \in DOMAIN from |-> IF k \in DOMAIN diff THEN diff[k].to ELSE from[k]]
  BY <1>1, <1>3
<1>5. \A k \in DOMAIN diff \ Touched(x) : k \in {"created_at", "updated_at"} /\ c # d
  BY <1>2, <1>3
<1> QED
  BY <1>4, <1>5 DEF from, to, diff

(* The engine's answer: the events of the log that match, and those its    *)
(* snapshot holds                                                          *)
LEMMA EngineYields ==
    ASSUME RequestsAssumption, TInv, NEW h \in Handlers, job[h].pc # "idle",
           job[h].source = "engine", NEW found, Yields(h, found)
    PROVE  \E b \in BasesIn(snapshots, "engine", job[h].request.agg) :
              /\ job[h].pc = "load" /\ b = job[h].found.decoded
              /\ b \in Nat /\ b <= Len(Log(h)) /\ (b = 0 \/ Usable(b, Question(h)))
              /\ found.versions = Upto(Log(h), Len(Log(h)), Question(h)) \cup 1 .. b
<1>1. JobInv(h) /\ job[h].pc = "load" /\ found = Applied(h)
  BY DEF TInv, JobInv, Yields
<1> QED
  BY <1>1, LoadYields DEF MadeOf

(* A bound that is not after another lets no event through the other stops, *)
(* nor does the snapshot it starts from.                                    *)
LEMMA BoundsInOrder ==
    ASSUME LogInv, NEW a \in Entities, NEW n \in 0 .. Len(events[a]),
           NEW p \in Queries, NEW q \in Queries, OneBound(p), OneBound(q), Nil \notin Int,
           NotAfter(p, q), NEW b \in Nat, NEW c \in Nat, b <= n, b = 0 \/ Usable(b, p),
           q.version # Nil \/ b <= c
    PROVE  Upto(events[a], n, p) \cup 1 .. b
              \subseteq Upto(events[a], Len(events[a]), q) \cup 1 .. c
<1>1. /\ Len(events[a]) \in Nat
      /\ \A v \in 1 .. n : v \in 1 .. Len(events[a]) /\ v \in Nat
      /\ \A v \in Nat : v \in 1 .. Len(events[a]) => events[a][v].created \in Int
  BY DEF LogInv
<1>2. Upto(events[a], n, p) \subseteq Upto(events[a], Len(events[a]), q)
  <2>1. CASE q = Current
    BY <1>1, <2>1 DEF Upto, Current
  <2>2. CASE p.version # Nil /\ q.version # Nil /\ p.version <= q.version
    BY <1>1, <2>2 DEF Upto, OneBound, Queries
  <2>3. CASE p.at # Nil /\ q.at # Nil /\ p.at <= q.at
    BY <1>1, <2>3 DEF Upto, OneBound, Queries
  <2> QED
    BY <2>1, <2>2, <2>3 DEF NotAfter
<1>3. CASE b <= c
  BY <1>2, <1>3
<1>4. CASE q.version # Nil
  <2>1. /\ p.version # Nil /\ p.version \in Int /\ q.version \in Int
        /\ p.version <= q.version /\ q.at = Nil
    BY <1>4 DEF NotAfter, Current, OneBound, Queries
  <2>2. ASSUME NEW v \in 1 .. b PROVE v \in Upto(events[a], Len(events[a]), q)
    <3>1. v \in 1 .. n /\ b # 0 /\ v <= b
      OBVIOUS
    <3>2. b <= p.version
      BY <2>1, <3>1 DEF Usable
    <3>3. v <= q.version /\ v \in 1 .. Len(events[a])
      BY <1>1, <2>1, <3>1, <3>2
    <3> QED
      BY <2>1, <3>3 DEF Upto
  <2> QED
    BY <1>2, <2>2
<1> QED
  BY <1>3, <1>4

(* The last state of a diff has the events of its first. *)
LEMMA SecondHasFirst ==
    ASSUME RequestsAssumption, TInv, NEW h \in Handlers, job[h].pc # "idle", FirstOfTwo(h),
           job[h].source = "engine", Len(job[h].plan) = 2, Len(job[h].got) = 1,
           NotAfter(job[h].plan[1], job[h].plan[2]), NEW found, Yields(h, found)
    PROVE  job[h].got[1].versions \subseteq found.versions
<1> DEFINE a == job[h].request.agg
           p == job[h].plan[1]
           q == job[h].plan[2]
<1>1. /\ LogInv /\ Planned(job[h].request, job[h].source, job[h].plan)
      /\ a \in Entities /\ Nil \notin Int
  BY Asked DEF TInv, JobInv, RequestsAssumption
<1>2. /\ p \in Queries /\ q \in Queries /\ OneBound(p) /\ OneBound(q) /\ Question(h) = q
  BY <1>1 DEF Planned, Question
<1>3. PICK c \in BasesIn(snapshots, "engine", a) :
         /\ job[h].pc = "load" /\ c = job[h].found.decoded /\ c \in Nat
         /\ found.versions = Upto(events[a], Len(events[a]), q) \cup 1 .. c
  BY <1>2, EngineYields DEF Log
<1>4. PICK n \in 0 .. Len(events[a]), b \in BasesIn(snapshots, "engine", a) :
         /\ b <= n /\ (b = 0 \/ Usable(b, p))
         /\ job[h].got[1].versions = Upto(events[a], n, p) \cup 1 .. b
         /\ job[h].pc = "load" => Question(h).version # Nil \/ b <= job[h].found.decoded
  BY DEF FirstOfTwo
<1>5. b \in Nat
  <2>1. Taken(a) \subseteq 1 .. Len(events[a]) /\ Len(events[a]) \in Nat
    BY <1>1, TakenVersions
  <2>2. b \in {0} \cup Taken(a)
    BY DEF BasesIn, Taken
  <2> QED
    BY <2>1, <2>2
<1>6. q.version # Nil \/ b <= c
  BY <1>2, <1>3, <1>4
<1> HIDE DEF a, p, q
<1>7. Upto(events[a], n, p) \cup 1 .. b \subseteq Upto(events[a], Len(events[a]), q) \cup 1 .. c
  BY <1>1, <1>2, <1>3, <1>4, <1>5, <1>6, BoundsInOrder DEF a, p, q
<1> QED
  BY <1>3, <1>4, <1>7 DEF a, p, q

LEMMA DiffAnswered ==
    ASSUME RequestsAssumption, TInv, DInv, NEW h \in Handlers, HandlerStep(h),
           NEW found \in Results, Yields(h, found), Answered(h, found)
    PROVE  DiffTellsEvents'
<1>1. /\ events' = events /\ job[h].pc # "idle" /\ FirstOfTwo(h)
      /\ LogInv /\ Planned(job[h].request, job[h].source, job[h].plan)
  BY HandlerKinds DEF DInv, TInv, JobInv
<1>2. /\ job[h].request.agg \in Entities /\ Len(job[h].got) \in Nat
      /\ job[h].got \in Seq(Results)
  BY <1>1, Asked
<1>3. /\ answer'.request = job[h].request /\ answer'.source = job[h].source
      /\ answer'.plan = job[h].plan /\ answer'.got = Append(job[h].got, found)
  BY DEF Answered
<1>4. ASSUME Len(job[h].plan) = 2, job[h].source = "engine",
             NotAfter(job[h].plan[1], job[h].plan[2])
      PROVE  answer'.got[1].versions \subseteq answer'.got[2].versions
  <2>1. Len(job[h].got) + 1 = 2
    BY <1>4, Zenon DEF Answered
  <2>2. Len(job[h].got) = 1 /\ Len(job[h].got) + 1 = 2
    <3>1. \A n \in Nat : n + 1 = 2 => n = 1
      OBVIOUS
    <3> QED
      BY <1>2, <2>1, <3>1, Zenon
  <2>3. answer'.got[1] = job[h].got[1] /\ answer'.got[2] = found
    BY <1>2, <1>3, <2>2
  <2> QED
    BY <1>1, <1>4, <2>2, <2>3, SecondHasFirst
<1>5. \A x : DiffOf(x)' = DiffOf(x) /\ Touched(x)' = Touched(x)
  BY <1>1 DEF DiffOf, Touched, ToMap
<1>6. \A a, f : ToMap(a, f)' = ToMap(a, f)
  BY <1>1 DEF ToMap
<1>7. ASSUME NEW x \in Diffs', NotAfter(x.plan[1], x.plan[2])
      PROVE  LET from == ToMap(x.request.agg, x.got[1])
                 diff == DiffOf(x)
             IN  /\ x.got[1].versions \subseteq x.got[2].versions
                 /\ ToMap(x.request.agg, x.got[2]) =
                       [k \in DOMAIN from |-> IF k \in DOMAIN diff THEN diff[k].to ELSE from[k]]
                 /\ \A k \in DOMAIN diff \ Touched(x) :
                       /\ k \in {"created_at", "updated_at"}
                       /\ x.got[1].decoded # x.got[2].decoded
  <2>1. x = answer' /\ Len(x.plan) = 2 /\ x.source = "engine"
    BY DEF Diffs, Answers
  <2>2. x.got[1].versions \subseteq x.got[2].versions
    BY <1>3, <1>4, <1>7, <2>1
  <2> QED
    BY <2>2, DiffOfStates
<1> QED
  BY <1>5, <1>6, <1>7 DEF DiffTellsEvents

(* The first state stays what it was while the log and the snapshots grow. *)
LEMMA FirstKept ==
    ASSUME LogInv, LogInv', Grows, Kept, NEW a \in Entities, NEW p,
           NEW n \in 0 .. Len(events[a]), NEW b \in BasesIn(snapshots, "engine", a)
    PROVE  /\ n \in 0 .. Len(events'[a]) /\ b \in BasesIn(snapshots', "engine", a)
           /\ Upto(events'[a], n, p) = Upto(events[a], n, p)
<1>1. /\ n \in 0 .. Len(events'[a])
      /\ \A v \in 1 .. n : events'[a][v] = events[a][v]
  BY DEF Grows, LogInv
<1>2. Upto(events'[a], n, p) = Upto(events[a], n, p)
  BY <1>1 DEF Upto
<1>3. b \in BasesIn(snapshots', "engine", a)
  BY BasesKept
<1> QED
  BY <1>1, <1>2, <1>3

LEMMA FirstOfTwoStep ==
    ASSUME NumbersAssumption, RequestsAssumption, TInv, LogInv', Grows, Kept, DInv,
           [Next]_vars, NEW h \in Handlers
    PROVE  FirstOfTwo(h)'
<1>1. CASE job'[h] = job[h]
  <2> SUFFICES ASSUME job[h].pc # "idle", job[h].source = "engine", Len(job[h].got) = 1
               PROVE  \E n \in 0 .. Len(events'[job[h].request.agg]),
                         b \in BasesIn(snapshots', "engine", job[h].request.agg) :
                          /\ b <= n /\ (b = 0 \/ Usable(b, job[h].plan[1]))
                          /\ job[h].got[1].versions =
                                Upto(events'[job[h].request.agg], n, job[h].plan[1]) \cup 1 .. b
                          /\ job[h].pc = "load" =>
                                Question(h).version # Nil \/ b <= job[h].found.decoded
    BY <1>1 DEF FirstOfTwo, Question
  <2> DEFINE a == job[h].request.agg
  <2>1. a \in Entities /\ FirstOfTwo(h)
    BY Asked DEF DInv
  <2>2. PICK n \in 0 .. Len(events[a]), b \in BasesIn(snapshots, "engine", a) :
           /\ b <= n /\ (b = 0 \/ Usable(b, job[h].plan[1]))
           /\ job[h].got[1].versions = Upto(events[a], n, job[h].plan[1]) \cup 1 .. b
           /\ job[h].pc = "load" => Question(h).version # Nil \/ b <= job[h].found.decoded
    BY <2>1 DEF FirstOfTwo
  <2>3. LogInv /\ a \in Entities
    BY <2>1 DEF TInv
  <2> HIDE DEF a
  <2>4. /\ n \in 0 .. Len(events'[a]) /\ b \in BasesIn(snapshots', "engine", a)
        /\ Upto(events'[a], n, job[h].plan[1]) = Upto(events[a], n, job[h].plan[1])
    BY <2>2, <2>3, FirstKept
  <2> QED
    BY <2>2, <2>4 DEF a
<1>2. ASSUME NEW r \in Requests, Ask(h, r) PROVE FirstOfTwo(h)'
  <2>1. Receive(h) /\ (BadRequest(h, r) \/ Begun(h, r))
    BY <1>2, AskPlans
  <2>2. CASE BadRequest(h, r)
    BY <1>1, <2>2 DEF BadRequest
  <2>3. CASE Begun(h, r)
    <3>1. Len(job'[h].got) = 0
      BY <2>3, BegunLocals
    <3> QED
      BY <3>1 DEF FirstOfTwo
  <2> QED
    BY <2>1, <2>2, <2>3
<1>3. CASE HandlerStep(h)
  <2>1. /\ events' = events /\ snapshots' = snapshots
        /\ job[h].pc # "idle" /\ DOMAIN job[h] = JobFields
    BY <1>3, HandlerKinds DEF TInv, JobInv
  <2>2. CASE Moves(h) \/ Loads(h)
    <3>1. job'[h].source = job[h].source /\ job[h].source = "cache"
      BY <2>1, <2>2 DEF Moves, Loads, JobFields, TInv, JobInv
    <3> QED
      BY <3>1 DEF FirstOfTwo
  <2>3. CASE job'[h] = Idle
    BY <2>3 DEF FirstOfTwo, Idle
  <2>4. CASE Starts(h)
    <3>1. PICK base : Base(h, base) /\ job'[h] = [job[h] EXCEPT !.pc = "load", !.found = base]
      BY <2>4 DEF Starts
    <3>2. /\ job'[h].pc = "load" /\ job'[h].request = job[h].request
          /\ job'[h].plan = job[h].plan /\ job'[h].got = job[h].got
          /\ job'[h].source = job[h].source /\ job'[h].found = base
      BY <2>1, <3>1 DEF JobFields
    <3> DEFINE a == job[h].request.agg
    <3> SUFFICES ASSUME job[h].source = "engine", Len(job[h].got) = 1
                 PROVE  \E n \in 0 .. Len(events[a]), b \in BasesIn(snapshots, "engine", a) :
                           /\ b <= n /\ (b = 0 \/ Usable(b, job[h].plan[1]))
                           /\ job[h].got[1].versions =
                                 Upto(events[a], n, job[h].plan[1]) \cup 1 .. b
                           /\ Question(h).version # Nil \/ b <= base.decoded
      BY <2>1, <3>2 DEF FirstOfTwo, Question
    <3>3. PICK n \in 0 .. Len(events[a]), b \in BasesIn(snapshots, "engine", a) :
             /\ b <= n /\ (b = 0 \/ Usable(b, job[h].plan[1]))
             /\ job[h].got[1].versions = Upto(events[a], n, job[h].plan[1]) \cup 1 .. b
      BY <2>1 DEF FirstOfTwo, DInv
    <3>4. Question(h).version # Nil \/ b <= base.decoded
      <4>1. b \in {0} \cup Taken(a)
        BY <3>3 DEF BasesIn, Taken
      <4>2. 0 <= base.decoded
        <5>1. CASE base = Fresh
          BY <5>1 DEF Fresh, Scanned
        <5>2. CASE base # Fresh
          <6>1. PICK s \in snapshots : s.agg = a /\ base.decoded = s.version
            BY <3>1, <5>2 DEF Base
          <6>2. s.version \in 1 .. Len(events[s.agg]) /\ Len(events[s.agg]) \in Nat
            BY <2>1, <6>1, SnapshotVersions, Asked DEF Log
          <6> QED
            BY <6>1, <6>2
        <5> QED
          BY <5>1, <5>2
      <4> QED
        BY <3>1, <4>1, <4>2 DEF Base
    <3> QED
      BY <3>3, <3>4
  <2>5. ASSUME NEW found \in Results, Yields(h, found), Continues(h, found)
        PROVE  FirstOfTwo(h)'
    <3>1. /\ job[h].request.agg \in Entities /\ Len(job[h].got) \in Nat
          /\ job[h].got \in Seq(Results) /\ Len(Log(h)) \in Nat
      BY <2>1, Asked
    <3>2. /\ job'[h].request = job[h].request /\ job'[h].plan = job[h].plan
          /\ job'[h].source = job[h].source /\ job'[h].got = Append(job[h].got, found)
          /\ job'[h].source = "engine" => job'[h].pc = "snapshot"
      BY <2>5 DEF Continues, FirstStep
    <3> SUFFICES ASSUME job[h].source = "engine", Len(job'[h].got) = 1
                 PROVE  \E n \in 0 .. Len(Log(h)),
                           b \in BasesIn(snapshots, "engine", job[h].request.agg) :
                            /\ b <= n /\ (b = 0 \/ Usable(b, job[h].plan[1]))
                            /\ job'[h].got[1].versions =
                                  Upto(Log(h), n, job[h].plan[1]) \cup 1 .. b
      BY <2>1, <3>2 DEF FirstOfTwo, Log
    <3>3. Len(job[h].got) = 0 /\ Len(job[h].got) + 1 = 1 /\ job'[h].got[1] = found
      BY <3>1, <3>2
    <3>4. Question(h) = job[h].plan[1]
      BY <3>3 DEF Question
    <3>5. PICK b \in BasesIn(snapshots, "engine", job[h].request.agg) :
             /\ b <= Len(Log(h)) /\ (b = 0 \/ Usable(b, Question(h)))
             /\ found.versions = Upto(Log(h), Len(Log(h)), Question(h)) \cup 1 .. b
      BY <2>1, <2>5, EngineYields
    <3> QED
      BY <3>1, <3>3, <3>4, <3>5
  <2> QED
    BY <1>3, <2>2, <2>3, <2>4, <2>5, HandlerKinds DEF Ends, Answered
<1>4. ASSUME NEW o \in Handlers \ {h}, HandlerStep(o) PROVE job'[h] = job[h]
  BY <1>4, HandlerKinds DEF Only
<1>5. ASSUME NEW o \in Handlers \ {h}, NEW r \in Requests, Ask(o, r) PROVE job'[h] = job[h]
  BY <1>5, AskPlans, BegunJob DEF Only, BadRequest, Receive
<1> QED
  BY <1>1, <1>2, <1>3, <1>4, <1>5 DEF Next, HandlerStep, Commit, SaveSnapshot, Tick, vars

(* A diff of a product or an order whose bounds are in order tells what    *)
(* events did between its two states, in that direction, whatever commits  *)
(* and whichever snapshots are saved between its two replays.  The times   *)
(* are the exception: they may differ in their zone alone.                 *)
THEOREM DiffsTellEvents ==
    ASSUME NumbersAssumption, RequestsAssumption
    PROVE  Spec => []DiffTellsEvents
<1>1. Init => DInv
  BY DEF Init, DInv, DiffTellsEvents, Diffs, Answers, NoAnswer, FirstOfTwo, Idle
<1>2. TInv /\ DInv /\ [Next]_vars => DInv'
  <2> SUFFICES ASSUME TInv, DInv, [Next]_vars
               PROVE  DInv'
    OBVIOUS
  <2>1. LogInv' /\ Grows /\ Kept
    BY LogStep, SnapshotsStep
  <2>2. \A h \in Handlers : FirstOfTwo(h)'
    BY <2>1, FirstOfTwoStep
  <2>3. ASSUME UNCHANGED vars PROVE DiffTellsEvents'
    <3>1. \A a, f : ToMap(a, f)' = ToMap(a, f)
      BY <2>3 DEF ToMap, vars
    <3>2. \A x : DiffOf(x)' = DiffOf(x) /\ Touched(x)' = Touched(x)
      BY <2>3 DEF DiffOf, Touched, ToMap, vars
    <3>3. Diffs' = Diffs
      BY <2>3 DEF Diffs, Answers, vars
    <3> QED
      BY <3>1, <3>2, <3>3 DEF DInv, DiffTellsEvents
  <2>4. ASSUME answer'.status # 200 PROVE DiffTellsEvents'
    <3>1. Diffs' = {}
      BY <2>4 DEF Diffs, Answers
    <3> QED
      BY <3>1 DEF DiffTellsEvents
  <2>5. ASSUME NEW h \in Handlers, NEW found \in Results, HandlerStep(h),
               Yields(h, found), Answered(h, found)
        PROVE  DiffTellsEvents'
    BY <2>5, DiffAnswered
  <2>6. DiffTellsEvents'
    BY <2>1, <2>3, <2>4, <2>5, AnswerStep DEF DInv
  <2> QED
    BY <2>2, <2>6 DEF DInv
<1>3. DInv => DiffTellsEvents
  BY DEF DInv
<1> QED
  BY <1>1, <1>2, <1>3, TypeInvariant, PTL DEF Spec

-----------------------------------------------------------------------------
(* Searches *)

LEMMA MinPair ==
    ASSUME NEW m \in Int, NEW n \in Int
    PROVE  Min({m, n}) = IF m <= n THEN m ELSE n
<1>1. (IF m <= n THEN m ELSE n) \in {m, n}
  OBVIOUS
<1>2. \A y \in {m, n} : (IF m <= n THEN m ELSE n) <= y
  OBVIOUS
<1>3. \A z \in {m, n} : (\A y \in {m, n} : z <= y) => z = IF m <= n THEN m ELSE n
  OBVIOUS
<1> QED
  BY <1>1, <1>2, <1>3 DEF Min

(* The WHERE clause selects what replays of the two ends apply. *)
LEMMA MatchesBetween ==
    ASSUME RequestsAssumption, LogInv, NEW a \in Entities, NEW r \in Requests,
           r.from \in Parameters, r.to \in Parameters
    PROVE  {v \in DOMAIN events[a] : Matches(events[a][v], r)} = Between(events[a], r)
<1>1. /\ DOMAIN events[a] = 1 .. Len(events[a])
      /\ \A v \in 1 .. Len(events[a]) : events[a][v].created \in Int
  BY DEF LogInv
<1>2. /\ r.from.n \in Int /\ r.to.n \in Int /\ Nil \notin Int
      /\ r.from.n - 1 \in Int
  BY DEF Parameters, RequestsAssumption
<1>3. ASSUME NEW v \in DOMAIN events[a]
      PROVE  Matches(events[a][v], r) <=> v \in Between(events[a], r)
  <2>1. v \in Replayed(events[a], ByInstant(Given(r.to))) <=>
           (r.to.form # "absent" => events[a][v].created <= r.to.n)
    BY <1>1, <1>2 DEF Replayed, ByInstant, Given
  <2>2. v \in Replayed(events[a], ByInstant(r.from.n - 1)) <=>
           ~ (events[a][v].created >= r.from.n)
    BY <1>1, <1>2 DEF Replayed, ByInstant
  <2> QED
    BY <2>1, <2>2 DEF Matches, Between
<1>4. Between(events[a], r) \subseteq DOMAIN events[a]
  BY DEF Between, Replayed
<1> QED
  BY <1>3, <1>4

(* LIMIT leaves out none of few and the oldest of many. *)
LEMMA LimitLeavesOldest ==
    ASSUME NumbersAssumption, RequestsAssumption, LogInv, NEW a \in Entities,
           NEW r \in Requests, r.from \in Parameters, r.to \in Parameters,
           NEW S \in FirstMatches(events[a], r)
    PROVE  /\ S \subseteq Between(events[a], r)
           /\ \A v \in Between(events[a], r) \ S :
                 /\ Cardinality(S) = SearchLimit
                 /\ \A w \in S : events[a][w].created >= events[a][v].created
<1> DEFINE all == {v \in DOMAIN events[a] : Matches(events[a][v], r)}
<1>1. /\ S \subseteq all /\ Cardinality(S) = Min({SearchLimit, Cardinality(all)})
      /\ \A v \in S, w \in all \ S : events[a][v].created >= events[a][w].created
  BY DEF FirstMatches
<1>2. IsFiniteSet(all)
  <2>1. DOMAIN events[a] = 1 .. Len(events[a]) /\ Len(events[a]) \in Nat
    BY DEF LogInv
  <2>2. IsFiniteSet(1 .. Len(events[a]))
    BY <2>1, FS_Interval
  <2> QED
    BY <2>1, <2>2, FS_Subset
<1>3. all = Between(events[a], r)
  BY MatchesBetween
<1> HIDE DEF all
<1>4. Cardinality(all) \in Int /\ SearchLimit \in Int
  BY <1>2, FS_CardinalityType DEF NumbersAssumption
<1>5. S # all => Cardinality(S) = SearchLimit
  <2>1. S # all => Cardinality(all) # Cardinality(S)
    BY <1>1, <1>2, FS_Subset
  <2>2. Cardinality(S) = IF SearchLimit <= Cardinality(all) THEN SearchLimit ELSE Cardinality(all)
    BY <1>1, <1>4, MinPair
  <2> QED
    BY <2>1, <2>2
<1> QED
  BY <1>1, <1>3, <1>5

LEMMA SearchAnswered ==
    ASSUME NumbersAssumption, RequestsAssumption, TInv, NEW h \in Handlers, HandlerStep(h),
           NEW found \in Results, Yields(h, found), Answered(h, found)
    PROVE  SearchComplete'
<1>1. /\ events' = events /\ job[h].pc # "idle" /\ LogInv /\ JobInv(h)
      /\ Planned(job[h].request, job[h].source, job[h].plan)
  BY HandlerKinds DEF TInv, JobInv
<1>2. /\ job[h].request \in Requests /\ job[h].request.agg \in Entities
      /\ Len(job[h].got) \in Nat /\ job[h].got \in Seq(Results)
  BY <1>1, Asked
<1>3. /\ answer'.request = job[h].request /\ answer'.source = job[h].source
      /\ answer'.got = Append(job[h].got, found)
  BY DEF Answered
<1> DEFINE a == job[h].request.agg
           r == job[h].request
<1>4. ASSUME job[h].source = "search"
      PROVE  /\ answer'.got[1] = found /\ found.versions \subseteq Between(events[a], r)
             /\ \A v \in Between(events[a], r) \ found.versions :
                   /\ Cardinality(found.versions) = SearchLimit
                   /\ \A w \in found.versions : events[a][w].created >= events[a][v].created
  <2>1. job[h].pc = "search" /\ found.versions \in FirstMatches(events[a], r)
    BY <1>1, <1>4 DEF JobInv, Yields, Log, Scanned
  <2>2. Len(job[h].got) + 1 = 1
    <3>1. Len(job[h].plan) = 1
      BY <1>1, <1>4 DEF Planned
    <3> QED
      BY <3>1, Zenon DEF Answered
  <2>3. Len(job[h].got) = 0
    <3>1. \A n \in Nat : n + 1 = 1 => n = 0
      OBVIOUS
    <3> QED
      BY <1>2, <2>2, <3>1, Zenon
  <2>4. answer'.got[1] = found
    BY <1>2, <1>3, <2>3
  <2>5. r.from \in Parameters /\ r.to \in Parameters
    BY <1>1, <1>4 DEF Planned
  <2>6. \A S \in FirstMatches(events[a], r) :
           /\ S \subseteq Between(events[a], r)
           /\ \A v \in Between(events[a], r) \ S :
                 /\ Cardinality(S) = SearchLimit
                 /\ \A w \in S : events[a][w].created >= events[a][v].created
    BY <1>1, <1>2, <2>5, LimitLeavesOldest
  <2> QED
    BY <2>1, <2>4, <2>6
<1>5. ASSUME NEW x \in Answers', x.source = "search"
      PROVE  LET log == events'[x.request.agg]
                 shown == x.got[1].versions
             IN  /\ shown \subseteq Between(log, x.request)
                 /\ \A v \in Between(log, x.request) \ shown :
                       /\ Cardinality(shown) = SearchLimit
                       /\ \A w \in shown : log[w].created >= log[v].created
  <2>1. x = answer'
    BY DEF Answers
  <2>2. /\ x.got[1] = found /\ x.request = r /\ events' = events
        /\ job[h].source = "search"
    BY <1>1, <1>3, <1>4, <1>5, <2>1
  <2> QED
    BY <1>4, <2>2
<1> QED
  BY <1>5, Zenon DEF SearchComplete

(* A search shows what a replay at the end of its range applies and one    *)
(* before its start does not, all of it unless LIMIT leaves the oldest out.*)
THEOREM SearchesAreComplete ==
    ASSUME NumbersAssumption, RequestsAssumption
    PROVE  Spec => []SearchComplete
<1>1. Init => SearchComplete
  BY DEF Init, SearchComplete, Answers, NoAnswer
<1>2. TInv /\ SearchComplete /\ [Next]_vars => SearchComplete'
  <2> SUFFICES ASSUME TInv, SearchComplete, [Next]_vars
               PROVE  SearchComplete'
    OBVIOUS
  <2>1. LogInv' /\ Grows
    BY LogStep
  <2>2. CASE UNCHANGED vars
    BY <2>2 DEF SearchComplete, Answers, vars
  <2>3. CASE answer'.status # 200
    <3>1. Answers' = {}
      BY <2>3 DEF Answers
    <3> QED
      BY <3>1 DEF SearchComplete
  <2>4. ASSUME NEW h \in Handlers, NEW found \in Results, HandlerStep(h),
               Yields(h, found), Answered(h, found)
        PROVE  SearchComplete'
    BY <2>4, SearchAnswered
  <2> QED
    BY <2>1, <2>2, <2>3, <2>4, AnswerStep
<1> QED
  BY <1>1, <1>2, TypeInvariant, PTL DEF Spec
=============================================================================
