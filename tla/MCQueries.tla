------------------------------ MODULE MCQueries ------------------------------
(***************************************************************************)
(* Queries for TLC: those of a user with two handlers and a cache, those   *)
(* of every kind, of a user and of a product, one at a time; and the rate  *)
(* limiter.  They share no state: a behaviour is one of theirs, which part *)
(* says.  The user and the product have the same id.                       *)
(***************************************************************************)
EXTENDS ReadApi, RateLimiter, TLC

CONSTANT a1     \* an entity

VARIABLE part

-----------------------------------------------------------------------------
(* What clients ask *)

P(form, n) == [form |-> form, n |-> n]
None       == P("absent", 0)
Word       == P("word", 0)
Number(n)  == P("number", n)
Instant(t) == P("instant", t)

Get(a, at, version) == [route |-> "get", agg |-> a, at |-> at, version |-> version]
Diff(a, from, to)   == [route |-> "diff", agg |-> a, from |-> from, to |-> to]
Body(a, json, at, version) ==
    [route |-> "replay", agg |-> a, json |-> json, at |-> at, version |-> version]
Grpc(route, a, at, version) ==
    [route |-> route, agg |-> a, at |-> at, int64 |-> version]
Whole(route, a)     == [route |-> route, agg |-> a]
Find(a, from, to)   == [route |-> "search", agg |-> a, from |-> from, to |-> to]

(* An instant that may lie ahead, and a version that may not exist yet with *)
(* the current state                                                       *)
CachedRequests == {Get(a1, Instant(2), None), Diff(a1, P("prefixed", 2), None)}

UserRequests ==
    { Get(a1, Word, None), Diff(a1, Word, None), Get(a1, None, None),
      Get(a1, None, Number(2)), Body(a1, TRUE, None, Word), Body(a1, FALSE, None, None),
      Grpc("GetEntity", a1, None, 0), Grpc("GetEntity", a1, Instant(2), -1),
      Grpc("Replay", a1, Instant(2), 0) }

CatalogRequests ==
    { Get(a1, None, None), Get(a1, None, Number(1)), Get(a1, None, P("prefixed", 1)),
      Diff(a1, Word, None), Diff(a1, Instant(2), Instant(3)),
      Diff(a1, Number(1), P("prefixed", 2)),
      Body(a1, TRUE, Instant(2), None), Body(a1, FALSE, None, None),
      Grpc("GetEntity", a1, None, 1), Grpc("GetEntity", a1, None, 0),
      Grpc("Replay", a1, Instant(2), 0),
      Whole("history", a1), Whole("timeline", a1),
      Find(a1, None, Instant(2)), Find(a1, Instant(2), Instant(3)),
      Find(a1, Number(1), None),
      Whole("GetTimeline", a1), [Find(a1, None, None) EXCEPT !.route = "SearchEvents"] }

Cached == INSTANCE ReadApi WITH
    Requests <- CachedRequests, Fields <- {"name"},
    MaxEvents <- 2, MaxSnapshots <- 0, MaxLag <- 0, MaxClock <- 3

OfUsers == INSTANCE ReadApi WITH
    Requests <- UserRequests, Fields <- {"name"},
    MaxEvents <- 2, MaxSnapshots <- 1, MaxLag <- 0, MaxClock <- 2, MaxCalls <- 2

OfCatalog == INSTANCE ReadApi WITH
    Users <- {}, Catalog <- {a1}, Requests <- CatalogRequests,
    MaxClock <- 3, MaxCalls <- 1

ASSUME /\ Cached!NumbersAssumption /\ OfUsers!NumbersAssumption
       /\ OfCatalog!NumbersAssumption /\ LimitsAssumption
       /\ Cached!RequestsAssumption /\ OfUsers!RequestsAssumption
       /\ OfCatalog!RequestsAssumption
       /\ Cached!SingleBounds /\ OfUsers!SingleBounds

QueriesInit ==
    /\ part \in {"cached", "users", "catalog", "limiter"}
    /\ LimiterInit
    /\ IF part = "catalog" THEN OfCatalog!Init ELSE Cached!Init

QueriesNext ==
    \/ part = "cached" /\ Cached!Next /\ UNCHANGED <<part, limits>>
    \/ part = "users" /\ OfUsers!Next /\ UNCHANGED <<part, limits>>
    \/ part = "catalog" /\ OfCatalog!Next /\ UNCHANGED <<part, limits>>
    \/ part = "limiter" /\ LimiterNext /\ UNCHANGED <<part, vars>>

QueriesSpec == QueriesInit /\ [][QueriesNext]_<<part, vars, limits>>

HandlerSymmetry == Permutations(Handlers)
=============================================================================
