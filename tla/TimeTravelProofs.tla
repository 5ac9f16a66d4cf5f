--------------------------- MODULE TimeTravelProofs ---------------------------
(***************************************************************************)
(* Proofs about TimeTravel for every set of entities, readers, builders    *)
(* and queries, and whatever Apply does.                                   *)
(***************************************************************************)
EXTENDS TimeTravel, EntityProofs, SequenceTheorems

(* A sequence, as far as the proofs need it. *)
Shaped(s) == Len(s) \in Nat /\ s = [i \in 1 .. Len(s) |-> s[i]]

(* The log and the states its versions lead to have the same versions. *)
Logged ==
    \A a \in Aggregates :
        /\ Shaped(log[a]) /\ Shaped(truth[a])
        /\ \A v \in 1 .. Len(log[a]) : log[a][v].at \in Int

(* Work is only ever put off for entities that have events. *)
Pending ==
    /\ \A a \in readbacks : Len(log[a]) > 0
    /\ \A b \in Builders, a \in Aggregates : a \in todo[b] => Len(log[a]) > 0

RunFields == {"agg", "query", "state", "done", "base", "loaded", "since", "seen"}

(* A replay started from a snapshot its query does not rule out, read every *)
(* matching event up to the log's length at that time, and has applied the  *)
(* events up to the one it applied last.                                    *)
RunSound(p) ==
    LET x == run[p]
    IN  /\ DOMAIN x = RunFields
        /\ pc[p] # "idle" =>
              /\ x.agg \in Aggregates /\ x.query \in Queries \cup {Current}
              /\ x.base \in Nat /\ x.since \in Nat /\ x.done \in Nat
              /\ x.base <= x.since /\ x.since <= Len(log[x.agg])
              /\ x.base <= x.done /\ x.done <= Len(log[x.agg])
              /\ x.base = 0 \/ x.query.version = Nil \/ x.query.version >= x.base
              /\ p \in Builders => x.query = Current /\ x.since > 0
        /\ pc[p] = "load" => x.done = x.base /\ x.loaded = {}
        /\ pc[p] = "apply" =>
              /\ x.seen \in Nat /\ x.since <= x.seen /\ x.seen <= Len(log[x.agg])
              /\ x.loaded = {v \in 1 .. x.seen : Matches(x.agg, v, x.query)}
              /\ x.done = x.base \/ x.done \in x.loaded

(* What TypeOK says of the tables and of the pending work. *)
Tables ==
    /\ DOMAIN log = Aggregates /\ DOMAIN truth = Aggregates
    /\ \A a \in Aggregates : Len(truth[a]) = Len(log[a])
    /\ clock \in Nat /\ failures \in 0 .. MaxFailures
    /\ \A s \in snapshots \cup saves :
          s.agg \in Aggregates /\ s.version \in 1 .. Len(log[s.agg])
    /\ readbacks \subseteq Aggregates
    /\ todo \in [Builders -> SUBSET Aggregates]

Steps == {"idle", "load", "apply"}

Replays ==
    /\ pc \in [Processes -> Steps] /\ DOMAIN run = Processes
    /\ \A p \in Processes : RunSound(p)

TInv == Tables /\ Logged /\ Pending /\ Replays /\ DOMAIN answer = Readers

(* The state each version leads to, by the events. *)
TruthChain ==
    \A a \in Aggregates : \A v \in 1 .. Len(log[a]) :
        truth[a][v] = ApplyEvent(StateAt(a, v - 1), log[a][v])

(* The events a query matches are the first ones of the log. *)
Prefixed(a, q) == q.at = Nil \/ Ordered(a)

(* No event was skipped or applied twice on the way to the replayed state. *)
StateSound(p) ==
    pc[p] # "idle" /\ Prefixed(run[p].agg, run[p].query) =>
        run[p].state = StateAt(run[p].agg, run[p].done)

AnswerSound(x) ==
    /\ x.agg \in Aggregates
    /\ x.base \in Nat /\ x.since \in Nat /\ x.seen \in Nat /\ x.version \in Nat
    /\ x.since <= x.seen /\ x.seen <= Len(log[x.agg])
    /\ x.version <= Len(log[x.agg])
    /\ x.query.at = Nil =>
          /\ x.version = Target(x.query, x.seen) /\ x.state = StateAt(x.agg, x.version)
          /\ x.kind = IF x.version = 0 THEN "ErrNotFound" ELSE "ok"
    /\ /\ x.query.at # Nil /\ x.query.version = Nil
       /\ x.base <= VersionBy(x.agg, x.query.at, x.seen)
       => /\ x.version = VersionBy(x.agg, x.query.at, x.seen)
          /\ Ordered(x.agg) => x.state = StateAt(x.agg, x.version)

SInv ==
    /\ readbacks = {} /\ saves = {}
    /\ TruthChain /\ SnapshotSound
    /\ \A p \in Processes : StateSound(p)
    /\ \A r \in Readers : answer[r] = NoAnswer \/ AnswerSound(answer[r])

-----------------------------------------------------------------------------
(* Least and greatest numbers *)

LEMMA MinExists ==
    ASSUME NEW S \in SUBSET Nat, S # {}
    PROVE  Min(S) \in S /\ \A y \in S : Min(S) <= y
<1>1. PICK x \in S : \A y \in S : ~ (<<y, x>> \in OpToRel(<, Nat))
  BY NatLessThanWellFounded, WFMin, Zenon
<1>2. \A y \in S : x <= y
  <2> SUFFICES ASSUME NEW y \in S PROVE x <= y
    OBVIOUS
  <2>1. x \in Nat /\ y \in Nat
    OBVIOUS
  <2>2. <<y, x>> \in Nat \X Nat
    BY <2>1
  <2>3. ~ (y < x)
    BY <1>1, <2>2 DEF OpToRel
  <2> QED
    BY <2>1, <2>3
<1> QED
  BY <1>2 DEF Min

LEMMA MaxExists ==
    ASSUME NEW n \in Nat, NEW S \in SUBSET (0 .. n), S # {}
    PROVE  Max(S) \in S /\ \A y \in S : Max(S) >= y
<1> DEFINE T == {n - y : y \in S}
<1>0. \A y \in S : y \in Int /\ y <= n
  OBVIOUS
<1>1. T \in SUBSET Nat /\ T # {}
  <2>1. \A y \in S : n - y \in Nat
    BY <1>0
  <2>2. PICK y \in S : TRUE
    OBVIOUS
  <2>3. n - y \in T
    BY <2>2
  <2> QED
    BY <2>1, <2>3
<1>2. PICK m \in T : \A y \in T : m <= y
  BY <1>1, MinExists
<1>3. PICK x \in S : m = n - x
  OBVIOUS
<1>4. \A y \in S : x >= y
  <2> SUFFICES ASSUME NEW y \in S PROVE x >= y
    OBVIOUS
  <2>1. n - y \in T
    OBVIOUS
  <2>2. n - x <= n - y
    BY <1>2, <1>3, <2>1
  <2> QED
    BY <1>0, <2>2
<1> QED
  BY <1>4 DEF Max

LEMMA AppendShape ==
    ASSUME NEW s, Shaped(s), NEW e
    PROVE  /\ Shaped(Append(s, e))
           /\ Len(Append(s, e)) = Len(s) + 1
           /\ Append(s, e)[Len(s) + 1] = e
           /\ \A i \in 1 .. Len(s) : Append(s, e)[i] = s[i]
<1> DEFINE S == {s[i] : i \in 1 .. Len(s)} \cup {e}
           n == Len(s)
<1>1. n \in Nat /\ s \in [1 .. n -> S] /\ e \in S
  BY DEF Shaped
<1>2. s \in Seq(S)
  BY <1>1
<1>3. /\ Append(s, e) \in Seq(S) /\ Len(Append(s, e)) = n + 1
      /\ Append(s, e)[n + 1] = e /\ \A i \in 1 .. n : Append(s, e)[i] = s[i]
  BY <1>1, <1>2
<1>4. Append(s, e) \in [1 .. (n + 1) -> S]
  BY <1>3, LenProperties, Zenon
<1>5. Append(s, e) = [i \in 1 .. (n + 1) |-> Append(s, e)[i]]
  BY <1>4
<1> QED
  BY <1>1, <1>3, <1>5 DEF Shaped

-----------------------------------------------------------------------------
(* The log only grows *)

Grown ==
    /\ DOMAIN log' = Aggregates /\ DOMAIN truth' = Aggregates
    /\ Logged'
    /\ \A a \in Aggregates :
          /\ Len(truth'[a]) = Len(log'[a])
          /\ Len(log[a]) <= Len(log'[a])
          /\ \A v \in 1 .. Len(log[a]) :
                log'[a][v] = log[a][v] /\ truth'[a][v] = truth[a][v]

LEMMA SameLogGrown ==
    ASSUME Tables, Logged, UNCHANGED <<log, truth>>
    PROVE  Grown
BY DEF Grown, Tables, Logged, Shaped

(* A commit appends one event and the state it leads to. *)
LEMMA CommitGrows ==
    ASSUME Tables, Logged, NEW c \in Changes, Commit(c)
    PROVE  /\ Grown
           /\ c.agg \in Aggregates /\ Len(log'[c.agg]) > 0
           /\ \A a \in Aggregates : \A v \in 1 .. Len(log'[a]) :
                 \/ v \in 1 .. Len(log[a])
                 \/ /\ v = Len(log'[a]) /\ v = Len(log[a]) + 1
                    /\ truth'[a][v] = ApplyEvent(StateAt(a, v - 1)', log'[a][v])
                    /\ log'[a][v].at \in (clock + 1 - MaxLag) .. (clock + 1)
<1>a. PICK at \in (clock + 1 - MaxLag) .. (clock + 1) :
         Store(c.agg, [type |-> c.type, payload |-> c.payload, at |-> at])
  BY DEF Commit
<1>0. PICK e : e = [type |-> c.type, payload |-> c.payload, at |-> at] /\ Store(c.agg, e)
  BY <1>a
<1>1. PICK b, n, z : b = c.agg /\ n = Len(log[b]) /\ z = ApplyEvent(StateAt(b, n), e)
  OBVIOUS
<1>2. b \in Aggregates /\ e.at \in Int
  BY <1>0, <1>1, ChangesAssumption, NumbersAssumption DEF Tables
<1>3. n \in Nat /\ n = Len(log[b]) /\ Shaped(log[b]) /\ Shaped(truth[b]) /\ Len(truth[b]) = n
  BY <1>1, <1>2 DEF Logged, Shaped, Tables
<1>4. /\ log'[b] = Append(log[b], e) /\ truth'[b] = Append(truth[b], z)
      /\ DOMAIN log' = Aggregates /\ DOMAIN truth' = Aggregates
      /\ \A a \in Aggregates : a # b => log'[a] = log[a] /\ truth'[a] = truth[a]
  BY <1>0, <1>1, <1>2 DEF Tables, Store
<1>5. /\ Shaped(log'[b]) /\ Len(log'[b]) = n + 1 /\ log'[b][n + 1] = e
      /\ \A i \in 1 .. n : log'[b][i] = log[b][i]
  BY <1>3, <1>4, AppendShape
<1>6. /\ Shaped(truth'[b]) /\ Len(truth'[b]) = n + 1 /\ truth'[b][n + 1] = z
      /\ \A i \in 1 .. n : truth'[b][i] = truth[b][i]
  BY <1>3, <1>4, AppendShape
<1>7. Logged'
  <2> SUFFICES ASSUME NEW a \in Aggregates
               PROVE  /\ Shaped(log'[a]) /\ Shaped(truth'[a])
                      /\ \A v \in 1 .. Len(log'[a]) : log'[a][v].at \in Int
    BY DEF Logged
  <2>1. CASE a # b
    BY <1>4, <2>1 DEF Logged
  <2>2. CASE a = b
    <3>1. \A v \in 1 .. n : log[b][v].at \in Int
      BY <1>1, <1>2 DEF Logged
    <3>2. \A v \in 1 .. (n + 1) : v \in 1 .. n \/ v = n + 1
      BY <1>3
    <3> QED
      BY <1>2, <1>5, <1>6, <2>2, <3>1, <3>2
  <2> QED
    BY <2>1, <2>2
<1>8. \A a \in Aggregates :
          /\ Len(truth'[a]) = Len(log'[a]) /\ Len(log[a]) <= Len(log'[a])
          /\ \A v \in 1 .. Len(log[a]) :
                log'[a][v] = log[a][v] /\ truth'[a][v] = truth[a][v]
  <2> SUFFICES ASSUME NEW a \in Aggregates
               PROVE  /\ Len(truth'[a]) = Len(log'[a]) /\ Len(log[a]) <= Len(log'[a])
                      /\ \A v \in 1 .. Len(log[a]) :
                            log'[a][v] = log[a][v] /\ truth'[a][v] = truth[a][v]
    OBVIOUS
  <2>1. CASE a # b
    BY <1>4, <2>1 DEF Logged, Shaped, Tables
  <2>2. CASE a = b
    BY <1>1, <1>3, <1>5, <1>6, <2>2
  <2> QED
    BY <2>1, <2>2
<1>9. Grown
  BY <1>4, <1>7, <1>8 DEF Grown
<1>10. \A a \in Aggregates : \A v \in 1 .. Len(log'[a]) :
           \/ v \in 1 .. Len(log[a])
           \/ /\ v = Len(log'[a]) /\ v = Len(log[a]) + 1
              /\ truth'[a][v] = ApplyEvent(StateAt(a, v - 1)', log'[a][v])
              /\ log'[a][v].at \in (clock + 1 - MaxLag) .. (clock + 1)
  <2> SUFFICES ASSUME NEW a \in Aggregates, NEW v \in 1 .. Len(log'[a]),
                      v \notin 1 .. Len(log[a])
               PROVE  /\ v = Len(log'[a]) /\ v = Len(log[a]) + 1
                      /\ truth'[a][v] = ApplyEvent(StateAt(a, v - 1)', log'[a][v])
                      /\ log'[a][v].at \in (clock + 1 - MaxLag) .. (clock + 1)
    OBVIOUS
  <2>1. a = b /\ v = n + 1
    BY <1>1, <1>3, <1>4, <1>5
  <2>2. StateAt(b, n)' = StateAt(b, n)
    BY <1>3, <1>6 DEF StateAt
  <2>3. StateAt(a, v - 1)' = StateAt(b, n)'
    BY <1>3, <2>1 DEF StateAt
  <2>4. truth'[a][v] = ApplyEvent(StateAt(a, v - 1)', log'[a][v])
    BY <1>1, <1>5, <1>6, <2>1, <2>2, <2>3
  <2>5. log'[a][v].at \in (clock + 1 - MaxLag) .. (clock + 1)
    BY <1>0, <1>5, <2>1
  <2> QED
    BY <1>3, <1>5, <2>1, <2>4, <2>5
<1> QED
  BY <1>1, <1>2, <1>3, <1>5, <1>9, <1>10

(* Events that are there stay, so they match a query as before. *)
LEMMA MatchesStable ==
    ASSUME Grown, NEW a \in Aggregates, NEW v \in 1 .. Len(log[a]), NEW q
    PROVE  Matches(a, v, q)' <=> Matches(a, v, q)
BY DEF Grown, Matches

(* A replay that does not move is not disturbed by commits. *)
LEMMA RunStable ==
    ASSUME Logged, Grown, NEW p \in Processes, RunSound(p),
           pc'[p] = pc[p], run'[p] = run[p]
    PROVE  RunSound(p)'
<1>0. PICK x, a, q : x = run[p] /\ a = x.agg /\ q = x.query
  OBVIOUS
<1>1. CASE pc[p] = "idle"
  BY <1>1 DEF RunSound
<1>2. CASE pc[p] # "idle"
  <2>1. a \in Aggregates /\ Len(log[a]) \in Nat /\ Len(log'[a]) \in Nat
        /\ Len(log[a]) <= Len(log'[a])
    BY <1>0, <1>2 DEF RunSound, Logged, Grown, Shaped
  <2>2. ASSUME pc[p] = "apply"
        PROVE  x.loaded = {v \in 1 .. x.seen : Matches(a, v, q)'}
    <3>1. /\ x.seen \in Nat /\ x.seen <= Len(log[a])
          /\ x.loaded = {v \in 1 .. x.seen : Matches(a, v, q)}
      BY <1>0, <2>2 DEF RunSound
    <3>2. \A v \in 1 .. x.seen : v \in 1 .. Len(log[a])
      BY <2>1, <3>1
    <3>3. \A v \in 1 .. x.seen : Matches(a, v, q)' <=> Matches(a, v, q)
      BY <2>1, <3>2, MatchesStable
    <3> QED
      BY <3>1, <3>3
  <2>3. x.done <= Len(log[a]) /\ x.since <= Len(log[a]) /\ x.done \in Nat /\ x.since \in Nat
    BY <1>0, <1>2 DEF RunSound
  <2>4. x.done <= Len(log'[a]) /\ x.since <= Len(log'[a])
    BY <2>1, <2>3
  <2>5. pc[p] = "apply" => x.seen \in Nat /\ x.seen <= Len(log'[a])
    BY <1>0, <2>1 DEF RunSound
  <2> QED
    BY <1>0, <1>2, <2>1, <2>2, <2>4, <2>5 DEF RunSound
<1> QED
  BY <1>1, <1>2

-----------------------------------------------------------------------------
(* Shapes *)

LEMMA TypesInShapes == TInv => TypeOK
<1> SUFFICES ASSUME TInv PROVE TypeOK
  OBVIOUS
<1>1. ASSUME NEW p \in Processes, pc[p] # "idle"
      PROVE  /\ run[p].agg \in Aggregates
             /\ run[p].done \in 0 .. Len(log[run[p].agg])
             /\ run[p].loaded \subseteq 1 .. run[p].seen
  <2>1. run[p].agg \in Aggregates /\ run[p].done \in 0 .. Len(log[run[p].agg])
    BY <1>1 DEF TInv, Replays, RunSound, Logged, Shaped
  <2>2. pc[p] = "load" \/ pc[p] = "apply"
    BY <1>1 DEF TInv, Replays, Steps
  <2>3. run[p].loaded \subseteq 1 .. run[p].seen
    BY <2>2 DEF TInv, Replays, RunSound
  <2> QED
    BY <2>1, <2>3
<1> QED
  BY <1>1 DEF TInv, TypeOK, Tables, Replays, Steps

(* A step of one replay does not disturb the others. *)
LEMMA ReplayStep ==
    ASSUME TInv, NEW p \in Processes, UNCHANGED <<log, truth>>,
           pc' \in [Processes -> Steps], DOMAIN run' = Processes,
           \A u \in Processes \ {p} : pc'[u] = pc[u] /\ run'[u] = run[u],
           RunSound(p)'
    PROVE  Replays'
<1>1. Grown
  BY SameLogGrown DEF TInv
<1>2. \A u \in Processes \ {p} : RunSound(u)'
  BY <1>1, RunStable DEF TInv, Replays
<1> QED
  BY <1>2 DEF Replays

LEMMA SameReplays ==
    ASSUME TInv, Grown, UNCHANGED <<pc, run>>
    PROVE  Replays'
<1>1. \A u \in Processes : RunSound(u)'
  BY RunStable DEF TInv, Replays
<1> QED
  BY <1>1 DEF TInv, Tables, Replays, Steps

LEMMA NewestExists ==
    ASSUME TInv, NEW a \in Aggregates, SnapshotsOf(a) # {}
    PROVE  Newest(SnapshotsOf(a)) \in SnapshotsOf(a)
<1> DEFINE V == {s.version : s \in SnapshotsOf(a)}
<1>1. Len(log[a]) \in Nat
  BY DEF TInv, Logged, Shaped
<1>2. V \in SUBSET (0 .. Len(log[a])) /\ V # {}
  BY <1>1 DEF TInv, Tables, Replays, SnapshotsOf
<1>3. Max(V) \in V /\ \A v \in V : Max(V) >= v
  BY <1>1, <1>2, MaxExists
<1>4. PICK s \in SnapshotsOf(a) : s.version = Max(V)
  BY <1>3
<1>5. \A t \in SnapshotsOf(a) : s.version >= t.version
  BY <1>3, <1>4
<1> QED
  BY <1>5 DEF Newest

(* What a replay starts from: a snapshot of the entity, or nothing. *)
LEMMA ReadSnapshotBase ==
    ASSUME TInv, NEW p \in Processes, NEW a \in Aggregates, NEW q, ReadSnapshot(p, a, q)
    PROVE  /\ pc[p] = "idle" /\ pc' = [pc EXCEPT ![p] = "load"]
           /\ \E base :
                 /\ base = [version |-> 0, state |-> Fresh]
                    \/ /\ base \in snapshots /\ base.agg = a
                       /\ q.version = Nil \/ q.version >= base.version
                 /\ run' = [run EXCEPT ![p] =
                       [agg |-> a, query |-> q, state |-> base.state,
                        done |-> base.version, base |-> base.version, loaded |-> {},
                        since |-> Len(log[a]), seen |-> 0]]
<1> DEFINE S == SnapshotsOf(a)
<1>1. PICK base : base = IF S # {} /\ Usable(Newest(S), q) THEN Newest(S)
                         ELSE [version |-> 0, state |-> Fresh]
  OBVIOUS
<1>2. base = [version |-> 0, state |-> Fresh]
         \/ /\ base \in snapshots /\ base.agg = a
            /\ q.version = Nil \/ q.version >= base.version
  BY <1>1, NewestExists DEF SnapshotsOf, Usable
<1> QED
  BY <1>1, <1>2 DEF ReadSnapshot

LEMMA ReadSnapshotSound ==
    ASSUME TInv, NEW p \in Processes, NEW a \in Aggregates,
           NEW q \in Queries \cup {Current}, ReadSnapshot(p, a, q),
           p \in Builders => q = Current /\ Len(log[a]) > 0,
           UNCHANGED <<log, truth>>
    PROVE  Replays'
<1>1. PICK base :
         /\ base = [version |-> 0, state |-> Fresh]
            \/ /\ base \in snapshots /\ base.agg = a
               /\ q.version = Nil \/ q.version >= base.version
         /\ run' = [run EXCEPT ![p] =
               [agg |-> a, query |-> q, state |-> base.state,
                done |-> base.version, base |-> base.version, loaded |-> {},
                since |-> Len(log[a]), seen |-> 0]]
  BY ReadSnapshotBase
<1>2. /\ Len(log[a]) \in Nat /\ base.version \in 0 .. Len(log[a])
      /\ base.version = 0 \/ q.version = Nil \/ q.version >= base.version
  BY <1>1 DEF TInv, Tables, Replays, Logged, Shaped
<1>3. pc' = [pc EXCEPT ![p] = "load"]
  BY ReadSnapshotBase
<1>4. pc' \in [Processes -> Steps] /\ DOMAIN run' = Processes /\ pc'[p] = "load"
      /\ \A u \in Processes \ {p} : pc'[u] = pc[u] /\ run'[u] = run[u]
  BY <1>1, <1>3 DEF TInv, Tables, Replays, Steps
<1>5. run'[p] = [agg |-> a, query |-> q, state |-> base.state,
                 done |-> base.version, base |-> base.version, loaded |-> {},
                 since |-> Len(log[a]), seen |-> 0]
  BY <1>1 DEF TInv, Replays
<1>6. /\ DOMAIN run'[p] = RunFields
      /\ run'[p].agg = a /\ run'[p].query = q /\ run'[p].done = base.version
      /\ run'[p].base = base.version /\ run'[p].loaded = {} /\ run'[p].since = Len(log[a])
  BY <1>5 DEF RunFields
<1>7. log' = log
  OBVIOUS
<1>8. RunSound(p)'
  <2>1. base.version \in Nat /\ base.version <= Len(log[a])
    BY <1>2
  <2>2. pc'[p] # "apply"
    BY <1>4
  <2>3. Len(log'[run'[p].agg]) = Len(log[a])
    BY <1>6, <1>7
  <2>4. p \in Builders => q = Current /\ Len(log[a]) > 0
    OBVIOUS
  <2> QED
    BY <1>2, <1>4, <1>6, <2>1, <2>2, <2>3, <2>4 DEF RunSound
<1> QED
  BY <1>4, <1>8, ReplayStep

LEMMA LoadEventsSound ==
    ASSUME TInv, NEW p \in Processes, LoadEvents(p)
    PROVE  Replays'
<1>1. PICK a, q, loaded, n :
         /\ a = run[p].agg /\ q = run[p].query /\ n = Len(log[a])
         /\ loaded = {v \in 1 .. n : Matches(a, v, q)}
  OBVIOUS
<1>2. /\ pc[p] = "load" /\ pc' = [pc EXCEPT ![p] = "apply"] /\ UNCHANGED <<log, truth>>
      /\ run' = [run EXCEPT ![p].loaded = loaded, ![p].seen = n]
  BY <1>1 DEF LoadEvents
<1>3. RunSound(p) /\ DOMAIN run[p] = RunFields
  BY DEF TInv, Replays, RunSound
<1>4. /\ pc' \in [Processes -> Steps] /\ DOMAIN run' = Processes /\ pc'[p] = "apply"
      /\ \A u \in Processes \ {p} : pc'[u] = pc[u] /\ run'[u] = run[u]
  BY <1>2 DEF TInv, Tables, Replays, Steps
<1>5. /\ DOMAIN run'[p] = RunFields /\ run'[p].loaded = loaded /\ run'[p].seen = n
      /\ run'[p].agg = a /\ run'[p].query = q /\ run'[p].done = run[p].done
      /\ run'[p].base = run[p].base /\ run'[p].since = run[p].since
  BY <1>1, <1>2, <1>3 DEF TInv, Replays, RunFields
<1>6. RunSound(p)'
  <2>1. a \in Aggregates /\ n \in Nat /\ log' = log
    BY <1>1, <1>2, <1>3 DEF RunSound, TInv, Replays, Logged, Shaped
  <2>2. loaded = {v \in 1 .. n : Matches(a, v, q)'}
    BY <1>1, <2>1 DEF Matches
  <2>3. /\ q \in Queries \cup {Current}
        /\ run[p].base \in Nat /\ run[p].since \in Nat /\ run[p].done = run[p].base
        /\ run[p].base <= run[p].since /\ run[p].since <= n
        /\ run[p].base = 0 \/ q.version = Nil \/ q.version >= run[p].base
        /\ p \in Builders => q = Current /\ run[p].since > 0
    BY <1>1, <1>2, <1>3 DEF RunSound
  <2>4. n = Len(log'[a]) /\ run[p].done <= n
    BY <1>1, <2>1, <2>3
  <2> QED
    BY <1>4, <1>5, <2>1, <2>2, <2>3, <2>4 DEF RunSound
<1> QED
  BY <1>2, <1>4, <1>6, ReplayStep

(* The event applied next is the least loaded one that is not yet applied. *)
LEMMA NextEvent ==
    ASSUME TInv, NEW p \in Processes, pc[p] = "apply", Remaining(p) # {}
    PROVE  /\ Min(Remaining(p)) \in run[p].loaded
           /\ Min(Remaining(p)) \in 1 .. run[p].seen
           /\ Min(Remaining(p)) > run[p].done
           /\ \A v \in run[p].loaded : v > run[p].done => Min(Remaining(p)) <= v
<1>1. run[p].seen \in Nat /\ run[p].loaded \subseteq 1 .. run[p].seen
  BY DEF TInv, Replays, RunSound
<1>2. Remaining(p) \in SUBSET Nat
  BY <1>1 DEF Remaining
<1> QED
  BY <1>1, <1>2, MinExists DEF Remaining

LEMMA ApplyNextSound ==
    ASSUME TInv, NEW p \in Processes, ApplyNext(p)
    PROVE  Replays'
<1>1. PICK a, q, v, state :
         /\ a = run[p].agg /\ q = run[p].query /\ v = Min(Remaining(p))
         /\ state = ApplyEvent(run[p].state, log[run[p].agg][v])
  OBVIOUS
<1>2. /\ pc[p] = "apply" /\ Remaining(p) # {} /\ UNCHANGED <<log, truth, pc>>
      /\ run' = [run EXCEPT ![p].state = state, ![p].done = v]
  BY <1>1 DEF ApplyNext
<1>3. RunSound(p) /\ DOMAIN run[p] = RunFields
  BY DEF TInv, Replays, RunSound
<1>4. /\ pc' \in [Processes -> Steps] /\ DOMAIN run' = Processes /\ pc'[p] = "apply"
      /\ \A u \in Processes \ {p} : pc'[u] = pc[u] /\ run'[u] = run[u]
  BY <1>2 DEF TInv, Tables, Replays, Steps
<1>5. /\ DOMAIN run'[p] = RunFields /\ run'[p].done = v
      /\ run'[p].agg = a /\ run'[p].query = q /\ run'[p].loaded = run[p].loaded
      /\ run'[p].base = run[p].base /\ run'[p].since = run[p].since
      /\ run'[p].seen = run[p].seen
  BY <1>1, <1>2, <1>3 DEF TInv, Replays, RunFields
<1>6. RunSound(p)'
  <2>1. /\ a \in Aggregates /\ Len(log[a]) \in Nat /\ log' = log
        /\ run[p].seen \in Nat /\ run[p].seen <= Len(log[a])
        /\ run[p].base \in Nat /\ run[p].done \in Nat /\ run[p].base <= run[p].done
    BY <1>1, <1>2, <1>3 DEF RunSound, TInv, Replays, Logged, Shaped
  <2>2. v \in run[p].loaded /\ v \in 1 .. run[p].seen /\ v > run[p].done
    BY <1>1, <1>2, NextEvent
  <2>3. v \in Nat /\ run[p].base <= v /\ v <= Len(log[a])
    BY <2>1, <2>2
  <2>4. run[p].loaded = {u \in 1 .. run[p].seen : Matches(a, u, q)'}
    BY <1>1, <1>2, <1>3, <2>1 DEF Matches, RunSound
  <2>5. /\ q \in Queries \cup {Current} /\ run[p].since \in Nat
        /\ run[p].base <= run[p].since /\ run[p].since <= Len(log[a])
        /\ run[p].since <= run[p].seen
        /\ run[p].base = 0 \/ q.version = Nil \/ q.version >= run[p].base
        /\ p \in Builders => q = Current /\ run[p].since > 0
    BY <1>1, <1>2, <1>3 DEF RunSound
  <2> QED
    BY <1>4, <1>5, <2>1, <2>2, <2>3, <2>4, <2>5 DEF RunSound
<1> QED
  BY <1>2, <1>4, <1>6, ReplayStep

LEMMA ReleaseSound ==
    ASSUME TInv, NEW p \in Processes, Release(p), UNCHANGED <<log, truth>>
    PROVE  Replays'
<1>1. /\ pc' \in [Processes -> Steps] /\ DOMAIN run' = Processes
      /\ pc'[p] = "idle" /\ run'[p] = NoRun
      /\ \A u \in Processes \ {p} : pc'[u] = pc[u] /\ run'[u] = run[u]
  BY DEF Release, TInv, Tables, Replays, Steps
<1>2. DOMAIN NoRun = RunFields
  BY DEF NoRun, RunFields
<1>3. RunSound(p)'
  BY <1>1, <1>2 DEF RunSound
<1> QED
  BY <1>1, <1>3, ReplayStep

(* A builder that has replayed has applied some event. *)
LEMMA BuiltSomething ==
    ASSUME TInv, NEW b \in Builders, Replayed(b)
    PROVE  /\ run[b].agg \in Aggregates
           /\ run[b].done \in 1 .. Len(log[run[b].agg])
<1>1. b \in Processes /\ pc[b] = "apply" /\ Remaining(b) = {}
  BY DEF Replayed, Processes
<1>2. PICK x, a : x = run[b] /\ a = x.agg
  OBVIOUS
<1>3. /\ a \in Aggregates /\ Len(log[a]) \in Nat
      /\ x.query = Current /\ x.since > 0 /\ x.since <= x.seen
      /\ x.since \in Nat /\ x.seen \in Nat /\ x.done \in Nat /\ x.done <= Len(log[a])
      /\ x.loaded = {v \in 1 .. x.seen : Matches(a, v, x.query)}
  BY <1>1, <1>2 DEF TInv, Replays, RunSound, Logged, Shaped
<1>4. 1 \in x.loaded
  BY <1>3 DEF Matches, Current
<1>5. ~ (1 > x.done)
  BY <1>1, <1>2, <1>4 DEF Remaining
<1> QED
  BY <1>2, <1>3, <1>5

LEMMA ShapesInit == Init => TInv
<1> SUFFICES ASSUME Init PROVE TInv
  OBVIOUS
<1>1. \A a \in Aggregates : log[a] = <<>> /\ truth[a] = <<>>
  BY DEF Init
<1>2. Shaped(<<>>)
  BY DEF Shaped
<1>3. Logged
  BY <1>1, <1>2 DEF Logged
<1>4. Tables /\ Pending
  BY <1>1, NumbersAssumption DEF Init, Tables, Pending
<1>5. DOMAIN NoRun = RunFields
  BY DEF NoRun, RunFields
<1>6. Replays /\ DOMAIN answer = Readers
  BY <1>5 DEF Init, Replays, RunSound, Steps
<1> QED
  BY <1>3, <1>4, <1>6 DEF TInv

(* Failures of a replay: it is released and its entity is left for later. *)
LEMMA FailReplayShapes ==
    ASSUME TInv, NEW p \in Processes, FailReplay(p)
    PROVE  TInv'
<1>1. /\ UNCHANGED <<log, truth, clock, snapshots, readbacks, saves, answer>>
      /\ failures < MaxFailures /\ failures' = failures + 1 /\ Release(p)
      /\ todo' = [b \in Builders |-> IF b = p THEN todo[b] \ {run[p].agg} ELSE todo[b]]
  BY DEF FailReplay, CountFailure
<1>2. Replays'
  BY <1>1, ReleaseSound
<1>3. Logged' /\ DOMAIN answer' = Readers
  BY <1>1 DEF TInv, Logged
<1>4. \A b \in Builders : todo'[b] \subseteq todo[b] /\ todo'[b] \subseteq Aggregates
  BY <1>1 DEF TInv, Tables, Replays
<1>5. Pending'
  BY <1>1, <1>4 DEF TInv, Pending
<1>6. failures' \in 0 .. MaxFailures
  BY <1>1, NumbersAssumption DEF TInv, Tables, Replays
<1>7. todo' \in [Builders -> SUBSET Aggregates]
  BY <1>1, <1>4
<1>8. Tables'
  BY <1>1, <1>6, <1>7 DEF TInv, Tables, Replays
<1> QED
  BY <1>2, <1>3, <1>5, <1>8 DEF TInv

LEMMA RestartShapes ==
    ASSUME TInv, Restart
    PROVE  TInv'
<1>1. /\ UNCHANGED <<log, truth, clock, snapshots, answer>>
      /\ failures < MaxFailures /\ failures' = failures + 1
      /\ readbacks' = {} /\ saves' = {} /\ todo' = [b \in Builders |-> {}]
      /\ pc' = [p \in Processes |-> "idle"] /\ run' = [p \in Processes |-> NoRun]
  BY DEF Restart, CountFailure
<1>2. DOMAIN NoRun = RunFields
  BY DEF NoRun, RunFields
<1>3. Replays' /\ Logged' /\ Pending' /\ DOMAIN answer' = Readers
  BY <1>1, <1>2 DEF TInv, Logged, Pending, Replays, RunSound, Steps
<1>4. failures' \in 0 .. MaxFailures
  BY <1>1, NumbersAssumption DEF TInv, Tables, Replays
<1>5. Tables'
  BY <1>1, <1>4 DEF TInv, Tables, Replays
<1> QED
  BY <1>3, <1>5 DEF TInv

(* The write path: commits, read-backs and the snapshots it saves. *)
LEMMA WritePathShapes ==
    ASSUME TInv,
           \/ \E c \in Changes : Commit(c)
           \/ \E a \in Aggregates : ReadBack(a)
           \/ \E s \in saves : SaveSpawned(s)
    PROVE  TInv'
<1>1. ASSUME NEW c \in Changes, Commit(c) PROVE TInv'
  <2>1. Grown /\ c.agg \in Aggregates /\ Len(log'[c.agg]) > 0
    BY <1>1, CommitGrows DEF TInv
  <2>2. /\ UNCHANGED <<snapshots, saves, todo, pc, run, answer, failures>>
        /\ clock' = clock + 1 /\ readbacks' \subseteq readbacks \cup {c.agg}
    BY <1>1 DEF Commit
  <2>3. \A a \in Aggregates : Len(log[a]) \in Nat /\ Len(log'[a]) \in Nat
                              /\ Len(log[a]) <= Len(log'[a])
    BY <2>1 DEF TInv, Logged, Grown, Shaped
  <2>4. Pending'
    BY <2>1, <2>2, <2>3 DEF TInv, Tables, Replays, Pending
  <2>5. \A s \in snapshots' \cup saves' :
            s.agg \in Aggregates /\ s.version \in 1 .. Len(log'[s.agg])
    <3> SUFFICES ASSUME NEW s \in snapshots \cup saves
                 PROVE  s.agg \in Aggregates /\ s.version \in 1 .. Len(log'[s.agg])
      BY <2>2
    <3>1. s.agg \in Aggregates /\ s.version \in 1 .. Len(log[s.agg])
      BY DEF TInv, Tables, Replays
    <3> QED
      BY <2>3, <3>1
  <2>6. Tables'
    BY <2>1, <2>2, <2>5 DEF TInv, Tables, Replays, Grown
  <2> QED
    BY <2>1, <2>2, <2>4, <2>6, SameReplays DEF TInv, Grown
<1>2. ASSUME NEW a \in Aggregates, ReadBack(a) PROVE TInv'
  <2>1. /\ UNCHANGED <<log, truth, clock, snapshots, todo, pc, run, answer, failures>>
        /\ readbacks' = readbacks \ {a} /\ saves' = saves \cup {Row(a)}
    BY <1>2 DEF ReadBack
  <2>2. Row(a).agg = a /\ Row(a).version \in 1 .. Len(log[a])
    BY <1>2 DEF ReadBack, Row, TInv, Pending, Logged, Shaped
  <2>3. Tables' /\ Pending' /\ Logged'
    BY <2>1, <2>2 DEF TInv, Tables, Replays, Pending, Logged
  <2> QED
    BY <2>1, <2>3, SameLogGrown, SameReplays DEF TInv
<1>3. ASSUME NEW s \in saves, SaveSpawned(s) PROVE TInv'
  <2>1. /\ UNCHANGED <<log, truth, clock, readbacks, todo, pc, run, answer, failures>>
        /\ saves' \subseteq saves /\ snapshots' \subseteq snapshots \cup saves
    BY <1>3 DEF SaveSpawned, Saved
  <2>2. Tables' /\ Pending' /\ Logged'
    BY <2>1 DEF TInv, Tables, Replays, Pending, Logged
  <2> QED
    BY <2>1, <2>2, SameLogGrown, SameReplays DEF TInv
<1> QED
  BY <1>1, <1>2, <1>3

(* The steps of readers and builders that change nothing but their locals  *)
(* and, for readers, their answers.                                        *)
LEMMA LocalShapes ==
    ASSUME TInv, Replays', DOMAIN answer' = Readers,
           UNCHANGED <<log, truth, clock, snapshots, readbacks, saves, todo, failures>>
    PROVE  TInv'
<1>1. Tables' /\ Pending' /\ Logged'
  BY DEF TInv, Tables, Replays, Pending, Logged
<1> QED
  BY <1>1 DEF TInv

LEMMA ReaderShapes ==
    ASSUME TInv, NEW r \in Readers,
           Ask(r) \/ LoadEvents(r) \/ ApplyNext(r) \/ Reply(r)
    PROVE  TInv'
<1>0. r \in Processes /\ r \notin Builders
  BY ProcessesAssumption DEF Processes
<1>1. CASE Ask(r)
  <2>1. PICK a \in Aggregates, q \in Queries : ReadSnapshot(r, a, q)
    BY <1>1 DEF Ask
  <2>2. Replays'
    BY <1>0, <1>1, <2>1, ReadSnapshotSound DEF Ask
  <2> QED
    BY <1>1, <2>2, LocalShapes DEF Ask, TInv
<1>2. CASE LoadEvents(r)
  BY <1>0, <1>2, LoadEventsSound, LocalShapes DEF LoadEvents, TInv
<1>3. CASE ApplyNext(r)
  BY <1>0, <1>3, ApplyNextSound, LocalShapes DEF ApplyNext, TInv
<1>4. CASE Reply(r)
  BY <1>0, <1>4, ReleaseSound, LocalShapes DEF Reply, TInv
<1> QED
  BY <1>1, <1>2, <1>3, <1>4

LEMMA BuilderShapes ==
    ASSUME TInv, NEW b \in Builders, BuilderStep(b)
    PROVE  TInv'
<1>0. b \in Processes
  BY DEF Processes
<1>1. CASE Select(b)
  <2>1. PICK batch \in SUBSET Stale : todo' = [todo EXCEPT ![b] = batch]
    BY <1>1 DEF Select
  <2>2. UNCHANGED <<log, truth, clock, snapshots, readbacks, saves, pc, run, answer, failures>>
    BY <1>1 DEF Select
  <2>3. \A a \in batch : a \in Aggregates /\ Len(log[a]) > 0
    <3> SUFFICES ASSUME NEW a \in batch PROVE a \in Aggregates /\ Len(log[a]) > 0
      OBVIOUS
    <3>1. a \in Aggregates /\ log[a] # <<>>
      BY DEF Stale
    <3>2. Len(log[a]) # 0
      <4> SUFFICES ASSUME Len(log[a]) = 0 PROVE FALSE
        OBVIOUS
      <4>1. log[a] = [i \in 1 .. 0 |-> log[a][i]]
        BY <3>1 DEF TInv, Logged, Shaped
      <4>2. log[a] = <<>>
        BY <4>1
      <4> QED
        BY <3>1, <4>2
    <3> QED
      BY <3>1, <3>2 DEF TInv, Logged, Shaped
  <2>4. todo' \in [Builders -> SUBSET Aggregates]
    BY <2>1, <2>3 DEF TInv, Tables, Replays
  <2>5. Tables'
    BY <2>2, <2>4 DEF TInv, Tables, Replays
  <2>6. Pending' /\ Logged'
    BY <2>1, <2>2, <2>3 DEF TInv, Tables, Replays, Pending, Logged
  <2> QED
    BY <2>2, <2>5, <2>6, SameLogGrown, SameReplays DEF TInv
<1>2. CASE Build(b)
  <2>1. PICK a \in todo[b] : ReadSnapshot(b, a, Current)
    BY <1>2 DEF Build
  <2>2. a \in Aggregates /\ Len(log[a]) > 0
    BY <2>1 DEF TInv, Tables, Replays, Pending
  <2>3. Replays'
    BY <1>0, <1>2, <2>1, <2>2, ReadSnapshotSound DEF Build
  <2> QED
    BY <1>2, <2>3, LocalShapes DEF Build, TInv
<1>3. CASE LoadEvents(b)
  BY <1>0, <1>3, LoadEventsSound, LocalShapes DEF LoadEvents, TInv
<1>4. CASE ApplyNext(b)
  BY <1>0, <1>4, ApplyNextSound, LocalShapes DEF ApplyNext, TInv
<1>5. CASE SaveBuilt(b)
  <2>1. PICK s : s = [agg |-> run[b].agg, version |-> run[b].done, state |-> run[b].state]
    OBVIOUS
  <2>2. /\ Replayed(b) /\ snapshots' = Saved(s) /\ Release(b)
        /\ todo' = [todo EXCEPT ![b] = @ \ {run[b].agg}]
        /\ UNCHANGED <<log, truth, clock, readbacks, saves, answer, failures>>
    BY <1>5, <2>1 DEF SaveBuilt, SaveAs
  <2>3. s.agg \in Aggregates /\ s.version \in 1 .. Len(log[s.agg])
    BY <2>1, <2>2, BuiltSomething
  <2>4. snapshots' \subseteq snapshots \cup {s}
    BY <2>2 DEF Saved
  <2>5. /\ todo' \in [Builders -> SUBSET Aggregates]
        /\ \A u \in Builders : todo'[u] \subseteq todo[u]
    BY <2>2 DEF TInv, Tables, Replays
  <2>6. Tables' /\ Pending' /\ Logged'
    BY <2>2, <2>3, <2>4, <2>5 DEF TInv, Tables, Replays, Pending, Logged
  <2> QED
    BY <1>0, <2>2, <2>6, ReleaseSound DEF TInv
<1> QED
  BY <1>1, <1>2, <1>3, <1>4, <1>5 DEF BuilderStep

LEMMA ShapesStep == TInv /\ [Next]_vars => TInv'
<1> SUFFICES ASSUME TInv, [Next]_vars PROVE TInv'
  OBVIOUS
<1>1. CASE UNCHANGED vars
  <2>1. UNCHANGED <<log, truth, clock, snapshots, readbacks, saves, todo, pc, run,
                    answer, failures>>
    BY <1>1 DEF vars
  <2> QED
    BY <2>1, SameLogGrown, SameReplays, LocalShapes DEF TInv
<1>2. CASE Next
  BY <1>2, WritePathShapes, ReaderShapes, BuilderShapes, FailReplayShapes, RestartShapes
     DEF Next
<1> QED
  BY <1>1, <1>2

THEOREM Shapes == Spec => []TInv
BY ShapesInit, ShapesStep, PTL DEF Spec

(* Snapshots, whoever saves them, name a version their entity has, and a   *)
(* replay never applies more than the log held when it was read.           *)
THEOREM TypeCorrect == Spec => []TypeOK
BY Shapes, TypesInShapes, PTL

-----------------------------------------------------------------------------
(* States: what a version's state is never changes *)

LEMMA StateAtStable ==
    ASSUME TInv, Grown, NEW a \in Aggregates, NEW v \in 0 .. Len(log[a])
    PROVE  StateAt(a, v)' = StateAt(a, v)
<1>1. v = 0 \/ v \in 1 .. Len(log[a])
  BY DEF TInv, Logged, Shaped
<1> QED
  BY <1>1 DEF StateAt, Grown

LEMMA OrderedStable ==
    ASSUME TInv, Grown, NEW a \in Aggregates, Ordered(a)'
    PROVE  Ordered(a)
<1>1. /\ Len(log[a]) \in Nat /\ Len(log'[a]) \in Nat /\ Len(log[a]) <= Len(log'[a])
      /\ \A v \in 1 .. Len(log[a]) : log'[a][v] = log[a][v]
  BY DEF TInv, Logged, Grown, Shaped
<1>2. \A v \in 1 .. Len(log[a]) : v \in 1 .. Len(log'[a])
  BY <1>1
<1> QED
  BY <1>1, <1>2 DEF Ordered

LEMMA TruthChainStable ==
    ASSUME TInv, TruthChain, Grown, UNCHANGED <<log, truth>>
    PROVE  TruthChain'
BY DEF TruthChain, StateAt

LEMMA TruthChainGrows ==
    ASSUME TInv, TruthChain, NEW c \in Changes, Commit(c)
    PROVE  TruthChain'
<1>1. /\ Grown
      /\ \A a \in Aggregates : \A v \in 1 .. Len(log'[a]) :
            \/ v \in 1 .. Len(log[a])
            \/ truth'[a][v] = ApplyEvent(StateAt(a, v - 1)', log'[a][v])
  BY CommitGrows DEF TInv
<1> SUFFICES ASSUME NEW a \in Aggregates, NEW v \in 1 .. Len(log'[a]),
                    v \in 1 .. Len(log[a])
             PROVE  truth'[a][v] = ApplyEvent(StateAt(a, v - 1)', log'[a][v])
  BY <1>1 DEF TruthChain
<1>2. truth[a][v] = ApplyEvent(StateAt(a, v - 1), log[a][v])
  BY DEF TruthChain
<1>3. v - 1 \in 0 .. Len(log[a])
  BY DEF TInv, Logged, Shaped
<1>4. StateAt(a, v - 1)' = StateAt(a, v - 1)
  BY <1>1, <1>3, StateAtStable
<1>5. truth'[a][v] = truth[a][v] /\ log'[a][v] = log[a][v]
  BY <1>1 DEF Grown
<1> QED
  BY <1>2, <1>4, <1>5

(* A replay that does not move keeps a sound state. *)
LEMMA StateStable ==
    ASSUME TInv, Grown, NEW p \in Processes, StateSound(p),
           pc'[p] = pc[p], run'[p] = run[p]
    PROVE  StateSound(p)'
<1>0. PICK x, a, q, v : x = run[p] /\ a = x.agg /\ q = x.query /\ v = x.done
  OBVIOUS
<1> SUFFICES ASSUME pc[p] # "idle", Prefixed(a, q)'
             PROVE  x.state = StateAt(a, v)'
  BY <1>0 DEF StateSound
<1>1. a \in Aggregates /\ v \in 0 .. Len(log[a])
  BY <1>0 DEF TInv, Replays, RunSound, Logged, Shaped
<1>2. Prefixed(a, q)
  BY <1>1, OrderedStable DEF Prefixed
<1>3. x.state = StateAt(a, v)
  BY <1>0, <1>2 DEF StateSound
<1> QED
  BY <1>1, <1>3, StateAtStable

LEMMA VersionByStable ==
    ASSUME TInv, Grown, NEW a \in Aggregates, NEW t, NEW n \in Nat, n <= Len(log[a])
    PROVE  VersionBy(a, t, n)' = VersionBy(a, t, n)
<1>1. Len(log[a]) \in Nat
  BY DEF TInv, Logged, Shaped
<1>2. \A v \in 1 .. n : log'[a][v] = log[a][v]
  BY <1>1 DEF Grown
<1>3. {v \in 1 .. n : log'[a][v].at <= t} = {v \in 1 .. n : log[a][v].at <= t}
  BY <1>2
<1> QED
  BY <1>3 DEF VersionBy

(* An answer stays right whatever is appended after it was given. *)
LEMMA AnswerStable ==
    ASSUME TInv, Grown, NEW x, AnswerSound(x)
    PROVE  AnswerSound(x)'
<1>1. /\ x.agg \in Aggregates /\ x.version \in Nat /\ x.version <= Len(log[x.agg])
      /\ x.seen \in Nat /\ x.seen <= Len(log[x.agg])
  BY DEF AnswerSound
<1>2. /\ Len(log[x.agg]) \in Nat /\ Len(log'[x.agg]) \in Nat
      /\ Len(log[x.agg]) <= Len(log'[x.agg])
  BY <1>1 DEF TInv, Logged, Grown, Shaped
<1>3. x.version \in 0 .. Len(log[x.agg])
  BY <1>1, <1>2
<1>4. StateAt(x.agg, x.version)' = StateAt(x.agg, x.version)
  BY <1>1, <1>3, StateAtStable
<1>5. VersionBy(x.agg, x.query.at, x.seen)' = VersionBy(x.agg, x.query.at, x.seen)
  BY <1>1, VersionByStable
<1>6. Ordered(x.agg)' => Ordered(x.agg)
  BY <1>1, OrderedStable
<1>7. x.seen <= Len(log'[x.agg]) /\ x.version <= Len(log'[x.agg])
  BY <1>1, <1>2
<1> QED
  BY <1>1, <1>4, <1>5, <1>6, <1>7 DEF AnswerSound

-----------------------------------------------------------------------------
(* States: a replay applies each version after the one before *)

(* A step of one replay keeps the states of the others. *)
LEMMA StateFrame ==
    ASSUME TInv, NEW p \in Processes, UNCHANGED <<log, truth>>,
           \A u \in Processes : StateSound(u),
           \A u \in Processes \ {p} : pc'[u] = pc[u] /\ run'[u] = run[u],
           StateSound(p)'
    PROVE  \A u \in Processes : StateSound(u)'
<1>1. Grown
  BY SameLogGrown DEF TInv
<1> QED
  BY <1>1, StateStable

LEMMA ReadSnapshotState ==
    ASSUME TInv, SInv, NEW p \in Processes, NEW a \in Aggregates, NEW q,
           ReadSnapshot(p, a, q), UNCHANGED <<log, truth>>
    PROVE  \A u \in Processes : StateSound(u)'
<1>1. PICK base :
         /\ base = [version |-> 0, state |-> Fresh]
            \/ /\ base \in snapshots /\ base.agg = a
               /\ q.version = Nil \/ q.version >= base.version
         /\ run' = [run EXCEPT ![p] =
               [agg |-> a, query |-> q, state |-> base.state,
                done |-> base.version, base |-> base.version, loaded |-> {},
                since |-> Len(log[a]), seen |-> 0]]
  BY ReadSnapshotBase
<1>2. pc' = [pc EXCEPT ![p] = "load"]
  BY ReadSnapshotBase
<1>3. \A u \in Processes \ {p} : pc'[u] = pc[u] /\ run'[u] = run[u]
  BY <1>1, <1>2 DEF TInv, Replays
<1>4. run'[p].agg = a /\ run'[p].state = base.state /\ run'[p].done = base.version
  BY <1>1 DEF TInv, Replays
<1>5. base.state = StateAt(a, base.version)
  <2>1. CASE base = [version |-> 0, state |-> Fresh]
    BY <2>1 DEF StateAt
  <2>2. CASE base \in snapshots /\ base.agg = a
    <3>1. base.version \in 1 .. Len(log[a])
      BY <2>2 DEF TInv, Tables
    <3>2. base.version # 0
      BY <3>1
    <3> QED
      BY <2>2, <3>2 DEF SInv, SnapshotSound, StateAt
  <2> QED
    BY <1>1, <2>1, <2>2
<1>6. StateAt(a, base.version)' = StateAt(a, base.version)
  BY DEF StateAt
<1>7. StateSound(p)'
  BY <1>4, <1>5, <1>6 DEF StateSound
<1> QED
  BY <1>3, <1>7, StateFrame DEF SInv

LEMMA LoadEventsState ==
    ASSUME TInv, SInv, NEW p \in Processes, LoadEvents(p)
    PROVE  \A u \in Processes : StateSound(u)'
<1>1. PICK loaded, n : /\ run' = [run EXCEPT ![p].loaded = loaded, ![p].seen = n]
                       /\ pc[p] = "load" /\ pc' = [pc EXCEPT ![p] = "apply"]
                       /\ UNCHANGED <<log, truth>>
  BY DEF LoadEvents
<1>2. \A u \in Processes \ {p} : pc'[u] = pc[u] /\ run'[u] = run[u]
  BY <1>1 DEF TInv, Replays
<1>3. /\ run'[p].agg = run[p].agg /\ run'[p].query = run[p].query
      /\ run'[p].state = run[p].state /\ run'[p].done = run[p].done
  BY <1>1 DEF TInv, Replays, RunSound, RunFields
<1>4. StateSound(p)'
  BY <1>1, <1>3 DEF SInv, StateSound, StateAt, Prefixed, Ordered
<1> QED
  BY <1>1, <1>2, <1>4, StateFrame DEF SInv

(* If the matching events are the first ones, with an event every earlier  *)
(* one was loaded.                                                         *)
LEMMA LoadedFromFirst ==
    ASSUME TInv, NEW p \in Processes, pc[p] = "apply",
           Prefixed(run[p].agg, run[p].query),
           NEW v \in run[p].loaded, NEW u \in 1 .. v
    PROVE  u \in run[p].loaded
<1>1. PICK x, a, q : x = run[p] /\ a = x.agg /\ q = x.query
  OBVIOUS
<1>2. /\ a \in Aggregates /\ Len(log[a]) \in Nat /\ q \in Queries \cup {Current}
      /\ x.seen \in Nat /\ x.seen <= Len(log[a])
      /\ x.loaded = {w \in 1 .. x.seen : Matches(a, w, q)}
  BY <1>1 DEF TInv, Replays, RunSound, Logged, Shaped
<1>3. /\ v \in 1 .. x.seen /\ u \in 1 .. x.seen /\ u <= v
      /\ v \in 1 .. Len(log[a]) /\ u \in 1 .. Len(log[a])
      /\ Matches(a, v, q)
  BY <1>1, <1>2
<1>4. q.version \in Int \cup {Nil} /\ q.at \in Nat \cup {Nil}
  BY <1>2, QueriesAssumption DEF Current
<1>5. q.version # Nil => u <= q.version
  BY <1>3, <1>4 DEF Matches
<1>6. q.at # Nil => log[a][u].at <= q.at
  <2> SUFFICES ASSUME q.at # Nil PROVE log[a][u].at <= q.at
    OBVIOUS
  <2>1. log[a][u].at <= log[a][v].at
    BY <1>1, <1>3 DEF Prefixed, Ordered
  <2>2. log[a][v].at <= q.at
    BY <1>3 DEF Matches
  <2>3. log[a][u].at \in Int /\ log[a][v].at \in Int
    BY <1>2, <1>3 DEF TInv, Logged
  <2> QED
    BY <1>4, <2>1, <2>2, <2>3
<1> QED
  BY <1>1, <1>2, <1>3, <1>5, <1>6 DEF Matches

LEMMA ApplyNextState ==
    ASSUME TInv, SInv, NEW p \in Processes, ApplyNext(p)
    PROVE  \A u \in Processes : StateSound(u)'
<1>1. PICK a, v, state :
         /\ a = run[p].agg /\ v = Min(Remaining(p))
         /\ state = ApplyEvent(run[p].state, log[a][v])
  OBVIOUS
<1>2. /\ pc[p] = "apply" /\ Remaining(p) # {} /\ UNCHANGED <<log, truth, pc>>
      /\ run' = [run EXCEPT ![p].state = state, ![p].done = v]
  BY <1>1 DEF ApplyNext
<1>3. \A u \in Processes \ {p} : pc'[u] = pc[u] /\ run'[u] = run[u]
  BY <1>2 DEF TInv, Replays
<1>4. /\ run'[p].agg = a /\ run'[p].query = run[p].query
      /\ run'[p].state = state /\ run'[p].done = v
  BY <1>1, <1>2 DEF TInv, Replays, RunSound, RunFields
<1>5. ASSUME Prefixed(a, run[p].query)
      PROVE  state = StateAt(a, v)
  <2>1. PICK n : n = run[p].done
    OBVIOUS
  <2>2. /\ a \in Aggregates /\ n \in Nat /\ run[p].seen \in Nat
        /\ run[p].seen <= Len(log[a]) /\ Len(log[a]) \in Nat
    BY <1>1, <1>2, <2>1 DEF TInv, Replays, RunSound, Logged, Shaped
  <2>3. v \in run[p].loaded /\ v \in 1 .. run[p].seen /\ v > n
        /\ \A u \in run[p].loaded : u > n => v <= u
    BY <1>1, <1>2, <2>1, NextEvent
  <2>4. n + 1 \in 1 .. v
    BY <2>2, <2>3
  <2>5. n + 1 \in run[p].loaded
    BY <1>1, <1>2, <1>5, <2>3, <2>4, LoadedFromFirst
  <2>6. v = n + 1
    BY <2>2, <2>3, <2>5
  <2>7. run[p].state = StateAt(a, n)
    BY <1>1, <1>2, <1>5, <2>1 DEF SInv, StateSound
  <2>8. v \in 1 .. Len(log[a]) /\ v - 1 = n /\ v # 0
    BY <2>2, <2>3, <2>6
  <2>9. truth[a][v] = ApplyEvent(StateAt(a, n), log[a][v])
    BY <2>2, <2>8 DEF SInv, TruthChain
  <2> QED
    BY <1>1, <2>7, <2>8, <2>9 DEF StateAt
<1>6. StateSound(p)'
  BY <1>1, <1>2, <1>4, <1>5 DEF StateSound, StateAt, Prefixed, Ordered
<1> QED
  BY <1>2, <1>3, <1>6, StateFrame DEF SInv

LEMMA ReleaseState ==
    ASSUME TInv, SInv, NEW p \in Processes, Release(p), UNCHANGED <<log, truth>>
    PROVE  \A u \in Processes : StateSound(u)'
<1>1. pc'[p] = "idle" /\ \A u \in Processes \ {p} : pc'[u] = pc[u] /\ run'[u] = run[u]
  BY DEF Release, TInv, Replays
<1>2. StateSound(p)'
  BY <1>1 DEF StateSound
<1> QED
  BY <1>1, <1>2, StateFrame DEF SInv

-----------------------------------------------------------------------------
(* Answers *)

LEMMA MinPair ==
    ASSUME NEW i \in Int, NEW j \in Int
    PROVE  Min({i, j}) = IF i <= j THEN i ELSE j
<1> DEFINE m == IF i <= j THEN i ELSE j
<1>1. m \in {i, j} /\ \A y \in {i, j} : m <= y
  OBVIOUS
<1>2. \A x \in {i, j} : (\A y \in {i, j} : x <= y) => x = m
  OBVIOUS
<1> QED
  BY <1>1, <1>2 DEF Min

LEMMA MaxPair ==
    ASSUME NEW i \in Int, NEW j \in Int
    PROVE  Max({i, j}) = IF i >= j THEN i ELSE j
<1> DEFINE m == IF i >= j THEN i ELSE j
<1>1. m \in {i, j} /\ \A y \in {i, j} : m >= y
  OBVIOUS
<1>2. \A x \in {i, j} : (\A y \in {i, j} : x >= y) => x = m
  OBVIOUS
<1> QED
  BY <1>1, <1>2 DEF Max

(* The version a query asks of a log: its own, cut to the log. *)
LEMMA TargetValue ==
    ASSUME NEW q, q.version # Nil, q.version \in Int, NEW n \in Nat
    PROVE  Target(q, n) = IF q.version >= n THEN n
                          ELSE IF q.version > 0 THEN q.version ELSE 0
<1>1. Min({q.version, n}) = IF q.version <= n THEN q.version ELSE n
  BY MinPair
<1>2. Min({q.version, n}) \in Int
  BY <1>1
<1>3. Max({0, Min({q.version, n})}) =
          IF 0 >= Min({q.version, n}) THEN 0 ELSE Min({q.version, n})
  BY <1>2, MaxPair
<1> QED
  BY <1>1, <1>3 DEF Target

(* What a replay has applied when nothing remains: all that it loaded. *)
LEMMA ReplayedAll ==
    ASSUME TInv, NEW p \in Processes, Replayed(p)
    PROVE  /\ pc[p] = "apply"
           /\ \A v \in run[p].loaded : v <= run[p].done
           /\ run[p].done = run[p].base \/ run[p].done \in run[p].loaded
           /\ run[p].agg \in Aggregates /\ run[p].query \in Queries \cup {Current}
           /\ run[p].base \in Nat /\ run[p].since \in Nat /\ run[p].seen \in Nat
           /\ run[p].base <= run[p].since /\ run[p].since <= run[p].seen
           /\ run[p].done \in Nat /\ run[p].done <= Len(log[run[p].agg])
           /\ run[p].seen <= Len(log[run[p].agg])
           /\ run[p].loaded =
                  {v \in 1 .. run[p].seen : Matches(run[p].agg, v, run[p].query)}
<1>1. pc[p] = "apply" /\ Remaining(p) = {}
  BY DEF Replayed
<1>2. RunSound(p)
  BY DEF TInv, Replays
<1>3. \A v \in run[p].loaded : ~ (v > run[p].done)
  BY <1>1 DEF Remaining
<1>4. /\ run[p].done \in Nat /\ run[p].seen \in Nat
      /\ run[p].loaded \subseteq 1 .. run[p].seen
  BY <1>1, <1>2 DEF RunSound
<1>5. \A v \in run[p].loaded : v <= run[p].done
  BY <1>3, <1>4
<1> QED
  BY <1>1, <1>2, <1>5 DEF RunSound

LEMMA ReplayedTarget ==
    ASSUME TInv, NEW p \in Processes, Replayed(p), run[p].query.at = Nil
    PROVE  run[p].done = Target(run[p].query, run[p].seen)
<1>1. PICK x, a, q, n, d : /\ x = run[p] /\ a = x.agg /\ q = x.query /\ n = x.seen
                           /\ d = x.done
  OBVIOUS
<1>2. /\ x.loaded = {v \in 1 .. n : Matches(a, v, q)}
      /\ n \in Nat /\ d \in Nat /\ x.base \in Nat /\ x.base <= n
      /\ \A v \in x.loaded : v <= d
      /\ d = x.base \/ d \in x.loaded
  BY <1>1, ReplayedAll
<1>3. q.at = Nil /\ q.version \in Int \cup {Nil}
  BY <1>1, ReplayedAll, QueriesAssumption DEF Current
<1>4. CASE q.version = Nil
  <2>1. x.loaded = 1 .. n
    BY <1>2, <1>3, <1>4 DEF Matches
  <2>2. d = n
    BY <1>2, <2>1
  <2> QED
    BY <1>1, <1>4, <2>2 DEF Target
<1>5. CASE q.version # Nil
  <2>1. q.version \in Int
    BY <1>3, <1>5
  <2>2. x.loaded = {v \in 1 .. n : v <= q.version}
    BY <1>2, <1>3, <1>5 DEF Matches
  <2>3. x.base = 0 \/ q.version >= x.base
    BY <1>1, <1>5, ReplayedAll DEF TInv, Replays, RunSound
  <2>4. d <= n /\ (d = 0 \/ d <= q.version)
    BY <1>2, <2>1, <2>2, <2>3
  <2>5. \A v \in 1 .. n : v <= q.version => v <= d
    BY <1>2, <2>2
  <2>6. d = IF q.version >= n THEN n ELSE IF q.version > 0 THEN q.version ELSE 0
    <3>1. CASE q.version >= n
      BY <1>2, <2>1, <2>4, <2>5, <3>1
    <3>2. CASE q.version < n /\ q.version > 0
      BY <1>2, <2>1, <2>4, <2>5, <3>2
    <3>3. CASE q.version < n /\ q.version <= 0
      BY <1>2, <2>1, <2>4, <3>3
    <3> QED
      BY <1>2, <2>1, <3>1, <3>2, <3>3
  <2>7. Target(q, n) = IF q.version >= n THEN n ELSE IF q.version > 0 THEN q.version ELSE 0
    BY <1>2, <1>5, <2>1, TargetValue
  <2> QED
    BY <1>1, <2>6, <2>7
<1> QED
  BY <1>4, <1>5

LEMMA ReplayedInstant ==
    ASSUME TInv, NEW p \in Processes, Replayed(p),
           run[p].query.at # Nil, run[p].query.version = Nil,
           run[p].base <= VersionBy(run[p].agg, run[p].query.at, run[p].seen)
    PROVE  run[p].done = VersionBy(run[p].agg, run[p].query.at, run[p].seen)
<1>1. PICK x, a, q, n, d : /\ x = run[p] /\ a = x.agg /\ q = x.query /\ n = x.seen
                           /\ d = x.done
  OBVIOUS
<1>2. /\ x.loaded = {v \in 1 .. n : Matches(a, v, q)}
      /\ n \in Nat /\ d \in Nat /\ x.base \in Nat
      /\ \A v \in x.loaded : v <= d
      /\ d = x.base \/ d \in x.loaded
  BY <1>1, ReplayedAll
<1>3. x.loaded = {v \in 1 .. n : log[a][v].at <= q.at}
  BY <1>1, <1>2 DEF Matches
<1>4. PICK m : m = VersionBy(a, q.at, n)
  OBVIOUS
<1>5. m = Max(x.loaded \cup {0})
  BY <1>3, <1>4 DEF VersionBy
<1>6. x.loaded \cup {0} \in SUBSET (0 .. n) /\ x.loaded \cup {0} # {}
  BY <1>2, <1>3
<1>7. m \in x.loaded \cup {0} /\ \A v \in x.loaded \cup {0} : m >= v
  BY <1>2, <1>5, <1>6, MaxExists
<1>8. m \in Nat /\ x.base <= m
  BY <1>1, <1>2, <1>4, <1>6, <1>7
<1>9. d <= m
  BY <1>2, <1>7, <1>8
<1>10. m <= d
  BY <1>2, <1>7
<1> QED
  BY <1>1, <1>2, <1>4, <1>8, <1>9, <1>10

LEMMA ReplyAnswers ==
    ASSUME TInv, SInv, NEW r \in Readers, Reply(r)
    PROVE  AnswerSound(answer'[r])
<1>1. PICK x, y : x = run[r] /\ y = answer'[r]
  OBVIOUS
<1>2. /\ y.kind = IF x.done = 0 THEN "ErrNotFound" ELSE "ok"
      /\ y.agg = x.agg /\ y.query = x.query /\ y.version = x.done /\ y.state = x.state
      /\ y.base = x.base /\ y.since = x.since /\ y.seen = x.seen
  BY <1>1 DEF Reply, TInv
<1>3. r \in Processes /\ Replayed(r)
  BY <1>1 DEF Reply, Processes
<1>4. /\ x.agg \in Aggregates /\ x.base \in Nat /\ x.since \in Nat /\ x.seen \in Nat
      /\ x.done \in Nat /\ x.since <= x.seen /\ x.seen <= Len(log[x.agg])
      /\ x.done <= Len(log[x.agg]) /\ pc[r] = "apply"
  BY <1>1, <1>3, ReplayedAll
<1>5. Prefixed(x.agg, x.query) => x.state = StateAt(x.agg, x.done)
  BY <1>1, <1>3, <1>4 DEF SInv, StateSound
<1>6. x.query.at = Nil => x.done = Target(x.query, x.seen)
  BY <1>1, <1>3, ReplayedTarget
<1>7. /\ x.query.at # Nil /\ x.query.version = Nil
      /\ x.base <= VersionBy(x.agg, x.query.at, x.seen)
      => x.done = VersionBy(x.agg, x.query.at, x.seen)
  BY <1>1, <1>3, ReplayedInstant
<1>8. AnswerSound(y)
  BY <1>2, <1>3, <1>4, <1>5, <1>6, <1>7 DEF AnswerSound, Prefixed
<1> QED
  BY <1>1, <1>8

-----------------------------------------------------------------------------
(* Without the write path's snapshots, replays are sound.  (The user       *)
(* service takes them from a projection row that lacks columns; run        *)
(* user_snapshots shows what they hold.)                                   *)

LEMMA SoundInit == Init => SInv
<1> SUFFICES ASSUME Init PROVE SInv
  OBVIOUS
<1>1. \A a \in Aggregates : Len(log[a]) = 0
  BY DEF Init
<1>2. TruthChain /\ SnapshotSound
  BY <1>1 DEF Init, TruthChain, SnapshotSound
<1>3. \A p \in Processes : StateSound(p)
  BY DEF Init, StateSound
<1> QED
  BY <1>2, <1>3 DEF Init, SInv

(* A step that leaves the log alone and answers nobody. *)
LEMMA SoundFrame ==
    ASSUME TInv, SInv, UNCHANGED <<log, truth, readbacks, saves>>, SnapshotSound',
           \A p \in Processes : StateSound(p)',
           \A r \in Readers : \/ answer'[r] = answer[r] \/ answer'[r] = NoAnswer
                             \/ AnswerSound(answer'[r])
    PROVE  SInv'
<1>1. Grown
  BY SameLogGrown DEF TInv
<1>2. \A r \in Readers : answer'[r] = NoAnswer \/ AnswerSound(answer'[r])
  BY DEF SInv
<1>3. \A r \in Readers : answer'[r] = NoAnswer \/ AnswerSound(answer[r])'
  <2> SUFFICES ASSUME NEW r \in Readers, AnswerSound(answer'[r])
               PROVE  AnswerSound(answer[r])'
    BY <1>2
  <2>1. PICK x : x = answer'[r]
    OBVIOUS
  <2>2. AnswerSound(x)'
    BY <1>1, <2>1, AnswerStable
  <2> QED
    BY <2>1, <2>2 DEF AnswerSound
<1>4. TruthChain'
  BY <1>1, TruthChainStable DEF SInv
<1> QED
  BY <1>3, <1>4 DEF SInv

LEMMA SameSnapshots ==
    ASSUME SInv, UNCHANGED <<snapshots, truth>>
    PROVE  SnapshotSound'
BY DEF SInv, SnapshotSound

LEMMA WritePathSound ==
    ASSUME SnapshotEvery = 0, TInv, SInv,
           \/ \E c \in Changes : Commit(c)
           \/ \E a \in Aggregates : ReadBack(a)
           \/ \E s \in saves : SaveSpawned(s)
    PROVE  SInv'
<1>1. PICK c \in Changes : Commit(c)
  BY DEF SInv, ReadBack
<1>2. /\ UNCHANGED <<snapshots, saves, pc, run, answer>> /\ readbacks' = readbacks
  BY <1>1 DEF Commit, TakesSnapshot
<1>3. Grown /\ TruthChain'
  BY <1>1, CommitGrows, TruthChainGrows DEF TInv, SInv
<1>4. SnapshotSound'
  BY <1>2, <1>3 DEF SInv, SnapshotSound, TInv, Tables, Grown
<1>5. \A p \in Processes : StateSound(p)'
  BY <1>2, <1>3, StateStable DEF SInv
<1>6. \A r \in Readers : answer'[r] = NoAnswer \/ AnswerSound(answer[r])'
  <2> SUFFICES ASSUME NEW r \in Readers, answer[r] # NoAnswer
               PROVE  AnswerSound(answer[r])'
    BY <1>2
  <2>1. PICK x : x = answer[r] /\ AnswerSound(x)
    BY DEF SInv
  <2>2. AnswerSound(x)'
    BY <1>3, <2>1, AnswerStable
  <2> QED
    BY <1>2, <2>1, <2>2 DEF AnswerSound
<1> QED
  BY <1>2, <1>3, <1>4, <1>5, <1>6 DEF SInv

LEMMA ReaderSound ==
    ASSUME TInv, SInv, NEW r \in Readers,
           Ask(r) \/ LoadEvents(r) \/ ApplyNext(r) \/ Reply(r)
    PROVE  SInv'
<1>0. r \in Processes
  BY DEF Processes
<1>1. CASE Ask(r)
  <2>1. PICK a \in Aggregates, q \in Queries : ReadSnapshot(r, a, q)
    BY <1>1 DEF Ask
  <2>2. /\ UNCHANGED <<log, truth, snapshots, readbacks, saves>>
        /\ answer' = [answer EXCEPT ![r] = NoAnswer]
    BY <1>1 DEF Ask
  <2>3. \A p \in Processes : StateSound(p)'
    BY <1>0, <2>1, <2>2, ReadSnapshotState
  <2>4. \A u \in Readers : answer'[u] = answer[u] \/ answer'[u] = NoAnswer
    BY <2>2 DEF TInv
  <2> QED
    BY <2>2, <2>3, <2>4, SameSnapshots, SoundFrame
<1>2. CASE LoadEvents(r)
  BY <1>0, <1>2, LoadEventsState, SameSnapshots, SoundFrame DEF LoadEvents
<1>3. CASE ApplyNext(r)
  BY <1>0, <1>3, ApplyNextState, SameSnapshots, SoundFrame DEF ApplyNext
<1>4. CASE Reply(r)
  <2>1. /\ UNCHANGED <<log, truth, snapshots, readbacks, saves>> /\ Release(r)
        /\ \A u \in Readers : u # r => answer'[u] = answer[u]
    BY <1>4 DEF Reply
  <2>2. \A p \in Processes : StateSound(p)'
    BY <1>0, <2>1, ReleaseState
  <2>3. AnswerSound(answer'[r])
    BY <1>4, ReplyAnswers
  <2> QED
    BY <2>1, <2>2, <2>3, SameSnapshots, SoundFrame
<1> QED
  BY <1>1, <1>2, <1>3, <1>4

LEMMA BuilderSound ==
    ASSUME TInv, SInv, NEW b \in Builders, BuilderStep(b)
    PROVE  SInv'
<1>0. b \in Processes
  BY DEF Processes
<1>1. CASE Select(b)
  <2>1. UNCHANGED <<log, truth, snapshots, readbacks, saves, pc, run, answer>>
    BY <1>1 DEF Select
  <2>2. \A p \in Processes : StateSound(p)'
    BY <2>1, SameLogGrown, StateStable DEF TInv, SInv
  <2> QED
    BY <2>1, <2>2, SameSnapshots, SoundFrame
<1>2. CASE Build(b)
  <2>1. PICK a \in Aggregates : ReadSnapshot(b, a, Current)
    BY <1>2 DEF Build, TInv, Tables
  <2>2. UNCHANGED <<log, truth, snapshots, readbacks, saves, answer>>
    BY <1>2 DEF Build
  <2>3. \A p \in Processes : StateSound(p)'
    BY <1>0, <2>1, <2>2, ReadSnapshotState
  <2> QED
    BY <2>2, <2>3, SameSnapshots, SoundFrame
<1>3. CASE LoadEvents(b)
  BY <1>0, <1>3, LoadEventsState, SameSnapshots, SoundFrame DEF LoadEvents
<1>4. CASE ApplyNext(b)
  BY <1>0, <1>4, ApplyNextState, SameSnapshots, SoundFrame DEF ApplyNext
<1>5. CASE SaveBuilt(b)
  <2>1. PICK s : s = [agg |-> run[b].agg, version |-> run[b].done, state |-> run[b].state]
    OBVIOUS
  <2>2. /\ Replayed(b) /\ snapshots' = Saved(s) /\ Release(b)
        /\ UNCHANGED <<log, truth, readbacks, saves, answer>>
    BY <1>5, <2>1 DEF SaveBuilt, SaveAs
  <2>3. s.agg \in Aggregates /\ s.version \in 1 .. Len(log[s.agg]) /\ s.version # 0
    BY <2>1, <2>2, BuiltSomething
  <2>4. run[b].query = Current /\ pc[b] # "idle"
    BY <1>0, <2>2 DEF Replayed, TInv, Replays, RunSound
  <2>5. s.state = truth[s.agg][s.version]
    BY <1>0, <2>1, <2>3, <2>4 DEF SInv, StateSound, StateAt, Prefixed, Current
  <2>6. SnapshotSound'
    BY <2>2, <2>5 DEF SInv, SnapshotSound, Saved
  <2>7. \A p \in Processes : StateSound(p)'
    BY <1>0, <2>2, ReleaseState
  <2> QED
    BY <2>2, <2>6, <2>7, SoundFrame
<1> QED
  BY <1>1, <1>2, <1>3, <1>4, <1>5 DEF BuilderStep

LEMMA SoundStep ==
    ASSUME SnapshotEvery = 0
    PROVE  TInv /\ SInv /\ [Next]_vars => SInv'
<1> SUFFICES ASSUME TInv, SInv, [Next]_vars PROVE SInv'
  OBVIOUS
<1>1. CASE UNCHANGED vars
  <2>1. UNCHANGED <<log, truth, snapshots, readbacks, saves, pc, run, answer>>
    BY <1>1 DEF vars
  <2>2. \A p \in Processes : StateSound(p)'
    BY <2>1, SameLogGrown, StateStable DEF TInv, SInv
  <2> QED
    BY <2>1, <2>2, SameSnapshots, SoundFrame
<1>2. ASSUME NEW p \in Processes, FailReplay(p) PROVE SInv'
  BY <1>2, ReleaseState, SameSnapshots, SoundFrame DEF FailReplay
<1>3. CASE Restart
  <2>1. /\ UNCHANGED <<log, truth, snapshots, answer>> /\ readbacks' = {} /\ saves' = {}
        /\ \A p \in Processes : pc'[p] = "idle"
    BY <1>3 DEF Restart
  <2>2. \A p \in Processes : StateSound(p)'
    BY <2>1 DEF StateSound
  <2> QED
    BY <2>1, <2>2, SameSnapshots, SoundFrame DEF SInv
<1> QED
  BY <1>1, <1>2, <1>3, WritePathSound, ReaderSound, BuilderSound DEF Next

THEOREM Sound ==
    ASSUME SnapshotEvery = 0
    PROVE  Spec => [](TInv /\ SInv)
<1>1. TInv /\ SInv /\ [Next]_vars => SInv'
  BY SoundStep
<1> QED
  BY <1>1, SoundInit, Shapes, PTL DEF Spec

(* ADR-004, for entities whose snapshots the builder takes: a snapshot     *)
(* holds what the events up to its version lead to, whatever Apply does.   *)
THEOREM SnapshotsAreSound ==
    ASSUME SnapshotEvery = 0
    PROVE  Spec => []SnapshotSound
<1>1. TInv /\ SInv => SnapshotSound
  BY DEF SInv
<1> QED
  BY <1>1, Sound, PTL

(* Replay to a version, or to the latest, is exact, from any snapshot and  *)
(* with any commits, builds, failures and restarts in between.             *)
THEOREM VersionQueriesAreExact ==
    ASSUME SnapshotEvery = 0
    PROVE  Spec => []VersionQueryExact
<1>1. TInv /\ SInv => VersionQueryExact
  BY DEF SInv, AnswerSound, VersionQueryExact, Answers
<1> QED
  BY <1>1, Sound, PTL

(* Replay to an instant finds the last version created by then whenever    *)
(* its snapshot is not newer, and its state if the entity's creation times *)
(* are in the order of its versions, however late transactions commit.     *)
THEOREM TimeQueriesAreSound ==
    ASSUME SnapshotEvery = 0
    PROVE  Spec => []TimeQuerySound
<1>1. TInv /\ SInv => TimeQuerySound
  BY DEF SInv, AnswerSound, TimeQuerySound, TimeAnswers, Answers
<1> QED
  BY <1>1, Sound, PTL

-----------------------------------------------------------------------------
(* What truth stands for: the states of a replay from the first event *)

FirstEvents(a, v) == [i \in 1 .. v |-> log[a][i]]

TruthReplayed ==
    \A a \in Aggregates : \A v \in 0 .. Len(log[a]) :
        StateAt(a, v) = ReplayOf(FirstEvents(a, v))

LEMMA ChainStep ==
    ASSUME TInv, TruthChain, [Next]_vars
    PROVE  TruthChain'
<1>1. CASE UNCHANGED <<log, truth>>
  BY <1>1, SameLogGrown, TruthChainStable DEF TInv
<1>2. CASE \E c \in Changes : Commit(c)
  BY <1>2, TruthChainGrows
<1> QED
  BY <1>1, <1>2 DEF Next, vars, ReadBack, SaveSpawned, Ask, LoadEvents, ApplyNext,
     Reply, BuilderStep, Select, Build, SaveBuilt, SaveAs, FailReplay, Restart

LEMMA ChainReplays ==
    ASSUME TInv, TruthChain
    PROVE  TruthReplayed
<1> SUFFICES ASSUME NEW a \in Aggregates
             PROVE  \A v \in 0 .. Len(log[a]) : StateAt(a, v) = ReplayOf(FirstEvents(a, v))
  BY DEF TruthReplayed
<1> DEFINE T == {v \in Nat : v <= Len(log[a]) => StateAt(a, v) = ReplayOf(FirstEvents(a, v))}
<1>1. Len(log[a]) \in Nat
  BY DEF TInv, Logged, Shaped
<1>2. 0 \in T
  <2>1. DOMAIN FirstEvents(a, 0) = 1 .. 0
    BY DEF FirstEvents
  <2>2. ReplayOf(FirstEvents(a, 0)) = Fresh
    BY <2>1, ReplayOfNone
  <2> QED
    BY <2>2 DEF StateAt
<1>3. ASSUME NEW v \in Nat, v \in T PROVE v + 1 \in T
  <2> SUFFICES ASSUME v + 1 <= Len(log[a])
               PROVE  StateAt(a, v + 1) = ReplayOf(FirstEvents(a, v + 1))
    OBVIOUS
  <2>1. StateAt(a, v) = ReplayOf(FirstEvents(a, v))
    BY <1>1, <1>3
  <2>2. v + 1 \in 1 .. Len(log[a]) /\ (v + 1) - 1 = v /\ v + 1 # 0
    BY <1>1
  <2>3. StateAt(a, v + 1) = ApplyEvent(StateAt(a, v), log[a][v + 1])
    BY <2>2 DEF TruthChain, StateAt
  <2>4. PICK h, k : h = FirstEvents(a, v) /\ k = FirstEvents(a, v + 1)
    OBVIOUS
  <2>5. /\ DOMAIN h = 1 .. v /\ DOMAIN k = 1 .. (v + 1)
        /\ k[v + 1] = log[a][v + 1] /\ \A i \in 1 .. v : k[i] = h[i]
    BY <2>4 DEF FirstEvents
  <2>6. ReplayOf(k) = ApplyEvent(ReplayOf(h), k[v + 1])
    BY <2>5, ReplayOfOneMore
  <2> QED
    BY <2>1, <2>3, <2>4, <2>5, <2>6
<1> HIDE DEF T
<1>4. Nat \subseteq T
  BY <1>2, <1>3, NatSetInduction
<1> QED
  BY <1>1, <1>4 DEF T

(* The state of a version is what New and Apply, one event after the other *)
(* (engine.go:98), make of the events up to it, however the snapshots are  *)
(* taken: what the other theorems compare with is the source of truth.     *)
THEOREM TruthIsReplayed == Spec => []TruthReplayed
<1>1. Init => TruthChain
  BY SoundInit DEF SInv
<1>2. TInv /\ TruthChain /\ [Next]_vars => TruthChain'
  BY ChainStep
<1>3. TInv /\ TruthChain => TruthReplayed
  BY ChainReplays
<1> QED
  BY <1>1, <1>2, <1>3, Shapes, PTL DEF Spec

(* The answers of replays to a version, and the snapshots, are what the    *)
(* events alone lead to: ADR-004's "never replace events" without the help *)
(* of a history variable.                                                  *)
ReplaysFromEvents ==
    /\ \A s \in snapshots : s.state = ReplayOf(FirstEvents(s.agg, s.version))
    /\ \A x \in Answers : x.query.at = Nil =>
          x.state = ReplayOf(FirstEvents(x.agg, Target(x.query, x.seen)))

(* Whether a replay starts from a snapshot or from the first event makes   *)
(* no difference to what it answers or saves.                              *)
THEOREM SnapshotsAreInvisible ==
    ASSUME SnapshotEvery = 0
    PROVE  Spec => []ReplaysFromEvents
<1>1. TInv /\ SInv /\ TruthReplayed => ReplaysFromEvents
  <2> SUFFICES ASSUME TInv, SInv, TruthReplayed PROVE ReplaysFromEvents
    OBVIOUS
  <2>1. ASSUME NEW s \in snapshots
        PROVE  s.state = ReplayOf(FirstEvents(s.agg, s.version))
    <3>1. /\ s.agg \in Aggregates /\ s.version \in 1 .. Len(log[s.agg])
          /\ Len(log[s.agg]) \in Nat
      BY DEF TInv, Tables, Logged, Shaped
    <3>2. s.version \in 0 .. Len(log[s.agg]) /\ s.version # 0
      BY <3>1
    <3>3. s.state = StateAt(s.agg, s.version)
      BY <3>2 DEF SInv, SnapshotSound, StateAt
    <3> QED
      BY <3>1, <3>2, <3>3 DEF TruthReplayed
  <2>2. ASSUME NEW x \in Answers, x.query.at = Nil
        PROVE  x.state = ReplayOf(FirstEvents(x.agg, Target(x.query, x.seen)))
    <3>1. AnswerSound(x)
      BY DEF SInv, Answers
    <3>2. /\ x.agg \in Aggregates /\ x.version \in 0 .. Len(log[x.agg])
          /\ x.version = Target(x.query, x.seen) /\ x.state = StateAt(x.agg, x.version)
      BY <2>2, <3>1 DEF AnswerSound, TInv, Logged, Shaped
    <3> QED
      BY <3>2 DEF TruthReplayed
  <2> QED
    BY <2>1, <2>2 DEF ReplaysFromEvents
<1> QED
  BY <1>1, Sound, TruthIsReplayed, PTL
=============================================================================
