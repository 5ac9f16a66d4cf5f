------------------------------ MODULE TimeTravel ------------------------------
(***************************************************************************)
(* Temporal reads and snapshots: the replay engine (internal/replay), the  *)
(* snapshot store (internal/snapshot), the snapshots the user write path   *)
(* takes (internal/user) and the SnapshotBuilder (internal/worker), all    *)
(* running against a log that grows.                                       *)
(*                                                                         *)
(* A commit is one step here: module Commands shows that the write path    *)
(* appends atomically.  Its created_at is its transaction's start time,    *)
(* so it may lie up to MaxLag ticks in the past.  A replay is two queries  *)
(* (the latest snapshot, then the events) and a loop over what they        *)
(* returned; other processes move in between.                              *)
(***************************************************************************)
EXTENDS Integers, Sequences, FiniteSets, FiniteSetsExt, Entity

CONSTANTS
    Aggregates,         \* ids of the entities of one aggregate type
    Changes,            \* what commands append: [agg, type, payload]
    CreatedType,        \* the event type of a creation
    Readers,            \* HTTP and gRPC handlers that replay
    Builders,           \* SnapshotBuilder workers, one per instance
    Queries,            \* what readers ask: [version, at]
    Nil,                \* a nil *Version or *At
    SnapshotEvery,      \* SNAPSHOT_EVERY of the user service, 0 is never
    BatchLimit,         \* LIMIT of the builder's SELECT
    MaxEvents,          \* bound: events of an entity
    MaxLag,             \* bound: age of a transaction when it commits
    MaxFailures         \* bound: failed calls and restarts in a behaviour

ASSUME ChangesAssumption == \A c \in Changes : c.agg \in Aggregates

ASSUME NumbersAssumption ==
    /\ SnapshotEvery \in Nat /\ BatchLimit \in Nat \ {0}
    /\ MaxEvents \in Nat /\ MaxLag \in Nat /\ MaxFailures \in Nat

ASSUME ProcessesAssumption == Readers \cap Builders = {}

ASSUME QueriesAssumption ==
    \A q \in Queries : q.version \in Int \cup {Nil} /\ q.at \in Nat \cup {Nil}

VARIABLES
    log,        \* committed events of each entity, by version
    truth,      \* history variable: the state each version leads to
    clock,      \* the time of the latest commit
    snapshots,  \* rows of table snapshots: [agg, version, state]
    readbacks,  \* entities whose writer is about to read its row back
    saves,      \* snapshots the write path's goroutines are about to save
    todo,       \* the ids a builder's SELECT returned and it has not built
    pc,         \* what each replay executes next
    run,        \* the locals of a replay
    answer,     \* the last reply of each reader
    failures    \* calls that failed so far

vars == <<log, truth, clock, snapshots, readbacks, saves, todo, pc, run,
          answer, failures>>

Processes == Readers \cup Builders

Current == [version |-> Nil, at |-> Nil]

NoRun == [agg |-> Nil, query |-> Current, state |-> Fresh, done |-> 0,
          base |-> 0, loaded |-> {}, since |-> 0, seen |-> 0]

NoAnswer == [kind |-> "none", agg |-> Nil, query |-> Current, version |-> 0,
             state |-> Fresh, base |-> 0, since |-> 0, seen |-> 0]

Init ==
    /\ log = [a \in Aggregates |-> <<>>]
    /\ truth = [a \in Aggregates |-> <<>>]
    /\ clock = 0
    /\ snapshots = {} /\ readbacks = {} /\ saves = {}
    /\ todo = [b \in Builders |-> {}]
    /\ pc = [p \in Processes |-> "idle"]
    /\ run = [p \in Processes |-> NoRun]
    /\ answer = [r \in Readers |-> NoAnswer]
    /\ failures = 0

-----------------------------------------------------------------------------
(* The write path *)

StateAt(a, v) == IF v = 0 THEN Fresh ELSE truth[a][v]

(* The user service takes a snapshot after every SnapshotEvery-th version; *)
(* the platform service's maybeSnapshot does nothing (SnapshotEvery = 0).  *)
TakesSnapshot(version) == SnapshotEvery > 0 /\ version % SnapshotEvery = 0

(* INSERT INTO events: the row becomes the entity's next version. *)
Store(a, e) ==
    /\ log' = [log EXCEPT ![a] = Append(@, e)]
    /\ truth' = [truth EXCEPT ![a] = Append(@, ApplyEvent(StateAt(a, Len(log[a])), e))]

Commit(c) ==
    LET a       == c.agg
        version == Len(log[a]) + 1
    IN  /\ version <= MaxEvents
        /\ (c.type = CreatedType) <=> (log[a] = <<>>)
        /\ clock' = clock + 1
        /\ \E at \in (clock + 1 - MaxLag) .. (clock + 1) :
              Store(a, [type |-> c.type, payload |-> c.payload, at |-> at])
        /\ readbacks' = IF TakesSnapshot(version) THEN readbacks \cup {a} ELSE readbacks
        /\ UNCHANGED <<snapshots, saves, todo, pc, run, answer, failures>>

(* The projection row: the table's columns of New after the latest event.  *)
Row(a) == [agg |-> a, version |-> Len(log[a]),
           state |-> TableColumns(ApplyEvent(Fresh, log[a][Len(log[a])]))]

(* After its commit append reads the row back, possibly a later writer's,  *)
(* and hands it to a goroutine that saves it as a snapshot.                *)
ReadBack(a) ==
    /\ a \in readbacks
    /\ readbacks' = readbacks \ {a}
    /\ saves' = saves \cup {Row(a)}
    /\ UNCHANGED <<log, truth, clock, snapshots, todo, pc, run, answer, failures>>

(* INSERT ... ON CONFLICT (type, id, version) DO UPDATE SET state. *)
Saved(s) == {t \in snapshots : t.agg # s.agg \/ t.version # s.version} \cup {s}

SaveSpawned(s) ==
    /\ s \in saves
    /\ saves' = saves \ {s}
    /\ snapshots' = Saved(s)
    /\ UNCHANGED <<log, truth, clock, readbacks, todo, pc, run, answer, failures>>

-----------------------------------------------------------------------------
(* The replay engine *)

SnapshotsOf(a) == {s \in snapshots : s.agg = a}

Newest(S) == CHOOSE s \in S : \A t \in S : s.version >= t.version

(* Mutant: the latest snapshot always serves. *)
AlwaysUsable(s, q) == TRUE

(* Only a target VERSION below the snapshot's rules the snapshot out. *)
Usable(s, q) == q.version = Nil \/ q.version >= s.version

(* snapshots.Latest, then start from it or from New(id). *)
ReadSnapshot(p, a, q) ==
    LET S    == SnapshotsOf(a)
        base == IF S # {} /\ Usable(Newest(S), q) THEN Newest(S)
                ELSE [version |-> 0, state |-> Fresh]
    IN  /\ pc[p] = "idle"
        /\ run' = [run EXCEPT ![p] =
               [agg |-> a, query |-> q, state |-> base.state, done |-> base.version,
                base |-> base.version, loaded |-> {}, since |-> Len(log[a]), seen |-> 0]]
        /\ pc' = [pc EXCEPT ![p] = "load"]

(* Mutant: the instant is exclusive. *)
MatchesBefore(a, v, q) ==
    /\ q.version # Nil => v <= q.version
    /\ q.at # Nil => log[a][v].at < q.at

(* The WHERE clause of LoadEventsUntil (no caller sets UntilID). *)
Matches(a, v, q) ==
    /\ q.version # Nil => v <= q.version
    /\ q.at # Nil => log[a][v].at <= q.at

LoadEvents(p) ==
    LET a == run[p].agg
    IN  /\ pc[p] = "load"
        /\ run' = [run EXCEPT
               ![p].loaded = {v \in 1 .. Len(log[a]) : Matches(a, v, run[p].query)},
               ![p].seen = Len(log[a])]
        /\ pc' = [pc EXCEPT ![p] = "apply"]
        /\ UNCHANGED <<log, truth, clock, snapshots, readbacks, saves, todo,
                       answer, failures>>

(* Versions up to the snapshot's are skipped, the others applied in order. *)
Remaining(p) == {v \in run[p].loaded : v > run[p].done}

ApplyNext(p) ==
    LET v == Min(Remaining(p))
    IN  /\ pc[p] = "apply" /\ Remaining(p) # {}
        /\ run' = [run EXCEPT
               ![p].state = ApplyEvent(run[p].state, log[run[p].agg][v]),
               ![p].done = v]
        /\ UNCHANGED <<log, truth, clock, snapshots, readbacks, saves, todo, pc,
                       answer, failures>>

Replayed(p) == pc[p] = "apply" /\ Remaining(p) = {}

Release(p) ==
    /\ pc' = [pc EXCEPT ![p] = "idle"]
    /\ run' = [run EXCEPT ![p] = NoRun]

-----------------------------------------------------------------------------
(* Readers *)

Ask(r) ==
    /\ \E a \in Aggregates, q \in Queries : ReadSnapshot(r, a, q)
    /\ answer' = [answer EXCEPT ![r] = NoAnswer]
    /\ UNCHANGED <<log, truth, clock, snapshots, readbacks, saves, todo, failures>>

(* An aggregate still at version 0 is ErrNotFound. *)
Reply(r) ==
    /\ Replayed(r)
    /\ answer' = [answer EXCEPT ![r] =
           [kind |-> IF run[r].done = 0 THEN "ErrNotFound" ELSE "ok",
            agg |-> run[r].agg, query |-> run[r].query, version |-> run[r].done,
            state |-> run[r].state, base |-> run[r].base,
            since |-> run[r].since, seen |-> run[r].seen]]
    /\ Release(r)
    /\ UNCHANGED <<log, truth, clock, snapshots, readbacks, saves, todo, failures>>

-----------------------------------------------------------------------------
(* The snapshot builder *)

(* Mutant: an entity with some snapshot is never built again. *)
NeverSnapshotted == {a \in Aggregates : log[a] # <<>> /\ SnapshotsOf(a) = {}}

(* Entities with events and no snapshot of their latest version. *)
Stale == {a \in Aggregates :
             /\ log[a] # <<>>
             /\ \A s \in SnapshotsOf(a) : s.version < Len(log[a])}

Select(b) ==
    /\ pc[b] = "idle" /\ todo[b] = {} /\ Stale # {}
    /\ \E batch \in SUBSET Stale :
          /\ Cardinality(batch) = Min({BatchLimit, Cardinality(Stale)})
          /\ todo' = [todo EXCEPT ![b] = batch]
    /\ UNCHANGED <<log, truth, clock, snapshots, readbacks, saves, pc, run,
                   answer, failures>>

Build(b) ==
    /\ \E a \in todo[b] : ReadSnapshot(b, a, Current)
    /\ UNCHANGED <<log, truth, clock, snapshots, readbacks, saves, todo,
                   answer, failures>>

SaveAs(b, version) ==
    /\ Replayed(b)
    /\ snapshots' = Saved([agg |-> run[b].agg, version |-> version,
                           state |-> run[b].state])
    /\ todo' = [todo EXCEPT ![b] = @ \ {run[b].agg}]
    /\ Release(b)
    /\ UNCHANGED <<log, truth, clock, readbacks, saves, answer, failures>>

(* Mutants: the latest version when it is saved; the next version. *)
SaveAsLatest(b) == SaveAs(b, Len(log[run[b].agg]))
SaveAsNext(b)   == SaveAs(b, run[b].done + 1)

SaveBuilt(b) == SaveAs(b, run[b].done)

-----------------------------------------------------------------------------
(* Failures *)

CountFailure == failures < MaxFailures /\ failures' = failures + 1

(* A query or a save of a replay fails: a reader answers an error, a       *)
(* builder goes on with the next id.                                       *)
FailReplay(p) ==
    /\ pc[p] # "idle"
    /\ CountFailure
    /\ todo' = [b \in Builders |-> IF b = p THEN todo[b] \ {run[p].agg} ELSE todo[b]]
    /\ Release(p)
    /\ UNCHANGED <<log, truth, clock, snapshots, readbacks, saves, answer>>

(* The instance stops and starts again: what was in memory is lost, the    *)
(* write path's pending snapshots among it.                                *)
Restart ==
    /\ CountFailure
    /\ readbacks' = {} /\ saves' = {}
    /\ todo' = [b \in Builders |-> {}]
    /\ pc' = [p \in Processes |-> "idle"]
    /\ run' = [p \in Processes |-> NoRun]
    /\ UNCHANGED <<log, truth, clock, snapshots, answer>>

BuilderStep(b) == Select(b) \/ Build(b) \/ LoadEvents(b) \/ ApplyNext(b) \/ SaveBuilt(b)

Next ==
    \/ \E c \in Changes : Commit(c)
    \/ \E a \in Aggregates : ReadBack(a)
    \/ \E s \in saves : SaveSpawned(s)
    \/ \E r \in Readers : Ask(r) \/ LoadEvents(r) \/ ApplyNext(r) \/ Reply(r)
    \/ \E b \in Builders : BuilderStep(b)
    \/ \E p \in Processes : FailReplay(p)
    \/ Restart

Spec == Init /\ [][Next]_vars

(* The builder's ticker fires for as long as its instance runs. *)
FairSpec == Spec /\ \A b \in Builders : WF_vars(BuilderStep(b))

-----------------------------------------------------------------------------
(* Properties *)

(* Shapes of the tables and of a replay's locals (domain.Snapshot, the     *)
(* engine's startVersion and events).                                      *)
TypeOK ==
    /\ DOMAIN log = Aggregates /\ DOMAIN truth = Aggregates
    /\ \A a \in Aggregates : Len(truth[a]) = Len(log[a])
    /\ clock \in Nat /\ failures \in 0 .. MaxFailures
    /\ \A s \in snapshots \cup saves :
          s.agg \in Aggregates /\ s.version \in 1 .. Len(log[s.agg])
    /\ readbacks \subseteq Aggregates
    /\ todo \in [Builders -> SUBSET Aggregates]
    /\ pc \in [Processes -> {"idle", "load", "apply"}]
    /\ \A p \in Processes : pc[p] # "idle" =>
          /\ run[p].agg \in Aggregates
          /\ run[p].done \in 0 .. Len(log[run[p].agg])
          /\ run[p].loaded \subseteq 1 .. run[p].seen

(* Snapshots never replace events as the source of truth (ADR-004): each   *)
(* holds the state the events up to its version lead to, whichever         *)
(* snapshot it was itself replayed from and whatever was appended while    *)
(* it was built.                                                           *)
SnapshotSound ==
    \A s \in snapshots : s.state = truth[s.agg][s.version]

Answers == {answer[r] : r \in Readers} \ {NoAnswer}

(* The version a query by version asks of a log of n events. *)
Target(q, n) == IF q.version = Nil THEN n ELSE Max({0, Min({q.version, n})})

(* A query by version, or for the current state, returns exactly the state *)
(* of that version of a log at least as long as when it began, and         *)
(* ErrNotFound only if there is no such version; snapshots, builders and   *)
(* commits in between make no difference.                                  *)
VersionQueryExact ==
    \A x \in Answers : x.query.at = Nil =>
        LET v == Target(x.query, x.seen)
        IN  /\ x.seen >= x.since
            /\ x.version = v /\ x.state = StateAt(x.agg, v)
            /\ x.kind = IF v = 0 THEN "ErrNotFound" ELSE "ok"

(* The version of the last event created by an instant. *)
VersionBy(a, t, n) == Max({v \in 1 .. n : log[a][v].at <= t} \cup {0})

TimeAnswers == {x \in Answers : x.query.at # Nil /\ x.query.version = Nil}

(* The creation times of an entity do not decrease with its versions.      *)
Ordered(a) == \A u, v \in 1 .. Len(log[a]) : u <= v => log[a][u].at <= log[a][v].at

(* A query for an instant that started from no newer snapshot answers with *)
(* the last version created by then, its bound inclusive, even when a      *)
(* later version was created earlier; and with that version's state, as    *)
(* long as the entity's creation times do not decrease.  Events appended   *)
(* meanwhile with the same time, and older snapshots, make no difference.  *)
TimeQuerySound ==
    \A x \in TimeAnswers :
        LET v == VersionBy(x.agg, x.query.at, x.seen)
        IN  x.base <= v => /\ x.version = v
                           /\ Ordered(x.agg) => x.state = StateAt(x.agg, v)

(* If commits cease, the builder leaves no entity without a snapshot of    *)
(* its latest version: neither the batches that left it out, nor failures  *)
(* and restarts, nor events appended while a snapshot was built.  While    *)
(* commits go on, the SELECT's LIMIT without an ORDER BY promises nothing: *)
(* the same busy entities may fill every batch.                            *)
BuilderCatchesUp ==
    <>[][log' = log]_log =>
        <>[](\A a \in Aggregates : log[a] # <<>> =>
                 \E s \in SnapshotsOf(a) : s.version = Len(log[a]))

-----------------------------------------------------------------------------
(* What the repository's documents say and these reads do not do *)

(* ADR-004: replay loads the latest snapshot up to the target.  A query    *)
(* for an instant then never answers with a later version.                 *)
TimeQueryExact ==
    \A x \in TimeAnswers : x.version = VersionBy(x.agg, x.query.at, x.seen)
=============================================================================
