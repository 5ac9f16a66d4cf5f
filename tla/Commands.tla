------------------------------ MODULE Commands ------------------------------
(***************************************************************************)
(* The write path shared by users, products and orders                     *)
(* (user.Service.append, platform.CommandService.Append): optimistic       *)
(* concurrency over a table of events, with the outbox row and the         *)
(* read-model row written in the same PostgreSQL transaction.              *)
(*                                                                         *)
(* Each writer is an HTTP handler's goroutine.  It begins a transaction,   *)
(* reads the latest version through ANOTHER pool connection, checks its    *)
(* command, inserts the event (blocking on the unique key while a          *)
(* concurrent transaction holds it), the outbox row and the read-model     *)
(* row, commits, and reads the read model back for the reply.  Any of the  *)
(* database calls may fail; a commit may succeed and its answer be lost.   *)
(*                                                                         *)
(* What an event does to the fields of an entity is a parameter (Entity).  *)
(***************************************************************************)
EXTENDS Integers, FiniteSets, SequencesExt, Entity

CONSTANTS
    Writers,            \* goroutines that serve commands
    Aggregates,         \* ids of the entities of one aggregate type
    Requests,           \* commands: [agg, type, payload, expected]
    CreatedType,        \* the event type of the create command
    NoExpectation,      \* a nil *ExpectedVersion
    NoTx,               \* locals of a writer that serves no command
    PoolSize,           \* connections of the pgx pool
    MaxClock            \* bound: transactions begun in a behaviour

ASSUME RequestsAssumption ==
    \A r \in Requests :
        /\ DOMAIN r = {"agg", "type", "payload", "expected"}
        /\ r.agg \in Aggregates
        /\ r.expected \in Nat \cup {NoExpectation}

ASSUME BoundsAssumption == PoolSize \in Nat /\ MaxClock \in Nat

VARIABLES
    events,      \* committed rows of table events
    outbox,      \* committed rows of table outbox: [id, event]
    readModel,   \* the projection row of each entity; version 0 is no row
    eventSeq,    \* the sequence behind events.id
    outboxSeq,   \* the sequence behind outbox.id
    clock,       \* start time of the latest transaction, its NOW()
    pc,          \* what each writer executes next
    tx,          \* the locals of append
    staged,      \* the projection row a transaction has written, uncommitted
    replies      \* replies sent, tagged with their transaction's start time

vars == <<events, outbox, readModel, eventSeq, outboxSeq, clock,
          pc, tx, staged, replies>>

NoRow == [version |-> 0, createdAt |-> 0, updatedAt |-> 0, state |-> Fresh]

-----------------------------------------------------------------------------
(* The event store *)

EventsOf(a) == {e \in events : e.agg = a}

Versions(a) == {e.version : e \in EventsOf(a)}

(* COALESCE(MAX(version), 0): committed rows only, it runs on the pool. *)
LatestVersion(a) == Max(Versions(a) \cup {0})

(* Mutants: the version that was read; a time-ordered id. *)
RowOfCurrentVersion(t) ==
    [id |-> t.id, agg |-> t.req.agg, version |-> t.current,
     type |-> t.req.type, payload |-> t.req.payload, at |-> t.at]
RowWithTimeId(t) == [RowOfCurrentVersion(t) EXCEPT !.id = t.at, !.version = t.current + 1]

(* The row a transaction inserts: created_at is the transaction's NOW().   *)
EventRow(t) == [id |-> t.id, agg |-> t.req.agg, version |-> t.current + 1,
                type |-> t.req.type, payload |-> t.req.payload, at |-> t.at]

(* nextval of a BIGSERIAL: drawn once, never given back by a rollback. *)
NextId(seq) == seq + 1

-----------------------------------------------------------------------------
(* Checks of a command against the version it read *)

(* Mutants: one of the three checks is missing. *)
WithoutVersionCheck(r, current) ==
    IF r.type = CreatedType /\ current > 0        THEN "ErrConflict"
    ELSE IF r.type # CreatedType /\ current = 0   THEN "ErrNotFound"
    ELSE "none"
WithoutCreateCheck(r, current) ==
    IF r.expected \notin {NoExpectation, current} THEN "ErrVersionMismatch"
    ELSE IF r.type # CreatedType /\ current = 0   THEN "ErrNotFound"
    ELSE "none"
WithoutExistenceCheck(r, current) ==
    IF r.expected \notin {NoExpectation, current} THEN "ErrVersionMismatch"
    ELSE IF r.type = CreatedType /\ current > 0   THEN "ErrConflict"
    ELSE "none"

Rejection(r, current) ==
    IF r.expected \notin {NoExpectation, current} THEN "ErrVersionMismatch"
    ELSE IF r.type = CreatedType /\ current > 0   THEN "ErrConflict"
    ELSE IF r.type # CreatedType /\ current = 0   THEN "ErrNotFound"
    ELSE "none"

(* Mutant: ON CONFLICT overwrites created_at as well. *)
UpsertCreatedAt(row, e) ==
    [version |-> e.version, createdAt |-> e.at, updatedAt |-> e.at,
     state |-> TableColumns(ApplyEvent(Fresh, e))]

(* The projector's upsert: the aggregate is rebuilt from New and this one  *)
(* event; on conflict every column but created_at is overwritten.          *)
Upsert(row, e) ==
    [version   |-> e.version,
     createdAt |-> IF row.version > 0 THEN row.createdAt
                   ELSE IF e.type = CreatedType THEN e.at ELSE 0,
     updatedAt |-> e.at,
     state     |-> TableColumns(ApplyEvent(Fresh, e))]

-----------------------------------------------------------------------------
(* Transactions and connections *)

(* Writers whose transaction holds the inserted, uncommitted event row. *)
Holding(w) == pc[w] \in {"inserted", "queued", "projected"}

(* Writers whose transaction occupies a connection. *)
InTx(w) == pc[w] \in {"begun", "checked", "inserting"} \/ Holding(w)

FreeConn == Cardinality({w \in Writers : InTx(w)}) < PoolSize

SameKey(t, u) == t.req.agg = u.req.agg /\ t.current = u.current

(* The unique index on (aggregate_type, aggregate_id, version): a committed *)
(* row refuses the insert, an uncommitted one makes it wait.                *)
KeyTaken(w) == tx[w].current + 1 \in Versions(tx[w].req.agg)

(* Mutants: no unique index; one that sees committed rows only. *)
NoUniqueIndex(w)      == TRUE
CommittedKeysOnly(w)  == ~KeyTaken(w)

KeyFree(w) ==
    /\ ~KeyTaken(w)
    /\ \A u \in Writers \ {w} : Holding(u) => ~SameKey(tx[u], tx[w])

Init ==
    /\ events = {} /\ outbox = {}
    /\ readModel = [a \in Aggregates |-> NoRow]
    /\ eventSeq = 0 /\ outboxSeq = 0 /\ clock = 0
    /\ pc = [w \in Writers |-> "idle"]
    /\ tx = [w \in Writers |-> NoTx]
    /\ staged = [w \in Writers |-> NoRow]
    /\ replies = {}

(* Return from the handler: the deferred Rollback discards what the         *)
(* transaction has not committed, and the client gets a reply.              *)
Return(w, kind, version, seen) ==
    /\ replies' = replies \cup {[kind |-> kind, at |-> tx[w].at, req |-> tx[w].req,
                                 version |-> version, seen |-> seen]}
    /\ pc' = [pc EXCEPT ![w] = "idle"]
    /\ tx' = [tx EXCEPT ![w] = NoTx]
    /\ staged' = [staged EXCEPT ![w] = NoRow]

database == <<events, outbox, readModel>>
sequences == <<eventSeq, outboxSeq>>

Begin(w) ==
    /\ pc[w] = "idle" /\ clock < MaxClock /\ FreeConn
    /\ clock' = clock + 1
    /\ \E r \in Requests :
          tx' = [tx EXCEPT ![w] = [req |-> r, at |-> clock + 1,
                                   current |-> 0, id |-> 0, oid |-> 0]]
    /\ pc' = [pc EXCEPT ![w] = "begun"]
    /\ UNCHANGED <<database, sequences, staged, replies>>

(* LatestVersion takes a second connection while the transaction keeps its  *)
(* own; then the command is checked against the version read.               *)
Reject(w) ==
    LET verdict == Rejection(tx[w].req, LatestVersion(tx[w].req.agg))
    IN  /\ pc[w] = "begun" /\ FreeConn
        /\ verdict # "none"
        /\ Return(w, verdict, 0, 0)
        /\ UNCHANGED <<database, sequences, clock>>

Accept(w) ==
    LET current == LatestVersion(tx[w].req.agg)
    IN  /\ pc[w] = "begun" /\ FreeConn
        /\ Rejection(tx[w].req, current) = "none"
        /\ tx' = [tx EXCEPT ![w].current = current]
        /\ pc' = [pc EXCEPT ![w] = "checked"]
        /\ UNCHANGED <<database, sequences, clock, staged, replies>>

(* INSERT INTO events: the id is drawn before the unique index is checked. *)
DrawId(w) ==
    /\ pc[w] = "checked"
    /\ eventSeq' = NextId(eventSeq)
    /\ tx' = [tx EXCEPT ![w].id = NextId(eventSeq)]
    /\ pc' = [pc EXCEPT ![w] = "inserting"]
    /\ UNCHANGED <<database, outboxSeq, clock, staged, replies>>

Insert(w) ==
    /\ pc[w] = "inserting" /\ KeyFree(w)
    /\ pc' = [pc EXCEPT ![w] = "inserted"]
    /\ UNCHANGED <<database, sequences, clock, tx, staged, replies>>

(* Mutant: the insert is tried again with the version read before. *)
RetrySameVersion(w) == pc[w] = "inserting" /\ KeyTaken(w) /\ UNCHANGED vars

UniqueViolation(w) ==
    /\ pc[w] = "inserting" /\ KeyTaken(w)
    /\ Return(w, "ErrConflict", 0, 0)
    /\ UNCHANGED <<database, sequences, clock>>

InsertOutbox(w) ==
    /\ pc[w] = "inserted"
    /\ outboxSeq' = NextId(outboxSeq)
    /\ tx' = [tx EXCEPT ![w].oid = NextId(outboxSeq)]
    /\ pc' = [pc EXCEPT ![w] = "queued"]
    /\ UNCHANGED <<database, eventSeq, clock, staged, replies>>

Project(w) ==
    /\ pc[w] = "queued"
    /\ staged' = [staged EXCEPT ![w] =
                      Upsert(readModel[tx[w].req.agg], EventRow(tx[w]))]
    /\ pc' = [pc EXCEPT ![w] = "projected"]
    /\ UNCHANGED <<database, sequences, clock, tx, replies>>

(* Mutant: the projection is left to somebody else. *)
EventOnlyVisible(w) ==
    /\ pc[w] = "projected"
    /\ events' = events \cup {EventRow(tx[w])}
    /\ outbox' = outbox \cup {[id |-> tx[w].oid, event |-> tx[w].id]}
    /\ UNCHANGED <<readModel, sequences, clock>>

(* COMMIT makes the event, its outbox row and the projection row visible   *)
(* in one step and gives the connection back.                              *)
MakeVisible(w) ==
    /\ pc[w] = "projected"
    /\ events' = events \cup {EventRow(tx[w])}
    /\ outbox' = outbox \cup {[id |-> tx[w].oid, event |-> tx[w].id]}
    /\ readModel' = [readModel EXCEPT ![tx[w].req.agg] = staged[w]]
    /\ UNCHANGED <<sequences, clock>>

Commit(w) ==
    /\ MakeVisible(w)
    /\ pc' = [pc EXCEPT ![w] = "committed"]
    /\ UNCHANGED <<tx, staged, replies>>

(* Mutant: a failed COMMIT is taken for a conflict. *)
FailedCommitIsConflict(w) == MakeVisible(w) /\ Return(w, "ErrConflict", 0, 0)

(* The transaction is committed but its answer does not reach the writer.  *)
CommitUnanswered(w) == MakeVisible(w) /\ Return(w, "error", 0, 0)

(* GetCurrent on a pool connection: it may see a later writer's row.       *)
GetCurrent(w) ==
    /\ pc[w] = "committed" /\ FreeConn
    /\ Return(w, "ok", tx[w].current + 1, readModel[tx[w].req.agg].version)
    /\ UNCHANGED <<database, sequences, clock>>

(* A database call fails or the request's context is cancelled: everything *)
(* uncommitted is rolled back; past the commit only the reply is lost.     *)
Fail(w) ==
    /\ pc[w] # "idle"
    /\ Return(w, "error", 0, 0)
    /\ UNCHANGED <<database, sequences, clock>>

Proceed(w) ==
    \/ Reject(w) \/ Accept(w) \/ DrawId(w) \/ Insert(w) \/ UniqueViolation(w)
    \/ InsertOutbox(w) \/ Project(w) \/ Commit(w) \/ GetCurrent(w)

Next == \E w \in Writers :
            Begin(w) \/ Proceed(w) \/ CommitUnanswered(w) \/ Fail(w)

Spec == Init /\ [][Next]_vars

FairSpec == Spec /\ \A w \in Writers : WF_vars(Proceed(w))

-----------------------------------------------------------------------------
(* Properties *)

PCs == {"idle", "begun", "checked", "inserting", "inserted", "queued",
        "projected", "committed"}

Refusals == {"ErrVersionMismatch", "ErrConflict", "ErrNotFound"}

Tx == [req : Requests, at : Nat, current : Nat, id : Nat, oid : Nat]

EventRows == [id : Nat, agg : Aggregates, version : Nat \ {0},
              type : {r.type : r \in Requests},
              payload : {r.payload : r \in Requests}, at : Nat]

(* The tables, sequences and locals have the shapes the schema and append  *)
(* give them (store.go, service.go).                                       *)
TypeOK ==
    /\ events \subseteq EventRows
    /\ outbox \subseteq [id : Nat, event : Nat]
    /\ DOMAIN readModel = Aggregates
    /\ \A a \in Aggregates : readModel[a].version \in Nat
    /\ eventSeq \in Nat /\ outboxSeq \in Nat /\ clock \in Nat
    /\ pc \in [Writers -> PCs]
    /\ DOMAIN tx = Writers
    /\ \A w \in Writers : pc[w] # "idle" => tx[w] \in Tx
    /\ DOMAIN staged = Writers
    /\ \A w \in Writers : staged[w].version \in Nat

(* Whatever the interleaving and the failures, the versions of an entity   *)
(* are 1..n with one row each: append reads the latest version outside its *)
(* transaction, and the unique index is all that separates two writers.    *)
HistoryContiguous ==
    \A a \in Aggregates :
        /\ Versions(a) = 1 .. LatestVersion(a)
        /\ \A e, f \in EventsOf(a) : e.version = f.version => e = f

(* A transaction in flight has passed its checks against a version that is  *)
(* not newer than the latest; one that holds its uncommitted row holds the  *)
(* next version, and no other transaction holds a row of the same entity    *)
(* (the unique index is the only lock append takes).                        *)
InFlightSound ==
    \A w \in Writers :
        /\ pc[w] \in {"checked", "inserting"} \/ Holding(w) =>
              /\ tx[w].current <= LatestVersion(tx[w].req.agg)
              /\ Rejection(tx[w].req, tx[w].current) = "none"
        /\ Holding(w) =>
              /\ tx[w].current = LatestVersion(tx[w].req.agg)
              /\ \A u \in Writers \ {w} :
                    Holding(u) => tx[u].req.agg # tx[w].req.agg

(* An entity's history starts with its creation and is created only once,  *)
(* although the check (append) and the insert are not one step.            *)
CreatedOnceAndFirst ==
    \A e \in events : e.type = CreatedType <=> e.version = 1

(* The read model never lags and never runs ahead: its row carries the     *)
(* version and time of the latest event, and the creation time of the      *)
(* first, because projector.Apply writes in the event's transaction.       *)
ReadModelFresh ==
    \A a \in Aggregates :
        /\ readModel[a].version = LatestVersion(a)
        /\ \A e \in EventsOf(a) :
              /\ e.version = LatestVersion(a) => readModel[a].updatedAt = e.at
              /\ e.version = 1 => readModel[a].createdAt = e.at

(* Ids are drawn by concurrent transactions and leave gaps, yet within an  *)
(* entity they are ordered as the versions, in events (the until-id filter *)
(* of LoadEventsUntil) and in the outbox (the publisher's ORDER BY id).    *)
IdsFollowVersions ==
    \A e, f \in events : e.agg = f.agg =>
        /\ e.version < f.version <=> e.id < f.id
        /\ \A p, q \in outbox : p.event = e.id /\ q.event = f.id =>
              (e.version < f.version <=> p.id < q.id)

Succeeded == {k \in replies : k.kind = "ok"}

(* What the client is told is what happened: a success is in the log under *)
(* its own version, a 404, 409 or 412 left no event behind.                *)
RepliesTruthful ==
    /\ \A k \in Succeeded : \E e \in events :
          /\ e.at = k.at /\ e.agg = k.req.agg /\ e.version = k.version
          /\ e.type = k.req.type /\ e.payload = k.req.payload
    /\ \A k \in replies : k.kind \in Refusals => \A e \in events : e.at # k.at

(* Of several writers that name the same expected version at most one      *)
(* succeeds, whatever they do between the check and the insert.            *)
NoLostUpdate ==
    \A k, l \in Succeeded :
        /\ k.req.agg = l.req.agg
        /\ k.req.expected = l.req.expected /\ k.req.expected # NoExpectation
        => k = l

(* The entity a successful command returns is at least as new as the event *)
(* it appended, although GetCurrent runs after the commit, on another      *)
(* connection.                                                             *)
ReadYourWrites == \A k \in Succeeded : k.seen >= k.version

(* With a connection to spare every command is eventually answered: nobody *)
(* waits for ever for a unique key.  Without one, writers that hold the    *)
(* whole pool stall each other until ReadTimeout (main.go:101) cancels a   *)
(* request, which is Fail, and no fairness is assumed of it.               *)
Answered == \A w \in Writers : pc[w] # "idle" ~> pc[w] = "idle"

-----------------------------------------------------------------------------
(* The append is atomic: the committed rows implement VersionedLog. *)

EventAt(a, v) == CHOOSE e \in EventsOf(a) : e.version = v

History(a) == [v \in 1 .. LatestVersion(a) |-> EventAt(a, v)]

(* The fields of an entity after its whole history *)
Replayed(a) == ReplayOf(History(a))

ChangesOf(a) == [v \in 1 .. LatestVersion(a) |->
    [type |-> EventAt(a, v).type, payload |-> EventAt(a, v).payload]]

Log == INSTANCE VersionedLog WITH log <- [a \in Aggregates |-> ChangesOf(a)]

(* Check, insert and commit are separate steps, but together they are one  *)
(* atomic conditional append: the conditions checked against the version   *)
(* read earlier still hold of the log when the transaction commits.        *)
AppendsAtomically == Log!Spec

-----------------------------------------------------------------------------
(* What the repository's documents say and this write path does not do *)

(* CQRS.md: temporal reads are always consistent.  Once the clock is past  *)
(* an instant, the events up to it stay the same.                          *)
PastIsSettled ==
    [][\A t \in 1 .. MaxClock : t < clock =>
          {e \in events' : e.at <= t} = {e \in events : e.at <= t}]_vars

(* PROJECTION_ENGINE.md: the projector derives the new state by applying   *)
(* the event, so the row holds the state the history leads to.             *)
ReadModelMatchesHistory ==
    \A a \in Aggregates : readModel[a].state = TableColumns(Replayed(a))
=============================================================================
