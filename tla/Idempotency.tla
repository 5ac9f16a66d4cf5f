----------------------------- MODULE Idempotency -----------------------------
(***************************************************************************)
(* The command handlers of the HTTP API (internal/api/users.go,            *)
(* catalog.go, helpers.go) and the Idempotency-Key header: a handler looks *)
(* the key up before its command and stores the reply under it after the   *)
(* command, each in a database call of its own; between them, and between  *)
(* the handlers of one key, everything may happen.  Only the user handlers *)
(* honour the header; products and orders ignore it.                       *)
(*                                                                         *)
(* A command is one step on the log of VersionedLog here: module Commands  *)
(* shows that the write path implements it.                                *)
(***************************************************************************)
EXTENDS Integers, FiniteSets, Sequences

CONSTANTS
    Handlers,           \* goroutines that serve requests, in any instance
    Aggregates,         \* ids of the entities
    KeyedAggregates,    \* those whose handlers honour the header: users
    Requests,           \* [agg, type, valid, key, header, query]
    CreatedType,        \* the event type of the create command
    Nil,                \* no key, no If-Match, no expectation
    Unreadable,         \* an If-Match that is not a number
    TTL,                \* for how long a stored reply is replayed
    MaxRuns,            \* bound: requests received in a behaviour
    MaxClock,           \* bound: ticks of the clock
    MaxFailures         \* bound: failed calls and stopped instances

ASSUME HeadersAssumption ==
    \A r \in Requests : \A m \in {r.header, r.query} \ {Nil, Unreadable} :
        m.version \in Nat /\ m.prefixed \in BOOLEAN

ASSUME EntitiesAssumption ==
    /\ KeyedAggregates \subseteq Aggregates
    /\ \A r \in Requests : r.agg \in Aggregates /\ r.valid \in BOOLEAN

ASSUME DurationsAssumption ==
    /\ TTL \in Nat \ {0} /\ MaxRuns \in Nat
    /\ MaxClock \in Nat /\ MaxFailures \in Nat
    /\ Nil \notin Nat

VARIABLES
    log,        \* the events of each entity, as in VersionedLog
    keys,       \* rows of idempotency_keys: [key, body, status, expires]
    clock,      \* NOW() and time.Now()
    pc,         \* what each handler does next
    call,       \* the locals of each handler
    runs,       \* requests received so far
    effects,    \* history variable: which request appended which version
    replies,    \* history variable: what the clients were answered
    unreliable, \* history variable: keys of a failed lookup or store
    failures    \* calls that failed so far

vars == <<log, keys, clock, pc, call, runs, effects, replies, unreliable, failures>>

-----------------------------------------------------------------------------
(* The headers of a request *)

(* Mutant: the v of "v3" is left on. *)
WithoutTrim(r) ==
    LET m == IF r.header # Nil THEN r.header ELSE r.query
    IN  IF m \in {Nil, Unreadable} \/ m.prefixed THEN Nil ELSE m.version

(* If-Match, or else expected_version, with or without a leading v; what   *)
(* is not a number makes the command unconditional.                        *)
ParsedVersion(r) ==
    LET m == IF r.header # Nil THEN r.header ELSE r.query
    IN  IF m \in {Nil, Unreadable} THEN Nil ELSE m.version

(* The create handlers pass no expected version on; payloads are left out. *)
Command(r) == [agg |-> r.agg, type |-> r.type, payload |-> Nil,
               expected |-> IF r.type = CreatedType THEN Nil ELSE ParsedVersion(r)]

Log == INSTANCE VersionedLog WITH Requests <- {Command(r) : r \in Requests},
                                  NoExpectation <- Nil

Keyed(r) == r.key # Nil /\ r.agg \in KeyedAggregates

SuccessStatus(r) == IF r.type = CreatedType THEN 201 ELSE 200

(* What handleCommandError answers to the checks of a command against n    *)
(* events; nothing if they pass.                                           *)
Verdict(c, n) ==
    IF c.expected \notin {Nil, n}             THEN {412}
    ELSE IF c.type = CreatedType /\ n > 0     THEN {409}
    ELSE IF c.type # CreatedType /\ n = 0     THEN {404}
    ELSE {}

(* A command that began at an earlier version and passed its checks is in  *)
(* conflict with the events appended since.                                *)
Refusals(c, n, began) ==
    Verdict(c, n) \cup
    {s \in {409} : \E m \in began .. (n - 1) : Verdict(c, m) = {}}

NoCall == [req |-> Nil, answered |-> FALSE, began |-> 0, body |-> Nil]

Init ==
    /\ log = [a \in Aggregates |-> <<>>]
    /\ keys = {} /\ clock = 0
    /\ pc = [h \in Handlers |-> "idle"]
    /\ call = [h \in Handlers |-> NoCall]
    /\ runs = 0 /\ effects = {} /\ replies = {} /\ unreliable = {}
    /\ failures = 0

-----------------------------------------------------------------------------
(* A handler *)

(* A handler that honours the key has answered a success for it. *)
Succeeded(k) ==
    \E p \in replies : p.req.key = k /\ Keyed(p.req) /\ p.status \in {200, 201}

Receive(h) ==
    /\ pc[h] = "idle" /\ runs < MaxRuns
    /\ runs' = runs + 1
    /\ \E r \in Requests :
          call' = [call EXCEPT ![h] = [NoCall EXCEPT
                       !.req = r, !.answered = Succeeded(r.key)]]
    /\ pc' = [pc EXCEPT ![h] = "received"]
    /\ UNCHANGED <<log, keys, clock, effects, replies, unreliable, failures>>

Answer(h, status, body, replayed) ==
    /\ replies' = replies \cup {[req |-> call[h].req, status |-> status,
                                 body |-> body, replayed |-> replayed]}
    /\ pc' = [pc EXCEPT ![h] = "idle"]
    /\ call' = [call EXCEPT ![h] = NoCall]

(* Malformed JSON or a missing field is refused before the key is looked up. *)
BadRequest(h) ==
    /\ pc[h] = "received" /\ ~call[h].req.valid
    /\ Answer(h, 400, Nil, FALSE)
    /\ UNCHANGED <<log, keys, clock, runs, effects, unreliable, failures>>

(* SELECT ... WHERE key = $1 AND expires_at > NOW() *)
Live(k) == {row \in keys : row.key = k /\ row.expires > clock}

Replay(h) ==
    /\ pc[h] = "received" /\ call[h].req.valid /\ Keyed(call[h].req)
    /\ \E row \in Live(call[h].req.key) : Answer(h, row.status, row.body, TRUE)
    /\ UNCHANGED <<log, keys, clock, runs, effects, unreliable, failures>>

Execute(h) ==
    /\ pc[h] = "received" /\ call[h].req.valid
    /\ call' = [call EXCEPT ![h].began = Len(log[call[h].req.agg])]
    /\ pc' = [pc EXCEPT ![h] = "executing"]
    /\ UNCHANGED <<log, keys, clock, runs, effects, replies>>

LookupMisses(h) ==
    /\ Execute(h)
    /\ Keyed(call[h].req) => Live(call[h].req.key) = {}
    /\ UNCHANGED <<unreliable, failures>>

(* A failed lookup counts as a miss. *)
LookupFails(h) ==
    /\ Execute(h)
    /\ Keyed(call[h].req) /\ failures < MaxFailures
    /\ failures' = failures + 1
    /\ unreliable' = unreliable \cup {call[h].req.key}

AppendEvent(h) ==
    LET r == call[h].req
    IN  /\ pc[h] = "executing"
        /\ Log!AppendTo(Command(r))
        /\ effects' = effects \cup {[req |-> r, version |-> Len(log[r.agg]) + 1,
                                     at |-> clock, answered |-> call[h].answered]}
        /\ pc' = [pc EXCEPT ![h] = "appended"]
        /\ UNCHANGED <<keys, clock, call, runs, replies, unreliable, failures>>

(* Mutants: after a refusal the handler goes on, with no body; or with the *)
(* entity there is.                                                        *)
RefuseAndStore(h) ==
    LET r == call[h].req
    IN  /\ pc[h] = "executing"
        /\ Refusals(Command(r), Len(log[r.agg]), call[h].began) # {}
        /\ pc' = [pc EXCEPT ![h] = "storing"]
        /\ UNCHANGED <<log, keys, clock, call, runs, effects, replies,
                       unreliable, failures>>
RefuseAndReadBack(h) ==
    LET r == call[h].req
    IN  /\ pc[h] = "executing" /\ log[r.agg] # <<>>
        /\ Refusals(Command(r), Len(log[r.agg]), call[h].began) # {}
        /\ pc' = [pc EXCEPT ![h] = "appended"]
        /\ UNCHANGED <<log, keys, clock, call, runs, effects, replies,
                       unreliable, failures>>

Refuse(h) ==
    LET r == call[h].req
    IN  /\ pc[h] = "executing"
        /\ \E s \in Refusals(Command(r), Len(log[r.agg]), call[h].began) :
              Answer(h, s, Nil, FALSE)
        /\ UNCHANGED <<log, keys, clock, runs, effects, unreliable, failures>>

(* Any call of the command fails, before its commit or after it. *)
CommandFails(h) ==
    /\ pc[h] \in {"executing", "appended"} /\ failures < MaxFailures
    /\ failures' = failures + 1
    /\ Answer(h, 500, Nil, FALSE)
    /\ UNCHANGED <<log, keys, clock, runs, effects, unreliable>>

(* GetCurrent: the row of the latest version, possibly a later one. *)
ReadBack(h) ==
    LET a == call[h].req.agg
    IN  /\ pc[h] = "appended"
        /\ call' = [call EXCEPT ![h].body = [agg |-> a, version |-> Len(log[a])]]
        /\ pc' = [pc EXCEPT ![h] = "storing"]
        /\ UNCHANGED <<log, keys, clock, runs, effects, replies,
                       unreliable, failures>>

KeyRow(h) == [key |-> call[h].req.key, body |-> call[h].body,
              status |-> SuccessStatus(call[h].req), expires |-> clock + TTL]

Stored(k) == \E row \in keys : row.key = k

(* Mutant: ON CONFLICT DO UPDATE. *)
WithRowReplaced(h) ==
    IF Keyed(call[h].req)
    THEN {row \in keys : row.key # call[h].req.key} \cup {KeyRow(h)} ELSE keys

(* INSERT ... ON CONFLICT (key) DO NOTHING: an expired row stays as well. *)
WithRow(h) ==
    IF Keyed(call[h].req) /\ ~Stored(call[h].req.key)
    THEN keys \cup {KeyRow(h)} ELSE keys

StoreKey(h) ==
    /\ pc[h] = "storing"
    /\ keys' = WithRow(h)
    /\ pc' = [pc EXCEPT ![h] = "replying"]
    /\ UNCHANGED <<log, clock, call, runs, effects, replies, unreliable, failures>>

(* The error of the store is ignored. *)
StoreFails(h) ==
    /\ pc[h] = "storing" /\ Keyed(call[h].req) /\ failures < MaxFailures
    /\ failures' = failures + 1
    /\ unreliable' = unreliable \cup {call[h].req.key}
    /\ pc' = [pc EXCEPT ![h] = "replying"]
    /\ UNCHANGED <<log, keys, clock, call, runs, effects, replies>>

(* Mutant: the reply is written before the key is stored. *)
ReplyFirst(h) ==
    /\ pc[h] \in {"storing", "replying"}
    /\ Answer(h, SuccessStatus(call[h].req), call[h].body, FALSE)
    /\ UNCHANGED <<log, keys, clock, runs, effects, unreliable, failures>>

Reply(h) ==
    /\ pc[h] = "replying"
    /\ Answer(h, SuccessStatus(call[h].req), call[h].body, FALSE)
    /\ UNCHANGED <<log, keys, clock, runs, effects, unreliable, failures>>

(* The handler's instance stops, or its client goes away unanswered. *)
Stop(h) ==
    /\ pc[h] # "idle" /\ failures < MaxFailures
    /\ failures' = failures + 1
    /\ pc' = [pc EXCEPT ![h] = "idle"]
    /\ call' = [call EXCEPT ![h] = NoCall]
    /\ UNCHANGED <<log, keys, clock, runs, effects, replies, unreliable>>

Tick ==
    /\ clock < MaxClock
    /\ clock' = clock + 1
    /\ UNCHANGED <<log, keys, pc, call, runs, effects, replies,
                   unreliable, failures>>

Handle(h) ==
    \/ Receive(h) \/ BadRequest(h) \/ Replay(h) \/ LookupMisses(h) \/ LookupFails(h)
    \/ AppendEvent(h) \/ Refuse(h) \/ CommandFails(h) \/ ReadBack(h)
    \/ StoreKey(h) \/ StoreFails(h) \/ Reply(h) \/ Stop(h)

Next == Tick \/ \E h \in Handlers : Handle(h)

Spec == Init /\ [][Next]_vars

-----------------------------------------------------------------------------
(* Properties *)

Keys == {r.key : r \in Requests}

Bodies == [agg : Aggregates, version : Nat \ {0}]

Calls == [req : Requests, answered : BOOLEAN, began : Nat, body : Bodies \cup {Nil}]

Statuses == {200, 201, 400, 404, 409, 412, 500}

(* A body is there from the read back on (users.go). *)
LocalsOK ==
    /\ pc \in [Handlers -> {"idle", "received", "executing", "appended",
                            "storing", "replying"}]
    /\ DOMAIN call = Handlers
    /\ \A h \in Handlers :
          /\ pc[h] # "idle" => call[h] \in Calls
          /\ pc[h] \in {"storing", "replying"} => call[h].body \in Bodies

(* Shapes of the key table and of the handlers' locals; no row outlives   *)
(* its TTL (commands.go).                                                  *)
TypeOK ==
    /\ log \in [Aggregates -> Seq({Log!Change(Command(r)) : r \in Requests})]
    /\ keys \subseteq [key : Keys, body : Bodies, status : {200, 201},
                       expires : 1 .. clock + TTL]
    /\ clock \in Nat /\ runs \in Nat /\ failures \in 0 .. MaxFailures
    /\ LocalsOK
    /\ effects \subseteq [req : Requests, version : Nat \ {0}, at : Nat,
                          answered : BOOLEAN]
    /\ replies \subseteq [req : Requests, status : Statuses,
                          body : Bodies \cup {Nil}, replayed : BOOLEAN]
    /\ unreliable \subseteq Keys

(* A replayed reply is that of a command which took effect under this key, *)
(* with its status and a state that contains its event: never that of a    *)
(* command that was refused or failed, however it was interrupted.         *)
ReplaysTruthful ==
    \A p \in replies : p.replayed =>
        \E e \in effects :
            /\ e.req.key = p.req.key /\ e.req.agg = p.body.agg
            /\ e.version <= p.body.version /\ p.status = SuccessStatus(e.req)

(* All replays of a key are the same reply, also when two requests with    *)
(* the key were executed at once, or one after the row had expired.        *)
ReplaysAgree ==
    \A p, q \in replies :
        p.replayed /\ q.replayed /\ p.req.key = q.req.key =>
            p.status = q.status /\ p.body = q.body

NamesVersion(r) ==
    (IF r.header # Nil THEN r.header ELSE r.query) \notin {Nil, Unreadable}

(* A creation, and a command that names a version, takes effect at most    *)
(* once however often it is sent: at the same time, after its key expired, *)
(* after a lost reply, with a failing key table, or for a product, whose   *)
(* handlers ignore the key.  The log is what makes it so.                  *)
ConditionalOnce ==
    \A e, f \in effects :
        /\ e.req = f.req
        /\ e.req.type = CreatedType \/ NamesVersion(e.req)
        => e = f

(* A user command sent after a success was answered for its key takes no   *)
(* effect until the stored reply has expired, unless a lookup or a store   *)
(* of the key failed.  (The first row counts: an expired one is never      *)
(* replaced.)                                                              *)
AnsweredRunsOnce ==
    \A e \in effects :
        e.answered /\ Keyed(e.req) /\ e.req.key \notin unreliable =>
            \E row \in keys : row.key = e.req.key /\ row.expires <= e.at
=============================================================================
