------------------------------- MODULE MCPool -------------------------------
(***************************************************************************)
(* Whoever waits for PostgreSQL, for TLC: instances that migrate before    *)
(* they serve (Migrate), one with its commands, RPCs and workers until its *)
(* exit (Lifecycle), and commands on two users step by step (Commands).    *)
(* They share no state: a behaviour is one of theirs, which part says.     *)
(***************************************************************************)
EXTENDS Lifecycle, Migrate, UserAggregate

CONSTANTS w1, w2, u1, u2, Nil, NoTx

VARIABLES part,
    events, outbox, readModel, eventSeq, outboxSeq, clock,
    step, tx, staged, replies                               \* Commands

appending == <<events, outbox, readModel, eventSeq, outboxSeq, clock,
              step, tx, staged, replies>>

Empty == [f \in {} |-> ""]

Cmd(id, type, payload, expected) ==
    [agg |-> id, type |-> type, payload |-> payload, expected |-> expected]

UserCmds ==
    { Cmd(u1, "UserCreated", [name |-> "n", email |-> "m"], Nil),
      Cmd(u2, "UserCreated", [name |-> "x", email |-> "y"], Nil),
      Cmd(u1, "UserUpdated", [address |-> "z"], Nil),
      Cmd(u1, "UserUpdated", [name |-> "x"], 1),
      Cmd(u1, "UserDeleted", Empty, 2) }

Appending == INSTANCE Commands WITH
    Writers <- {w1, w2}, Aggregates <- {u1, u2}, Requests <- UserCmds,
    CreatedType <- "UserCreated", NoExpectation <- Nil,
    Fresh <- New, ApplyEvent <- Apply, TableColumns <- Columns,
    PoolSize <- 3, MaxClock <- 3, pc <- step

PoolInit ==
    /\ part \in {"migrating", "serving", "appending"}
    /\ MigrateInit /\ Init /\ Appending!Init

PoolNext ==
    \/ part = "migrating" /\ MigrateNext /\ UNCHANGED <<part, vars, appending>>
    \/ part = "serving" /\ Next /\ UNCHANGED <<part, migration, appending>>
    \/ part = "appending" /\ Appending!Next /\ UNCHANGED <<part, migration, vars>>

(* Each part with its own fairness; the others have no steps to take. *)
PoolSpec ==
    /\ PoolInit /\ [][PoolNext]_<<part, migration, vars, appending>>
    /\ \A i \in Instances : WF_migration(part = "migrating" /\ Proceed(i))
    /\ \A w \in {w1, w2} : WF_appending(part = "appending" /\ Appending!Proceed(w))
    /\ \A t \in Commands \cup Queries : WF_vars(part = "serving" /\ Handle(t))
    /\ WF_vars(part = "serving" /\ Work) /\ WF_vars(part = "serving" /\ Warm)
    /\ WF_vars(part = "serving" /\ TimerEnds) /\ WF_vars(part = "serving" /\ Close)

-----------------------------------------------------------------------------
(* Properties *)

(* Migrate!AllServe: instances that migrate, collide and are started again *)
(* all come to serve.                                                      *)
InstancesServe == part = "migrating" => AllServe

(* Commands!Answered: append on a large enough pool answers every command, *)
(* whoever waits for a key or a connection.                                *)
CommandsAnswered == Appending!Answered
=============================================================================
