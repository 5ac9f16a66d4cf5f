------------------------------ MODULE MCReplay ------------------------------
(***************************************************************************)
(* Replays and snapshots for TLC: of orders (MCOrderReplay), and of two    *)
(* users, whose write path takes snapshots too, with a builder whose batch *)
(* is smaller than its work.  The two share no state: a behaviour is one   *)
(* of theirs, which part says.                                             *)
(***************************************************************************)
EXTENDS MCOrderReplay

CONSTANTS u1, u2, b1

VARIABLES part,
    log2, truth2, clock2, snapshots2, readbacks2, saves2, todo2, pc2, run2, answer2,
    failures2                                           \* TimeTravel, of users

vars2 == <<log2, truth2, clock2, snapshots2, readbacks2, saves2, todo2, pc2, run2, answer2,
           failures2>>

User == INSTANCE UserAggregate

NewUser               == User!New
ApplyToUser(u, event) == User!Apply(u, event)
UserColumns(u)        == User!Columns(u)

Creation(u) == [agg |-> u, type |-> "UserCreated",
                payload |-> [name |-> "n", email |-> "m"]]
Move(u)     == [agg |-> u, type |-> "UserUpdated", payload |-> [address |-> "y"]]

OfUsers == INSTANCE TimeTravel WITH
    Aggregates <- {u1, u2}, Changes <- {Creation(u1), Move(u1), Creation(u2), Move(u2)},
    CreatedType <- "UserCreated",
    Fresh <- NewUser, ApplyEvent <- ApplyToUser, TableColumns <- UserColumns,
    Readers <- {}, Builders <- {b1}, Queries <- {}, SnapshotEvery <- 2, BatchLimit <- 1,
    MaxEvents <- 2, MaxLag <- 0, MaxFailures <- 1,
    log <- log2, truth <- truth2, clock <- clock2, snapshots <- snapshots2,
    readbacks <- readbacks2, saves <- saves2, todo <- todo2, pc <- pc2, run <- run2,
    answer <- answer2, failures <- failures2

ReplayInit ==
    /\ part \in {"orders", "users"}
    /\ Init /\ OfUsers!Init

ReplayNext ==
    \/ part = "orders" /\ Next /\ UNCHANGED <<part, vars2>>
    \/ part = "users" /\ OfUsers!Next /\ UNCHANGED <<part, vars>>

(* Fairness is that of the users' builder; the orders are checked without. *)
ReplaySpec ==
    /\ ReplayInit /\ [][ReplayNext]_<<part, vars, vars2>>
    /\ WF_vars2(part = "users" /\ OfUsers!BuilderStep(b1))

-----------------------------------------------------------------------------
(* TimeTravel!BuilderCatchesUp: if commits cease, every user gets a        *)
(* snapshot of its latest version.                                         *)
UsersCatchUp == OfUsers!BuilderCatchesUp
=============================================================================
