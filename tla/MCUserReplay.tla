----------------------------- MODULE MCUserReplay -----------------------------
(* Snapshots of users, with those the write path takes, for TLC. *)
EXTENDS UserAggregate, TimeTravel

CONSTANTS u1, u2

Creation(u) == [agg |-> u, type |-> "UserCreated",
                payload |-> [name |-> "n", email |-> "m"]]
Move(u)     == [agg |-> u, type |-> "UserUpdated", payload |-> [address |-> "y"]]

UserChanges == {Creation(u1), Move(u1), Creation(u2), Move(u2)}
=============================================================================
