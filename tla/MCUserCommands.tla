--------------------------- MODULE MCUserCommands ---------------------------
(* Concurrent commands on users, for TLC. *)
EXTENDS UserAggregate, Commands

CONSTANTS u1, Nil

Empty == [f \in {} |-> ""]

Cmd(type, payload, expected) ==
    [agg |-> u1, type |-> type, payload |-> payload, expected |-> expected]

(* A creation, a conditional and an unconditional partial update, a delete *)
(* conditional on the creation still being the latest event.               *)
UserCmds == { Cmd("UserCreated", [name |-> "n", email |-> "m"], Nil),
              Cmd("UserUpdated", [name |-> "x"], 1),
              Cmd("UserUpdated", [address |-> "y"], Nil),
              Cmd("UserDeleted", Empty, 1) }

WriterSymmetry == Permutations(Writers)
=============================================================================
