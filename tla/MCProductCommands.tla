-------------------------- MODULE MCProductCommands --------------------------
(* Concurrent commands on a product, for TLC. *)
EXTENDS ProductAggregate, Commands

CONSTANTS p1, Nil

Cmd(type, payload) ==
    [agg |-> p1, type |-> type, payload |-> payload, expected |-> Nil]

ProductCmds ==
    { Cmd("ProductCreated", CreatedPayload("n", "d", 1, "EUR")),
      Cmd("ProductUpdated", [price |-> 2]),
      Cmd("ProductDeleted", [f \in {} |-> ""]) }
=============================================================================
