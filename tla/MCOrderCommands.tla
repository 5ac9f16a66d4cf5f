--------------------------- MODULE MCOrderCommands ---------------------------
(* Concurrent commands on an order, for TLC. *)
EXTENDS OrderCommands

CONSTANTS o1, Nil

Pen == [product |-> "pen", quantity |-> 2, price |-> 3]
Ink == [product |-> "ink", quantity |-> 1, price |-> 5]

Cmd(type, payload, expected) ==
    [agg |-> o1, type |-> type, payload |-> payload, expected |-> expected]

(* A creation, an unconditional item, and an update and a cancellation     *)
(* conditional on the creation still being the latest event.               *)
OrderCmds ==
    { Cmd("OrderCreated", CreatedPayload("u", "", <<Pen, Ink>>), Nil),
      Cmd("OrderItemAdded", [item |-> Ink], Nil),
      Cmd("OrderUpdated", [status |-> "paid"], 1),
      Cmd("OrderCancelled", [f \in {} |-> ""], 1) }

WriterSymmetry == Permutations(Writers)
=============================================================================
