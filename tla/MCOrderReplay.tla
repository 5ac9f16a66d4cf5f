---------------------------- MODULE MCOrderReplay ----------------------------
(* Replays of orders, whose item events are not idempotent, for TLC. *)
EXTENDS OrderAggregate, TimeTravel

CONSTANTS o1

Pen == [product |-> "pen", quantity |-> 2, price |-> 3]
Ink == [product |-> "ink", quantity |-> 1, price |-> 5]

OrderChanges ==
    { [agg |-> o1, type |-> "OrderCreated", payload |-> CreatedPayload("u", "", <<Pen>>)],
      [agg |-> o1, type |-> "OrderItemAdded", payload |-> [item |-> Ink]],
      [agg |-> o1, type |-> "OrderItemRemoved", payload |-> [product |-> "pen"]] }

ByVersion(v) == [version |-> v, at |-> Nil]
ByTime(t)    == [version |-> Nil, at |-> t]

(* Of a shorter log, version 2 is the current state; the builder asks for  *)
(* that too.                                                               *)
OrderQueries == {ByVersion(2), ByTime(1)}
TimeQueries  == {ByTime(1)}
=============================================================================
