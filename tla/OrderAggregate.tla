---------------------------- MODULE OrderAggregate ----------------------------
(***************************************************************************)
(* The order aggregate (internal/order/aggregate.go, service.go): the      *)
(* fields of an order, its line items and their total, what each event     *)
(* does to them, and the payload the create command records.               *)
(***************************************************************************)
EXTENDS Integers, SequencesExt

New == [userId |-> "", status |-> "pending", total |-> 0, currency |-> "USD",
        items |-> <<>>, cancelled |-> FALSE]

TotalOf(items) ==
    FoldLeft(LAMBDA sum, item : sum + item.price * item.quantity, 0, items)

(* Mutant: an item event does not recompute the total. *)
WithItemsOldTotal(o, items) == [o EXCEPT !.items = items]

WithItems(o, items) == [o EXCEPT !.items = items, !.total = TotalOf(items)]

(* A created order takes its total from the payload, an item event         *)
(* recomputes it; an update that names a status is accepted in any state,  *)
(* also after cancellation, one that names none changes nothing.           *)
Apply(o, event) ==
    CASE event.type = "OrderCreated" ->
             [o EXCEPT !.userId = event.payload.userId,
                       !.total = event.payload.total,
                       !.currency = IF event.payload.currency # ""
                                    THEN event.payload.currency ELSE @,
                       !.items = event.payload.items,
                       !.status = "pending"]
      [] event.type = "OrderUpdated" /\ "status" \in DOMAIN event.payload ->
             [o EXCEPT !.status = event.payload.status]
      [] event.type = "OrderItemAdded" ->
             WithItems(o, Append(o.items, event.payload.item))
      [] event.type = "OrderItemRemoved" ->
             WithItems(o, SelectSeq(o.items,
                 LAMBDA item : item.product # event.payload.product))
      [] event.type = "OrderCancelled" ->
             [o EXCEPT !.cancelled = TRUE, !.status = "cancelled"]
      [] OTHER -> o

(* Create computes the total the event records. *)
CreatedPayload(userId, currency, items) ==
    [userId |-> userId, currency |-> IF currency = "" THEN "USD" ELSE currency,
     items |-> items, total |-> TotalOf(items)]

(* Table orders stores every field, the items as JSON. *)
Columns(o) == o
=============================================================================
