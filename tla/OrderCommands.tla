---------------------------- MODULE OrderCommands ----------------------------
(***************************************************************************)
(* The commands of internal/order/service.go on the write path: which      *)
(* payloads they record, and what has to be true of an order's total       *)
(* whatever path its fields took.                                          *)
(***************************************************************************)
EXTENDS Commands, OrderAggregate

(* Create sums its items up; no other command records a total. *)
ASSUME OrderRequestsAssumption ==
    \A r \in Requests : r.type = "OrderCreated" =>
        r.payload.total = TotalOf(r.payload.items)

(* The total of an order is the sum over its items, in the history's state *)
(* and in the read model's row alike, although creation takes it from the  *)
(* command service (service.go), item events recompute it (aggregate.go)   *)
(* and the row is rebuilt from one event (catalog.go).                     *)
TotalsAgree ==
    \A a \in Aggregates :
        /\ readModel[a].state.total = TotalOf(readModel[a].state.items)
        /\ Replayed(a).total = TotalOf(Replayed(a).items)
=============================================================================
