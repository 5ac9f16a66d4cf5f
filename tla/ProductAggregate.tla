--------------------------- MODULE ProductAggregate ---------------------------
(***************************************************************************)
(* The product aggregate (internal/product/aggregate.go, service.go): the  *)
(* fields of a product, what each event does to them, and the payload the  *)
(* create command records.  "" is the zero text; a partial payload maps    *)
(* the fields that are not nil.                                            *)
(***************************************************************************)
EXTENDS TLC

New == [name |-> "", description |-> "", price |-> 0, currency |-> "USD",
        deleted |-> FALSE]

(* An empty currency in a create or a price change means "unchanged". *)
GivenCurrency(payload) ==
    [f \in {g \in DOMAIN payload : g = "currency" => payload[g] # ""} |-> payload[f]]

Apply(p, event) ==
    CASE event.type = "ProductCreated" ->
             [deleted |-> FALSE] @@ GivenCurrency(event.payload) @@ p
      [] event.type = "ProductUpdated" -> event.payload @@ p
      [] event.type = "PriceChanged"   -> GivenCurrency(event.payload) @@ p
      [] event.type = "ProductDeleted" -> [p EXCEPT !.deleted = TRUE]
      [] OTHER -> p

(* Create records a currency, USD unless the command names another. *)
CreatedPayload(name, description, price, currency) ==
    [name |-> name, description |-> description, price |-> price,
     currency |-> IF currency = "" THEN "USD" ELSE currency]

(* Table products stores every field. *)
Columns(p) == p
=============================================================================
