---------------------------- MODULE MCIdempotency ----------------------------
(* Retried commands on a user and a product, for TLC. *)
EXTENDS Idempotency, TLC

CONSTANTS u1, p1

V(n)  == [version |-> n, prefixed |-> TRUE]

Request(agg, type, key, header, query) ==
    [agg |-> agg, type |-> type, valid |-> TRUE, key |-> key,
     header |-> header, query |-> query]

(* A creation, a conditional update that reuses its key, an update whose   *)
(* If-Match cannot be read, a product and a malformed request.             *)
SentRequests ==
    { Request(u1, "Created", "k1", Nil, Nil),
      Request(u1, "Updated", "k1", Nil, V(1)),
      Request(u1, "Updated", "k2", Unreadable, V(1)),
      Request(p1, "Created", "k2", Nil, Nil),
      [Request(u1, "Updated", "k2", Nil, Nil) EXCEPT !.valid = FALSE] }

HandlerSymmetry == Permutations(Handlers)
=============================================================================
