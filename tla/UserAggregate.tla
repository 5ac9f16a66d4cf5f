---------------------------- MODULE UserAggregate ----------------------------
(***************************************************************************)
(* The user aggregate (internal/user/aggregate.go): the fields of a user   *)
(* and what each event does to them, and the columns of table users.       *)
(* Version, created_at and updated_at are kept by the modules that own the *)
(* event; a field is text, "" its zero value; a partial payload maps the   *)
(* fields that are not nil.                                                *)
(***************************************************************************)
EXTENDS TLC

New == [name |-> "", email |-> "", address |-> "", avatar |-> "", deleted |-> FALSE]

(* PasswordChanged and unknown event types leave every field alone. *)
Apply(u, event) ==
    CASE event.type = "UserCreated" -> [deleted |-> FALSE] @@ event.payload @@ u
      [] event.type = "UserUpdated" -> event.payload @@ u
      [] event.type \in {"EmailChanged", "AddressChanged", "AvatarChanged"} ->
             event.payload @@ u
      [] event.type = "UserDeleted" -> [u EXCEPT !.deleted = TRUE]
      [] OTHER -> u

(* Table users has no address and no avatar. *)
Columns(u) == [u EXCEPT !.address = "", !.avatar = ""]
=============================================================================
