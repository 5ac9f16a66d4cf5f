-------------------------------- MODULE Entity --------------------------------
(***************************************************************************)
(* What an aggregate type brings to the write path and to the replay       *)
(* engine: the fields of a new entity, what an event does to them and what *)
(* its table stores of them.  UserAggregate, ProductAggregate and          *)
(* OrderAggregate give these parameters their values.                      *)
(***************************************************************************)
EXTENDS SequencesExt

CONSTANTS
    Fresh,              \* the fields of New(id)
    ApplyEvent(_, _),   \* the fields after Apply(event)
    TableColumns(_)     \* the fields the projection's table stores

(* The fields a history leads to: Apply, one event after the other. *)
ReplayOf(history) == FoldLeft(ApplyEvent, Fresh, history)
=============================================================================
