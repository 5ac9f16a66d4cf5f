---------------------------- MODULE VersionedLog ----------------------------
(***************************************************************************)
(* What the write path promises: one append-only log per aggregate to      *)
(* which a command is appended atomically, or not at all.  The conditions  *)
(* of a command (create, must exist, expected version) hold of the log at  *)
(* the instant the event becomes part of it.  Refusals and failures do not *)
(* touch the log, so they are stuttering steps here.                       *)
(***************************************************************************)
EXTENDS Naturals, Sequences

CONSTANTS Aggregates, Requests, CreatedType, NoExpectation

VARIABLE log    \* log[a][v] is the change recorded as version v of a

Change(r) == [type |-> r.type, payload |-> r.payload]

Init == log = [a \in Aggregates |-> <<>>]

(* A create needs an empty log, any other command a started one; a command *)
(* that names a version is appended directly after that version.           *)
AppendTo(r) ==
    /\ (r.type = CreatedType) <=> (log[r.agg] = <<>>)
    /\ r.expected \in {NoExpectation, Len(log[r.agg])}
    /\ log' = [log EXCEPT ![r.agg] = Append(@, Change(r))]

Next == \E r \in Requests : AppendTo(r)

Spec == Init /\ [][Next]_log
=============================================================================
