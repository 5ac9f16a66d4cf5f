------------------------------ MODULE MCOutbox ------------------------------
(***************************************************************************)
(* The outbox for TLC: one publisher that is interrupted and serves two    *)
(* entities, and two publishers of which some may start without a broker.  *)
(* A behaviour is one or the other, which publishers says.                 *)
(***************************************************************************)
EXTENDS Outbox

CONSTANTS a1, i1, i2

VARIABLES publishers,   \* how many there are
    sequence2, open2, rows2, published2, pc2, nc2, batch2, buffer2, delivered2,
    stops2, breaks2, failures2                      \* Outbox, with two of them

vars2 == <<sequence2, open2, rows2, published2, pc2, nc2, batch2, buffer2, delivered2,
           stops2, breaks2, failures2>>

Two == INSTANCE Outbox WITH
    Aggregates <- {a1}, Instances <- {i1, i2}, BatchLimit <- 2,
    BrokerAtStart <- {"open", "nil"}, Oversized <- {},
    MaxRows <- 2, MaxStops <- 0, MaxBreaks <- 1, MaxFailures <- 1,
    sequence <- sequence2, open <- open2, rows <- rows2, published <- published2,
    pc <- pc2, nc <- nc2, batch <- batch2, buffer <- buffer2, delivered <- delivered2,
    stops <- stops2, breaks <- breaks2, failures <- failures2

ASSUME Two!NumbersAssumption

OutboxInit ==
    /\ publishers \in {1, 2}
    /\ Init /\ Two!Init

OutboxNext ==
    \/ publishers = 1 /\ Next /\ UNCHANGED <<publishers, vars2>>
    \/ publishers = 2 /\ Two!Next /\ UNCHANGED <<publishers, vars>>

(* Each with its own fairness; the other has no steps to take. *)
OutboxSpec ==
    /\ OutboxInit /\ [][OutboxNext]_<<publishers, vars, vars2>>
    /\ \A i \in Instances :
          /\ WF_vars(publishers = 1 /\ Step(i)) /\ WF_vars(publishers = 1 /\ Flush(i))
    /\ \A i \in {i1, i2} :
          /\ WF_vars2(publishers = 2 /\ Two!Step(i))
          /\ WF_vars2(publishers = 2 /\ Two!Flush(i))

-----------------------------------------------------------------------------
(* Properties of two publishers, or of both *)

(* Outbox!OvertakenOnlyInBuffers: what two publishers can do to the order. *)
TwoOvertakeOnlyInBuffers == Two!OvertakenOnlyInBuffers

(* Outbox!DeliveredUnlessInterrupted: only stops, breaks and an oversized  *)
(* event in front lose events, and one instance that found the broker is   *)
(* enough.                                                                 *)
AllDelivered == DeliveredUnlessInterrupted /\ Two!DeliveredUnlessInterrupted

(* Outbox!OutboxDrains: every row in front of the first oversized one is   *)
(* marked in the end, as long as some instance has a connection.           *)
AllDrain == OutboxDrains /\ Two!OutboxDrains
=============================================================================
