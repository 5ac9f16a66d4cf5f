-------------------------------- MODULE Outbox --------------------------------
(***************************************************************************)
(* The transactional outbox (table outbox, internal/worker/outbox.go):     *)
(* rows become visible when their transaction commits, in any order of     *)
(* ids across entities; each instance's OutboxPublisher polls the          *)
(* unpublished rows and hands them to its NATS connection, one by one,     *)
(* marking each row published.  nats.Conn.Publish only appends to a buffer *)
(* of the connection, which is flushed to the broker later; an instance    *)
(* that stops takes its buffer with it.                                    *)
(***************************************************************************)
EXTENDS Integers, SequencesExt

CONSTANTS
    Aggregates,     \* entities whose commands write outbox rows
    Instances,      \* processes that run an OutboxPublisher
    BatchLimit,     \* LIMIT of the publisher's SELECT
    BrokerAtStart,  \* can a starting instance find the broker down?
    Oversized,      \* ids whose payload is above the broker's max_payload
    MaxRows,        \* bound: ids drawn from the outbox sequence
    MaxStops,       \* bound: stops of an instance
    MaxBreaks,      \* bound: breaks of a connection
    MaxFailures     \* bound: failed calls

ASSUME NumbersAssumption ==
    /\ BatchLimit \in Nat \ {0} /\ Oversized \subseteq Nat
    /\ MaxRows \in Nat /\ MaxStops \in Nat /\ MaxBreaks \in Nat
    /\ MaxFailures \in Nat
    /\ BrokerAtStart \subseteq {"open", "nil"} /\ BrokerAtStart # {}

VARIABLES
    sequence,   \* the sequence behind outbox.id
    open,       \* the id an entity's open transaction has drawn, 0 is none
    rows,       \* committed rows: [id, agg]
    published,  \* ids of the rows with published = TRUE
    pc,         \* what each publisher executes next
    nc,         \* its NATS connection
    batch,      \* ids its SELECT returned and it has not handled yet
    buffer,     \* messages its connection has accepted and not sent
    delivered,  \* messages the broker has received, in order
    stops, breaks, failures     \* so far

counts == <<stops, breaks, failures>>

vars == <<sequence, open, rows, published, pc, nc, batch, buffer, delivered,
          counts>>

tables == <<sequence, open, rows>>

Init ==
    /\ sequence = 0
    /\ open = [a \in Aggregates |-> 0]
    /\ rows = {} /\ published = {}
    /\ pc = [i \in Instances |-> "stopped"]
    /\ nc = [i \in Instances |-> "nil"]
    /\ batch = [i \in Instances |-> {}]
    /\ buffer = [i \in Instances |-> <<>>]
    /\ delivered = <<>>
    /\ stops = 0 /\ breaks = 0 /\ failures = 0

CountFailure ==
    /\ failures < MaxFailures /\ failures' = failures + 1
    /\ UNCHANGED <<stops, breaks>>

CountStop ==
    /\ stops < MaxStops /\ stops' = stops + 1
    /\ UNCHANGED <<breaks, failures>>

CountBreak ==
    /\ breaks < MaxBreaks /\ breaks' = breaks + 1
    /\ UNCHANGED <<stops, failures>>

-----------------------------------------------------------------------------
(* The write path: module Commands shows that an entity has at most one    *)
(* open transaction past its insert.                                       *)

DrawId(a) ==
    /\ open[a] = 0 /\ sequence < MaxRows
    /\ sequence' = sequence + 1
    /\ open' = [open EXCEPT ![a] = sequence + 1]
    /\ UNCHANGED <<rows, published, pc, nc, batch, buffer, delivered, counts>>

End(a, committed) ==
    /\ open[a] # 0
    /\ rows' = rows \cup committed
    /\ open' = [open EXCEPT ![a] = 0]
    /\ UNCHANGED <<sequence, published, pc, nc, batch, buffer, delivered, counts>>

CommitRow(a)   == End(a, {[id |-> open[a], agg |-> a]})
RollbackRow(a) == End(a, {})

-----------------------------------------------------------------------------
(* The publisher *)

(* main connects once: without a broker nc stays nil for good. *)
Start(i) ==
    /\ pc[i] = "stopped"
    /\ \E c \in BrokerAtStart : nc' = [nc EXCEPT ![i] = c]
    /\ pc' = [pc EXCEPT ![i] = "idle"]
    /\ UNCHANGED <<tables, published, batch, buffer, delivered, counts>>

(* Mutant: a publisher that continues behind the highest id it handled. *)
BeyondLastPublished == {r.id : r \in {s \in rows : \A id \in published : id < s.id}}

Unpublished == {r.id : r \in rows} \ published

(* WHERE published = FALSE ORDER BY id LIMIT *)
FirstUnpublished ==
    {id \in Unpublished : Cardinality({u \in Unpublished : u < id}) < BatchLimit}

(* Mutant: ORDER BY id DESC. *)
NewestFirst(i) == Max(batch[i])

(* The row of the batch that is handled next: they come in order of id. *)
Current(i) == Min(batch[i])

(* The ticker fires; a nil connection returns at once. *)
Poll(i) ==
    /\ pc[i] = "idle" /\ nc[i] # "nil" /\ Unpublished # {}
    /\ batch' = [batch EXCEPT ![i] = FirstUnpublished]
    /\ pc' = [pc EXCEPT ![i] = "publish"]
    /\ UNCHANGED <<tables, published, nc, buffer, delivered, counts>>

Publish(i) ==
    /\ pc[i] = "publish" /\ nc[i] = "open" /\ Current(i) \notin Oversized
    /\ buffer' = [buffer EXCEPT ![i] = Append(@, Current(i))]
    /\ pc' = [pc EXCEPT ![i] = "mark"]
    /\ UNCHANGED <<tables, published, nc, batch, delivered, counts>>

(* Mutant: the batch does not end with its last row. *)
NextInBatchTooFar(i) ==
    /\ batch' = [batch EXCEPT ![i] = @ \ {Current(i)}]
    /\ pc' = [pc EXCEPT ![i] = "publish"]

NextInBatch(i) ==
    /\ batch' = [batch EXCEPT ![i] = @ \ {Current(i)}]
    /\ pc' = [pc EXCEPT ![i] = IF batch[i] = {Current(i)} THEN "idle" ELSE "publish"]

(* A closed connection refuses every message, an open one a message above  *)
(* max_payload, each time it is tried, and any when its buffer is full     *)
(* while it reconnects.                                                    *)
Refuses(i) ==
    \/ nc[i] = "closed" /\ UNCHANGED counts
    \/ nc[i] = "open" /\ Current(i) \in Oversized /\ UNCHANGED counts
    \/ nc[i] = "open" /\ CountFailure

(* Mutant: a refused message is skipped, the batch goes on. *)
SkipRefused(i) ==
    /\ pc[i] = "publish"
    /\ Refuses(i)
    /\ NextInBatch(i)
    /\ UNCHANGED <<tables, published, nc, buffer, delivered>>

(* publishBatch returns: the refused row and the rest of the batch wait    *)
(* for the next tick, which starts with that row again.                    *)
PublishRefused(i) ==
    /\ pc[i] = "publish"
    /\ Refuses(i)
    /\ batch' = [batch EXCEPT ![i] = {}]
    /\ pc' = [pc EXCEPT ![i] = "idle"]
    /\ UNCHANGED <<tables, published, nc, buffer, delivered>>

(* Mutant: UPDATE ... WHERE id <= $1. *)
MarkUpTo(i) ==
    /\ pc[i] = "mark"
    /\ published' = published \cup {r.id : r \in {s \in rows : s.id <= Current(i)}}
    /\ NextInBatch(i)
    /\ UNCHANGED <<tables, nc, buffer, delivered, counts>>

Mark(i) ==
    /\ pc[i] = "mark"
    /\ published' = published \cup {Current(i)}
    /\ NextInBatch(i)
    /\ UNCHANGED <<tables, nc, buffer, delivered, counts>>

(* The error of the UPDATE is ignored. *)
MarkFails(i) ==
    /\ pc[i] = "mark"
    /\ CountFailure
    /\ NextInBatch(i)
    /\ UNCHANGED <<tables, published, nc, buffer, delivered>>

-----------------------------------------------------------------------------
(* The NATS connection and the instance *)

(* The connection's flusher sends the oldest buffered message. *)
Flush(i) ==
    /\ buffer[i] # <<>>
    /\ delivered' = Append(delivered, Head(buffer[i]))
    /\ buffer' = [buffer EXCEPT ![i] = Tail(@)]
    /\ UNCHANGED <<tables, published, pc, nc, batch, counts>>

(* The TCP connection breaks and the client reconnects: what was on its    *)
(* way is lost, what the client still holds is sent afterwards.            *)
Disconnect(i) ==
    /\ nc[i] = "open" /\ CountBreak
    /\ \E lost \in 1 .. Len(buffer[i]) :
          buffer' = [buffer EXCEPT ![i] = SubSeq(@, lost + 1, Len(@))]
    /\ UNCHANGED <<tables, published, pc, nc, batch, delivered>>

(* After its reconnect attempts the client closes the connection for good. *)
GiveUp(i) ==
    /\ nc[i] = "open" /\ CountBreak
    /\ nc' = [nc EXCEPT ![i] = "closed"]
    /\ buffer' = [buffer EXCEPT ![i] = <<>>]
    /\ UNCHANGED <<tables, published, pc, batch, delivered>>

Stop(i) ==
    /\ pc[i] # "stopped" /\ CountStop
    /\ pc' = [pc EXCEPT ![i] = "stopped"]
    /\ nc' = [nc EXCEPT ![i] = "nil"]
    /\ batch' = [batch EXCEPT ![i] = {}]
    /\ buffer' = [buffer EXCEPT ![i] = <<>>]
    /\ UNCHANGED <<tables, published, delivered>>

Step(i) == Start(i) \/ Poll(i) \/ Publish(i) \/ PublishRefused(i) \/ Mark(i)

Next ==
    \/ \E a \in Aggregates : DrawId(a) \/ CommitRow(a) \/ RollbackRow(a)
    \/ \E i \in Instances :
            \/ Step(i) \/ MarkFails(i) \/ Flush(i)
            \/ Disconnect(i) \/ GiveUp(i) \/ Stop(i)

Spec == Init /\ [][Next]_vars

(* An instance that stopped is started again, its ticker fires while it    *)
(* runs, its database calls return and its connection flushes.             *)
FairSpec == Spec /\ \A i \in Instances : WF_vars(Step(i)) /\ WF_vars(Flush(i))

-----------------------------------------------------------------------------
(* Properties *)

Ids == 1 .. MaxRows

(* Shapes of the outbox rows and of a publisher's locals. *)
TypeOK ==
    /\ sequence \in 0 .. MaxRows /\ open \in [Aggregates -> 0 .. MaxRows]
    /\ rows \subseteq [id : Ids, agg : Aggregates] /\ published \subseteq Ids
    /\ pc \in [Instances -> {"stopped", "idle", "publish", "mark"}]
    /\ nc \in [Instances -> {"nil", "open", "closed"}]
    /\ batch \in [Instances -> SUBSET Ids] /\ buffer \in [Instances -> Seq(Ids)]
    /\ delivered \in Seq(Ids)
    /\ \A i \in Instances : pc[i] \in {"publish", "mark"} => batch[i] # {}

Sent(id) == \E k \in DOMAIN delivered : delivered[k] = id

(* Position of the first delivery of a message. *)
FirstSent(id) == Min({k \in DOMAIN delivered : delivered[k] = id})

(* Consumers see an entity's events for the first time in version order:   *)
(* duplicates, batches and restarts do not reorder them as long as one     *)
(* instance publishes, nor do failed calls or broken connections, unless   *)
(* both happen (publishBatch ignores the error of its UPDATE).             *)
FirstDeliveriesInOrder ==
    failures = 0 \/ breaks = 0 =>
        \A r, s \in rows :
            /\ r.agg = s.agg /\ r.id < s.id
            /\ Sent(r.id) /\ Sent(s.id)
            => FirstSent(r.id) < FirstSent(s.id)

(* No message that i sends overtakes one that is not in the buffer of      *)
(* another instance.                                                       *)
OvertakesABufferAtMost(i) ==
    \A r, s \in rows :
        /\ r.agg = s.agg /\ r.id < s.id /\ ~Sent(r.id)
        /\ Flush(i) /\ Head(buffer[i]) = s.id
        => \E j \in Instances \ {i} : Contains(buffer[j], r.id)

(* An event is overtaken by a later one of its entity only while another   *)
(* instance's connection holds it back, as long as none is stopped or      *)
(* breaks: a publisher never passes over a row that nobody has published.  *)
OvertakenOnlyInBuffers ==
    [][stops = 0 /\ breaks = 0 => \A i \in Instances : OvertakesABufferAtMost(i)]_vars

Stored(id) == \E r \in rows : r.id = id

(* Every instance has started without a broker, or given its connection up. *)
WithoutBroker == \A i \in Instances : pc[i] = "idle" /\ nc[i] = "nil"
NotConnected  == \A i \in Instances : pc[i] = "idle" /\ nc[i] \in {"nil", "closed"}

(* An oversized row that is not behind id: it never goes out, and each     *)
(* batch ends with it, so that nothing behind it goes out either.          *)
Blocked(id) == \E r \in rows : r.id <= id /\ r.id \in Oversized

(* Nothing but a stop, a break of the connection or an oversized event in  *)
(* front loses an event: failed calls, transactions that commit behind     *)
(* later ids and a second publisher do not.  One instance that found the   *)
(* broker is enough.                                                       *)
DeliveredUnlessInterrupted ==
    \A id \in Ids :
        Stored(id) ~> Sent(id) \/ Blocked(id) \/ stops > 0 \/ breaks > 0 \/ WithoutBroker

(* The outbox drains up to its first oversized row: every row in front of  *)
(* it is eventually marked published, through failed calls, restarts and   *)
(* transactions that commit behind later ids, as long as some instance has *)
(* a connection.                                                           *)
OutboxDrains == \A id \in Ids : Stored(id) ~> id \in published \/ Blocked(id) \/ NotConnected

-----------------------------------------------------------------------------
(* What the repository's documents say and this publisher does not do *)

(* EVENT_STORE.md, ADR-003: every stored event reaches the broker at least *)
(* once.                                                                   *)
DeliveredAtLeastOnce == \A id \in Ids : Stored(id) ~> Sent(id)
=============================================================================
