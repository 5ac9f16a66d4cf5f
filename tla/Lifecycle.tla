------------------------------ MODULE Lifecycle ------------------------------
(***************************************************************************)
(* One instance from the moment it serves to its exit (cmd/api/main.go):   *)
(* what runs in it and shares its connection pool - commands over HTTP,    *)
(* queries over gRPC, the OutboxPublisher and the CacheWarmer - and the    *)
(* order in which main closes things after a signal.  main waits for the   *)
(* servers and for the pool; it does not wait for the workers.             *)
(***************************************************************************)
EXTENDS Integers, FiniteSets, FiniteSetsExt

CONSTANTS
    Commands,   \* HTTP requests that change an entity
    Queries,    \* RPCs
    Rows,       \* ids of outbox rows
    PoolSize    \* connections of the pool

VARIABLES
    main,       \* where main is: what it closes next
    timer,      \* the ten seconds of shutdownCtx
    task,       \* what the handler of each request executes next
    publisher,  \* what the publisher executes next
    batch,      \* rows its SELECT returned and it has not handled
    warmer,     \* what the cache warmer executes next
    marked,     \* rows with published = TRUE
    buffer,     \* rows the NATS connection has accepted and not sent
    sent,       \* rows the broker has
    link        \* the NATS client's TCP connection: "again" after a break

broker == <<sent, link>>

workers == <<publisher, batch, warmer, marked, buffer, broker>>

vars == <<main, timer, task, workers>>

ASSUME NumbersAssumption == IsFiniteSet(Commands) /\ PoolSize \in Nat /\ Rows \subseteq Nat

Init ==
    /\ main = "running" /\ timer = "off"
    /\ task = [t \in Commands \cup Queries |-> "none"]
    /\ publisher = "idle" /\ batch = {} /\ warmer = "idle"
    /\ marked = {} /\ buffer = {} /\ sent = {} /\ link = "up"

InTransaction(c) == task[c] \in {"check", "commit"}

(* The open rows of a worker's query *)
Rowset(worker) == IF worker = "idle" THEN 0 ELSE 1

(* Mutant: neither the rows of the SELECT nor those of an UPDATE that is a *)
(* query are ever closed.                                                  *)
HeldAndLost ==
    Cardinality({c \in Commands : InTransaction(c)})
        + Rowset(publisher) + Rowset(warmer) + 2 * Cardinality(marked)

(* The connections in use between steps; other statements use one for a    *)
(* single step.                                                            *)
Held ==
    Cardinality({c \in Commands : InTransaction(c)})
        + Rowset(publisher) + Rowset(warmer)

PoolClosed == main \in {"pool", "exited"}

FreeConn == Held < PoolSize

CanAcquire == ~PoolClosed /\ FreeConn

(* The context of the workers *)
Cancelled == main # "running"

-----------------------------------------------------------------------------
(* Requests *)

Goto(t, label) == task' = [task EXCEPT ![t] = label]

(* The gRPC server stops accepting at once, the HTTP server when its       *)
(* Shutdown is called.                                                     *)
Accept(t) ==
    /\ task[t] = "none"
    /\ \/ t \in Commands /\ main \in {"running", "grpc"} /\ Goto(t, "begin")
       \/ t \in Queries /\ main = "running" /\ Goto(t, "query")
    /\ UNCHANGED <<main, timer, workers>>

Begin(c)  == task[c] = "begin" /\ CanAcquire /\ Goto(c, "check")
(* LatestVersion, on a second connection *)
Check(c)  == task[c] = "check" /\ CanAcquire /\ Goto(c, "commit")
Commit(c) == task[c] = "commit" /\ Goto(c, "read")
(* GetCurrent and the reply *)
Read(c)   == task[c] = "read" /\ CanAcquire /\ Goto(c, "answered")
Query(q)  == task[q] = "query" /\ CanAcquire /\ Goto(q, "answered")

(* A closed pool refuses to hand out the connection whose turn has come. *)
Refused(t) ==
    /\ task[t] \in {"begin", "check", "read", "query"} /\ PoolClosed /\ FreeConn
    /\ Goto(t, "failed")

Handle(t) ==
    /\ main # "exited"
    /\ Begin(t) \/ Check(t) \/ Commit(t) \/ Read(t) \/ Query(t) \/ Refused(t)
    /\ UNCHANGED <<main, timer, workers>>

-----------------------------------------------------------------------------
(* Workers *)

Poll ==
    /\ publisher = "idle" /\ ~Cancelled /\ CanAcquire /\ Rows \ marked # {}
    /\ publisher' = "publish" /\ batch' = Rows \ marked
    /\ UNCHANGED <<main, timer, task, warmer, marked, buffer, broker>>

NextInBatch ==
    /\ batch' = batch \ {Min(batch)}
    /\ publisher' = IF Cardinality(batch) > 1 THEN "publish" ELSE "idle"

Publish ==
    /\ publisher = "publish" /\ ~PoolClosed
    /\ buffer' = buffer \cup {Min(batch)}
    /\ publisher' = "mark"
    /\ UNCHANGED <<main, timer, task, batch, warmer, marked, broker>>

(* Mutant: a refused message is tried again at once. *)
RetryRefused ==
    /\ publisher = "publish" /\ PoolClosed
    /\ UNCHANGED vars

(* The NATS connection is closed, or its buffer is full while it           *)
(* reconnects, or the message is above max_payload.  The deferred Close    *)
(* ends the rows.                                                          *)
PublishRefused ==
    /\ publisher = "publish"
    /\ publisher' = "idle" /\ batch' = {}
    /\ UNCHANGED <<main, timer, task, warmer, marked, buffer, broker>>

(* A second connection; it may have had it when its context was cancelled. *)
Mark ==
    /\ publisher = "mark" /\ CanAcquire
    /\ marked' = marked \cup {Min(batch)}
    /\ NextInBatch
    /\ UNCHANGED <<main, timer, task, warmer, buffer, broker>>

MarkFails ==
    /\ publisher = "mark" /\ Cancelled
    /\ NextInBatch
    /\ UNCHANGED <<main, timer, task, warmer, marked, buffer, broker>>

Flush ==
    /\ ~PoolClosed /\ link # "down" /\ buffer # {}
    /\ sent' = sent \cup {Min(buffer)} /\ buffer' = buffer \ {Min(buffer)}
    /\ UNCHANGED <<main, timer, task, publisher, batch, warmer, marked, link>>

(* What was on its way is lost, what the client still holds is sent when   *)
(* it has reconnected.                                                     *)
LinkBreaks ==
    /\ ~PoolClosed /\ link # "down" /\ link' = "down"
    /\ \E kept \in SUBSET buffer : buffer' = kept
    /\ UNCHANGED <<main, timer, task, publisher, batch, warmer, marked, sent>>

LinkReturns ==
    /\ ~PoolClosed /\ link = "down" /\ link' = "again"
    /\ UNCHANGED <<main, timer, task, publisher, batch, warmer, marked, buffer, sent>>

(* The warmer's query stays open while it replays its entities; a replay   *)
(* fails when the context is cancelled.                                    *)
Warm ==
    /\ \/ warmer = "idle" /\ ~Cancelled /\ CanAcquire /\ warmer' = "scan"
       \/ warmer = "scan" /\ (CanAcquire \/ Cancelled) /\ warmer' = "idle"
    /\ UNCHANGED <<main, timer, task, publisher, batch, marked, buffer, broker>>

-----------------------------------------------------------------------------
(* main *)

Pending(t) == task[t] \notin {"none", "answered", "failed"}

(* The timer starts before GracefulStop, which has no limit. *)
Signal ==
    /\ main = "running" /\ main' = "grpc"
    /\ timer' = "running"
    /\ UNCHANGED <<task, workers>>

TimerEnds ==
    /\ timer = "running" /\ timer' = "out"
    /\ main # "exited"
    /\ UNCHANGED <<main, task, workers>>

GracefulStop ==
    /\ main = "grpc" /\ \A q \in Queries : ~Pending(q)
    /\ main' = "http"
    /\ UNCHANGED <<timer, task, workers>>

(* Mutant: srv.Close, which does not wait for requests. *)
CloseServer ==
    /\ main = "http"
    /\ main' = "nats"
    /\ UNCHANGED <<timer, task, workers>>

Shutdown ==
    /\ main = "http" /\ (timer = "out" \/ \A c \in Commands : ~Pending(c))
    /\ main' = "nats"
    /\ UNCHANGED <<timer, task, workers>>

(* Mutant: main ends without closing the connection. *)
LeaveNats ==
    /\ main = "nats" /\ main' = "pool"
    /\ UNCHANGED <<timer, task, workers>>

(* Close sends what is buffered, unless the client is reconnecting: then   *)
(* it drops it.                                                            *)
CloseNats ==
    /\ main = "nats" /\ main' = "pool"
    /\ sent' = sent \cup (IF link = "down" THEN {} ELSE buffer) /\ buffer' = {}
    /\ UNCHANGED <<timer, task, publisher, batch, warmer, marked, link>>

(* The deferred pool.Close waits for connections in use; main ends. *)
ClosePool ==
    /\ main = "pool" /\ Held = 0
    /\ main' = "exited"
    /\ UNCHANGED <<timer, task, workers>>

Close == GracefulStop \/ Shutdown \/ CloseNats \/ ClosePool

Work == Poll \/ Publish \/ PublishRefused \/ Mark \/ MarkFails

Next ==
    \/ \E t \in Commands \cup Queries : Accept(t) \/ Handle(t)
    \/ Work \/ Warm
    \/ Flush \/ LinkBreaks \/ LinkReturns
    \/ Signal \/ TimerEnds \/ Close

Spec == Init /\ [][Next]_vars

(* Database calls return, whoever waits for a connection that stays free   *)
(* gets it, and time passes.                                               *)
FairSpec ==
    /\ Spec
    /\ \A t \in Commands \cup Queries : WF_vars(Handle(t))
    /\ WF_vars(Work) /\ WF_vars(Warm) /\ WF_vars(TimerEnds) /\ WF_vars(Close)

-----------------------------------------------------------------------------
(* Properties *)

(* A shutdown cuts no RPC, and no request over HTTP while the ten seconds  *)
(* last - those a closed pool refuses included; nobody is cut between the  *)
(* start of its transaction and the end of it.                             *)
RequestsFinished ==
    \A t \in Commands \cup Queries :
        task[t] = "failed" \/ (main = "exited" /\ Pending(t)) =>
            t \in Commands /\ timer = "out" /\ ~InTransaction(t)

(* After an orderly exit every row that is marked as published has reached *)
(* the broker, although nobody waits for the publisher.  Not so after a    *)
(* break, which loses what was on its way, nor if main closes the client   *)
(* while it reconnects: the rows it still held are marked already.         *)
MarkedIsSent == main = "exited" /\ link = "up" => marked \subseteq sent

(* With a connection more than commands and workers can hold at once,      *)
(* every request is answered as long as the instance is not shut down,     *)
Answered ==
    \A t \in Commands \cup Queries :
        task[t] # "none" ~> (task[t] = "answered" \/ main # "running")

(* and every shutdown ends in an exit.                                     *)
ShutdownEnds == main # "running" ~> main = "exited"
=============================================================================
