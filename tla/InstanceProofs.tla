---------------------------- MODULE InstanceProofs ----------------------------
(***************************************************************************)
(* Proofs about an instance of the service: the files it migrates before   *)
(* it serves, together with other instances (Migrate), its requests and    *)
(* workers until it exits (Lifecycle), and the requests it refuses while   *)
(* it serves (RateLimiter).                                                *)
(***************************************************************************)
EXTENDS Migrate, Lifecycle, RateLimiter, FiniteSetTheorems, TLAPS

-----------------------------------------------------------------------------
(* Migrate *)

Positions == {"down", "create", "check", "exec", "wait", "record", "commit", "serving"}

MigrateTypeOK ==
    /\ pc \in [Instances -> Positions]
    /\ files \in [Instances -> Nat]
    /\ next \in [Instances -> Nat \ {0}]
    /\ applied \in Seq(Nat)

Count == Len(applied)

(* The files before the one an instance is at are applied. *)
Reached ==
    \A i \in Instances : pc[i] # "down" => next[i] <= Count + 1

(* At most one transaction has created the tables of the next file, since  *)
(* the catalog lets nobody else create them before it ends.                *)
OneCreator ==
    \A i \in Instances, j \in Instances :
        /\ pc[i] \in {"record", "commit"} /\ next[i] = Count + 1
        /\ pc[j] \in {"record", "commit"} /\ next[j] = Count + 1
        => i = j

(* A transaction that recorded a file is about the next one. *)
CommitsNext == \A i \in Instances : pc[i] = "commit" => next[i] = Count + 1

Finished == \A i \in Instances : pc[i] = "serving" => files[i] < next[i]

MigrateInv == MigrateTypeOK /\ AppliedOnceInOrder /\ Reached /\ OneCreator /\ CommitsNext /\ Finished

-----------------------------------------------------------------------------

(* Under AppliedOnceInOrder the applied files are the first Count ones. *)
LEMMA AppliedAreFirst ==
    ASSUME MigrateTypeOK, AppliedOnceInOrder, NEW f \in Nat \ {0}
    PROVE  /\ IsApplied(f) <=> f <= Count
           /\ f \in recorded <=> f <= Count
<1>1. Count \in Nat /\ DOMAIN applied = 1 .. Count
  BY DEF MigrateTypeOK, Count
<1>2. \A k \in 1 .. Count : applied[k] = k
  BY DEF AppliedOnceInOrder, Count
<1>3. IsApplied(f) <=> f <= Count
  BY <1>1, <1>2 DEF IsApplied
<1>4. QED
  BY <1>1, <1>3 DEF AppliedOnceInOrder, Count

(* The initial state satisfies the inductive invariant. *)
LEMMA MigrateInvInit == ASSUME MigrateInit PROVE MigrateInv
<1>1. Len(applied) = 0 /\ 1 .. 0 = {} /\ applied \in Seq(Nat)
  BY DEF MigrateInit
<1>2. applied = [k \in 1 .. Len(applied) |-> k]
  BY <1>1 DEF MigrateInit
<1>3. AppliedOnceInOrder
  BY <1>1, <1>2 DEF MigrateInit, AppliedOnceInOrder
<1>4. MigrateTypeOK /\ Reached /\ OneCreator /\ CommitsNext /\ Finished
  BY <1>1 DEF MigrateInit, MigrateTypeOK, Reached, OneCreator, CommitsNext, Finished, Positions
<1>5. QED
  BY <1>3, <1>4 DEF MigrateInv

(* Under the type invariant a move is pointwise. *)
LEMMA OthersStay ==
    ASSUME MigrateTypeOK, NEW i \in Instances,
           pc' = [pc EXCEPT ![i] = pc'[i]], next' = [next EXCEPT ![i] = next'[i]],
           files' = [files EXCEPT ![i] = files'[i]],
           pc'[i] \in Positions, next'[i] \in Nat \ {0}, files'[i] \in Nat
    PROVE  /\ pc' \in [Instances -> Positions] /\ next' \in [Instances -> Nat \ {0}]
           /\ files' \in [Instances -> Nat]
           /\ \A j \in Instances \ {i} :
                 pc'[j] = pc[j] /\ next'[j] = next[j] /\ files'[j] = files[j]
BY DEF MigrateTypeOK

(* A step of one instance that leaves the database alone keeps the         *)
(* invariant if what the invariant says of that instance holds again.      *)
LEMMA LocalStep ==
    ASSUME MigrateInv, NEW i \in Instances,
           pc' = [pc EXCEPT ![i] = pc'[i]], next' = [next EXCEPT ![i] = next'[i]],
           files' = [files EXCEPT ![i] = files'[i]],
           pc'[i] \in Positions, next'[i] \in Nat \ {0}, files'[i] \in Nat,
           UNCHANGED database,
           pc'[i] # "down" => next'[i] <= Count + 1,
           pc'[i] = "commit" => next'[i] = Count + 1,
           pc'[i] = "serving" => files'[i] < next'[i],
           pc'[i] \in {"record", "commit"} /\ next'[i] = Count + 1 =>
               \A j \in Instances \ {i} :
                   ~(pc[j] \in {"record", "commit"} /\ next[j] = Count + 1)
    PROVE  MigrateInv'
<1>1. applied' = applied /\ recorded' = recorded /\ Count' = Count
  BY DEF database, Count
<1>2. AppliedOnceInOrder'
  BY <1>1 DEF MigrateInv, AppliedOnceInOrder
<1>3. \A j \in Instances \ {i} :
         pc'[j] = pc[j] /\ next'[j] = next[j] /\ files'[j] = files[j]
  BY OthersStay DEF MigrateInv
<1>4. MigrateTypeOK'
  BY <1>1, OthersStay DEF MigrateInv, MigrateTypeOK
<1>5. Reached' /\ CommitsNext' /\ Finished'
  BY <1>1, <1>3 DEF MigrateInv, Reached, CommitsNext, Finished
<1>6. OneCreator'
  BY <1>1, <1>3 DEF MigrateInv, OneCreator
<1>7. QED
  BY <1>2, <1>4, <1>5, <1>6 DEF MigrateInv

(* A commit applies the next file, and no other transaction had created it. *)
LEMMA CommitStep ==
    ASSUME MigrateInv, NEW i \in Instances, pc[i] = "commit", CommitFile(i),
           pc' = [pc EXCEPT ![i] = pc'[i]], next' = [next EXCEPT ![i] = next'[i]],
           pc'[i] \in {"check", "down"}, next'[i] \in {next[i], next[i] + 1},
           UNCHANGED files
    PROVE  MigrateInv'
<1>1. /\ next[i] = Count + 1 /\ Count \in Nat
      /\ \A j \in Instances \ {i} :
            ~(pc[j] \in {"record", "commit"} /\ next[j] = Count + 1)
  BY DEF MigrateInv, CommitsNext, OneCreator, MigrateTypeOK, Count
<1>2. applied' = Append(applied, Count + 1) /\ recorded' = recorded \cup {Count + 1}
  BY <1>1 DEF CommitFile
<1>3. Count' = Count + 1 /\ applied' \in Seq(Nat)
  BY <1>1, <1>2 DEF Count, MigrateInv, MigrateTypeOK
<1>4. AppliedOnceInOrder'
  <2>1. recorded' = 1 .. Count'
    BY <1>1, <1>2, <1>3 DEF MigrateInv, AppliedOnceInOrder, Count
  <2>2. \A k \in 1 .. Count : applied[k] = k
    BY DEF MigrateInv, AppliedOnceInOrder, Count
  <2>3. \A k \in 1 .. Count' : applied'[k] = k
    BY <1>1, <1>2, <1>3, <2>2 DEF MigrateInv, MigrateTypeOK, Count
  <2>4. applied' = [k \in 1 .. Count' |-> applied'[k]]
    BY <1>3 DEF Count
  <2>5. applied' = [k \in 1 .. Count' |-> k]
    BY <2>3, <2>4
  <2>6. QED
    BY <2>1, <2>5 DEF AppliedOnceInOrder, Count
<1>5. files' = [files EXCEPT ![i] = files'[i]] /\ files'[i] \in Nat
  BY DEF MigrateInv, MigrateTypeOK
<1>6. next'[i] \in Nat \ {0} /\ pc'[i] \in Positions
  BY DEF MigrateInv, MigrateTypeOK, Positions
<1>7. \A j \in Instances \ {i} :
         pc'[j] = pc[j] /\ next'[j] = next[j] /\ files'[j] = files[j]
  BY <1>5, <1>6, OthersStay DEF MigrateInv
<1>8. MigrateTypeOK'
  BY <1>3, <1>5, <1>6, OthersStay DEF MigrateInv, MigrateTypeOK
<1>9. \A j \in Instances \ {i} :
         pc[j] \in {"record", "commit"} => next[j] < Count + 1
  <2> SUFFICES ASSUME NEW j \in Instances \ {i}, pc[j] \in {"record", "commit"}
               PROVE  next[j] < Count + 1
    OBVIOUS
  <2>1. next[j] <= Count + 1 /\ next[j] # Count + 1 /\ next[j] \in Nat
    BY <1>1 DEF MigrateInv, Reached, MigrateTypeOK
  <2>2. QED
    BY <1>1, <2>1
<1>10. Reached'
  BY <1>1, <1>3, <1>7 DEF MigrateInv, Reached, MigrateTypeOK
<1>11. CommitsNext' /\ Finished'
  BY <1>1, <1>7, <1>9 DEF MigrateInv, CommitsNext, Finished, MigrateTypeOK
<1>12. OneCreator'
  BY <1>1, <1>3, <1>7, <1>9 DEF OneCreator, MigrateInv, MigrateTypeOK
<1>13. QED
  BY <1>4, <1>8, <1>10, <1>11, <1>12 DEF MigrateInv

(* Nobody has created the tables of a file that is not applied: only then  *)
(* does a transaction create them.                                         *)
LEMMA NoCreator ==
    ASSUME MigrateInv, NEW f \in Nat \ {0}, Creators(f) = {}, f = Count + 1
    PROVE  \A j \in Instances : ~(pc[j] \in {"record", "commit"} /\ next[j] = Count + 1)
<1>1. ~IsApplied(f)
  BY AppliedAreFirst DEF MigrateInv, MigrateTypeOK, Count
<1>2. QED
  BY <1>1 DEF Creators

(* Every step keeps the inductive invariant. *)
LEMMA MigrateInvStep == ASSUME MigrateInv, [MigrateNext]_migration PROVE MigrateInv'
<1>1. CASE UNCHANGED migration
  BY <1>1 DEF migration, MigrateInv, MigrateTypeOK, AppliedOnceInOrder, Reached, OneCreator, CommitsNext,
              Finished, Count
<1>2. ASSUME NEW i \in Instances, Proceed(i) \/ CommitUnanswered(i) \/ Fail(i)
      PROVE  MigrateInv'
  <2>1. /\ pc[i] \in Positions /\ next[i] \in Nat \ {0} /\ files[i] \in Nat /\ Count \in Nat
        /\ next = [next EXCEPT ![i] = next[i]] /\ files = [files EXCEPT ![i] = files[i]]
        /\ pc = [pc EXCEPT ![i] = pc[i]]
        /\ DOMAIN pc = Instances /\ DOMAIN next = Instances /\ DOMAIN files = Instances
    BY DEF MigrateInv, MigrateTypeOK, Count
  <2>2. pc[i] # "down" => next[i] <= Count + 1
    BY DEF MigrateInv, Reached
  <2>3. /\ IsApplied(next[i]) <=> next[i] <= Count
        /\ next[i] \in recorded <=> next[i] <= Count
    BY <2>1, AppliedAreFirst DEF MigrateInv
  <2>4. CASE Start(i)
    <3>1. /\ files' = [files EXCEPT ![i] = files'[i]] /\ files'[i] \in Nat
          /\ pc' = [pc EXCEPT ![i] = pc'[i]] /\ pc'[i] = "create"
          /\ next' = [next EXCEPT ![i] = next'[i]] /\ next'[i] = 1
          /\ UNCHANGED database
      BY <2>1, <2>4, ReleasesAssumption DEF Start, Jump
    <3>2. QED
      BY <2>1, <3>1, LocalStep DEF Positions
  <2>5. CASE CreateTable(i) \/ Wait(i) \/ Collide(i) \/ RecordRefused(i) \/ Fail(i)
    <3>1. /\ pc' = [pc EXCEPT ![i] = pc'[i]] /\ pc'[i] \in {"check", "wait", "down"}
          /\ pc[i] = "down" => pc'[i] = "down"
          /\ UNCHANGED <<next, files, database>>
      BY <2>1, <2>5 DEF CreateTable, Wait, Collide, RecordRefused, Fail, Jump
    <3>2. QED
      BY <2>1, <2>2, <3>1, LocalStep DEF Positions
  <2>6. CASE CheckFile(i)
    <3>1. pc[i] = "check" /\ UNCHANGED <<files, database>>
      BY <2>6 DEF CheckFile
    <3>2. CASE next[i] > files[i] /\ Jump(i, "serving") /\ UNCHANGED next
      <4>1. pc' = [pc EXCEPT ![i] = pc'[i]] /\ pc'[i] = "serving"
        BY <2>1, <3>2 DEF Jump
      <4>2. QED
        BY <2>1, <2>2, <3>1, <3>2, <4>1, LocalStep DEF Positions
    <3>3. CASE /\ next[i] \in recorded
               /\ next' = [next EXCEPT ![i] = @ + 1] /\ UNCHANGED pc
      <4>1. /\ next' = [next EXCEPT ![i] = next'[i]] /\ next'[i] = next[i] + 1
            /\ next[i] <= Count
        BY <2>1, <2>3, <3>3
      <4>2. pc' = [pc EXCEPT ![i] = pc'[i]] /\ pc'[i] = "check"
        BY <2>1, <3>1, <3>3
      <4>3. next'[i] \in Nat \ {0} /\ next'[i] <= Count + 1
        BY <2>1, <4>1
      <4>4. QED
        BY <2>1, <3>1, <4>1, <4>2, <4>3, LocalStep DEF Positions
    <3>4. CASE Jump(i, "exec") /\ UNCHANGED next
      <4>1. pc' = [pc EXCEPT ![i] = pc'[i]] /\ pc'[i] = "exec"
        BY <2>1, <3>4 DEF Jump
      <4>2. QED
        BY <2>1, <2>2, <3>1, <3>4, <4>1, LocalStep DEF Positions
    <3>5. QED
      BY <2>6, <3>2, <3>3, <3>4 DEF CheckFile
  <2>7. CASE Exec(i) \/ ExecAfterWait(i)
    <3>1. /\ pc' = [pc EXCEPT ![i] = pc'[i]] /\ pc'[i] = "record" /\ pc[i] # "down"
          /\ Creators(next[i]) = {} /\ UNCHANGED <<next, files, database>>
      BY <2>1, <2>7 DEF Exec, ExecAfterWait, Jump
    <3>2. next[i] = Count + 1 =>
             \A j \in Instances :
                ~(pc[j] \in {"record", "commit"} /\ next[j] = Count + 1)
      BY <2>1, <3>1, NoCreator
    <3>3. QED
      BY <2>1, <2>2, <3>1, <3>2, LocalStep DEF Positions
  <2>8. CASE Record(i)
    <3>1. /\ pc' = [pc EXCEPT ![i] = pc'[i]] /\ pc'[i] = "commit" /\ pc[i] = "record"
          /\ next[i] \notin recorded /\ UNCHANGED <<next, files, database>>
      BY <2>1, <2>8 DEF Record, Jump
    <3>2. next[i] = Count + 1
      BY <2>1, <2>2, <2>3, <3>1
    <3>3. \A j \in Instances \ {i} :
             ~(pc[j] \in {"record", "commit"} /\ next[j] = Count + 1)
      BY <3>1, <3>2 DEF MigrateInv, OneCreator
    <3>4. QED
      BY <2>1, <3>1, <3>2, <3>3, LocalStep DEF Positions
  <2>9. CASE CommitAnswered(i) \/ CommitUnanswered(i)
    <3>1. /\ pc[i] = "commit" /\ CommitFile(i) /\ UNCHANGED files
          /\ pc' = [pc EXCEPT ![i] = pc'[i]] /\ pc'[i] \in {"check", "down"}
          /\ next' = [next EXCEPT ![i] = next'[i]]
          /\ next'[i] \in {next[i], next[i] + 1}
      BY <2>1, <2>9 DEF CommitAnswered, CommitUnanswered, Jump
    <3>2. QED
      BY <3>1, CommitStep
  <2>10. QED
    BY <1>2, <2>4, <2>5, <2>6, <2>7, <2>8, <2>9 DEF Proceed
<1>3. QED
  BY <1>1, <1>2 DEF MigrateNext

(* The inductive invariant holds in every reachable state. *)
THEOREM MigrateInvariant == MigrateSpec => []MigrateInv
<1>1. MigrateInit => MigrateInv
  BY MigrateInvInit
<1>2. MigrateInv /\ [MigrateNext]_migration => MigrateInv'
  BY MigrateInvStep
<1>3. QED
  BY <1>1, <1>2, PTL DEF MigrateSpec

(* migrate.Up: for any number of instances, releases, failures and         *)
(* restarts, the files are applied once each, in the order of their names, *)
(* and exactly those are recorded.                                         *)
THEOREM FilesAppliedOnce == MigrateSpec => []AppliedOnceInOrder
<1>1. MigrateInv => AppliedOnceInOrder
  BY DEF MigrateInv
<1>2. QED
  BY <1>1, MigrateInvariant, PTL

(* main: an instance that serves finds every table of its release, even if *)
(* others of other releases migrate, fail and restart beside it.           *)
THEOREM NobodyServesWithoutTables == MigrateSpec => []ServesMigrated
<1>1. ASSUME MigrateInv, NEW i \in Instances, pc[i] = "serving", NEW f \in 1 .. files[i]
      PROVE  IsApplied(f)
  <2>1. files[i] < next[i] /\ next[i] <= Count + 1
    BY <1>1 DEF MigrateInv, Finished, Reached
  <2>2. files[i] \in Nat /\ next[i] \in Nat /\ Count \in Nat
    BY <1>1 DEF MigrateInv, MigrateTypeOK, Count
  <2>3. f \in Nat \ {0} /\ f <= Count
    BY <2>1, <2>2
  <2>4. QED
    BY <1>1, <2>3, AppliedAreFirst DEF MigrateInv
<1>2. MigrateInv => ServesMigrated
  BY <1>1 DEF ServesMigrated
<1>3. QED
  BY <1>2, MigrateInvariant, PTL

-----------------------------------------------------------------------------
(* Lifecycle *)

Requests == Commands \cup Queries

Stages == {"running", "grpc", "http", "nats", "pool", "exited"}

Labels == {"none", "begin", "check", "commit", "read", "query", "answered", "failed"}

TypeOK ==
    /\ main \in Stages
    /\ timer \in {"off", "running", "out"}
    /\ task \in [Requests -> Labels]
    /\ publisher \in {"idle", "publish", "mark"}
    /\ warmer \in {"idle", "scan"} /\ link \in {"up", "down", "again"}

(* The ten seconds begin with the signal. *)
TimerOff == main = "running" => timer = "off"

(* The gRPC server has stopped: what is pending came over HTTP. *)
GrpcStopped ==
    main \in {"http", "nats", "pool", "exited"} =>
        \A t \in Requests : Pending(t) => t \in Commands

(* The HTTP server has stopped: what is pending has used up its time. *)
HttpStopped ==
    main \in {"nats", "pool", "exited"} =>
        timer = "out" \/ \A t \in Requests : ~Pending(t)

(* pool.Close has returned: no transaction is open. *)
PoolEmpty == main = "exited" => \A t \in Requests : ~InTransaction(t)

FailedLate == \A t \in Requests : task[t] = "failed" => t \in Commands /\ timer = "out"

(* Unless the link broke, what a worker has published or marked is with    *)
(* the client or the broker.                                               *)
Accepted ==
    link = "up" =>
        /\ marked \subseteq buffer \cup sent
        /\ publisher = "mark" => Min(batch) \in buffer \cup sent

Flushed == main \in {"pool", "exited"} => buffer = {}

IInv == /\ TypeOK
        /\ TimerOff /\ GrpcStopped /\ HttpStopped /\ PoolEmpty /\ FailedLate
        /\ Accepted /\ Flushed

-----------------------------------------------------------------------------

(* The initial state satisfies the inductive invariant. *)
LEMMA InitIInv == Init => IInv
BY DEF Init, IInv, TypeOK, TimerOff, GrpcStopped, HttpStopped, PoolEmpty, FailedLate, Accepted,
       Flushed, Requests, Stages, Labels, Pending, InTransaction

(* A step of a handler keeps what the invariant says of requests. *)
LEMMA RequestStep ==
    ASSUME IInv, NEW t \in Requests, Accept(t) \/ Handle(t)
    PROVE  IInv'
<1>1. /\ UNCHANGED <<main, timer, workers>>
      /\ task' = [task EXCEPT ![t] = task'[t]] /\ task'[t] \in Labels
      /\ main # "exited"
      /\ Pending(t) \/ main = "running" \/ (main = "grpc" /\ t \in Commands)
      /\ task'[t] = "failed" => Pending(t) /\ PoolClosed
      /\ task[t] = "none" \/ Pending(t)
  BY DEF Accept, Handle, Begin, Check, Commit, Read, Query, Refused, Goto, Labels, IInv,
         TypeOK, Requests, Pending, Stages, PoolClosed
<1>2. TypeOK'
  BY <1>1 DEF IInv, TypeOK, workers, broker
<1>3. \A u \in Requests \ {t} : task'[u] = task[u]
  BY <1>1 DEF IInv, TypeOK
<1>4. Accepted' /\ Flushed'
  BY <1>1 DEF IInv, Accepted, Flushed, workers, broker
<1>5. TimerOff' /\ GrpcStopped'
  BY <1>1, <1>3 DEF IInv, TimerOff, GrpcStopped, Pending
<1>6. HttpStopped'
  BY <1>1, <1>3 DEF IInv, HttpStopped, Pending
<1>7. PoolEmpty'
  BY <1>1 DEF PoolEmpty
<1>8. FailedLate'
  BY <1>1, <1>3 DEF IInv, FailedLate, PoolClosed, GrpcStopped, HttpStopped
<1>9. QED
  BY <1>2, <1>4, <1>5, <1>6, <1>7, <1>8 DEF IInv

(* A step of a worker or of the broker's client keeps what it says of rows. *)
LEMMA WorkerStep ==
    ASSUME IInv, Work \/ Warm \/ Flush \/ LinkBreaks \/ LinkReturns
    PROVE  IInv'
<1>1. UNCHANGED <<main, timer, task>>
  BY DEF Work, Warm, Flush, Poll, Publish, PublishRefused, Mark, MarkFails, LinkBreaks,
         LinkReturns
<1>2. TypeOK'
  BY <1>1 DEF IInv, TypeOK, Work, Warm, Flush, Poll, Publish, PublishRefused, Mark,
              MarkFails, NextInBatch, LinkBreaks, LinkReturns, broker
<1>3. TimerOff' /\ GrpcStopped' /\ HttpStopped' /\ PoolEmpty' /\ FailedLate'
  BY <1>1 DEF IInv, TimerOff, GrpcStopped, HttpStopped, PoolEmpty, FailedLate, Pending,
              InTransaction
<1>4. Accepted'
  <2>1. CASE Poll \/ PublishRefused \/ Warm
    BY <2>1 DEF IInv, Accepted, Poll, PublishRefused, Warm, broker
  <2>2. CASE Publish
    BY <2>2 DEF IInv, Accepted, Publish, broker
  <2>3. CASE Mark \/ MarkFails
    BY <2>3 DEF IInv, Accepted, Mark, MarkFails, NextInBatch, broker
  <2>4. CASE Flush
    BY <2>4 DEF IInv, Accepted, Flush
  <2>5. CASE LinkBreaks \/ LinkReturns
    BY <2>5 DEF Accepted, LinkBreaks, LinkReturns
  <2>6. QED
    BY <2>1, <2>2, <2>3, <2>4, <2>5 DEF Work
<1>5. Flushed'
  BY <1>1 DEF IInv, Flushed, PoolClosed, Work, Warm, Flush, Poll, Publish,
              PublishRefused, Mark, MarkFails, LinkBreaks, LinkReturns
<1>6. QED
  BY <1>2, <1>3, <1>4, <1>5 DEF IInv

(* pool.Close returns only when no transaction is open. *)
LEMMA NothingHeld ==
    ASSUME IInv, Held = 0
    PROVE  \A c \in Commands : ~InTransaction(c)
<1> DEFINE Open == {c \in Commands : InTransaction(c)}
<1>1. IsFiniteSet(Open) /\ Cardinality(Open) \in Nat
  BY NumbersAssumption, FS_Subset, FS_CardinalityType
<1>2. Rowset(publisher) \in Nat /\ Rowset(warmer) \in Nat
  BY DEF Rowset
<1>3. Cardinality(Open) + Rowset(publisher) + Rowset(warmer) = 0
  BY DEF Held
<1>4. Cardinality(Open) = 0
  <2> HIDE DEF Open
  <2>1. QED
    BY <1>1, <1>2, <1>3
<1>5. Open = {}
  BY <1>1, <1>4, FS_EmptySet
<1>6. QED
  BY <1>5

(* A step of main closes one thing after the other. *)
LEMMA MainStep ==
    ASSUME IInv, Signal \/ TimerEnds \/ Close
    PROVE  IInv'
<1>1. CASE Signal
  BY <1>1 DEF Signal, IInv, TypeOK, TimerOff, GrpcStopped, HttpStopped, PoolEmpty, FailedLate,
              Accepted, Flushed, workers, broker, Pending, InTransaction, Stages
<1>2. CASE TimerEnds
  BY <1>2 DEF TimerEnds, IInv, TypeOK, TimerOff, GrpcStopped, HttpStopped, PoolEmpty, FailedLate,
              Accepted, Flushed, workers, broker, Pending, InTransaction
<1>3. CASE GracefulStop
  BY <1>3 DEF GracefulStop, IInv, TypeOK, TimerOff, GrpcStopped, HttpStopped, PoolEmpty, FailedLate,
              Accepted, Flushed, workers, broker, Pending, InTransaction, Stages, Requests
<1>4. CASE Shutdown
  BY <1>4 DEF Shutdown, IInv, TypeOK, TimerOff, GrpcStopped, HttpStopped, PoolEmpty, FailedLate,
              Accepted, Flushed, workers, broker, Pending, InTransaction, Stages, Requests
<1>5. CASE CloseNats
  BY <1>5 DEF CloseNats, IInv, TypeOK, TimerOff, GrpcStopped, HttpStopped, PoolEmpty, FailedLate,
              Accepted, Flushed, Pending, InTransaction, Stages
<1>6. CASE ClosePool
  <2>1. \A c \in Commands : ~InTransaction(c)
    BY <1>6, NothingHeld DEF ClosePool
  <2>2. main = "pool" /\ main' = "exited" /\ UNCHANGED <<timer, task, workers>>
    BY <1>6 DEF ClosePool
  <2>3. PoolEmpty'
    BY <2>1, <2>2 DEF PoolEmpty, IInv, GrpcStopped, InTransaction, Pending
  <2>4. QED
    BY <2>2, <2>3 DEF IInv, TypeOK, TimerOff, GrpcStopped, HttpStopped, FailedLate,
                      Accepted, Flushed, workers, broker, Pending, Stages
<1>7. QED
  BY <1>1, <1>2, <1>3, <1>4, <1>5, <1>6 DEF Close

(* The inductive invariant holds in every reachable state. *)
THEOREM Invariant == Spec => []IInv
<1>1. Init => IInv
  BY InitIInv
<1>2. IInv /\ [Next]_vars => IInv'
  <2> SUFFICES ASSUME IInv, [Next]_vars PROVE IInv'
    OBVIOUS
  <2>1. CASE UNCHANGED vars
    BY <2>1 DEF vars, IInv, TypeOK, TimerOff, GrpcStopped, HttpStopped, PoolEmpty, FailedLate,
                Accepted, Flushed, Pending, InTransaction, workers, broker
  <2>2. CASE \E t \in Requests : Accept(t) \/ Handle(t)
    BY <2>2, RequestStep
  <2>3. CASE Work \/ Warm \/ Flush \/ LinkBreaks \/ LinkReturns
    BY <2>3, WorkerStep
  <2>4. CASE Signal \/ TimerEnds \/ Close
    BY <2>4, MainStep
  <2>5. QED
    BY <2>1, <2>2, <2>3, <2>4 DEF Next, Requests
<1>3. QED
  BY <1>1, <1>2, PTL DEF Spec

(* main's shutdown, for any number of requests, rows and connections: it   *)
(* cuts no RPC, and no HTTP request before the ten seconds are over or in  *)
(* the middle of its transaction.                                          *)
THEOREM NoRequestCutShort == Spec => []RequestsFinished
<1>1. ASSUME IInv, NEW t \in Requests,
             task[t] = "failed" \/ (main = "exited" /\ Pending(t))
      PROVE  t \in Commands /\ timer = "out" /\ ~InTransaction(t)
  BY <1>1 DEF IInv, FailedLate, GrpcStopped, HttpStopped, PoolEmpty, InTransaction
<1>2. IInv => RequestsFinished
  BY <1>1 DEF RequestsFinished, Requests
<1>3. QED
  BY <1>2, Invariant, PTL

(* nc.Close before the exit, of a connection that never broke: for any     *)
(* rows, what is marked as published has reached the broker, although      *)
(* nobody waits for the publisher.                                         *)
THEOREM MarkedReachBroker == Spec => []MarkedIsSent
<1>1. IInv => MarkedIsSent
  BY DEF IInv, MarkedIsSent, Accepted, Flushed
<1>2. QED
  BY <1>1, Invariant, PTL

-----------------------------------------------------------------------------
(* Who a shutdown waits for *)

(* The guards of Handle, of Work and Warm past their polls, of TimerEnds   *)
(* and of Close: what can go on without a new request or poll.             *)
HandlerReady(t) ==
    /\ main # "exited"
    /\ task[t] = "commit" \/ (task[t] \in {"begin", "check", "read", "query"} /\ FreeConn)

WorkerReady ==
    \/ publisher = "publish"
    \/ publisher = "mark" /\ (CanAcquire \/ Cancelled)
    \/ warmer = "scan" /\ (CanAcquire \/ Cancelled)

MainReady ==
    \/ timer = "running"
    \/ main = "grpc" /\ \A q \in Queries : ~Pending(q)
    \/ main = "http" /\ (timer = "out" \/ \A c \in Commands : ~Pending(c))
    \/ main = "nats"
    \/ main = "pool" /\ Held = 0

ShutdownStuck ==
    /\ main \notin {"running", "exited"}
    /\ ~MainReady /\ ~WorkerReady /\ \A t \in Requests : ~HandlerReady(t)

(* All connections are those of commands that wait for a second one. *)
CommandsHoldPool ==
    /\ ~FreeConn /\ publisher = "idle" /\ warmer = "idle"
    /\ \A c \in Commands : InTransaction(c) => task[c] = "check"

TimerOn == main # "running" => timer # "off"

LEMMA TimerRuns == Spec => []TimerOn
<1>1. Init => TimerOn
  BY DEF Init, TimerOn
<1>2. TimerOn /\ [Next]_vars => TimerOn'
  BY DEF TimerOn, Next, vars, workers, Accept, Handle, Work, Poll, Publish, PublishRefused,
     Mark, MarkFails, Warm, Flush, LinkBreaks, LinkReturns, Signal, TimerEnds, Close, GracefulStop, Shutdown,
     CloseNats, ClosePool
<1> QED
  BY <1>1, <1>2, PTL DEF Spec

LEMMA StuckOnCommands ==
    ASSUME TypeOK, TimerOn, ShutdownStuck
    PROVE  main \in {"grpc", "pool"} /\ CommandsHoldPool
<1>1. main \in {"grpc", "http", "pool"}
  BY DEF TypeOK, Stages, ShutdownStuck, MainReady
<1>2. timer = "out" /\ main \in {"grpc", "pool"}
  BY <1>1 DEF TypeOK, TimerOn, ShutdownStuck, MainReady
<1>3. publisher = "idle" /\ warmer = "idle"
  BY DEF TypeOK, ShutdownStuck, WorkerReady, Cancelled
<1>4. \A t \in Requests : task[t] \in Labels /\ task[t] # "commit"
  BY DEF TypeOK, ShutdownStuck, HandlerReady
<1>5. ASSUME FreeConn PROVE FALSE
  <2>1. \A t \in Requests : ~Pending(t)
    BY <1>4, <1>5 DEF ShutdownStuck, HandlerReady, Pending, Labels
  <2>2. CASE main = "grpc"
    BY <2>1, <2>2 DEF ShutdownStuck, MainReady, Requests
  <2>3. CASE main = "pool"
    <3>1. {c \in Commands : InTransaction(c)} = {}
      BY <2>1 DEF Requests, Pending, InTransaction
    <3>2. Held = 0
      BY <1>3, <3>1, FS_EmptySet DEF Held, Rowset
    <3> QED
      BY <2>3, <3>2 DEF ShutdownStuck, MainReady
  <2> QED
    BY <1>2, <2>2, <2>3
<1>6. \A c \in Commands : InTransaction(c) => task[c] = "check"
  BY <1>4 DEF Requests, InTransaction
<1> QED
  BY <1>2, <1>3, <1>5, <1>6 DEF CommandsHoldPool

(* A shutdown stalls only on commands that hold all connections and each   *)
(* wait for a second one (service.go:87), until ReadTimeout (main.go:101)  *)
(* cancels one of them: neither the workers' open rows nor the order of    *)
(* the closes in main (main.go:137) can add a cycle of their own.          *)
THEOREM ShutdownWaitsOnlyForThePool ==
    Spec => [](ShutdownStuck => main \in {"grpc", "pool"} /\ CommandsHoldPool)
<1>1. IInv /\ TimerOn => (ShutdownStuck => main \in {"grpc", "pool"} /\ CommandsHoldPool)
  BY StuckOnCommands DEF IInv
<1> QED
  BY <1>1, Invariant, TimerRuns, PTL

(* A connection for each command and one more is enough for a shutdown to  *)
(* go on at any time.                                                      *)
THEOREM ShutdownIsNeverStuck ==
    ASSUME PoolSize > Cardinality(Commands)
    PROVE  Spec => []~ShutdownStuck
<1>1. CommandsHoldPool => FALSE
  <2> SUFFICES ASSUME CommandsHoldPool PROVE FALSE
    OBVIOUS
  <2> DEFINE S == {c \in Commands : InTransaction(c)}
  <2>1. /\ Cardinality(S) \in Nat /\ Cardinality(Commands) \in Nat
        /\ Cardinality(S) <= Cardinality(Commands)
    BY NumbersAssumption, FS_Subset, FS_CardinalityType
  <2>2. Held = Cardinality(S) + 0 + 0
    BY DEF CommandsHoldPool, Held, Rowset
  <2>3. ~(Held < PoolSize)
    BY DEF CommandsHoldPool, FreeConn
  <2> HIDE DEF S
  <2> QED
    BY <2>1, <2>2, <2>3, NumbersAssumption
<1>2. (ShutdownStuck => main \in {"grpc", "pool"} /\ CommandsHoldPool) => ~ShutdownStuck
  BY <1>1
<1> QED
  BY <1>2, ShutdownWaitsOnlyForThePool, PTL

-----------------------------------------------------------------------------
(* RateLimiter: any clients, limit and window, and however many requests   *)
(* arrive at one instant *)

LimitsTypeOK ==
    /\ clock \in Nat \ {0}
    /\ allowed \in [Clients -> Seq(Nat)] /\ refused \in [Clients -> Seq(Nat)]
    /\ times \in [Clients -> SUBSET Nat]

(* Times of requests lie in the past, and the map holds those of the       *)
(* window: a time that has been dropped never comes back into one.         *)
WindowKept ==
    \A c \in Clients :
        /\ times[c] \subseteq 1 .. Len(allowed[c])
        /\ \A k \in 1 .. Len(allowed[c]) :
              /\ allowed[c][k] <= clock
              /\ allowed[c][k] > clock - Window => k \in times[c]
        /\ \A k \in 1 .. Len(refused[c]) : refused[c][k] \in 1 .. clock

LInv == LimitsTypeOK /\ WindowKept /\ WindowExact

(* The times that allow keeps are those of the window that ends clock. *)
LEMMA FilteredIsWindow ==
    ASSUME LimitsAssumption, LimitsTypeOK, WindowKept, NEW c \in Clients
    PROVE  Filtered(c) = AllowedIn(c, clock) /\ Filtered(c) \subseteq 1 .. Len(allowed[c])
<1>1. allowed[c] \in Seq(Nat)
  BY DEF LimitsTypeOK
<1>2. \A k \in 1 .. Len(allowed[c]) :
         /\ allowed[c][k] <= clock /\ allowed[c][k] \in Nat
         /\ clock - Window < allowed[c][k] => k \in times[c]
  BY <1>1 DEF WindowKept, LimitsTypeOK, LimitsAssumption
<1>3. DOMAIN allowed[c] = 1 .. Len(allowed[c]) /\ times[c] \subseteq 1 .. Len(allowed[c])
  BY <1>1 DEF WindowKept
<1>4. clock \in Nat /\ Window \in Nat
  BY DEF LimitsTypeOK, LimitsAssumption
<1> QED
  BY <1>2, <1>3, <1>4 DEF Filtered, AllowedIn

LEMMA WindowIsFinite ==
    ASSUME LimitsTypeOK, NEW c \in Clients, NEW t
    PROVE  IsFiniteSet(AllowedIn(c, t)) /\ Cardinality(AllowedIn(c, t)) \in Nat
<1>1. AllowedIn(c, t) \subseteq 1 .. Len(allowed[c]) /\ Len(allowed[c]) \in Nat
  BY DEF AllowedIn, LimitsTypeOK
<1>2. IsFiniteSet(1 .. Len(allowed[c]))
  BY <1>1, FS_Interval
<1> QED
  BY <1>1, <1>2, FS_Subset, FS_CardinalityType

LEMMA TickKeepsWindows ==
    ASSUME LimitsAssumption, LInv, ClockTicks
    PROVE  LInv'
<1>0. clock' = clock + 1 /\ times' = times /\ allowed' = allowed /\ refused' = refused
  BY DEF ClockTicks
<1>a. \A t \in 1 .. clock + 1 : t \in 1 .. clock \/ t = clock + 1
  BY DEF LInv, LimitsTypeOK
<1>1. LimitsTypeOK'
  BY <1>0 DEF LInv, LimitsTypeOK
<1>2. WindowKept'
  <2> SUFFICES ASSUME NEW c \in Clients
               PROVE  /\ times'[c] \subseteq 1 .. Len(allowed'[c])
                      /\ \A k \in 1 .. Len(allowed'[c]) :
                            /\ allowed'[c][k] <= clock'
                            /\ allowed'[c][k] > clock' - Window => k \in times'[c]
                      /\ \A k \in 1 .. Len(refused'[c]) : refused'[c][k] \in 1 .. clock'
    BY DEF WindowKept
  <2>1. allowed[c] \in Seq(Nat) /\ refused[c] \in Seq(Nat) /\ clock \in Nat /\ Window \in Nat
    BY DEF LInv, LimitsTypeOK, LimitsAssumption
  <2>2. /\ times[c] \subseteq 1 .. Len(allowed[c])
        /\ \A k \in 1 .. Len(allowed[c]) :
              /\ allowed[c][k] <= clock
              /\ allowed[c][k] > clock - Window => k \in times[c]
        /\ \A k \in 1 .. Len(refused[c]) : refused[c][k] \in 1 .. clock
    BY DEF LInv, WindowKept
  <2>3. \A k \in 1 .. Len(allowed[c]) : allowed[c][k] \in Nat
    BY <2>1
  <2>4. \A n \in Nat : n <= clock => n <= clock + 1 /\ (n > clock + 1 - Window => n > clock - Window)
    BY <2>1
  <2>5. \A n \in 1 .. clock : n \in 1 .. clock + 1
    BY <2>1
  <2>6. \A k \in 1 .. Len(allowed[c]) :
           /\ allowed[c][k] <= clock + 1
           /\ allowed[c][k] > clock + 1 - Window => k \in times[c]
    BY <2>2, <2>3, <2>4, Zenon
  <2>7. \A k \in 1 .. Len(refused[c]) : refused[c][k] \in 1 .. clock + 1
    BY <2>2, <2>5, Zenon
  <2> QED
    <3>1. times'[c] \subseteq 1 .. Len(allowed'[c])
      BY <1>0, <2>2
    <3>2. ASSUME NEW k \in 1 .. Len(allowed'[c])
          PROVE  /\ allowed'[c][k] <= clock'
                 /\ allowed'[c][k] > clock' - Window => k \in times'[c]
      <4>1. k \in 1 .. Len(allowed[c])
        BY <1>0
      <4>2. allowed[c][k] <= clock + 1 /\ (allowed[c][k] > clock + 1 - Window => k \in times[c])
        BY <2>6, <4>1, Zenon
      <4>3. allowed'[c][k] = allowed[c][k] /\ times'[c] = times[c] /\ clock' = clock + 1
        BY <1>0
      <4> QED
        BY <2>1, <2>3, <4>1, <4>2, <4>3
    <3>3. ASSUME NEW k \in 1 .. Len(refused'[c])
          PROVE  refused'[c][k] \in 1 .. clock'
      <4>1. k \in 1 .. Len(refused[c])
        BY <1>0
      <4> QED
        BY <1>0, <2>7, <4>1
    <3> QED
      BY <3>1, <3>2, <3>3
<1>3. WindowExact'
  <2> SUFFICES ASSUME NEW c \in Clients
               PROVE  Cardinality(AllowedIn(c, clock + 1)) <= Limit
    BY <1>0, <1>a DEF LInv, WindowExact, AllowedIn
  <2>1. AllowedIn(c, clock + 1) \subseteq AllowedIn(c, clock)
    <3>1. allowed[c] \in Seq(Nat) /\ clock \in Nat /\ Window \in Nat
      BY DEF LInv, LimitsTypeOK, LimitsAssumption
    <3> QED
      BY <3>1 DEF LInv, WindowKept, AllowedIn
  <2>2. Cardinality(AllowedIn(c, clock + 1)) <= Cardinality(AllowedIn(c, clock))
    BY <2>1, WindowIsFinite, FS_Subset DEF LInv
  <2>3. Cardinality(AllowedIn(c, clock)) <= Limit
    BY DEF LInv, WindowExact, LimitsTypeOK
  <2> QED
    BY <2>2, <2>3, WindowIsFinite DEF LInv, LimitsAssumption
<1> QED
  BY <1>1, <1>2, <1>3 DEF LInv

(* A request: the window that ends clock has one allowed request more, if it *)
(* had fewer than Limit; windows that ended before stay what they were.    *)
LEMMA AllowKeepsWindows ==
    ASSUME LimitsAssumption, LInv, NEW c \in Clients, Allow(c)
    PROVE  LInv'
<1> DEFINE n == Len(allowed[c])
           Win(d, t) == {k \in DOMAIN allowed'[d] : t - Window < allowed'[d][k] /\ allowed'[d][k] <= t}
<1>1. /\ clock \in Nat \ {0} /\ Window \in Nat \ {0} /\ Limit \in Nat
      /\ allowed[c] \in Seq(Nat) /\ n \in Nat
  BY DEF LInv, LimitsTypeOK, LimitsAssumption
<1>2. /\ clock' = clock /\ refused' = refused
      /\ allowed' = [allowed EXCEPT ![c] = Append(allowed[c], clock)]
      /\ times' = [times EXCEPT ![c] = Filtered(c) \cup {n + 1}]
      /\ Cardinality(Filtered(c)) < Limit
  BY DEF Allow
<1>3. /\ Filtered(c) = AllowedIn(c, clock)
      /\ Filtered(c) \subseteq times[c] /\ times[c] \subseteq 1 .. n
  BY FilteredIsWindow DEF LInv, WindowKept, Filtered
<1>4. LimitsTypeOK'
  BY <1>1, <1>2, <1>3 DEF LInv, LimitsTypeOK
<1>5. /\ allowed'[c] = Append(allowed[c], clock) /\ Len(allowed'[c]) = n + 1
      /\ DOMAIN allowed'[c] = 1 .. n + 1 /\ DOMAIN allowed[c] = 1 .. n
      /\ allowed'[c][n + 1] = clock /\ \A k \in 1 .. n : allowed'[c][k] = allowed[c][k]
      /\ times'[c] = Filtered(c) \cup {n + 1}
  BY <1>1, <1>2 DEF LInv, LimitsTypeOK
<1>6. \A d \in Clients \ {c} : allowed'[d] = allowed[d] /\ times'[d] = times[d]
  BY <1>2 DEF LInv, LimitsTypeOK
<1>7. WindowKept'
  <2> SUFFICES ASSUME NEW d \in Clients
               PROVE  /\ times'[d] \subseteq 1 .. Len(allowed'[d])
                      /\ \A k \in 1 .. Len(allowed'[d]) :
                            /\ allowed'[d][k] <= clock
                            /\ allowed'[d][k] > clock - Window => k \in times'[d]
                      /\ \A k \in 1 .. Len(refused[d]) : refused[d][k] \in 1 .. clock
    BY <1>2 DEF WindowKept
  <2>1. CASE d # c
    BY <1>6, <2>1 DEF LInv, WindowKept
  <2>2. CASE d = c
    <3>1. \A k \in 1 .. n : allowed[c][k] > clock - Window => k \in Filtered(c)
      BY DEF LInv, WindowKept, Filtered
    <3>2. \A k \in 1 .. n : allowed[c][k] <= clock
      BY DEF LInv, WindowKept
    <3>3. \A k \in 1 .. n + 1 : k \in 1 .. n \/ k = n + 1
      BY <1>1
    <3>4. \A k \in 1 .. Len(refused[c]) : refused[c][k] \in 1 .. clock
      BY DEF LInv, WindowKept
    <3>5. /\ times'[c] \subseteq 1 .. n + 1
          /\ \A k \in 1 .. n + 1 :
                /\ allowed'[c][k] <= clock
                /\ allowed'[c][k] > clock - Window => k \in times'[c]
      <4>1. \A k \in 1 .. n : /\ allowed'[c][k] <= clock
                              /\ allowed'[c][k] > clock - Window => k \in times'[c]
        BY <1>5, <3>1, <3>2
      <4>2. times'[c] \subseteq 1 .. n + 1
        BY <1>1, <1>3, <1>5
      <4>3. n + 1 \in times'[c] /\ allowed'[c][n + 1] <= clock
        BY <1>1, <1>5
      <4> QED
        BY <3>3, <4>1, <4>2, <4>3
    <3> QED
      BY <1>5, <2>2, <3>4, <3>5
  <2> QED
    BY <2>1, <2>2
<1>8. \A t \in 1 .. clock : t # clock => Win(c, t) = AllowedIn(c, t)
  <2> SUFFICES ASSUME NEW t \in 1 .. clock, t # clock PROVE Win(c, t) = AllowedIn(c, t)
    OBVIOUS
  <2>1. \A k \in 1 .. n + 1 : k \in 1 .. n \/ k = n + 1
    BY <1>1
  <2> QED
    BY <1>1, <1>5, <2>1 DEF AllowedIn
<1>9. Win(c, clock) = Filtered(c) \cup {n + 1}
  <2>1. \A k \in 1 .. n + 1 : k \in 1 .. n \/ k = n + 1
    BY <1>1
  <2> QED
    BY <1>1, <1>2, <1>3, <1>5, <2>1 DEF AllowedIn
<1>10. Cardinality(Win(c, clock)) <= Limit
  <2>1. n + 1 \notin Filtered(c)
    BY <1>1, <1>3
  <2>2. IsFiniteSet(Filtered(c)) /\ Cardinality(Filtered(c)) \in Nat
    BY <1>3, WindowIsFinite DEF LInv
  <2>3. Cardinality(Filtered(c) \cup {n + 1}) = Cardinality(Filtered(c)) + 1
    BY <2>1, <2>2, FS_AddElement
  <2>4. Cardinality(Filtered(c)) + 1 <= Limit
    BY <1>1, <1>2, <2>2
  <2> QED
    BY <1>9, <2>3, <2>4
<1>11. WindowExact'
  <2> SUFFICES ASSUME NEW d \in Clients
               PROVE  /\ \A t \in 1 .. clock : Cardinality(Win(d, t)) <= Limit
                      /\ \A k \in DOMAIN refused[d] : Cardinality(Win(d, refused[d][k])) = Limit
    BY <1>2 DEF WindowExact, AllowedIn
  <2>1. CASE d # c
    BY <1>6, <2>1 DEF LInv, WindowExact, AllowedIn
  <2>2. CASE d = c
    <3>1. \A t \in 1 .. clock : Cardinality(Win(c, t)) <= Limit
      BY <1>8, <1>10 DEF LInv, WindowExact
    <3>2. \A k \in DOMAIN refused[c] : refused[c][k] \in 1 .. clock
      BY DEF LInv, WindowKept, LimitsTypeOK
    <3>3. \A k \in DOMAIN refused[c] : refused[c][k] # clock
      BY <1>1, <1>2, <1>3 DEF LInv, WindowExact
    <3>4. \A k \in DOMAIN refused[c] : Cardinality(Win(c, refused[c][k])) = Limit
      BY <1>8, <3>2, <3>3 DEF LInv, WindowExact
    <3> QED
      BY <2>2, <3>1, <3>4
  <2> QED
    BY <2>1, <2>2
<1> QED
  BY <1>4, <1>7, <1>11 DEF LInv

(* A refusal: the window that ends clock is full, and it has Limit requests. *)
LEMMA RefuseKeepsWindows ==
    ASSUME LimitsAssumption, LInv, NEW c \in Clients, Refuse(c)
    PROVE  LInv'
<1>1. /\ clock \in Nat \ {0} /\ Limit \in Nat /\ refused[c] \in Seq(Nat)
      /\ allowed[c] \in Seq(Nat)
  BY DEF LInv, LimitsTypeOK, LimitsAssumption
<1>2. /\ clock' = clock /\ allowed' = allowed
      /\ refused' = [refused EXCEPT ![c] = Append(refused[c], clock)]
      /\ times' = [times EXCEPT ![c] = Filtered(c)]
      /\ Cardinality(Filtered(c)) >= Limit
  BY DEF Refuse
<1>3. Filtered(c) = AllowedIn(c, clock) /\ Filtered(c) \subseteq 1 .. Len(allowed[c])
  BY FilteredIsWindow DEF LInv
<1>4. LimitsTypeOK'
  BY <1>1, <1>2, <1>3 DEF LInv, LimitsTypeOK
<1>5. \A d \in Clients \ {c} : refused'[d] = refused[d] /\ times'[d] = times[d]
  BY <1>2 DEF LInv, LimitsTypeOK
<1>6. /\ times'[c] = Filtered(c)
      /\ DOMAIN refused'[c] = 1 .. Len(refused[c]) + 1 /\ Len(refused'[c]) = Len(refused[c]) + 1
      /\ DOMAIN refused[c] = 1 .. Len(refused[c])
      /\ \A k \in 1 .. Len(refused[c]) + 1 :
            \/ k \in 1 .. Len(refused[c]) /\ refused'[c][k] = refused[c][k]
            \/ refused'[c][k] = clock
  BY <1>1, <1>2 DEF LInv, LimitsTypeOK
<1>7. WindowKept'
  <2> SUFFICES ASSUME NEW d \in Clients
               PROVE  /\ times'[d] \subseteq 1 .. Len(allowed[d])
                      /\ \A k \in 1 .. Len(allowed[d]) :
                            /\ allowed[d][k] <= clock
                            /\ allowed[d][k] > clock - Window => k \in times'[d]
                      /\ \A k \in 1 .. Len(refused'[d]) : refused'[d][k] \in 1 .. clock
    BY <1>2 DEF WindowKept
  <2>1. CASE d # c
    BY <1>5, <2>1 DEF LInv, WindowKept
  <2>2. CASE d = c
    <3>1. \A k \in 1 .. Len(allowed[c]) :
             allowed[c][k] <= clock /\ (allowed[c][k] > clock - Window => k \in Filtered(c))
      BY DEF LInv, WindowKept, Filtered
    <3>2. \A k \in 1 .. Len(refused[c]) : refused[c][k] \in 1 .. clock
      BY DEF LInv, WindowKept
    <3>3. \A k \in 1 .. Len(refused'[c]) : refused'[c][k] \in 1 .. clock
      <4>1. clock \in 1 .. clock
        BY <1>1
      <4>2. \A k \in 1 .. Len(refused[c]) + 1 : refused'[c][k] \in 1 .. clock
        BY <1>6, <3>2, <4>1
      <4> QED
        BY <1>6, <4>2
    <3>4. times'[c] \subseteq 1 .. Len(allowed[c])
      BY <1>3, <1>6
    <3> QED
      BY <1>6, <2>2, <3>1, <3>3, <3>4
  <2> QED
    BY <2>1, <2>2
<1>8. Cardinality(AllowedIn(c, clock)) = Limit
  <2>1. Cardinality(AllowedIn(c, clock)) <= Limit
    BY <1>1 DEF LInv, WindowExact
  <2> QED
    BY <1>1, <1>2, <1>3, <2>1, WindowIsFinite DEF LInv
<1>9. WindowExact'
  <2> SUFFICES ASSUME NEW d \in Clients
               PROVE  /\ \A t \in 1 .. clock : Cardinality(AllowedIn(d, t)) <= Limit
                      /\ \A k \in DOMAIN refused'[d] :
                            Cardinality(AllowedIn(d, refused'[d][k])) = Limit
    BY <1>2 DEF WindowExact, AllowedIn
  <2>1. CASE d # c
    BY <1>5, <2>1 DEF LInv, WindowExact
  <2>2. CASE d = c
    BY <1>6, <1>8, <2>2 DEF LInv, WindowExact
  <2> QED
    BY <2>1, <2>2
<1> QED
  BY <1>4, <1>7, <1>9 DEF LInv

LEMMA WindowsInit == ASSUME LimitsAssumption, LimiterInit PROVE LInv
<1>1. LimitsTypeOK /\ WindowKept
  BY DEF LimiterInit, LimitsTypeOK, WindowKept
<1>2. \A c \in Clients : \A t : AllowedIn(c, t) = {}
  BY DEF LimiterInit, AllowedIn
<1>3. WindowExact
  BY <1>2, FS_EmptySet DEF LimiterInit, WindowExact, LimitsAssumption
<1> QED
  BY <1>1, <1>3 DEF LInv

(* The limiter (ratelimit.go:21) lets no window of any client have more    *)
(* than Limit requests, however it lies, and refuses none it could have    *)
(* allowed, with any number of clients and of requests at one instant.     *)
THEOREM WindowsAreExact ==
    ASSUME LimitsAssumption
    PROVE  LimiterSpec => []WindowExact
<1>1. LimiterInit => LInv
  BY WindowsInit
<1>2. LInv /\ [LimiterNext]_limits => LInv'
  <2> SUFFICES ASSUME LInv, [LimiterNext]_limits PROVE LInv'
    OBVIOUS
  <2>1. CASE UNCHANGED limits
    BY <2>1 DEF LInv, LimitsTypeOK, WindowKept, WindowExact, AllowedIn, limits
  <2> QED
    BY <2>1, TickKeepsWindows, AllowKeepsWindows, RefuseKeepsWindows DEF LimiterNext
<1>3. LInv => WindowExact
  BY DEF LInv
<1> QED
  BY <1>1, <1>2, <1>3, PTL DEF LimiterSpec
=============================================================================
