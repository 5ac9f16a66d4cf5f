------------------------------- MODULE Migrate -------------------------------
(***************************************************************************)
(* migrate.Up (pkg/migrate/migrate.go), which every instance runs before   *)
(* it serves: the files of the migrations directory in the order of their  *)
(* names, each with its row of schema_migrations in one transaction.       *)
(* Instances start together, fail, stop and start again, and a newer       *)
(* release has more files than an older one.  Nothing but PostgreSQL       *)
(* coordinates them: a transaction that has created the tables of a file   *)
(* makes others that try wait for its end; if it commits they get an error.*)
(***************************************************************************)
EXTENDS Integers, Sequences

CONSTANTS
    Instances,      \* processes that start with MIGRATE_ON_START
    Releases,       \* numbers of migration files a release can have
    MaxFailures     \* bound: failed calls and stops

VARIABLES
    pc,         \* what each instance executes next
    files,      \* how many files its release has
    next,       \* the file it is at
    recorded,   \* committed rows of schema_migrations
    applied,    \* files whose tables are committed, in that order
    failures    \* so far

migration == <<pc, files, next, recorded, applied, failures>>

database == <<recorded, applied>>

ASSUME ReleasesAssumption == Releases \subseteq Nat \ {0} /\ MaxFailures \in Nat

MigrateInit ==
    /\ pc = [i \in Instances |-> "down"]
    /\ files = [i \in Instances |-> 0]
    /\ next = [i \in Instances |-> 1]
    /\ recorded = {} /\ applied = <<>>
    /\ failures = 0

IsApplied(f) == \E k \in DOMAIN applied : applied[k] = f

(* The instances in a transaction that has created the tables of a file    *)
Creators(f) ==
    {i \in Instances : pc[i] \in {"record", "commit"} /\ next[i] = f /\ ~IsApplied(f)}

Jump(i, label) == pc' = [pc EXCEPT ![i] = label]

Start(i) ==
    /\ pc[i] = "down"
    /\ \E n \in Releases : files' = [files EXCEPT ![i] = n]
    /\ next' = [next EXCEPT ![i] = 1]
    /\ Jump(i, "create")
    /\ UNCHANGED <<database, failures>>

(* CREATE TABLE IF NOT EXISTS schema_migrations, and the files' names.  On *)
(* an empty database the statements of two instances may collide, which    *)
(* ends one of them like any failed call: that outcome is in Fail.         *)
CreateTable(i) ==
    /\ pc[i] = "create"
    /\ Jump(i, "check")
    /\ UNCHANGED <<files, next, database, failures>>

(* Mutant: a recorded file is not skipped. *)
CheckAll(i) ==
    /\ pc[i] = "check"
    /\ \/ next[i] > files[i] /\ Jump(i, "serving")
       \/ next[i] <= files[i] /\ Jump(i, "exec")
    /\ UNCHANGED <<next, files, database, failures>>

(* The loop over the files; SELECT EXISTS skips those that are recorded. *)
CheckFile(i) ==
    /\ pc[i] = "check"
    /\ \/ next[i] > files[i] /\ Jump(i, "serving") /\ UNCHANGED next
       \/ /\ next[i] <= files[i] /\ next[i] \in recorded
          /\ next' = [next EXCEPT ![i] = @ + 1] /\ UNCHANGED pc
       \/ /\ next[i] <= files[i] /\ next[i] \notin recorded
          /\ Jump(i, "exec") /\ UNCHANGED next
    /\ UNCHANGED <<files, database, failures>>

(* A new transaction executes the file: it creates the tables, or finds    *)
(* them there since the check (IF NOT EXISTS).                             *)
Exec(i) ==
    /\ pc[i] = "exec" /\ Creators(next[i]) = {}
    /\ Jump(i, "record")
    /\ UNCHANGED <<files, next, database, failures>>

(* Mutant: what another instance is applying counts as applied. *)
SkipHeld(i) ==
    /\ pc[i] = "exec" /\ Creators(next[i]) # {}
    /\ next' = [next EXCEPT ![i] = @ + 1]
    /\ Jump(i, "check")
    /\ UNCHANGED <<files, database, failures>>

(* Another transaction has just created the tables: wait for its end. *)
Wait(i) ==
    /\ pc[i] = "exec" /\ Creators(next[i]) # {}
    /\ Jump(i, "wait")
    /\ UNCHANGED <<files, next, database, failures>>

(* It rolled back: this one creates them. *)
ExecAfterWait(i) ==
    /\ pc[i] = "wait" /\ Creators(next[i]) = {} /\ ~IsApplied(next[i])
    /\ Jump(i, "record")
    /\ UNCHANGED <<files, next, database, failures>>

(* It committed: a duplicate key in the catalog, and the process exits. *)
Collide(i) ==
    /\ pc[i] = "wait" /\ IsApplied(next[i])
    /\ Jump(i, "down")
    /\ UNCHANGED <<files, next, database, failures>>

Record(i) ==
    /\ pc[i] = "record" /\ next[i] \notin recorded
    /\ Jump(i, "commit")
    /\ UNCHANGED <<files, next, database, failures>>

(* The version is a primary key: rollback, and the process exits. *)
RecordRefused(i) ==
    /\ pc[i] = "record" /\ next[i] \in recorded
    /\ Jump(i, "down")
    /\ UNCHANGED <<files, next, database, failures>>

CommitFile(i) ==
    /\ recorded' = recorded \cup {next[i]}
    /\ applied' = Append(applied, next[i])

CommitAnswered(i) ==
    /\ pc[i] = "commit"
    /\ CommitFile(i)
    /\ next' = [next EXCEPT ![i] = @ + 1]
    /\ Jump(i, "check")
    /\ UNCHANGED <<files, failures>>

CountFailure == failures < MaxFailures /\ failures' = failures + 1

(* The commit succeeds and its answer is lost: the process exits. *)
CommitUnanswered(i) ==
    /\ pc[i] = "commit"
    /\ CountFailure
    /\ CommitFile(i)
    /\ Jump(i, "down")
    /\ UNCHANGED <<files, next>>

(* Mutant: a file that fails is rolled back and the loop goes on. *)
FailContinues(i) ==
    /\ pc[i] \in {"exec", "wait", "record", "commit"}
    /\ CountFailure
    /\ Jump(i, "check")
    /\ next' = [next EXCEPT ![i] = @ + 1]
    /\ UNCHANGED <<files, database>>

(* A call fails, rolls back and ends the process, or the process is        *)
(* stopped.                                                                *)
Fail(i) ==
    /\ pc[i] # "down"
    /\ CountFailure
    /\ Jump(i, "down")
    /\ UNCHANGED <<files, next, database>>

Proceed(i) ==
    \/ Start(i) \/ CreateTable(i) \/ CheckFile(i) \/ Exec(i) \/ Wait(i)
    \/ ExecAfterWait(i) \/ Collide(i) \/ Record(i) \/ RecordRefused(i) \/ CommitAnswered(i)

MigrateNext == \E i \in Instances : Proceed(i) \/ CommitUnanswered(i) \/ Fail(i)

MigrateSpec == MigrateInit /\ [][MigrateNext]_migration

(* An instance that exited is started again, and its calls return. *)
FairMigrateSpec == MigrateSpec /\ \A i \in Instances : WF_migration(Proceed(i))

-----------------------------------------------------------------------------
(* Properties *)

(* Instances that race, collide, fail, stop and restart, of whatever       *)
(* releases, apply the files once each, in the order of their names, and   *)
(* record exactly those.                                                   *)
AppliedOnceInOrder ==
    /\ applied = [k \in 1 .. Len(applied) |-> k]
    /\ recorded = 1 .. Len(applied)

(* An instance serves only when all files of its release are applied.      *)
ServesMigrated ==
    \A i \in Instances : pc[i] = "serving" => \A f \in 1 .. files[i] : IsApplied(f)

(* Collisions do not go on for ever: instances that are started again all  *)
(* come to serve.                                                          *)
AllServe == <>[](\A i \in Instances : pc[i] = "serving")
=============================================================================
