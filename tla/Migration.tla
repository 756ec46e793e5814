------------------------------ MODULE Migration ------------------------------
(***************************************************************************)
(* Services that start at the same time against one database               *)
(* (rust/ingestion/src: remote_data_lake.rs, sql_migration.rs,             *)
(* sql_telemetry_db.rs).  Each reads the schema version; one that finds    *)
(* the schema missing takes an advisory lock in a transaction, reads the   *)
(* version again, creates the tables in a second transaction of another    *)
(* connection, and reads the version once more in the first.               *)
(*                                                                         *)
(* PostgreSQL is external: a transaction is visible once committed, the    *)
(* advisory lock goes with the transaction that took it, and a CREATE      *)
(* waits for the transaction that is creating the same name and fails if   *)
(* that name exists.                                                       *)
(***************************************************************************)
EXTENDS Integers, FiniteSets, Sequences

CONSTANTS
    Services,
    None,
    MaxFaults    \* bound: faults of connections, statements and processes

ASSUME MigrationAssumption ==
    /\ None \notin Services
    /\ MaxFaults \in Nat

LATEST_SCHEMA_VERSION == 1

(* What create_tables creates, in this order, ending with the version. *)
Schema == <<"micromegas_property", "processes", "streams", "blocks", "migration">>

Objects == {Schema[i] : i \in 1 .. Len(Schema)}

VARIABLES
    pc,        \* per service: its step in migrate_db
    created,   \* per service: statements done in its open transaction
    objects,   \* committed types and tables
    creator,   \* the transaction with uncommitted objects
    lock,      \* the advisory lock
    faults     \* faults so far

vars == <<pc, created, objects, creator, lock, faults>>

Active == {"start", "lock", "recheck", "execute", "create", "commit", "verify"}

(***************************************************************************)
(* Every variable stays in its domain; in particular a reader finds the    *)
(* whole schema or none of it.                                             *)
(***************************************************************************)
TypeOK ==
    /\ pc \in [Services -> Active \cup {"connected", "failed", "panicked"}]
    /\ created \in [Services -> 0 .. Len(Schema)]
    /\ objects \in {{}, Objects}
    /\ creator \in Services \cup {None}
    /\ lock \in Services \cup {None}
    /\ faults \in 0 .. MaxFaults

Init ==
    /\ pc = [s \in Services |-> "start"]
    /\ created = [s \in Services |-> 0]
    /\ objects = {}
    /\ creator = None
    /\ lock = None
    /\ faults = 0

Version == IF "migration" \in objects THEN LATEST_SCHEMA_VERSION ELSE 0

GoTo(s, step) == pc' = [pc EXCEPT ![s] = step]

Fault == faults < MaxFaults /\ faults' = faults + 1

(* Mutant: an error is taken for an up to date schema. *)
ReadVersionOptimistic(v) ==
    \/ v = Version /\ UNCHANGED faults
    \/ v = LATEST_SCHEMA_VERSION /\ Fault

(* read_schema_version: any error, a missing table as well as a broken     *)
(* connection, counts as version 0.                                        *)
read_schema_version(v) ==
    \/ v = Version /\ UNCHANGED faults
    \/ v = 0 /\ Fault

(* Mutant: the lock is not given back. *)
LeaveLocked(s, step) ==
    /\ GoTo(s, step)
    /\ creator' = IF creator = s THEN None ELSE creator
    /\ created' = [created EXCEPT ![s] = 0]
    /\ UNCHANGED lock

(* Leaving migrate_db: its transactions are dropped, rolled back and       *)
(* unlocked.                                                               *)
Leave(s, step) ==
    /\ GoTo(s, step)
    /\ lock' = IF lock = s THEN None ELSE lock
    /\ creator' = IF creator = s THEN None ELSE creator
    /\ created' = [created EXCEPT ![s] = 0]

-----------------------------------------------------------------------------
(***************************************************************************)
(* migrate_db                                                              *)
(***************************************************************************)

ReadVersion(s) ==
    /\ pc[s] = "start"
    /\ \E v \in 0 .. LATEST_SCHEMA_VERSION :
          /\ read_schema_version(v)
          /\ GoTo(s, IF v = LATEST_SCHEMA_VERSION THEN "connected" ELSE "lock")
    /\ UNCHANGED <<created, objects, creator, lock>>

(* Mutant: nobody waits for the lock. *)
LockFreeAlways == TRUE

LockFree == lock = None

acquire_lock(s) ==
    /\ pc[s] = "lock"
    /\ LockFree
    /\ lock' = s
    /\ GoTo(s, "recheck")
    /\ UNCHANGED <<created, objects, creator, faults>>

RecheckVersion(s) ==
    /\ pc[s] = "recheck"
    /\ \E v \in 0 .. LATEST_SCHEMA_VERSION :
          /\ read_schema_version(v)
          /\ IF v = LATEST_SCHEMA_VERSION THEN Leave(s, "connected")
             ELSE GoTo(s, "execute") /\ UNCHANGED <<created, creator, lock>>
    /\ UNCHANGED objects

execute_migration(s) ==
    /\ pc[s] = "execute"
    /\ \E v \in 0 .. LATEST_SCHEMA_VERSION :
          /\ read_schema_version(v)
          /\ GoTo(s, IF v = 0 THEN "create" ELSE "verify")
    /\ UNCHANGED <<created, objects, creator, lock>>

(* One statement of create_tables. *)
create_tables(s) ==
    /\ pc[s] = "create"
    /\ creator \in {None, s}
    /\ objects = {}
    /\ creator' = s
    /\ created' = [created EXCEPT ![s] = @ + 1]
    /\ GoTo(s, IF created[s] + 1 = Len(Schema) THEN "commit" ELSE "create")
    /\ UNCHANGED <<objects, lock, faults>>

(* "already exists": the transaction is dropped, the error returned. *)
CreateConflict(s) ==
    /\ pc[s] = "create"
    /\ creator = None
    /\ objects # {}
    /\ Leave(s, "failed")
    /\ UNCHANGED <<objects, faults>>

(* Mutant: each statement is committed on its own, and one is missing. *)
CommittedPartly(s) == {Schema[i] : i \in 1 .. created[s] - 1}

Committed(s) == {Schema[i] : i \in 1 .. created[s]}

(* The version is read inside the transaction; if that fails the commit    *)
(* rolls back and the assertion on the version panics.                     *)
CommitTables(s) ==
    /\ pc[s] = "commit"
    /\ \/ /\ objects' = Committed(s)
          /\ creator' = None
          /\ created' = [created EXCEPT ![s] = 0]
          /\ GoTo(s, "verify")
          /\ UNCHANGED <<lock, faults>>
       \/ Fault /\ Leave(s, "panicked") /\ UNCHANGED objects
       \/ Fault /\ Leave(s, "failed") /\ objects' = Committed(s)  \* the answer is lost

(* The final assertion of migrate_db. *)
AfterVerify(v) == IF v = LATEST_SCHEMA_VERSION THEN "connected" ELSE "panicked"

(* The version is read on the connection that holds the lock, if it still  *)
(* does.                                                                   *)
VerifyVersion(s) ==
    /\ pc[s] = "verify"
    /\ \/ /\ lock = s
          /\ \E v \in 0 .. LATEST_SCHEMA_VERSION :
                read_schema_version(v) /\ Leave(s, AfterVerify(v))
       \/ lock # s /\ Leave(s, AfterVerify(0)) /\ UNCHANGED faults
    /\ UNCHANGED objects

-----------------------------------------------------------------------------
(***************************************************************************)
(* Faults.                                                                 *)
(***************************************************************************)

(* A connection cannot be had, or a statement fails. *)
StatementError(s) ==
    /\ pc[s] \in Active
    /\ Fault
    /\ Leave(s, "failed")
    /\ UNCHANGED objects

(* The connection of the locking transaction breaks; the service does not  *)
(* notice before it uses it again.                                         *)
LoseLock(s) ==
    /\ lock = s
    /\ Fault
    /\ lock' = None
    /\ UNCHANGED <<pc, created, objects, creator>>

(* The process dies, or has given up, and is started again. *)
Restart(s) ==
    /\ pc[s] # "start"
    /\ Fault
    /\ Leave(s, "start")
    /\ UNCHANGED objects

-----------------------------------------------------------------------------

Step(s) ==
    \/ ReadVersion(s)
    \/ acquire_lock(s)
    \/ RecheckVersion(s)
    \/ execute_migration(s)
    \/ create_tables(s)
    \/ CreateConflict(s)
    \/ CommitTables(s)
    \/ VerifyVersion(s)

Next == \E s \in Services : Step(s) \/ StatementError(s) \/ LoseLock(s) \/ Restart(s)

Spec == Init /\ [][Next]_vars

(* Services run, and the server grants the lock to waiters in their order. *)
FairSpec == Spec /\ \A s \in Services : SF_vars(Step(s))

-----------------------------------------------------------------------------
(***************************************************************************)
(* Properties                                                              *)
(***************************************************************************)

(***************************************************************************)
(* A service that leaves migrate_db without an error works on the latest   *)
(* schema, whatever else starts, fails or loses its lock meanwhile.        *)
(***************************************************************************)
ConnectedHasSchema ==
    \A s \in Services : pc[s] = "connected" => Version = LATEST_SCHEMA_VERSION

(***************************************************************************)
(* Services that start together do not disturb each other: without a fault *)
(* none fails to create what another has created, nor panics.              *)
(***************************************************************************)
NoNeedlessFailure ==
    faults = 0 => \A s \in Services : pc[s] \notin {"failed", "panicked"}

(***************************************************************************)
(* Every service gets through migrate_db, with success or with an error:   *)
(* nobody waits for ever for the lock or for a transaction of another.     *)
(***************************************************************************)
EveryoneReturns ==
    \A s \in Services : <>[](pc[s] \notin Active)
=============================================================================
