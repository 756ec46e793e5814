--------------------------- MODULE MigrationProofs ---------------------------
(***************************************************************************)
(* Theorems about Migration for any number of services and faults.         *)
(***************************************************************************)
EXTENDS Migration, TLAPS

(* The steps taken with the advisory lock. *)
Locked == {"recheck", "execute", "create", "commit", "verify"}

(* Uncommitted objects belong to a service that is creating them, and only *)
(* while there are no committed ones.                                      *)
CreatorInv ==
    /\ creator # None => objects = {}
    /\ \A s \in Services :
          /\ creator = s => pc[s] \in {"create", "commit"}
          /\ pc[s] = "commit" => creator = s /\ created[s] = Len(Schema)
          /\ pc[s] # "commit" => created[s] < Len(Schema)

(* Past the creation, and past a successful read, the schema is there. *)
SchemaInv ==
    \A s \in Services : pc[s] \in {"verify", "connected"} => objects = Objects

(* Without faults the lock is exclusive, so that what its holder read of   *)
(* the schema stays true.                                                  *)
LockInv ==
    faults = 0 =>
        \A s \in Services :
            /\ pc[s] \in Locked => lock = s
            /\ pc[s] \in {"execute", "create", "commit"} => objects = {}
            /\ pc[s] \notin {"failed", "panicked"}

IndInv == TypeOK /\ CreatorInv /\ SchemaInv /\ LockInv

(* The schema has five parts, the last of which holds the version. *)
LEMMA SchemaFacts ==
    /\ Len(Schema) = 5
    /\ "migration" \in Objects
    /\ Objects # {}
<1>1. Len(Schema) = 5 /\ Schema[5] = "migration"
  BY DEF Schema
<1> QED
  BY <1>1 DEF Objects

(* The version is the latest exactly when the schema was committed. *)
LEMMA VersionFacts ==
    ASSUME TypeOK
    PROVE  /\ Version \in {0, LATEST_SCHEMA_VERSION}
           /\ Version = LATEST_SCHEMA_VERSION <=> objects = Objects
           /\ Version = 0 <=> objects = {}
  BY SchemaFacts DEF TypeOK, Version, LATEST_SCHEMA_VERSION

(* A transaction that has run every statement commits the whole schema. *)
LEMMA CommittedAll ==
    ASSUME NEW s \in Services, created[s] = Len(Schema)
    PROVE  Committed(s) = Objects
  BY DEF Committed, Objects

(* The initial state satisfies the invariant. *)
LEMMA InitInv == Init => IndInv
  BY SchemaFacts, MigrationAssumption
  DEF Init, IndInv, TypeOK, CreatorInv, SchemaInv, LockInv, Locked, Active

(* Leaving migrate_db keeps everything about the other services. *)
LEMMA LeaveInv ==
    ASSUME IndInv, NEW s \in Services, NEW step, Leave(s, step),
           step \in {"start", "connected", "failed", "panicked"},
           step \in {"failed", "panicked"} => faults' # 0,
           step = "connected" => objects' = Objects,
           objects' = objects \/ (objects' = Objects /\ creator = s /\ faults' # 0),
           faults' \in 0 .. MaxFaults, faults' = 0 => faults = 0
    PROVE  IndInv'
<1>1. TypeOK'
  BY SchemaFacts, MigrationAssumption DEF IndInv, TypeOK, Leave, GoTo, Active
<1>2. CreatorInv'
  BY SchemaFacts, MigrationAssumption DEF IndInv, TypeOK, CreatorInv, Leave, GoTo
<1>3. SchemaInv'
  BY DEF IndInv, TypeOK, SchemaInv, Leave, GoTo
<1>4. LockInv'
  BY DEF IndInv, TypeOK, LockInv, Locked, Leave, GoTo
<1> QED
  BY <1>1, <1>2, <1>3, <1>4 DEF IndInv

(* Going from one step to another without touching the database. *)
LEMMA GoToInv ==
    ASSUME IndInv, NEW s \in Services, NEW step, GoTo(s, step),
           step \in {"lock", "connected", "execute", "create", "verify", "recheck"},
           pc[s] \notin {"create", "commit"},
           UNCHANGED <<created, objects, creator>>,
           step \in {"connected", "verify"} => objects = Objects,
           lock' = lock \/ (lock = None /\ lock' = s /\ pc[s] = "lock"),
           faults' \in 0 .. MaxFaults, faults' = 0 => faults = 0,
           faults' = 0 /\ step \in Locked => lock' = s,
           faults' = 0 /\ step \in {"execute", "create"} => objects = {}
    PROVE  IndInv'
<1>1. TypeOK'
  BY DEF IndInv, TypeOK, GoTo, Active
<1>2. CreatorInv'
  BY DEF IndInv, TypeOK, CreatorInv, GoTo
<1>3. SchemaInv'
  BY DEF IndInv, TypeOK, SchemaInv, GoTo
<1>4. LockInv'
  BY MigrationAssumption DEF IndInv, TypeOK, LockInv, Locked, GoTo
<1> QED
  BY <1>1, <1>2, <1>3, <1>4 DEF IndInv

(* Every step preserves the invariant. *)
LEMMA StepInv == IndInv /\ [Next]_vars => IndInv'
<1> SUFFICES ASSUME IndInv, [Next]_vars PROVE IndInv'
  OBVIOUS
<1> TypeOK /\ faults \in 0 .. MaxFaults /\ MaxFaults \in Nat
  BY MigrationAssumption DEF IndInv, TypeOK
<1>v. /\ Version \in {0, LATEST_SCHEMA_VERSION}
      /\ Version = LATEST_SCHEMA_VERSION <=> objects = Objects
      /\ Version = 0 <=> objects = {}
  BY VersionFacts
<1>1. CASE UNCHANGED vars
  BY <1>1, VersionFacts DEF vars, IndInv, TypeOK, CreatorInv, SchemaInv, LockInv
<1>2. ASSUME NEW s \in Services, ReadVersion(s) PROVE IndInv'
  <2>1. PICK v \in 0 .. LATEST_SCHEMA_VERSION :
           /\ read_schema_version(v)
           /\ GoTo(s, IF v = LATEST_SCHEMA_VERSION THEN "connected" ELSE "lock")
    BY <1>2 DEF ReadVersion
  <2>2. faults' \in 0 .. MaxFaults /\ (faults' = 0 => faults = 0)
    BY <2>1 DEF read_schema_version, Fault
  <2>3. CASE v = LATEST_SCHEMA_VERSION
    <3>1. objects = Objects
      BY <1>v, <2>1, <2>3 DEF read_schema_version, LATEST_SCHEMA_VERSION
    <3> QED
      BY <1>2, <2>1, <2>2, <2>3, <3>1, GoToInv DEF ReadVersion, Locked
  <2>4. CASE v # LATEST_SCHEMA_VERSION
    BY <1>2, <2>1, <2>2, <2>4, GoToInv DEF ReadVersion, Locked
  <2> QED
    BY <2>3, <2>4
<1>3. ASSUME NEW s \in Services, acquire_lock(s) PROVE IndInv'
  BY <1>3, GoToInv DEF acquire_lock, LockFree, Locked
<1>4. ASSUME NEW s \in Services, RecheckVersion(s) PROVE IndInv'
  <2>1. PICK v \in 0 .. LATEST_SCHEMA_VERSION :
           /\ read_schema_version(v)
           /\ IF v = LATEST_SCHEMA_VERSION THEN Leave(s, "connected")
              ELSE GoTo(s, "execute") /\ UNCHANGED <<created, creator, lock>>
    BY <1>4 DEF RecheckVersion
  <2>2. faults' \in 0 .. MaxFaults /\ (faults' = 0 => faults = 0)
    BY <2>1 DEF read_schema_version, Fault
  <2>3. CASE v = LATEST_SCHEMA_VERSION
    <3>1. objects = Objects
      BY <1>v, <2>1, <2>3 DEF read_schema_version, LATEST_SCHEMA_VERSION
    <3> QED
      BY <1>4, <2>1, <2>2, <2>3, <3>1, LeaveInv DEF RecheckVersion
  <2>4. CASE v # LATEST_SCHEMA_VERSION
    <3>1. faults' = 0 => objects = {} /\ lock' = s
      BY <1>v, <1>4, <2>1, <2>2, <2>4
      DEF RecheckVersion, read_schema_version, Fault, IndInv, LockInv, Locked
    <3> QED
      BY <1>4, <2>1, <2>2, <2>4, <3>1, GoToInv DEF RecheckVersion, Locked
  <2> QED
    BY <2>3, <2>4
<1>5. ASSUME NEW s \in Services, execute_migration(s) PROVE IndInv'
  <2>1. PICK v \in 0 .. LATEST_SCHEMA_VERSION :
           /\ read_schema_version(v)
           /\ GoTo(s, IF v = 0 THEN "create" ELSE "verify")
    BY <1>5 DEF execute_migration
  <2>2. faults' \in 0 .. MaxFaults /\ (faults' = 0 => faults = 0)
    BY <2>1 DEF read_schema_version, Fault
  <2>3. faults' = 0 => objects = {} /\ lock = s
    BY <1>5, <2>2 DEF execute_migration, IndInv, LockInv, Locked
  <2>4. CASE v = 0
    BY <1>5, <2>1, <2>2, <2>3, <2>4, GoToInv DEF execute_migration, Locked
  <2>5. CASE v # 0
    <3>1. objects = Objects
      BY <1>v, <2>1, <2>5 DEF read_schema_version, LATEST_SCHEMA_VERSION
    <3> QED
      BY <1>5, <2>1, <2>2, <2>3, <2>5, <3>1, GoToInv DEF execute_migration, Locked
  <2> QED
    BY <2>4, <2>5
<1>6. ASSUME NEW s \in Services, create_tables(s) PROVE IndInv'
  <2>1. TypeOK'
    BY <1>6, SchemaFacts DEF create_tables, GoTo, IndInv, TypeOK, CreatorInv, Active
  <2>2. CreatorInv'
    BY <1>6, SchemaFacts, MigrationAssumption
    DEF create_tables, GoTo, IndInv, TypeOK, CreatorInv
  <2>3. SchemaInv'
    BY <1>6 DEF create_tables, GoTo, IndInv, TypeOK, SchemaInv
  <2>4. LockInv'
    BY <1>6 DEF create_tables, GoTo, IndInv, TypeOK, LockInv, Locked
  <2> QED
    BY <2>1, <2>2, <2>3, <2>4 DEF IndInv
<1>7. ASSUME NEW s \in Services, CreateConflict(s) PROVE IndInv'
  <2>1. faults # 0
    BY <1>7 DEF CreateConflict, IndInv, LockInv
  <2> QED
    BY <1>7, <2>1, LeaveInv DEF CreateConflict
<1>8. ASSUME NEW s \in Services, CommitTables(s) PROVE IndInv'
  <2>1. creator = s /\ created[s] = Len(Schema)
    BY <1>8 DEF CommitTables, IndInv, CreatorInv
  <2>2. Committed(s) = Objects
    BY <2>1, CommittedAll
  <2>3. CASE Fault /\ Leave(s, "panicked") /\ UNCHANGED objects
    BY <2>3, LeaveInv DEF Fault
  <2>4. CASE Fault /\ Leave(s, "failed") /\ objects' = Committed(s)
    BY <2>1, <2>2, <2>4, LeaveInv DEF Fault
  <2>5. CASE /\ objects' = Committed(s)
             /\ creator' = None
             /\ created' = [created EXCEPT ![s] = 0]
             /\ GoTo(s, "verify")
             /\ UNCHANGED <<lock, faults>>
    <3>1. TypeOK'
      BY <2>2, <2>5, SchemaFacts DEF GoTo, IndInv, TypeOK, Active
    <3>2. CreatorInv'
      BY <1>8, <2>1, <2>5, SchemaFacts, MigrationAssumption
      DEF CommitTables, GoTo, IndInv, TypeOK, CreatorInv
    <3>3. SchemaInv'
      BY <2>2, <2>5 DEF GoTo, IndInv, TypeOK, SchemaInv
    <3>4. LockInv'
      BY <1>8, <2>5 DEF CommitTables, GoTo, IndInv, TypeOK, LockInv, Locked
    <3> QED
      BY <3>1, <3>2, <3>3, <3>4 DEF IndInv
  <2> QED
    BY <1>8, <2>3, <2>4, <2>5 DEF CommitTables
<1>9. ASSUME NEW s \in Services, VerifyVersion(s) PROVE IndInv'
  <2>1. objects = Objects
    BY <1>9 DEF VerifyVersion, IndInv, SchemaInv
  <2>2. CASE lock # s
    <3>1. faults # 0
      BY <1>9, <2>2 DEF VerifyVersion, IndInv, LockInv, Locked
    <3> QED
      BY <1>9, <2>2, <3>1, LeaveInv
      DEF VerifyVersion, AfterVerify, LATEST_SCHEMA_VERSION
  <2>3. CASE lock = s
    <3>1. PICK v \in 0 .. LATEST_SCHEMA_VERSION :
             read_schema_version(v) /\ Leave(s, AfterVerify(v))
      BY <1>9, <2>3 DEF VerifyVersion
    <3>2. faults' \in 0 .. MaxFaults /\ (faults' = 0 => faults = 0)
      BY <3>1 DEF read_schema_version, Fault
    <3>3. v # LATEST_SCHEMA_VERSION => faults' # 0
      BY <1>v, <2>1, <3>1 DEF read_schema_version, Fault
    <3> QED
      BY <1>9, <2>1, <3>1, <3>2, <3>3, LeaveInv DEF VerifyVersion, AfterVerify
  <2> QED
    BY <2>2, <2>3
<1>10. ASSUME NEW s \in Services, StatementError(s) PROVE IndInv'
  BY <1>10, LeaveInv DEF StatementError, Fault
<1>11. ASSUME NEW s \in Services, LoseLock(s) PROVE IndInv'
  BY <1>11 DEF LoseLock, Fault, IndInv, TypeOK, CreatorInv, SchemaInv, LockInv
<1>12. ASSUME NEW s \in Services, Restart(s) PROVE IndInv'
  BY <1>12, LeaveInv DEF Restart, Fault
<1> QED
  BY <1>1, <1>2, <1>3, <1>4, <1>5, <1>6, <1>7, <1>8, <1>9, <1>10, <1>11, <1>12
  DEF Next, Step

(***************************************************************************)
(* The invariant holds in every reachable state of the migration.          *)
(***************************************************************************)
THEOREM Invariance == Spec => []IndInv
  BY InitInv, StepInv, PTL DEF Spec

(***************************************************************************)
(* The schema of the database is there as a whole or not at all.           *)
(***************************************************************************)
THEOREM TypeCorrect == Spec => []TypeOK
<1>1. IndInv => TypeOK
  BY DEF IndInv
<1> QED
  BY <1>1, Invariance, PTL

(***************************************************************************)
(* migrate_db returns Ok only on the latest schema, for any number of      *)
(* services, restarts, failing statements and lost locks.                  *)
(***************************************************************************)
THEOREM ConnectedIsMigrated == Spec => []ConnectedHasSchema
<1>1. IndInv => ConnectedHasSchema
  BY VersionFacts DEF IndInv, SchemaInv, ConnectedHasSchema
<1> QED
  BY <1>1, Invariance, PTL

(***************************************************************************)
(* Services that start together never make each other fail: the version is *)
(* read again under the lock, and the lock outlasts the creation.          *)
(***************************************************************************)
THEOREM StartTogether == Spec => []NoNeedlessFailure
<1>1. IndInv => NoNeedlessFailure
  BY DEF IndInv, LockInv, NoNeedlessFailure
<1> QED
  BY <1>1, Invariance, PTL
=============================================================================
