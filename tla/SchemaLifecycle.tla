--------------------------- MODULE SchemaLifecycle ---------------------------
(***************************************************************************)
(* How the two SQLite authorities come into being and are upgraded: the    *)
(* constructors of SQLiteIdempotencyStore and SQLiteReconciliationLedger   *)
(* and their migrate_legacy methods, run by several processes against one  *)
(* database file.  The database is the set of schema objects the integrity *)
(* checks look at, the rows a migration rewrites, and the heads and outbox *)
(* rows it must not lose.                                                  *)
(*                                                                         *)
(* A construction of the ledger reads the database twice without a lock    *)
(* (the two preflights) and then initializes it in one transaction; every  *)
(* other construction is one transaction.  A transaction that fails or     *)
(* whose process dies leaves the database as it was.  Between two of these *)
(* steps another process may act, or an operator may put an older or an    *)
(* incomplete database in place (Restore), which happens while no process  *)
(* serves from it.                                                         *)
(***************************************************************************)
EXTENDS Integers, FiniteSets

CONSTANTS
    Processes,      \* processes that construct a store or a ledger
    RowKeys,        \* idempotency keys
    Actions,        \* execution records with a reconciliation head
    Backups,        \* the databases there may be at first
    Restorable,     \* those an operator may put in place later
    MaxRestores     \* bound: restores in a behaviour

CoreTables == {"heads", "events", "prepared", "outbox"}

\* The tables of the released pre-outbox versions.
LegacyCoreTables ==
    [v \in 1..3 |-> IF v = 1 THEN {"heads", "events"} ELSE CoreTables \ {"outbox"}]

Guards == {"events_no_update", "events_no_delete", "prepared_no_update",
           "prepared_delete_guard", "outbox_immutable", "outbox_no_delete"}

LegacyGuards(v) ==
    {"events_no_update", "events_no_delete"}
        \union (IF v >= 2 THEN {"prepared_no_update", "prepared_delete_guard"} ELSE {})

Indexes == {"state_updated", "key_generation"}

\* Versions of reconciliation_schema: NoTable without the table, NoVersion
\* when the table has no row; 6 stands for a version this release does not know.
NoTable == -2
NoVersion == -1
Current == 5

Row == [state : {"none", "pending", "completed", "unknown", "applied_no_result"},
        result : {"none", "json", "garbled"},
        lease : {"none", "aware", "naive"},
        error : BOOLEAN]

\* A row of the outbox: created says whether created_at is the time of the
\* lineage it describes or the time it was enqueued, touched whether a
\* delivery has been attempted.
Envelope == [type : {"unknown_recorded", "migration_snapshot_recorded"},
             created : {"lineage", "enqueued"}, touched : BOOLEAN]

\* foreign: some object of the authority has another definition than the
\* supported one, or is one too many; orphans: a row refers to a missing head.
Database ==
    [records : {"none", "v05", "v2"}, versioned : BOOLEAN, indexes : SUBSET Indexes,
     foreignStore : BOOLEAN, rows : [RowKeys -> Row],
     version : -2..6, tables : SUBSET CoreTables, marker : BOOLEAN,
     guards : SUBSET Guards, pending : BOOLEAN, foreignLedger : BOOLEAN,
     orphans : BOOLEAN,
     heads : SUBSET Actions, outbox : [Actions -> SUBSET Envelope]]

Constructions == {"store", "ledger", "migrate_store", "migrate_ledger"}

ASSUME SchemaConstants ==
    Restorable \subseteq Backups /\ Backups \subseteq Database /\ MaxRestores \in Nat

\* A row that acquire can read.
ReadableRow(row) ==
    /\ row.state = "pending" => row.lease = "aware"
    /\ row.state = "completed" <=> row.result = "json"

\* What a database holds was written by a release.  The rows of the released
\* table satisfy its CHECK constraints and hold a lease in UTC and encoded
\* results (registry.py:71-78, 511, 720); a head and its outbox row are written
\* in one transaction, and the outbox loses no row (reconciliation.py:1571).
WrittenByRelease(d) ==
    /\ d.records # "v05" => \A k \in RowKeys : ReadableRow(d.rows[k])
    /\ d.version \in 4..Current /\ "outbox" \in d.tables => \A a \in d.heads : d.outbox[a] # {}

ASSUME BackupsOfReleases == \A d \in Backups : WrittenByRelease(d)

VARIABLES
    db,          \* the database file
    phase,       \* where each process is in its construction
    kind,        \* which authority it constructs, and how
    restores     \* restores so far

schemaVars == <<db, phase, kind, restores>>

-----------------------------------------------------------------------------
(* The idempotency authority.                                              *)

SchemaIntegrity(d) ==
    d.records = "v2" /\ d.versioned /\ d.indexes = Indexes /\ ~d.foreignStore

LegacySchemaIntegrity(d) ==
    /\ ~d.foreignStore
    /\ d.indexes \subseteq (IF d.records = "v2" THEN Indexes ELSE {"state_updated"})

PreflightSchema(d, allowLegacy) ==
    CASE d.records = "none" ->
            IF d.versioned \/ d.foreignStore THEN "refused" ELSE "absent"
      [] d.records # "none" /\ ~d.versioned ->
            IF allowLegacy /\ LegacySchemaIntegrity(d) THEN "legacy" ELSE "refused"
      [] d.records # "none" /\ d.versioned ->
            IF SchemaIntegrity(d) THEN "current" ELSE "refused"

NormalizeFrees(row) ==
    IF row.state = "pending" /\ row.lease # "aware"
    THEN [state |-> "none", result |-> "none", lease |-> "none", error |-> FALSE]
    ELSE row

NormalizeLegacyRow(row) ==
    LET blocked(state) == [state |-> state, result |-> "none", lease |-> "none",
                           error |-> TRUE]
    IN CASE row.state = "pending" ->
                IF row.lease = "aware" /\ row.result = "none" /\ ~row.error
                THEN row ELSE blocked("unknown")
         [] row.state = "completed" ->
                IF row.result = "json"
                THEN [row EXCEPT !.lease = "none", !.error = FALSE]
                ELSE blocked("applied_no_result")
         [] OTHER -> [row EXCEPT !.result = "none", !.lease = "none"]

MigrateLegacyRecords(d) ==
    [d EXCEPT !.records = "v2", !.indexes = {},
              !.rows = [k \in RowKeys |-> NormalizeLegacyRow(d.rows[k])]]

StandaloneMigrationTarget(d) == d.version = NoTable /\ d.tables = {}

\* The databases the transaction may commit: none when it raises.
InitializeSchema(d, allowLegacy, standalone) ==
    LET state == PreflightSchema(d, allowLegacy)
        migrated == IF d.records = "v05" THEN MigrateLegacyRecords(d) ELSE d
        installed == [migrated EXCEPT !.records = "v2", !.versioned = TRUE,
                                      !.indexes = Indexes]
    IN IF (standalone /\ ~StandaloneMigrationTarget(d)) \/ state = "refused"
       THEN {}
       ELSE IF state = "current" THEN {d} ELSE {x \in {installed} : SchemaIntegrity(x)}

-----------------------------------------------------------------------------
(* The reconciliation authority.                                           *)

\* The objects have the supported definitions and constraints.
TableContract(d) == ~d.foreignLedger

\* No event or envelope refers to a head that is not there.
ForeignKeys(d) == ~d.orphans

\* The guards are there as defined; for the outbox a savepoint tries them out.
TriggerContract(d, guards) == d.guards = guards

AuditOutboxIntegrity(d, requireMarker) ==
    /\ d.tables = CoreTables
    /\ d.marker = requireMarker
    /\ TableContract(d)
    /\ ForeignKeys(d)
    /\ TriggerContract(d, Guards)
    /\ d.pending

LegacyLedgerIntegrity(d) ==
    /\ d.tables = LegacyCoreTables[d.version]
    /\ TriggerContract(d, LegacyGuards(d.version))
    /\ TableContract(d)
    /\ ForeignKeys(d)

OutboxHealed(d, allowLegacy) ==
    IF d.version = NoTable
    THEN d.tables = {}
    ELSE /\ d.version \in 0..Current
         /\ d.version \in 1..3 => allowLegacy /\ LegacyLedgerIntegrity(d)

ValidateReconciliationSchema(d, allowLegacy) ==
    IF d.version = NoTable
    THEN d.tables = {}
    ELSE /\ ~d.foreignLedger
         /\ d.version \in 0..Current
         /\ d.version = 0 => d.tables = {}
         /\ d.version < 4 => "outbox" \notin d.tables
         /\ d.version \in 1..3 => allowLegacy /\ LegacyLedgerIntegrity(d)
         /\ d.version >= 4 => AuditOutboxIntegrity(d, d.version >= 5)

Unattempted(e) == e.type = "migration_snapshot_recorded" /\ ~e.touched

NormalizeLegacySnapshotEnqueueTimes(envelopes) ==
    {IF Unattempted(e) THEN [e EXCEPT !.created = "enqueued"] ELSE e : e \in envelopes}

BackfillLegacyAuditOutbox(d) ==
    [a \in Actions |->
        IF a \in d.heads /\ d.outbox[a] = {}
        THEN {[type |-> "migration_snapshot_recorded", created |-> "enqueued",
               touched |-> FALSE]}
        ELSE d.outbox[a]]

\* Guards that the transaction drops for its own statements are back at its end.
Upgraded(d) ==
    [d EXCEPT !.tables = CoreTables, !.marker = TRUE, !.pending = TRUE,
              !.version = Current,
              !.guards = Guards,
              !.outbox = IF d.version < 4 THEN BackfillLegacyAuditOutbox(d)
                         ELSE IF d.version = 4
                         THEN [a \in Actions |-> NormalizeLegacySnapshotEnqueueTimes(d.outbox[a])]
                         ELSE d.outbox]

\* Mutant: the transaction trusts the preflights.
InitializeUnchecked(d, allowLegacy) ==
    {x \in {Upgraded(d)} : AuditOutboxIntegrity(x, TRUE)}

\* _initialize: the checks of both authorities are repeated inside the
\* transaction, then every missing object is created.
Initialize(d, allowLegacy) ==
    {x \in {Upgraded(d)} : /\ PreflightSchema(d, allowLegacy) # "refused"
                           /\ ValidateReconciliationSchema(d, allowLegacy)
                           /\ AuditOutboxIntegrity(x, TRUE)}

ControlledMigration(d) ==
    LET upgraded(x) == IF PreflightSchema(d, TRUE) = "absent" THEN {x}
                       ELSE InitializeSchema(x, TRUE, FALSE)
    IN IF ValidateReconciliationSchema(d, TRUE) /\ PreflightSchema(d, TRUE) # "refused"
       THEN UNION {{y \in upgraded(x) : AuditOutboxIntegrity(y, TRUE)} :
                        x \in Initialize(d, TRUE)}
       ELSE {}

-----------------------------------------------------------------------------
(* Processes.                                                              *)

SchemaInit ==
    /\ db \in Backups
    /\ phase = [p \in Processes |-> "idle"]
    /\ kind = [p \in Processes |-> "store"]
    /\ restores = 0

Construct(p, c) ==
    /\ phase[p] = "idle"
    /\ phase' = [phase EXCEPT ![p] = IF c = "ledger" THEN "preflight" ELSE "initialize"]
    /\ kind' = [kind EXCEPT ![p] = c]
    /\ UNCHANGED <<db, restores>>

\* _preflight_reconciliation_schema: a read of its own.
PreflightReconciliation(p) ==
    /\ phase[p] = "preflight"
    /\ phase' = [phase EXCEPT ![p] = IF ValidateReconciliationSchema(db, FALSE)
                                     THEN "preflight_store" ELSE "refused"]
    /\ UNCHANGED <<db, kind, restores>>

\* _preflight_idempotency_schema: another one.
PreflightIdempotency(p) ==
    /\ phase[p] = "preflight_store"
    /\ phase' = [phase EXCEPT ![p] = IF PreflightSchema(db, FALSE) # "refused"
                                     THEN "initialize" ELSE "refused"]
    /\ UNCHANGED <<db, kind, restores>>

Committable(c) ==
    CASE c = "store" -> InitializeSchema(db, FALSE, FALSE)
      [] c = "migrate_store" -> InitializeSchema(db, TRUE, TRUE)
      [] c = "ledger" -> Initialize(db, FALSE)
      [] c = "migrate_ledger" -> ControlledMigration(db)

\* The transaction under the initializer lock: it commits, or it raises.
InitializeDatabase(p) ==
    /\ phase[p] = "initialize"
    /\ \/ /\ db' \in Committable(kind[p])
          /\ phase' = [phase EXCEPT ![p] = "open"]
       \/ /\ Committable(kind[p]) = {}
          /\ phase' = [phase EXCEPT ![p] = "refused"]
          /\ UNCHANGED db
    /\ UNCHANGED <<kind, restores>>

\* The process ends, dies in its construction, or tries again.
Leave(p) ==
    /\ phase[p] # "idle"
    /\ phase' = [phase EXCEPT ![p] = "idle"]
    /\ kind' = [kind EXCEPT ![p] = "store"]
    /\ UNCHANGED <<db, restores>>

\* create_unknown of a ledger that is in service.
CreatesHead(p, a) ==
    /\ phase[p] = "open" /\ kind[p] \in {"ledger", "migrate_ledger"}
    /\ a \notin db.heads
    /\ {"heads", "outbox"} \subseteq db.tables
    /\ db' = [db EXCEPT !.heads = @ \union {a},
                        !.outbox[a] = @ \union {[type |-> "unknown_recorded",
                                                 created |-> "enqueued",
                                                 touched |-> FALSE]}]
    /\ UNCHANGED <<phase, kind, restores>>

Restore ==
    /\ restores < MaxRestores
    /\ \A p \in Processes : phase[p] # "open"
    /\ db' \in Restorable
    /\ restores' = restores + 1
    /\ UNCHANGED <<phase, kind>>

SchemaNext ==
    \/ \E p \in Processes :
        \/ \E c \in Constructions : Construct(p, c)
        \/ PreflightReconciliation(p)
        \/ PreflightIdempotency(p)
        \/ InitializeDatabase(p)
        \/ Leave(p)
        \/ \E a \in Actions : CreatesHead(p, a)
    \/ Restore

SchemaSpec == SchemaInit /\ [][SchemaNext]_schemaVars

-----------------------------------------------------------------------------
(* Properties.                                                             *)

\* The state has its type.
SchemaTypeOK ==
    /\ db \in Database
    /\ phase \in [Processes ->
            {"idle", "preflight", "preflight_store", "initialize", "open", "refused"}]
    /\ kind \in [Processes -> Constructions]
    /\ restores \in 0..MaxRestores

\* Whoever serves from the database serves from a complete one: while a
\* process has the ledger open, all its tables, guards and its index are in
\* force, and while one has the store open the store has its released schema
\* and only rows that acquire can read, whatever other processes construct or
\* migrate in the same file (reconciliation.py:3043, registry.py:1160).
OpenMeansIntact ==
    \A p \in Processes : phase[p] = "open" =>
        /\ kind[p] \in {"ledger", "migrate_ledger"} =>
            db.version = Current /\ AuditOutboxIntegrity(db, TRUE)
        /\ kind[p] \in {"store", "migrate_store"} =>
            /\ SchemaIntegrity(db)
            /\ \A k \in RowKeys : ReadableRow(db.rows[k])

\* No recovery obligation is out of the audit's sight: in a database of the
\* current version every head has a row in the outbox, be it one that was
\* enqueued with it or the snapshot the migration made for it; a lost outbox
\* is never replaced by an empty one (reconciliation.py:3471, 3050-3056).
ObligationsAreVisible ==
    db.version = Current /\ "outbox" \in db.tables =>
        \A a \in db.heads : db.outbox[a] # {}

Legacy(d) == d.records # "none" /\ ~d.versioned
PreOutbox(d) == d.version \in 1..3
Migrating == \E p \in Processes :
    /\ kind[p] \in {"migrate_store", "migrate_ledger"}
    /\ phase[p] = "initialize" /\ phase'[p] = "open"

\* Only migrate_legacy rewrites an unversioned store or a ledger without an
\* outbox (versions 1 to 3): no interleaving of ordinary constructions and
\* restores lets a constructor that checked another database write to them
\* (reconciliation.py:2689-2694, 2732-2737).  A ledger of version 4 is not
\* meant: the ordinary constructor upgrades it (reconciliation.py:2767-2773).
MigrationIsExplicit ==
    [][restores' = restores /\ ~Migrating /\ (Legacy(db) \/ PreOutbox(db)) =>
        /\ Legacy(db) => Legacy(db') /\ db'.rows = db.rows
                         /\ db'.version = db.version /\ db'.tables = db.tables
        /\ PreOutbox(db) => /\ PreOutbox(db') /\ db'.tables = db.tables
                            /\ db'.guards = db.guards]_schemaVars

\* Two authorities in one file are upgraded in one transaction: a legacy
\* store beside a pre-outbox ledger never becomes current without it, nor the
\* ledger without the store (reconciliation.py:1531, registry.py:1107).
MigratesTogether ==
    [][restores' = restores /\ Legacy(db) /\ PreOutbox(db) =>
        (Legacy(db') <=> PreOutbox(db'))]_schemaVars

\* No construction or migration frees a key: a row stays, a stored result
\* stays one, and what was no readable result never becomes one; an active
\* claim stays active only when its lease can be trusted (registry.py:1391).
BlocksSurvive ==
    [][restores' = restores => \A k \in RowKeys :
        LET old == db.rows[k]  new == db'.rows[k]
        IN /\ old.state # "none" => new.state # "none"
           /\ new.state = "completed" <=> old.state = "completed" /\ (old.result = "json" \/ new = old)
           /\ new.state = "pending" => old = new]_schemaVars
=============================================================================
