---------------------------- MODULE MCPersistence ----------------------------
(***************************************************************************)
(* What outlives a call, part by part: a behaviour is one of the audit      *)
(* journal, of the snapshot log, of the process-local store with its        *)
(* channel, or of the schema of the SQLite authorities.  They share no      *)
(* state.                                                                   *)
(***************************************************************************)
EXTENDS AuditJournal, SnapshotLog, LocalStore, SchemaLifecycle

CONSTANTS x1, x2, x3, k1, k2, a1

TwoKeys == [x \in Executions |-> IF x = x3 THEN k2 ELSE k1]

SameOrNot == {[x \in Executions |-> 1], [x \in Executions |-> IF x = x2 THEN 2 ELSE 1]}

NoRow == [state |-> "none", result |-> "none", lease |-> "none", error |-> FALSE]

\* Rows that release 0.5 may have left, and rows of the current definition.
OldRows == {NoRow}
    \union {[state |-> "pending", result |-> r, lease |-> l, error |-> FALSE] :
                r \in {"none", "json"}, l \in {"aware", "naive"}}
    \union {[state |-> "completed", result |-> r, lease |-> "none", error |-> FALSE] :
                r \in {"none", "json", "garbled"}}
    \union {[state |-> "unknown", result |-> r, lease |-> "none", error |-> TRUE] :
                r \in {"none", "json"}}
NewRows == {NoRow,
    [state |-> "pending", result |-> "none", lease |-> "aware", error |-> FALSE],
    [state |-> "completed", result |-> "json", lease |-> "none", error |-> FALSE],
    [state |-> "unknown", result |-> "none", lease |-> "none", error |-> TRUE]}

StoreShape(r, v, i, f, rows) ==
    [records : {r}, versioned : {v}, indexes : i, foreignStore : f, rows : [RowKeys -> rows]]

StoreShapes ==
    StoreShape("none", FALSE, {{}}, BOOLEAN, {NoRow})
        \union StoreShape("v05", FALSE, {{"state_updated"}}, {FALSE}, OldRows)
        \union StoreShape("v2", FALSE, {{}, Indexes}, {FALSE}, NewRows)
        \union StoreShape("v2", TRUE, {Indexes}, BOOLEAN, NewRows)

LedgerShape(v, t, m, g, i, h, o) ==
    [version |-> v, tables |-> t, marker |-> m, guards |-> g, pending |-> i,
     foreignLedger |-> FALSE, orphans |-> FALSE, heads |-> h, outbox |-> o]

NoEnvelopes == [a \in Actions |-> {}]
Filled(e) == [a \in Actions |-> {e}]
OldSnapshot(t) == [type |-> "migration_snapshot_recorded", created |-> "lineage", touched |-> t]
Recorded == [type |-> "unknown_recorded", created |-> "enqueued", touched |-> TRUE]

Whole == {LedgerShape(NoTable, {}, FALSE, {}, FALSE, {}, NoEnvelopes),
          LedgerShape(0, {}, FALSE, {}, FALSE, {}, NoEnvelopes)}
    \union {LedgerShape(v, LegacyCoreTables[v], FALSE, LegacyGuards(v), FALSE, h, NoEnvelopes) :
                v \in 1..3, h \in SUBSET Actions}
    \union {LedgerShape(4, CoreTables, FALSE, Guards, TRUE, Actions, Filled(e)) :
                e \in {OldSnapshot(TRUE), OldSnapshot(FALSE), Recorded}}
    \union {LedgerShape(5, CoreTables, TRUE, Guards, TRUE, {}, NoEnvelopes),
            LedgerShape(5, CoreTables, TRUE, Guards, TRUE, Actions, Filled(Recorded))}

\* Restored in part: one object is missing, or one is not as released.
Broken ==
    {LedgerShape(v, CoreTables \ {"outbox"}, v = 5, Guards, TRUE, Actions, NoEnvelopes) : v \in 4..5}
    \union {LedgerShape(5, CoreTables, TRUE, Guards \ {g}, TRUE, Actions, Filled(Recorded)) :
                g \in {"prepared_delete_guard", "outbox_immutable"}}
    \union {LedgerShape(NoTable, CoreTables, TRUE, Guards, TRUE, Actions, Filled(Recorded)),
            LedgerShape(NoVersion, {}, FALSE, {}, FALSE, {}, NoEnvelopes),
            LedgerShape(6, CoreTables, TRUE, Guards, TRUE, Actions, Filled(Recorded)),
            LedgerShape(5, CoreTables, TRUE, Guards, FALSE, Actions, Filled(Recorded))}
    \union {[LedgerShape(5, CoreTables, TRUE, Guards, TRUE, Actions, Filled(Recorded))
                EXCEPT !.foreignLedger = f, !.orphans = ~f] : f \in BOOLEAN}

Colocated(s, l) ==
    [records |-> s.records, versioned |-> s.versioned, indexes |-> s.indexes,
     foreignStore |-> s.foreignStore, rows |-> s.rows, version |-> l.version,
     tables |-> l.tables, marker |-> l.marker, guards |-> l.guards,
     pending |-> l.pending, foreignLedger |-> l.foreignLedger,
     orphans |-> l.orphans, heads |-> l.heads, outbox |-> l.outbox]

SomeBackups == {Colocated(s, l) : s \in StoreShapes, l \in Whole \union Broken}

\* One database of each shape.
SomeRestorable == {d \in SomeBackups :
    /\ d.rows \in [RowKeys -> {NoRow, [state |-> "pending", result |-> "none",
                                    lease |-> "naive", error |-> FALSE]}]
    /\ d.version \in {NoTable, 3, 5} /\ ~d.foreignStore /\ ~d.orphans /\ ~d.foreignLedger}

VARIABLE part

vars == <<part, journalVars, snapshotVars, localVars, schemaVars>>

AnyBackup == CHOOSE d \in SomeBackups : TRUE

\* Only the part that runs has more than one initial state.
Init ==
    /\ part \in {"journal", "snapshots", "store", "schema"}
    /\ JournalInit /\ SnapshotInit /\ LocalInit /\ SchemaInit
    /\ part # "store" => fingerprint = [x \in Executions |-> 1]
    /\ part # "schema" => db = AnyBackup

Next ==
    /\ UNCHANGED part
    /\ \/ /\ part = "journal" /\ JournalNext
          /\ UNCHANGED <<snapshotVars, localVars, schemaVars>>
       \/ /\ part = "snapshots" /\ SnapshotNext
          /\ UNCHANGED <<journalVars, localVars, schemaVars>>
       \/ /\ part = "store" /\ LocalNext
          /\ UNCHANGED <<journalVars, snapshotVars, schemaVars>>
       \/ /\ part = "schema" /\ SchemaNext
          /\ UNCHANGED <<journalVars, snapshotVars, localVars>>

Spec == Init /\ [][Next]_vars
=============================================================================
