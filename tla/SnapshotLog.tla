---------------------------- MODULE SnapshotLog ----------------------------
(***************************************************************************)
(* JSONLSnapshotStore: context snapshots of every trace in one append-only  *)
(* file, numbered per trace, and a state file that remembers the size of    *)
(* the log and the last number of each trace so that a write need not read  *)
(* the log.  A file lock serialises the callers; a caller can stop between  *)
(* any two file operations.  SQLiteSnapshotStore does the same inside one    *)
(* transaction.                                                             *)
(***************************************************************************)
EXTENDS Integers, Sequences, FiniteSetsExt

CONSTANTS
    Traces,         \* trace ids
    MaxLines,       \* bound: lines in the log
    MaxFailures,    \* bound: crashes
    Numbers,        \* sequence numbers a caller of write() may bring
    NoFile          \* the state file does not exist

ASSUME SnapshotConstants ==
    MaxLines \in Nat /\ MaxFailures \in Nat /\ Numbers \subseteq Nat

VARIABLES
    log,            \* the lines of the log file
    openLine,       \* its last line has no newline
    fileSize,       \* its size: a line counts two, part of one or all but its newline one
    index,          \* the state file, or NoFile
    snapshot,       \* the write in progress
    returned,       \* snapshots whose write returned
    failures

snapshotVars == <<log, openLine, fileSize, index, snapshot, returned, failures>>

\* A snapshot's line: its trace and number.  Garbled is a line that is not JSON.
Snapshot(trace, sequence) == [trace |-> trace, sequence |-> sequence]
Garbled == [trace |-> NoFile, sequence |-> -1]

NoSequences == [t \in Traces |-> -1]

Unreadable == [size |-> -1, sequences |-> NoSequences]

\* -1 for a trace without a line: get(trace_id, -1).
LastNumber(lines, t) ==
    LET mine == {i \in DOMAIN lines : lines[i].trace = t}
    IN  IF mine = {} THEN -1 ELSE lines[Max(mine)].sequence

Increasing(lines) ==
    \A i, j \in DOMAIN lines :
        i < j /\ lines[i].trace = lines[j].trace => lines[i].sequence < lines[j].sequence

\* _rebuild_sequence_state_unlocked(): every line is read, numbers must rise.
Rebuild ==
    IF Garbled \in Range(log) \/ ~Increasing(log) THEN Unreadable
    ELSE [size |-> fileSize, sequences |-> [t \in Traces |-> LastNumber(log, t)]]

\* _load_sequence_state_unlocked()
LoadSequenceState ==
    CASE index = NoFile /\ fileSize = 0 -> [size |-> 0, sequences |-> NoSequences]
      [] index = NoFile /\ fileSize # 0 -> Rebuild
      [] index # NoFile /\ fileSize < index.size -> Unreadable
      [] index # NoFile /\ fileSize > index.size -> Rebuild
      [] OTHER -> index

Resting == [at |-> "rest", line |-> Garbled, sequences |-> NoSequences]

SnapshotInit ==
    /\ log = <<>>
    /\ openLine = FALSE
    /\ fileSize = 0
    /\ index = NoFile
    /\ snapshot = Resting
    /\ returned = {}
    /\ failures = 0

\* The load of both writers.  A rebuilt index is saved at once.
StartSnapshot(t, Number(_)) ==
    LET state == LoadSequenceState
    IN  /\ snapshot.at = "rest"
        /\ Len(log) < MaxLines
        /\ state # Unreadable
        /\ snapshot' = [at |-> "append", sequences |-> state.sequences,
                        line |-> Snapshot(t, Number(state.sequences[t]))]
        /\ index' = IF index = NoFile /\ fileSize = 0 THEN NoFile ELSE state
        /\ UNCHANGED <<log, openLine, fileSize, returned, failures>>

\* Mutant: a caller's number is taken as it comes.
WriteVerbatim(t, brought) ==
    StartSnapshot(t, LAMBDA last : brought)

\* write(): the number the caller brings, unless the trace is already past it.
Write(t, brought) ==
    StartSnapshot(t, LAMBDA last : IF brought <= last THEN last + 1 ELSE brought)

\* write_context(), the middleware's call: the next number of the trace.
WriteContext(t) == StartSnapshot(t, LAMBDA last : last + 1)

\* A line written behind one without newline joins it.
PutLine(line, size) ==
    /\ log' = IF openLine THEN [log EXCEPT ![Len(log)] = Garbled] ELSE Append(log, line)
    /\ fileSize' = fileSize + size

AppendSnapshot ==
    /\ snapshot.at = "append"
    /\ PutLine(snapshot.line, 2)
    /\ openLine' = FALSE
    /\ snapshot' = [snapshot EXCEPT !.at = "index"]
    /\ UNCHANGED <<index, returned, failures>>

\* The state file follows; the write returns.
IndexSnapshot ==
    /\ snapshot.at = "index"
    /\ index' = [size |-> fileSize,
                 sequences |-> [snapshot.sequences EXCEPT
                                  ![snapshot.line.trace] = snapshot.line.sequence]]
    /\ returned' = returned \cup {snapshot.line}
    /\ snapshot' = Resting
    /\ UNCHANGED <<log, openLine, fileSize, failures>>

\* The writer stops before its next file operation.
StopWriting ==
    /\ snapshot.at # "rest"
    /\ failures < MaxFailures
    /\ failures' = failures + 1
    /\ snapshot' = Resting
    /\ UNCHANGED <<log, openLine, fileSize, index, returned>>

\* The writer stops inside the append: part of the line, or all but its newline.
StopInAppend ==
    /\ snapshot.at = "append"
    /\ failures < MaxFailures
    /\ failures' = failures + 1
    /\ \E line \in {Garbled, snapshot.line} : PutLine(line, 1)
    /\ openLine' = TRUE
    /\ snapshot' = Resting
    /\ UNCHANGED <<index, returned>>

SnapshotNext ==
    \/ \E t \in Traces : WriteContext(t) \/ \E n \in Numbers : Write(t, n)
    \/ AppendSnapshot \/ IndexSnapshot \/ StopWriting \/ StopInAppend

SnapshotSpec == SnapshotInit /\ [][SnapshotNext]_snapshotVars

-----------------------------------------------------------------------------

\* However the writers stop, a log whose lines are whole keeps each trace's
\* snapshots in rising order, holds every snapshot whose write returned, and the
\* next writer accepts it: write(), write_context() and the rebuild.
SnapshotsSurvive ==
    Garbled \notin Range(log) =>
        /\ Increasing(log)
        /\ returned \subseteq Range(log)
        /\ LoadSequenceState # Unreadable
=============================================================================
