---------------------------- MODULE AuditJournal ----------------------------
(***************************************************************************)
(* JSONLAuditSink: a hash-chained log kept in numbered segment files and a  *)
(* separate state file that holds the chain's two ends.  A file lock        *)
(* serialises writers and readers, so one writer is modelled; what is hard  *)
(* is that the writer can stop between any two file operations, and that    *)
(* the next one must make sense of what it finds.  An operation that raises *)
(* leaves the files as a crash at the same point would.                     *)
(***************************************************************************)
EXTENDS Integers, Sequences, FiniteSetsExt

CONSTANTS
    MaxWrites,      \* bound: events that reach a segment file
    MaxCrashes,     \* bound: crashes
    MaxBytes,       \* max_bytes, counted in lines of one segment
    BackupCount,    \* backup_count
    Missing         \* a file that does not exist

JournalLines == [sequence : Int, id : Int, prev : Int]
JournalStates == [first : Int, firstPrev : Int, last : Int, lastHash : Int]

ASSUME JournalConstants ==
    /\ MaxWrites \in Nat /\ MaxCrashes \in Nat
    /\ MaxBytes \in Nat \ {0} /\ BackupCount \in Nat \ {0}
    /\ Missing \notin Seq(JournalLines) /\ Missing \notin JournalStates

VARIABLES
    segment,        \* 0 is the live path, i the backup path.i: its lines, or Missing
    unterminated,   \* the last line of the live path has no newline
    stateFile,      \* the state file, or Missing
    writer,         \* the writer in progress
    written,        \* events appended so far: the identity of the next one
    acked,          \* events whose write returned
    crashes

journalVars == <<segment, unterminated, stateFile, writer, written, acked, crashes>>

Genesis == 0

\* An event: its place in the chain, its identity (its hash) and the identity
\* it follows.  A line that is not JSON is Damaged.
AuditEvent(sequence, id, prev) == [sequence |-> sequence, id |-> id, prev |-> prev]
Damaged == AuditEvent(-1, -1, -1)

EmptyState == [first |-> 0, firstPrev |-> Genesis, last |-> -1, lastHash |-> Genesis]

Refused == [EmptyState EXCEPT !.first = -1]

Highest == MaxWrites + MaxCrashes + 1
Indices == 0 .. Highest

\* The files there are; the highest index is the oldest segment, the live path comes last.
SegmentPaths(files) == {i \in Indices : files[i] # Missing}
BackupIndices(files) == SegmentPaths(files) \ {0}

Lines(files) == UNION {Range(files[i]) : i \in SegmentPaths(files)}

\* A line's place, and the order in which the segments are read.
LinePlaces(files) == UNION {{<<i, k>> : k \in DOMAIN files[i]} : i \in SegmentPaths(files)}
Line(files, p) == files[p[1]][p[2]]
Before(p, q) == p[1] > q[1] \/ (p[1] = q[1] /\ p[2] < q[2])

\* The read skips a line below the sequence it expects, which starts at the
\* anchor and passes every event taken; each event taken must continue the chain.
ReadVerified(files, state) ==
    LET taken == {p \in LinePlaces(files) :
                    /\ Line(files, p).sequence >= state.first
                    /\ \A q \in LinePlaces(files) :
                          Before(q, p) => Line(files, q).sequence < Line(files, p).sequence}
        events == {Line(files, p) : p \in taken}
    IN  [events |-> events,
         ok |-> /\ Damaged \notin Lines(files)
                /\ \A e \in events :
                      IF e.sequence = state.first THEN e.prev = state.firstPrev
                      ELSE \E d \in events : d.sequence = e.sequence - 1 /\ d.id = e.prev]

\* The last of the events a read took: their sequences rise.
Newest(events) == CHOOSE e \in events : \A d \in events : d.sequence <= e.sequence

VerifyTail(events, state) ==
    IF events = {} THEN state.last < state.first
    ELSE Newest(events).sequence = state.last /\ Newest(events).id = state.lastHash

\* Mutant: the recorded end of the chain is trusted over the events found.
ReconcileNothing(events, state) == IF VerifyTail(events, state) THEN state ELSE Refused

\* The events may run past the recorded end, never fall short of it or leave it.
ReconcileAppendedTail(events, state) ==
    CASE VerifyTail(events, state) -> state
      [] ~VerifyTail(events, state) /\ events = {} -> Refused
      [] OTHER ->
           IF \/ Newest(events).sequence < state.last
              \/ /\ state.last >= state.first
                 /\ ~\E e \in events : e.sequence = state.last /\ e.id = state.lastHash
           THEN Refused
           ELSE [state EXCEPT !.last = Newest(events).sequence, !.lastHash = Newest(events).id]

LoadOrRebuildState(files, state) ==
    CASE state # Missing ->
           LET chain == ReadVerified(files, state)
           IN  IF chain.ok THEN ReconcileAppendedTail(chain.events, state) ELSE Refused
      [] state = Missing /\ SegmentPaths(files) # {} -> Refused
      [] OTHER -> EmptyState

\* The last line of the newest segment that has one.
TailLine(files) ==
    Line(files, CHOOSE p \in LinePlaces(files) : \A q \in LinePlaces(files) : q = p \/ Before(q, p))

LoadStateForWrite(files, state) ==
    CASE state = Missing -> LoadOrRebuildState(files, state)
      [] state # Missing /\ LinePlaces(files) = {} ->
           IF VerifyTail({}, state) THEN state ELSE Refused
      [] OTHER ->
           CASE TailLine(files) = Damaged -> Refused
             [] TailLine(files) # Damaged /\ VerifyTail({TailLine(files)}, state) -> state
             [] TailLine(files) # Damaged /\ TailLine(files).sequence > state.last ->
                  LoadOrRebuildState(files, state)
             [] OTHER -> Refused

ShouldRotate(files) ==
    /\ files[0] # Missing
    /\ files[0] # <<>>
    /\ Len(files[0]) + 1 > MaxBytes

Rename(files, from, to) == [files EXCEPT ![to] = files[from], ![from] = Missing]

\* The segments that stay and have a line.
Kept(files) == {i \in SegmentPaths(files) : i <= BackupCount /\ files[i] # <<>>}

AnchorAt(event, state) == [state EXCEPT !.first = event.sequence, !.firstPrev = event.prev]

\* Mutant: the anchor is read from the wrong end of the oldest segment that stays.
AnchorAtTail(files, state) ==
    LET oldest == files[Max(Kept(files))]
    IN  IF Kept(files) = {} THEN state ELSE AnchorAt(oldest[Len(oldest)], state)

\* The anchor moves to the first event of the segments that stay.
StateBeforePrune(files, state) ==
    IF Kept(files) = {} THEN state ELSE AnchorAt(Head(files[Max(Kept(files))]), state)

\* What is written behind an unterminated line joins it.
Joined(lines) == [lines EXCEPT ![Len(lines)] = Damaged]

AppendLine(line) ==
    segment' = [segment EXCEPT ![0] = CASE @ = Missing -> <<line>>
                                        [] @ # Missing /\ unterminated -> Joined(@)
                                        [] @ # Missing /\ ~unterminated -> Append(@, line)]

-----------------------------------------------------------------------------

Idle == [at |-> "idle", state |-> EmptyState, todo |-> {}]

NextEvent == AuditEvent(writer.state.last + 1, written + 1, writer.state.lastHash)

JournalInit ==
    /\ segment = [i \in Indices |-> Missing]
    /\ unterminated = FALSE
    /\ stateFile = Missing
    /\ writer = Idle
    /\ written = 0
    /\ acked = {}
    /\ crashes = 0

\* write(): load, and decide whether the live segment is full.  A state rebuilt
\* from a longer log is saved before the write goes on.
BeginWrite ==
    LET state == LoadStateForWrite(segment, stateFile)
        full == ShouldRotate(segment)
    IN  /\ writer.at = "idle"
        /\ written < MaxWrites
        /\ state # Refused
        /\ writer' = [at |-> IF full THEN "rotate" ELSE "append", state |-> state,
                      todo |-> IF full THEN SegmentPaths(segment) ELSE {}]
        /\ stateFile' = IF stateFile = Missing THEN Missing ELSE state
        /\ UNCHANGED <<segment, unterminated, written, acked, crashes>>

\* _rotate(): one rename after the other, the highest index first.
Rotate ==
    /\ writer.at = "rotate"
    /\ writer.todo # {}
    /\ LET index == Max(writer.todo)
       IN  /\ segment' = Rename(segment, index, index + 1)
           /\ unterminated' = (unterminated /\ index # 0)
    /\ writer' = [writer EXCEPT !.todo = @ \ {Max(@)}]
    /\ UNCHANGED <<stateFile, written, acked, crashes>>

\* _state_before_prune() and _write_state().
SaveAnchor ==
    /\ writer.at = "rotate"
    /\ writer.todo = {}
    /\ writer' = [writer EXCEPT !.at = "prune", !.state = StateBeforePrune(segment, @)]
    /\ stateFile' = writer'.state
    /\ UNCHANGED <<segment, unterminated, written, acked, crashes>>

\* _prune_rotated_segments(): one unlink after the other, in index order.
Prune ==
    LET surplus == {i \in BackupIndices(segment) : i > BackupCount}
    IN  /\ writer.at = "prune"
        /\ IF surplus = {}
           THEN /\ writer' = [writer EXCEPT !.at = "append"]
                /\ UNCHANGED segment
           ELSE /\ segment' = [segment EXCEPT
                                 ![Min(surplus)] = Missing]
                /\ UNCHANGED writer
        /\ UNCHANGED <<unterminated, stateFile, written, acked, crashes>>

\* The event line is written, flushed and synced.
AppendEvent ==
    /\ writer.at = "append"
    /\ AppendLine(NextEvent)
    /\ unterminated' = FALSE
    /\ writer' = [at |-> "record", todo |-> {},
                  state |-> LET s == writer.state
                                e == NextEvent
                            IN  [first |-> IF s.last < s.first THEN e.sequence ELSE s.first,
                                 firstPrev |-> IF s.last < s.first THEN e.prev
                                               ELSE s.firstPrev,
                                 last |-> e.sequence, lastHash |-> e.id]]
    /\ written' = written + 1
    /\ UNCHANGED <<stateFile, acked, crashes>>

\* The final _write_state(); the write returns.
RecordEvent ==
    /\ writer.at = "record"
    /\ stateFile' = writer.state
    /\ acked' = acked \cup {writer.state.lastHash}
    /\ writer' = Idle
    /\ UNCHANGED <<segment, unterminated, written, crashes>>

\* read_verified(): saves the state when the log was found to be longer.
ReadJournal ==
    LET state == LoadOrRebuildState(segment, stateFile)
    IN  /\ writer.at = "idle"
        /\ stateFile # Missing
        /\ state # Refused
        /\ stateFile' = state
        /\ UNCHANGED <<segment, unterminated, writer, written, acked, crashes>>

\* The process stops between two file operations.
Crash ==
    /\ writer.at # "idle"
    /\ crashes < MaxCrashes
    /\ crashes' = crashes + 1
    /\ writer' = Idle
    /\ UNCHANGED <<segment, unterminated, stateFile, written, acked>>

\* The process stops inside the append: the file was only created, holds part of
\* the line, or all of it but the newline.
CrashInAppend ==
    /\ writer.at = "append"
    /\ crashes < MaxCrashes
    /\ \/ /\ segment[0] = Missing
          /\ segment' = [segment EXCEPT ![0] = <<>>]
          /\ UNCHANGED <<unterminated, written>>
       \/ /\ AppendLine(Damaged)
          /\ unterminated' = TRUE
          /\ UNCHANGED written
       \/ /\ AppendLine(NextEvent)
          /\ unterminated' = TRUE
          /\ written' = written + 1
    /\ crashes' = crashes + 1
    /\ writer' = Idle
    /\ UNCHANGED <<stateFile, acked>>

JournalNext ==
    \/ BeginWrite \/ Rotate \/ SaveAnchor \/ Prune \/ AppendEvent \/ RecordEvent
    \/ ReadJournal \/ Crash \/ CrashInAppend

JournalSpec == JournalInit /\ [][JournalNext]_journalVars

-----------------------------------------------------------------------------

DamagedLog == Damaged \in Lines(segment)

Verified == ReadVerified(segment, stateFile).events

Readable == stateFile # Missing /\ ~DamagedLog

\* Wherever the writer stops - between two renames, before or after the new
\* anchor is saved, between two unlinks, after the append - the next writer and
\* the next reader accept what they find, as long as every line is whole and the
\* state file was ever written: write(), read_verified() and
\* _reconcile_appended_tail().
CrashRecoverable ==
    Readable => /\ LoadStateForWrite(segment, stateFile) # Refused
                /\ LoadOrRebuildState(segment, stateFile) # Refused

\* An event whose write returned is in the verified read until its whole segment
\* was retired behind the anchor, and no later event takes its place in the chain,
\* as long as every line is whole.  A crash inside an append may end that: it can
\* leave a part of a line, or all of it but the newline, and in the second case the
\* next write is joined to that line and returns.  From then on the log is refused
\* by readers and writers; but the events acknowledged before are still in it, each
\* in a line of its own, and only the last write can be lost (audit.py:183-192).
AckedReadable ==
    stateFile # Missing =>
        IF ~DamagedLog
        THEN LET read == {e.id : e \in Verified}
                 retained == UNION {{e.id : e \in Range(segment[i])} :
                                    i \in {j \in SegmentPaths(segment) : j <= BackupCount}}
             IN  /\ acked \cap retained \subseteq read
                 /\ \A lost \in acked \ read : Verified # {} /\ \A e \in Verified : lost < e.id
        ELSE LET whole == Lines(segment) \ {Damaged}
             IN  \A lost \in acked \ {e.id : e \in whole} :
                    \/ lost = written
                    \/ \A e \in whole : e.sequence >= stateFile.first => lost < e.id
=============================================================================
