------------------------- MODULE AuditJournalProofs -------------------------
(***************************************************************************)
(* What a crash may leave of the audit journal, for any number of events,  *)
(* rotations and restarts, any segment size and backup count: the next     *)
(* writer and the next reader accept it, and no event whose write returned *)
(* is lost before its segment is retired (AuditJournal).                   *)
(***************************************************************************)
EXTENDS AuditJournal, TLAPS

USE ZenonT(40)

\* The least-number principle, a hypothesis of the lemmas about the ends of the
\* log; NaturalsAreWellOrdered, below them, discharges it.
NatWellOrdered == \A S \in SUBSET Nat : S # {} => \E m \in S : \A i \in S : m <= i

\* A nonempty bounded set of indices has a largest one.
LEMMA LargestIsMember ==
  ASSUME NatWellOrdered, NEW n \in Nat, NEW S \in SUBSET (0..n), S # {}
  PROVE  Max(S) \in S /\ \A i \in S : i <= Max(S)
<1> DEFINE rest == {n - i : i \in S}
<1>1. rest \in SUBSET Nat /\ rest # {}
  <2>1. \A i \in S : n - i \in Nat
    BY SMTT(30)
  <2> QED BY <2>1
<1>2. PICK d \in rest : \A e \in rest : d <= e
  <2> HIDE DEF rest
  <2> QED BY <1>1 DEF NatWellOrdered
<1>3. PICK m \in S : d = n - m
  OBVIOUS
<1>4. \A i \in S : m >= i
  <2> SUFFICES ASSUME NEW i \in S PROVE m >= i
    OBVIOUS
  <2>1. n - i \in Nat /\ n - m \in Nat /\ n - i \in rest
    BY <1>1
  <2> QED BY <1>2, <1>3, <2>1, SMTT(30)
<1>5. Max(S) \in S /\ \A i \in S : Max(S) >= i
  BY <1>4 DEF Max
<1> QED BY <1>5

\* A nonempty set of indices has a smallest one.
LEMMA SmallestIsMember ==
  ASSUME NatWellOrdered, NEW S \in SUBSET Nat, S # {}
  PROVE  Min(S) \in S /\ \A i \in S : Min(S) <= i
<1>1. PICK m \in S : \A i \in S : m <= i
  BY DEF NatWellOrdered
<1> QED BY <1>1 DEF Min

-----------------------------------------------------------------------------

\* What the segment paths may hold.
Files == [Indices -> Seq(JournalLines) \cup {Missing}]

\* The places of a file and the lines at them.
LEMMA SegmentLines ==
  ASSUME NEW files \in Files, NEW i \in SegmentPaths(files)
  PROVE  /\ i \in Nat /\ files[i] \in Seq(JournalLines) /\ files[i] # Missing
         /\ Len(files[i]) \in Nat /\ DOMAIN files[i] = 1..Len(files[i])
         /\ \A k \in DOMAIN files[i] : files[i][k] \in JournalLines /\ files[i][k] \in Lines(files)
<1>1. i \in Indices /\ files[i] # Missing
  BY DEF SegmentPaths
<1>2. i \in Nat
  BY <1>1, JournalConstants, SMTT(30) DEF Indices, Highest
<1>3. files[i] \in Seq(JournalLines)
  BY <1>1 DEF Files
<1>4. Len(files[i]) \in Nat /\ DOMAIN files[i] = 1..Len(files[i])
  BY <1>3, SMTT(30)
<1>5. \A k \in DOMAIN files[i] : files[i][k] \in JournalLines
  BY <1>3, <1>4, SMTT(30)
<1>6. \A k \in DOMAIN files[i] : files[i][k] \in Lines(files)
  BY SMTT(30) DEF Lines, Range
<1> QED BY <1>1, <1>2, <1>3, <1>4, <1>5, <1>6

\* Every line of the log is at some place of some segment.
LEMMA LineHasPlace ==
  ASSUME NEW files \in Files, NEW e \in Lines(files)
  PROVE  /\ \E i \in SegmentPaths(files) : \E k \in DOMAIN files[i] : e = files[i][k]
         /\ e \in JournalLines
<1>1. PICK i \in SegmentPaths(files) : e \in Range(files[i])
  BY DEF Lines
<1>2. PICK k \in DOMAIN files[i] : e = files[i][k]
  BY <1>1 DEF Range
<1>3. e \in JournalLines
  BY <1>2, SegmentLines
<1> QED BY <1>2, <1>3

-----------------------------------------------------------------------------

\* One event was chained before another: its sequence and its identity are lower.
Older(d, e) == d.sequence < e.sequence /\ d.id < e.id

\* Line k of segment i is read before line l of segment j.
Earlier(i, k, j, l) == i > j \/ (i = j /\ k < l)

\* The segments, read from the highest index to the live path, hold events in the
\* order in which they were chained.
InOrder(files) ==
    \A i, j \in SegmentPaths(files) : \A k \in DOMAIN files[i], l \in DOMAIN files[j] :
        Earlier(i, k, j, l) => Older(files[i][k], files[j][l])

\* Two lines of a log in order are comparable.
LEMMA LinesAreLinear ==
  ASSUME NEW files \in Files, InOrder(files), NEW d \in Lines(files), NEW e \in Lines(files)
  PROVE  d = e \/ Older(d, e) \/ Older(e, d)
<1>1. PICK i \in SegmentPaths(files) : \E k \in DOMAIN files[i] : d = files[i][k]
  BY LineHasPlace
<1>2. PICK k \in DOMAIN files[i] : d = files[i][k]
  BY <1>1
<1>3. PICK j \in SegmentPaths(files) : \E l \in DOMAIN files[j] : e = files[j][l]
  BY LineHasPlace
<1>4. PICK l \in DOMAIN files[j] : e = files[j][l]
  BY <1>3
<1>5. i \in Nat /\ j \in Nat /\ k \in Nat /\ l \in Nat
  <2>1. /\ i \in Nat /\ Len(files[i]) \in Nat /\ DOMAIN files[i] = 1..Len(files[i])
        /\ j \in Nat /\ Len(files[j]) \in Nat /\ DOMAIN files[j] = 1..Len(files[j])
    BY SegmentLines
  <2> QED BY <2>1, SMTT(30)
<1>6. Earlier(i, k, j, l) \/ Earlier(j, l, i, k) \/ (i = j /\ k = l)
  BY <1>5, SMTT(30) DEF Earlier
<1> QED BY <1>2, <1>4, <1>6 DEF InOrder

\* A log in order that has a line has a last one.
LEMMA LastPlace ==
  ASSUME NatWellOrdered,
         NEW files \in Files, Lines(files) # {}
  PROVE  \E i \in SegmentPaths(files) : \E k \in DOMAIN files[i] :
            \A j \in SegmentPaths(files) : \A l \in DOMAIN files[j] :
                (j = i /\ l = k) \/ Earlier(j, l, i, k)
<1> DEFINE some == {i \in SegmentPaths(files) : files[i] # <<>>}
<1>2. some # {}
  <2>1. PICK e \in Lines(files) : TRUE
    OBVIOUS
  <2>2. PICK i \in SegmentPaths(files) : \E k \in DOMAIN files[i] : e = files[i][k]
    BY LineHasPlace
  <2>3. files[i] # <<>>
    BY <2>2, SMTT(30)
  <2> QED BY <2>3
<1>3. some \subseteq Nat
  BY SegmentLines
<1>4. PICK i \in some : \A j \in some : i <= j
  <2> HIDE DEF some
  <2> QED BY <1>2, <1>3 DEF NatWellOrdered
<1>5. /\ i \in SegmentPaths(files) /\ i \in Nat /\ files[i] # <<>>
      /\ files[i] \in Seq(JournalLines)
      /\ Len(files[i]) \in Nat /\ DOMAIN files[i] = 1..Len(files[i])
  BY SegmentLines
<1>6. Len(files[i]) \in DOMAIN files[i]
  BY <1>5, SMTT(30)
<1>7. ASSUME NEW j \in SegmentPaths(files), NEW l \in DOMAIN files[j]
      PROVE  (j = i /\ l = Len(files[i])) \/ Earlier(j, l, i, Len(files[i]))
  <2>1. /\ j \in Nat /\ files[j] \in Seq(JournalLines)
        /\ Len(files[j]) \in Nat /\ DOMAIN files[j] = 1..Len(files[j])
    BY SegmentLines
  <2>2. files[j] # <<>>
    BY <2>1, SMTT(30)
  <2>3. i <= j
    BY <1>4, <2>2
  <2> QED BY <1>5, <2>1, <2>3, SMTT(30) DEF Earlier
<1> QED BY <1>5, <1>6, <1>7

\* What a place is.
LEMMA PlaceIs ==
  ASSUME NEW files \in Files
  PROVE  /\ \A p \in LinePlaces(files) :
                /\ p = <<p[1], p[2]>> /\ p[1] \in SegmentPaths(files)
                /\ p[2] \in DOMAIN files[p[1]] /\ Line(files, p) = files[p[1]][p[2]]
         /\ \A i \in SegmentPaths(files) : \A k \in DOMAIN files[i] :
                <<i, k>> \in LinePlaces(files) /\ Line(files, <<i, k>>) = files[i][k]
         /\ LinePlaces(files) = {} <=> Lines(files) = {}
<1>1. ASSUME NEW p \in LinePlaces(files)
      PROVE  /\ p = <<p[1], p[2]>> /\ p[1] \in SegmentPaths(files)
             /\ p[2] \in DOMAIN files[p[1]] /\ Line(files, p) = files[p[1]][p[2]]
  <2>1. PICK i \in SegmentPaths(files) : p \in {<<i, k>> : k \in DOMAIN files[i]}
    BY DEF LinePlaces
  <2>2. PICK k \in DOMAIN files[i] : p = <<i, k>>
    BY <2>1
  <2> QED BY <2>2 DEF Line
<1>2. ASSUME NEW i \in SegmentPaths(files), NEW k \in DOMAIN files[i]
      PROVE  <<i, k>> \in LinePlaces(files) /\ Line(files, <<i, k>>) = files[i][k]
  BY SMTT(30) DEF LinePlaces, Line
<1>3. LinePlaces(files) = {} => Lines(files) = {}
  BY <1>2, LineHasPlace
<1>4. Lines(files) = {} => LinePlaces(files) = {}
  BY <1>1, SegmentLines
<1> QED BY <1>1, <1>2, <1>3, <1>4

\* The places a read goes through are those of the lines.
LEMMA LineIsPlaced ==
  ASSUME NEW files \in Files, NEW e \in Lines(files)
  PROVE  \E p \in LinePlaces(files) : e = Line(files, p)
<1>1. PICK i \in SegmentPaths(files) : \E k \in DOMAIN files[i] : e = files[i][k]
  BY LineHasPlace
<1>2. PICK k \in DOMAIN files[i] : e = files[i][k]
  BY <1>1
<1>3. <<i, k>> \in LinePlaces(files) /\ Line(files, <<i, k>>) = files[i][k]
  BY PlaceIs
<1> QED BY <1>2, <1>3

\* A read of a log in order takes every line from the anchor on.
LEMMA ReadTakesTheRest ==
  ASSUME NEW files \in Files, InOrder(files), NEW state
  PROVE  ReadVerified(files, state).events = {e \in Lines(files) : e.sequence >= state.first}
<1> DEFINE taken == {p \in LinePlaces(files) :
                    /\ Line(files, p).sequence >= state.first
                    /\ \A q \in LinePlaces(files) :
                          Before(q, p) => Line(files, q).sequence < Line(files, p).sequence}
<1>1. ReadVerified(files, state).events = {Line(files, p) : p \in taken}
  BY DEF ReadVerified
<1>2. taken = {p \in LinePlaces(files) : Line(files, p).sequence >= state.first}
  <2>1. ASSUME NEW p \in LinePlaces(files), NEW q \in LinePlaces(files), Before(q, p)
        PROVE  Line(files, q).sequence < Line(files, p).sequence
    <3>1. Earlier(q[1], q[2], p[1], p[2])
      BY <2>1 DEF Before, Earlier
    <3> QED BY <3>1, PlaceIs, SMTT(30) DEF InOrder, Older
  <2> QED BY <2>1
<1>3. \A p \in LinePlaces(files) : Line(files, p) \in Lines(files)
  BY PlaceIs, SegmentLines, SMTT(30)
<1>4. \A e \in Lines(files) : \E p \in LinePlaces(files) : e = Line(files, p)
  BY LineIsPlaced
<1> HIDE DEF taken
<1> QED BY <1>1, <1>2, <1>3, <1>4

\* The line behind which a log in order has no other.
Top(events, t) == t \in events /\ \A d \in events : d = t \/ Older(d, t)

\* The line the tail check of a write looks at is the newest one.
LEMMA TopOfLog ==
  ASSUME NatWellOrdered,
         NEW files \in Files, InOrder(files), Lines(files) # {}
  PROVE  Top(Lines(files), TailLine(files))
<1>8. PICK i \in SegmentPaths(files) : \E k \in DOMAIN files[i] :
            \A j \in SegmentPaths(files) : \A l \in DOMAIN files[j] :
                (j = i /\ l = k) \/ Earlier(j, l, i, k)
  BY LastPlace
<1>1. PICK k \in DOMAIN files[i] :
            \A j \in SegmentPaths(files) : \A l \in DOMAIN files[j] :
                (j = i /\ l = k) \/ Earlier(j, l, i, k)
  BY <1>8
<1> DEFINE last == CHOOSE p \in LinePlaces(files) : \A q \in LinePlaces(files) : q = p \/ Before(q, p)
<1>2. \A q \in LinePlaces(files) : q = <<i, k>> \/ Before(q, <<i, k>>)
  BY <1>1, PlaceIs, SMTT(30) DEF Before, Earlier
<1>3. <<i, k>> \in LinePlaces(files)
  BY PlaceIs
<1>4. last \in LinePlaces(files) /\ \A q \in LinePlaces(files) : q = last \/ Before(q, last)
  BY <1>2, <1>3
<1> HIDE DEF last
<1>5. Line(files, last) \in Lines(files)
  BY <1>4, PlaceIs, SegmentLines, SMTT(30)
<1>6. ASSUME NEW d \in Lines(files)
      PROVE  d = Line(files, last) \/ Older(d, Line(files, last))
  <2>1. PICK q \in LinePlaces(files) : d = Line(files, q)
    BY LineIsPlaced
  <2>2. CASE q = last
    BY <2>1, <2>2
  <2>3. CASE Before(q, last)
    <3>1. Earlier(q[1], q[2], last[1], last[2])
      BY <2>3 DEF Before, Earlier
    <3> QED BY <1>4, <2>1, <3>1, PlaceIs, SMTT(30) DEF InOrder
  <2> QED BY <1>4, <2>2, <2>3
<1>7. TailLine(files) = Line(files, last)
  BY DEF TailLine, last
<1> QED BY <1>5, <1>6, <1>7 DEF Top

\* Every line is before it: the tail of a log that ends in a damaged line is that line.
LEMMA DamagedTail ==
  ASSUME NEW files \in Files, 0 \in SegmentPaths(files), files[0] # <<>>
  PROVE  TailLine(files) = files[0][Len(files[0])]
<1>1. /\ files[0] \in Seq(JournalLines) /\ Len(files[0]) \in Nat
      /\ DOMAIN files[0] = 1..Len(files[0])
  BY SegmentLines
<1>2. Len(files[0]) \in DOMAIN files[0]
  BY <1>1, SMTT(30)
<1> DEFINE p == <<0, Len(files[0])>>
<1>3. p \in LinePlaces(files) /\ Line(files, p) = files[0][Len(files[0])]
  BY <1>2, PlaceIs
<1>4. ASSUME NEW q \in LinePlaces(files)
      PROVE  (q = p \/ Before(q, p)) /\ ~Before(p, q)
  <2>1. q = <<q[1], q[2]>> /\ q[1] \in SegmentPaths(files) /\ q[2] \in DOMAIN files[q[1]]
    BY PlaceIs
  <2>2. q[1] \in Nat /\ DOMAIN files[q[1]] = 1..Len(files[q[1]]) /\ Len(files[q[1]]) \in Nat
    BY <2>1, SegmentLines
  <2> QED BY <1>1, <2>1, <2>2, SMTT(30) DEF Before
<1> HIDE DEF p
<1>5. (CHOOSE x \in LinePlaces(files) : \A q \in LinePlaces(files) : q = x \/ Before(q, x)) = p
  BY <1>3, <1>4
<1> QED BY <1>3, <1>5 DEF TailLine

-----------------------------------------------------------------------------

\* From the anchor on, each event continues the one before it.
Chained(events, state) ==
    \A e \in events :
        /\ e.sequence = state.first => e.prev = state.firstPrev
        /\ e.sequence > state.first => \E d \in events : d.sequence = e.sequence - 1 /\ d.id = e.prev

\* Both ends of the chain that a state file names are in the log.
HasEnds(events, state) ==
    /\ state.first <= state.last
    /\ \E e \in events : e.sequence = state.first
    /\ \E e \in events : e.sequence = state.last /\ e.id = state.lastHash

\* The log is in order, its events form the chain the state names, and both ends
\* of that chain are in it.
SoundAt(files, state) ==
    InOrder(files) /\ Chained(Lines(files), state) /\ HasEnds(Lines(files), state)

\* A state that names a chain.
KnownStates == [first : Nat, firstPrev : Nat, last : Nat, lastHash : Nat]

\* A state whose chain is found to end at event t.
EndingAt(state, t) == [state EXCEPT !.last = t.sequence, !.lastHash = t.id]

\* A sound log is accepted by the next writer and the next reader, and both find
\* where it ends.
LEMMA SoundLogLoads ==
  ASSUME NatWellOrdered,
         NEW files \in Files, Damaged \notin Lines(files), NEW state \in KnownStates,
         SoundAt(files, state)
  PROVE  /\ Top(Lines(files), TailLine(files))
         /\ TailLine(files) \in JournalLines
         /\ state.last <= TailLine(files).sequence
         /\ LoadOrRebuildState(files, state) = EndingAt(state, TailLine(files))
         /\ LoadStateForWrite(files, state) = EndingAt(state, TailLine(files))
<1> DEFINE t == TailLine(files)
           V == ReadVerified(files, state).events
<1>1. Lines(files) # {} /\ InOrder(files)
  BY DEF SoundAt, HasEnds
<1>2. Top(Lines(files), t)
  BY <1>1, TopOfLog
<1>3. t \in Lines(files) /\ t \in JournalLines
  BY <1>2, LineHasPlace DEF Top
<1>4. \A e \in Lines(files) : e \in JournalLines /\ e.sequence \in Int
  BY LineHasPlace DEF JournalLines
<1>5. V = {e \in Lines(files) : e.sequence >= state.first}
  BY <1>1, ReadTakesTheRest
<1> HIDE DEF t, V
<1>6. /\ state \in JournalStates /\ state # Missing
      /\ state.first \in Nat /\ state.last \in Nat /\ state.first <= state.last
  BY JournalConstants, SMTT(30) DEF KnownStates, JournalStates, SoundAt, HasEnds
<1>7. t.sequence \in Int /\ t.id \in Int /\ state.last <= t.sequence
  <2>1. PICK c \in Lines(files) : c.sequence = state.last
    BY DEF SoundAt, HasEnds
  <2>2. c = t \/ c.sequence < t.sequence
    BY <1>2 DEF Top, Older
  <2> QED BY <1>3, <1>6, <2>1, <2>2, SMTT(30) DEF JournalLines
<1>8. t \in V
  BY <1>3, <1>5, <1>6, <1>7, SMTT(30)
<1>9. \A d \in V : d = t \/ d.sequence < t.sequence
  BY <1>2, <1>5 DEF Top, Older
<1>10. Newest(V) = t
  <2>1. \A d \in V : d.sequence <= t.sequence
    BY <1>7, <1>9, <1>4, <1>5, SMTT(30)
  <2>2. \A e \in V : (\A d \in V : d.sequence <= e.sequence) => e = t
    BY <1>7, <1>8, <1>9, <1>4, <1>5, SMTT(30)
  <2> QED BY <1>8, <2>1, <2>2 DEF Newest
<1>11. ReadVerified(files, state).ok
  <2>1. ASSUME NEW e \in V
        PROVE  IF e.sequence = state.first THEN e.prev = state.firstPrev
               ELSE \E d \in V : d.sequence = e.sequence - 1 /\ d.id = e.prev
    <3>1. e \in Lines(files) /\ e.sequence >= state.first /\ e.sequence \in Int
      BY <1>4, <1>5
    <3>2. CASE e.sequence = state.first
      BY <3>1, <3>2 DEF SoundAt, Chained
    <3>3. CASE e.sequence # state.first
      <4>1. e.sequence > state.first
        BY <1>6, <3>1, <3>3, SMTT(30)
      <4>2. PICK d \in Lines(files) : d.sequence = e.sequence - 1 /\ d.id = e.prev
        BY <3>1, <4>1 DEF SoundAt, Chained
      <4>3. d \in V
        BY <1>5, <1>6, <3>1, <4>1, <4>2, SMTT(30)
      <4> QED BY <3>3, <4>2, <4>3
    <3> QED BY <3>2, <3>3
  <2> QED BY <2>1 DEF ReadVerified, V
<1>12. ReconcileAppendedTail(V, state) = EndingAt(state, t)
  <2>1. V # {}
    BY <1>8
  <2>2. CASE VerifyTail(V, state)
    <3>1. t.sequence = state.last /\ t.id = state.lastHash
      BY <1>10, <2>1, <2>2 DEF VerifyTail
    <3>2. EndingAt(state, t) = state
      BY <1>6, <3>1 DEF EndingAt, JournalStates
    <3> QED BY <2>2, <3>2 DEF ReconcileAppendedTail
  <2>3. CASE ~VerifyTail(V, state)
    <3>1. \E e \in V : e.sequence = state.last /\ e.id = state.lastHash
      BY <1>5, <1>6 DEF SoundAt, HasEnds
    <3>2. ~(Newest(V).sequence < state.last)
      BY <1>6, <1>7, <1>10, SMTT(30)
    <3> QED BY <1>10, <2>1, <2>3, <3>1, <3>2 DEF ReconcileAppendedTail, EndingAt
  <2> QED BY <2>2, <2>3
<1>13. LoadOrRebuildState(files, state) = EndingAt(state, t)
  BY <1>6, <1>11, <1>12 DEF LoadOrRebuildState, V
<1>14. LoadStateForWrite(files, state) = EndingAt(state, t)
  <2>1. LinePlaces(files) # {} /\ t # Damaged
    BY <1>1, <1>3, PlaceIs
  <2>2. Newest({t}) = t
    BY <1>7, SMTT(30) DEF Newest
  <2>3. CASE VerifyTail({t}, state)
    <3>1. t.sequence = state.last /\ t.id = state.lastHash
      BY <2>2, <2>3 DEF VerifyTail
    <3>2. EndingAt(state, t) = state
      BY <1>6, <3>1 DEF EndingAt, JournalStates
    <3>3. ~(t.sequence > state.last)
      BY <1>6, <3>1, SMTT(30)
    <3> QED BY <1>6, <2>1, <2>3, <3>2, <3>3 DEF LoadStateForWrite, t
  <2>4. CASE ~VerifyTail({t}, state)
    <3>1. t.sequence > state.last
      <4>1. PICK c \in Lines(files) : c.sequence = state.last /\ c.id = state.lastHash
        BY DEF SoundAt, HasEnds
      <4>2. c # t
        BY <2>2, <2>4, <4>1 DEF VerifyTail
      <4>3. c.sequence < t.sequence
        BY <1>2, <4>1, <4>2 DEF Top, Older
      <4> QED BY <1>6, <1>7, <4>1, <4>3
    <3> QED BY <1>6, <1>13, <2>1, <2>4, <3>1 DEF LoadStateForWrite, t
  <2> QED BY <2>3, <2>4
<1> QED BY <1>2, <1>3, <1>7, <1>13, <1>14 DEF t

\* EndingAt names the ends of the log it was read from.
LEMMA LoadedEnds ==
  ASSUME NEW events, NEW state \in KnownStates, NEW t \in JournalLines, Top(events, t),
         state.last <= t.sequence, t.sequence \in Nat, t.id \in Nat,
         Chained(events, state), HasEnds(events, state)
  PROVE  /\ EndingAt(state, t) \in KnownStates
         /\ EndingAt(state, t).first = state.first /\ EndingAt(state, t).firstPrev = state.firstPrev
         /\ EndingAt(state, t).last = t.sequence
         /\ EndingAt(state, t) # Refused
         /\ Chained(events, EndingAt(state, t)) /\ HasEnds(events, EndingAt(state, t))
<1>1. /\ EndingAt(state, t) \in KnownStates
      /\ EndingAt(state, t).first = state.first /\ EndingAt(state, t).firstPrev = state.firstPrev
      /\ EndingAt(state, t).last = t.sequence /\ EndingAt(state, t).lastHash = t.id
  BY DEF EndingAt, KnownStates
<1>2. EndingAt(state, t) # Refused
  <2>1. Refused.first = -1
    BY DEF Refused, EmptyState
  <2>2. state.first \in Nat
    BY DEF KnownStates
  <2> QED BY <1>1, <2>1, <2>2, SMTT(30)
<1>3. Chained(events, EndingAt(state, t))
  BY <1>1 DEF Chained
<1>4. HasEnds(events, EndingAt(state, t))
  <2>1. state.first \in Nat /\ state.last \in Nat /\ state.first <= state.last
    BY DEF KnownStates, HasEnds
  <2>2. t \in events
    BY DEF Top
  <2> QED BY <1>1, <2>1, <2>2, SMTT(30) DEF HasEnds
<1> QED BY <1>1, <1>2, <1>3, <1>4

-----------------------------------------------------------------------------

\* A rename to the next index, which is free, moves no line past another.
LEMMA RenameKeepsLines ==
  ASSUME NEW files \in Files, NEW i \in SegmentPaths(files), i + 1 \in Indices,
         i + 1 \notin SegmentPaths(files), NEW g, g = Rename(files, i, i + 1)
  PROVE  /\ g \in Files
         /\ SegmentPaths(g) = (SegmentPaths(files) \ {i}) \cup {i + 1}
         /\ g[i + 1] = files[i]
         /\ \A j \in Indices \ {i, i + 1} : g[j] = files[j]
         /\ Lines(g) = Lines(files)
         /\ InOrder(files) => InOrder(g)
<1>1. /\ i \in Indices /\ i \in Nat /\ i # i + 1 /\ files[i] # Missing /\ i + 1 \in Nat
      /\ files[i] \in Seq(JournalLines)
  BY SegmentLines, SMTT(30) DEF SegmentPaths
<1>2. /\ g \in [Indices -> Seq(JournalLines) \cup {Missing}]
      /\ g[i + 1] = files[i] /\ g[i] = Missing
      /\ \A j \in Indices \ {i, i + 1} : g[j] = files[j]
  BY <1>1 DEF Rename, Files
<1>3. SegmentPaths(g) = (SegmentPaths(files) \ {i}) \cup {i + 1}
  BY <1>1, <1>2 DEF SegmentPaths
<1>4. \A j \in SegmentPaths(files) \ {i} : j \in SegmentPaths(g) /\ g[j] = files[j]
  BY <1>2, <1>3 DEF SegmentPaths
<1>5. \A j \in SegmentPaths(g) \ {i + 1} : j \in SegmentPaths(files) \ {i} /\ g[j] = files[j]
  BY <1>2, <1>3 DEF SegmentPaths
<1>6. Lines(g) = Lines(files)
  <2>1. ASSUME NEW e \in Lines(files) PROVE e \in Lines(g)
    <3>1. PICK j \in SegmentPaths(files) : e \in Range(files[j])
      BY DEF Lines
    <3> QED BY <1>2, <1>3, <1>4, <3>1, SMTT(30) DEF Lines
  <2>2. ASSUME NEW e \in Lines(g) PROVE e \in Lines(files)
    <3>1. PICK j \in SegmentPaths(g) : e \in Range(g[j])
      BY DEF Lines
    <3> QED BY <1>2, <1>5, <3>1, SMTT(30) DEF Lines
  <2> QED BY <2>1, <2>2
<1>7. InOrder(files) => InOrder(g)
  <2> SUFFICES ASSUME InOrder(files), NEW a \in SegmentPaths(g), NEW b \in SegmentPaths(g),
                      NEW k \in DOMAIN g[a], NEW l \in DOMAIN g[b], Earlier(a, k, b, l)
               PROVE  Older(g[a][k], g[b][l])
    BY DEF InOrder
  <2> DEFINE was(j) == IF j = i + 1 THEN i ELSE j
  <2>1. /\ was(a) \in SegmentPaths(files) /\ g[a] = files[was(a)]
        /\ was(b) \in SegmentPaths(files) /\ g[b] = files[was(b)]
    BY <1>2, <1>5
  <2>2. a \in Nat /\ b \in Nat /\ a # i /\ b # i
    BY <1>1, <1>3, <1>5, SegmentLines
  <2>3. Earlier(was(a), k, was(b), l)
    BY <1>1, <2>2, SMTT(30) DEF Earlier
  <2> HIDE DEF was
  <2> QED BY <2>1, <2>3 DEF InOrder
<1> QED BY <1>2, <1>3, <1>6, <1>7 DEF Files

\* An unlink takes lines out and leaves the others where they are.
Unlinked(files, i, g) ==
    /\ g \in Files /\ SegmentPaths(g) = SegmentPaths(files) \ {i}
    /\ \A j \in Indices \ {i} : g[j] = files[j]
    /\ Lines(g) \subseteq Lines(files)
    /\ \A e \in Lines(files) : e \in Lines(g) \/ e \in Range(files[i])
    /\ InOrder(files) => InOrder(g)

\* Pruning a backup takes its lines out and leaves the others in order.
LEMMA UnlinkKeepsOrder ==
  ASSUME NEW files \in Files, NEW i \in SegmentPaths(files),
         NEW g, g = [files EXCEPT ![i] = Missing]
  PROVE  Unlinked(files, i, g)
<1>1. i \in Indices
  BY DEF SegmentPaths
<1>2. /\ g \in [Indices -> Seq(JournalLines) \cup {Missing}] /\ g[i] = Missing
      /\ \A j \in Indices \ {i} : g[j] = files[j]
  BY <1>1 DEF Files
<1>3. SegmentPaths(g) = SegmentPaths(files) \ {i}
  BY <1>1, <1>2 DEF SegmentPaths
<1>4. \A j \in SegmentPaths(g) : j \in SegmentPaths(files) /\ j # i /\ g[j] = files[j]
  BY <1>2, <1>3 DEF SegmentPaths
<1>5. Lines(g) \subseteq Lines(files)
  BY <1>4 DEF Lines
<1>6. ASSUME NEW e \in Lines(files) PROVE e \in Lines(g) \/ e \in Range(files[i])
  <2>1. PICK j \in SegmentPaths(files) : e \in Range(files[j])
    BY DEF Lines
  <2> QED BY <1>3, <1>4, <2>1 DEF Lines
<1>7. InOrder(files) => InOrder(g)
  BY <1>4, SMTT(30) DEF InOrder
<1> QED BY <1>2, <1>3, <1>5, <1>6, <1>7 DEF Files, Unlinked

\* What a change to the live path alone leaves.
ChangedLive(files, live, g) ==
    /\ g \in Files /\ g[0] = live /\ 0 \in SegmentPaths(g)
    /\ SegmentPaths(g) = SegmentPaths(files) \cup {0}
    /\ \A j \in Indices \ {0} : g[j] = files[j]
    /\ \A j \in SegmentPaths(g) : j # 0 => j \in SegmentPaths(files) /\ g[j] = files[j]
    /\ \A e \in Lines(g) : e \in Range(live) \/ e \in Lines(files)
    /\ Range(live) \subseteq Lines(g)
    /\ \A e \in Lines(files) :
            e \in Lines(g) \/ (0 \in SegmentPaths(files) /\ e \in Range(files[0]))

\* A change of the live path leaves the backups alone.
LEMMA LiveChange ==
  ASSUME NEW files \in Files, NEW live \in Seq(JournalLines), NEW g, g = [files EXCEPT ![0] = live]
  PROVE  ChangedLive(files, live, g)
<1>1. 0 \in Indices /\ live # Missing
  BY JournalConstants, SMTT(30) DEF Indices, Highest
<1>2. /\ g \in [Indices -> Seq(JournalLines) \cup {Missing}] /\ g[0] = live
      /\ \A j \in Indices \ {0} : g[j] = files[j]
  BY <1>1 DEF Files
<1>3. SegmentPaths(g) = SegmentPaths(files) \cup {0}
  BY <1>1, <1>2 DEF SegmentPaths
<1>4. \A j \in SegmentPaths(g) : j # 0 => j \in SegmentPaths(files) /\ g[j] = files[j]
  BY <1>2, <1>3 DEF SegmentPaths
<1>5. ASSUME NEW e \in Lines(g) PROVE e \in Range(live) \/ e \in Lines(files)
  <2>1. PICK j \in SegmentPaths(g) : e \in Range(g[j])
    BY DEF Lines
  <2> QED BY <1>2, <1>4, <2>1, SMTT(30) DEF Lines
<1>6. Range(live) \subseteq Lines(g)
  BY <1>2, <1>3 DEF Lines
<1>7. ASSUME NEW e \in Lines(files)
      PROVE  e \in Lines(g) \/ (0 \in SegmentPaths(files) /\ e \in Range(files[0]))
  <2>1. PICK j \in SegmentPaths(files) : e \in Range(files[j])
    BY DEF Lines
  <2>2. CASE j = 0
    BY <2>1, <2>2
  <2>3. CASE j # 0
    <3>1. j \in SegmentPaths(g) /\ g[j] = files[j]
      BY <1>2, <1>3, <2>3 DEF SegmentPaths
    <3> QED BY <2>1, <3>1 DEF Lines
  <2> QED BY <2>2, <2>3
<1> QED BY <1>2, <1>3, <1>4, <1>5, <1>6, <1>7 DEF Files, ChangedLive

\* A line put behind the last one of the log.
LongerBy(files, line, g) ==
    /\ g \in Files /\ g[0] # Missing /\ g[0] # <<>> /\ g[0] \in Seq(JournalLines)
    /\ SegmentPaths(g) = SegmentPaths(files) \cup {0}
    /\ \A j \in Indices \ {0} : g[j] = files[j]
    /\ Lines(g) = Lines(files) \cup {line}
    /\ g[0][Len(g[0])] = line
    /\ \A k \in DOMAIN g[0] : g[0][k] = line \/ (files[0] # Missing /\ g[0][k] \in Range(files[0]))
    /\ InOrder(files) /\ (\A e \in Lines(files) : Older(e, line)) => InOrder(g)

\* A whole append makes the log one line longer.
LEMMA AppendKeepsLines ==
  ASSUME NEW files \in Files, NEW line \in JournalLines, NEW g,
         g = [files EXCEPT ![0] = IF files[0] = Missing THEN <<line>> ELSE Append(files[0], line)]
  PROVE  LongerBy(files, line, g)
<1> DEFINE live == IF files[0] = Missing THEN <<line>> ELSE Append(files[0], line)
           n == IF files[0] = Missing THEN 0 ELSE Len(files[0])
<1>1. 0 \in Indices
  BY JournalConstants, SMTT(30) DEF Indices, Highest
<1>2. /\ n \in Nat /\ live \in Seq(JournalLines) /\ Len(live) = n + 1
      /\ DOMAIN live = 1..(n + 1) /\ live[n + 1] = line
      /\ files[0] # Missing => /\ files[0] \in Seq(JournalLines) /\ DOMAIN files[0] = 1..n
                               /\ \A k \in 1..n : live[k] = files[0][k]
      /\ files[0] = Missing => n = 0
  <2>1. CASE files[0] = Missing
    BY <2>1, SMTT(30)
  <2>2. CASE files[0] # Missing
    <3>1. files[0] \in Seq(JournalLines)
      BY <1>1, <2>2 DEF Files
    <3> QED BY <2>2, <3>1, SMTT(30)
  <2> QED BY <2>1, <2>2
<1>3. g = [files EXCEPT ![0] = live]
  OBVIOUS
<1> HIDE DEF live, n
<1>4. ChangedLive(files, live, g)
  BY <1>2, <1>3, LiveChange
<1>5. live # <<>> /\ live # Missing
  BY <1>2, JournalConstants, SMTT(30)
<1>6. \A k \in DOMAIN live : live[k] = line \/ (files[0] # Missing /\ live[k] \in Range(files[0]))
  <2> SUFFICES ASSUME NEW k \in 1..(n + 1), k # n + 1
               PROVE  files[0] # Missing /\ live[k] \in Range(files[0])
    BY <1>2
  <2>1. k \in 1..n /\ files[0] # Missing
    BY <1>2, SMTT(30)
  <2> QED BY <1>2, <2>1 DEF Range
<1>7. files[0] # Missing => Range(files[0]) \subseteq Range(live)
  <2> SUFFICES ASSUME files[0] # Missing, NEW k \in 1..n PROVE files[0][k] \in Range(live)
    BY <1>2 DEF Range
  <2>1. k \in DOMAIN live /\ live[k] = files[0][k]
    BY <1>2, SMTT(30)
  <2> QED BY <2>1 DEF Range
<1>8. Lines(g) = Lines(files) \cup {line}
  <2>1. line \in Range(live)
    BY <1>2, SMTT(30) DEF Range
  <2>2. \A e \in Range(live) : e = line \/ e \in Lines(files)
    <3>1. files[0] # Missing => 0 \in SegmentPaths(files)
      BY <1>1 DEF SegmentPaths
    <3> QED BY <1>6, <3>1, SMTT(30) DEF Range, Lines
  <2>3. 0 \in SegmentPaths(files) => files[0] # Missing
    BY DEF SegmentPaths
  <2> QED BY <1>4, <1>7, <2>1, <2>2, <2>3 DEF ChangedLive
<1>9. ASSUME InOrder(files), \A e \in Lines(files) : Older(e, line)
      PROVE  InOrder(g)
  <2> SUFFICES ASSUME NEW a \in SegmentPaths(g), NEW b \in SegmentPaths(g),
                      NEW k \in DOMAIN g[a], NEW l \in DOMAIN g[b], Earlier(a, k, b, l)
               PROVE  Older(g[a][k], g[b][l])
    BY DEF InOrder
  <2>1. /\ a \in Nat /\ b \in Nat /\ k \in Nat /\ l \in Nat
        /\ b = 0 => l \in 1..(n + 1)
        /\ a = 0 => k \in 1..(n + 1)
    <3>1. /\ a \in Nat /\ DOMAIN g[a] = 1..Len(g[a]) /\ Len(g[a]) \in Nat
          /\ b \in Nat /\ DOMAIN g[b] = 1..Len(g[b]) /\ Len(g[b]) \in Nat
      BY <1>4, SegmentLines DEF ChangedLive
    <3>2. g[0] = live
      BY <1>4 DEF ChangedLive
    <3> QED BY <1>2, <3>1, <3>2, SMTT(30)
  <2>2. CASE b = 0 /\ l = n + 1
    <3>1. g[b][l] = line
      BY <1>2, <1>4, <2>2 DEF ChangedLive
    <3>2. g[a][k] \in Lines(files)
      <4>1. CASE a = 0
        <5>1. k \in 1..n
          BY <1>2, <2>1, <2>2, <4>1, SMTT(30) DEF Earlier
        <5>2. files[0] # Missing
          BY <1>2, <5>1, SMTT(30)
        <5>3. g[a][k] = files[0][k] /\ k \in DOMAIN files[0] /\ 0 \in SegmentPaths(files)
          BY <1>1, <1>2, <1>4, <4>1, <5>1, <5>2, SMTT(30) DEF SegmentPaths, ChangedLive
        <5> QED BY <5>3, SegmentLines
      <4>2. CASE a # 0
        <5>1. a \in SegmentPaths(files) /\ g[a] = files[a]
          BY <1>4, <4>2 DEF ChangedLive
        <5> QED BY <5>1, SegmentLines
      <4> QED BY <4>1, <4>2
    <3> QED BY <1>9, <3>1, <3>2
  <2>3. CASE ~(b = 0 /\ l = n + 1)
    <3>1. b \in SegmentPaths(files) /\ l \in DOMAIN files[b] /\ g[b][l] = files[b][l]
      <4>1. CASE b = 0
        <5>1. l \in 1..n
          BY <1>2, <2>1, <2>3, <4>1, SMTT(30)
        <5>2. files[0] # Missing
          BY <1>2, <5>1, SMTT(30)
        <5> QED BY <1>1, <1>2, <1>4, <4>1, <5>1, <5>2, SMTT(30) DEF SegmentPaths, ChangedLive
      <4> QED BY <1>4, <4>1 DEF ChangedLive
    <3>2. a \in SegmentPaths(files) /\ k \in DOMAIN files[a] /\ g[a][k] = files[a][k]
      <4>1. CASE a = 0
        <5>1. b = 0 /\ k < l
          BY <2>1, <4>1, SMTT(30) DEF Earlier
        <5>2. k \in 1..n
          BY <1>2, <2>1, <2>3, <4>1, <5>1, SMTT(30)
        <5>3. files[0] # Missing
          BY <1>2, <5>2, SMTT(30)
        <5> QED BY <1>1, <1>2, <1>4, <4>1, <5>2, <5>3, SMTT(30) DEF SegmentPaths, ChangedLive
      <4> QED BY <1>4, <4>1 DEF ChangedLive
    <3> QED BY <1>9, <3>1, <3>2 DEF InOrder
  <2> QED BY <2>2, <2>3
<1> QED BY <1>2, <1>4, <1>5, <1>6, <1>8, <1>9 DEF ChangedLive, LongerBy

\* A line that joins one without newline: the log ends in a damaged line.
DamagedBy(files, g) ==
    /\ g \in Files /\ g[0] # Missing /\ g[0] # <<>>
    /\ SegmentPaths(g) = SegmentPaths(files)
    /\ Damaged \in Lines(g) /\ g[0][Len(g[0])] = Damaged
    /\ Lines(g) \subseteq Lines(files) \cup {Damaged}
    /\ \A e \in Lines(files) : e \in Lines(g) \/ e = files[0][Len(files[0])]

\* An append behind an unterminated line damages the last line and only that.
LEMMA JoinDamages ==
  ASSUME NEW files \in Files, files[0] # Missing, files[0] # <<>>, NEW g,
         g = [files EXCEPT ![0] = Joined(files[0])]
  PROVE  DamagedBy(files, g)
<1> DEFINE live == Joined(files[0])
           n == Len(files[0])
<1>1. 0 \in Indices /\ 0 \in SegmentPaths(files) /\ Damaged \in JournalLines
  BY JournalConstants, SMTT(30)
     DEF Indices, Highest, SegmentPaths, Damaged, AuditEvent, JournalLines
<1>2. files[0] \in Seq(JournalLines) /\ n \in Nat /\ DOMAIN files[0] = 1..n
  BY <1>1, SegmentLines
<1>3. n \in 1..n
  BY <1>2, SMTT(30)
<1>9. /\ live \in Seq(JournalLines) /\ Len(live) = n /\ DOMAIN live = 1..n /\ live[n] = Damaged
      /\ \A k \in 1..n : k # n => live[k] = files[0][k]
  BY <1>1, <1>2, <1>3, SMTT(30) DEF Joined
<1>10. g = [files EXCEPT ![0] = live]
  OBVIOUS
<1> HIDE DEF live, n
<1>11. ChangedLive(files, live, g)
  BY <1>9, <1>10, LiveChange
<1>12. Damaged \in Range(live)
  BY <1>3, <1>9 DEF Range
<1>13. ASSUME NEW k \in 1..n PROVE live[k] \in Lines(files) \cup {Damaged}
  BY <1>1, <1>2, <1>9, SegmentLines
<1>14. Range(live) \subseteq Lines(files) \cup {Damaged}
  BY <1>9, <1>13 DEF Range
<1>15. live # Missing /\ live # <<>>
  BY <1>3, <1>9, JournalConstants, SMTT(30)
<1>16. ASSUME NEW e \in Lines(files) PROVE e \in Lines(g) \/ e = files[0][n]
  <2>0. PICK i \in SegmentPaths(files) : \E k \in DOMAIN files[i] : e = files[i][k]
    BY LineHasPlace
  <2>1. PICK k \in DOMAIN files[i] : e = files[i][k]
    BY <2>0
  <2>2. g \in Files /\ i \in SegmentPaths(g) /\ g[0] = live
    BY <1>1, <1>11 DEF ChangedLive
  <2>3. CASE i = 0
    <3>1. k # n => k \in DOMAIN g[0] /\ g[0][k] = e
      BY <1>2, <1>9, <2>1, <2>2, <2>3
    <3> QED BY <2>1, <2>2, <2>3, <3>1, SegmentLines
  <2>4. CASE i # 0
    <3>1. g[i] = files[i]
      BY <1>11, <2>4 DEF ChangedLive, SegmentPaths
    <3> QED BY <2>1, <2>2, <3>1, SegmentLines
  <2> QED BY <2>3, <2>4
<1> QED BY <1>1, <1>9, <1>11, <1>12, <1>14, <1>15, <1>16 DEF ChangedLive, DamagedBy, n

\* Every line of the log is whole.
Clean == Damaged \notin Lines(segment)

\* Every line below the anchor is in a segment that may be unlinked.
Anchored(files, state) ==
    \A i \in SegmentPaths(files) :
        i <= BackupCount => \A k \in DOMAIN files[i] : files[i][k].sequence >= state.first

\* An acknowledged event is in the chain or was retired before all that are.
AckedKept(events, state) ==
    \A a \in acked : \/ \E e \in events : e.id = a /\ e.sequence >= state.first
                     \/ \A e \in events : e.sequence >= state.first => a < e.id

\* The steps of a write at which the log is still as it was loaded.
Writing == {"rotate", "prune", "append"}

\* The types of the journal; an unterminated line is on the live path, and the
\* identity of a whole event was given out by a write.
JournalTypeOK ==
    /\ segment \in Files
    /\ unterminated \in BOOLEAN
    /\ unterminated => segment[0] # Missing /\ segment[0] # <<>>
    /\ stateFile = Missing \/ stateFile \in KnownStates
    /\ writer \in [at : Writing \cup {"idle", "record"}, state : KnownStates \cup {EmptyState},
                   todo : SUBSET Indices]
    /\ writer.at = "record" => writer.state \in KnownStates
    /\ written \in Nat /\ crashes \in Nat /\ acked \in SUBSET Nat
    /\ \A e \in Lines(segment) :
          e = Damaged \/ (e.sequence \in Nat /\ e.id \in Nat /\ e.id <= written /\ e.prev \in Nat)

\* A damaged line is the last one, and nobody writes behind it.
DamageIsLast ==
    ~Clean => /\ segment[0] # Missing /\ segment[0] # <<>>
              /\ segment[0][Len(segment[0])] = Damaged
              /\ writer.at \in {"idle", "record"}

\* A rotation for each write or crash at most: no index leaves the range.
IndicesSuffice ==
    /\ written <= MaxWrites /\ crashes <= MaxCrashes
    /\ writer.at \in Writing => written < MaxWrites
    /\ \A i \in SegmentPaths(segment) :
          i <= written + crashes + (IF writer.at \in Writing THEN 1 ELSE 0)

\* The renames still to come have room, and the live segment is not empty.
RotationIsSound ==
    writer.at = "rotate" =>
        /\ writer.todo \subseteq SegmentPaths(segment)
        /\ \A i \in writer.todo : i <= written + crashes
        /\ \A i \in writer.todo : \A j \in SegmentPaths(segment) \ writer.todo : j > i + 1
        /\ IF 0 \in writer.todo THEN segment[0] # <<>>
           ELSE /\ writer.todo = {} /\ 1 \in SegmentPaths(segment) /\ segment[1] # <<>>

\* The first write: there is no state file yet.
FirstWrite ==
    stateFile = Missing =>
        /\ acked = {} /\ writer.at \in {"idle", "append", "record"}
        /\ writer.at = "append" => SegmentPaths(segment) = {} /\ writer.state = EmptyState
        /\ writer.at = "record" /\ Clean =>
              /\ SoundAt(segment, writer.state) /\ Anchored(segment, writer.state)

\* With a state file, a whole log is a chain from the anchor on, every segment that
\* stays is behind the anchor, and no acknowledged event left the chain but by age.
ChainIsSound ==
    Clean /\ stateFile # Missing =>
        /\ SoundAt(segment, stateFile) /\ Anchored(segment, stateFile)
        /\ AckedKept(Lines(segment), stateFile)

\* What a writer in progress relies on: its state is the saved one until the append,
\* prune only meets segments before the anchor, and the state to be recorded names
\* the chain with the new event.
WriterIsSound ==
    Clean /\ stateFile # Missing =>
        /\ writer.at \in Writing => /\ writer.state = stateFile
                                    /\ \A e \in Lines(segment) : e.sequence <= stateFile.last
        /\ writer.at = "prune" =>
              \A i \in SegmentPaths(segment) : i > BackupCount =>
                  \A k \in DOMAIN segment[i] : segment[i][k].sequence < stateFile.first
        /\ writer.at = "record" => /\ writer.state.first = stateFile.first
                                   /\ writer.state.firstPrev = stateFile.firstPrev
                                   /\ HasEnds(Lines(segment), writer.state)

\* Every acknowledged event but the last written one is in a line of its own, or was
\* retired before all lines from the anchor on.
LeftInLines(events, state) ==
    \A a \in acked : \/ a = written
                     \/ \E e \in events \ {Damaged} : e.id = a
                     \/ \A e \in events \ {Damaged} : e.sequence >= state.first => a < e.id

\* What damage can destroy.  A line that awaits its newline was never acknowledged,
\* so the write that joins it takes no acknowledged event along but, when it returns,
\* its own.
LossIsLast ==
    /\ \A a \in acked : a <= written
    /\ writer.at = "record" => writer.state.lastHash = written /\ ~unterminated
    /\ Clean /\ unterminated => segment[0][Len(segment[0])].id \notin acked
    /\ ~Clean /\ stateFile # Missing =>
          /\ LeftInLines(Lines(segment), stateFile)
          /\ writer.at = "record" => writer.state.first = stateFile.first

\* The inductive invariant of the journal.
JournalInv ==
    /\ JournalTypeOK /\ DamageIsLast /\ IndicesSuffice /\ RotationIsSound /\ FirstWrite
    /\ ChainIsSound /\ WriterIsSound /\ LossIsLast

\* A step that acknowledges nothing and damages nothing.
LEMMA WholeKeepsLoss ==
  ASSUME JournalInv, Clean, Clean', acked' = acked, written' = written, writer'.at # "record",
         unterminated' => unterminated /\ segment'[0] = segment[0]
  PROVE  LossIsLast'
BY DEF JournalInv, LossIsLast

\* What a load of a whole log with a state file gives.
LEMMA LoadFacts ==
  ASSUME NatWellOrdered,
         JournalInv, Clean, stateFile # Missing,
         NEW s, s = EndingAt(stateFile, TailLine(segment))
  PROVE  /\ LoadOrRebuildState(segment, stateFile) = s
         /\ LoadStateForWrite(segment, stateFile) = s
         /\ s # Refused /\ s \in KnownStates /\ s # Missing
         /\ SoundAt(segment, s) /\ Anchored(segment, s) /\ AckedKept(Lines(segment), s)
         /\ \A e \in Lines(segment) : e.sequence <= s.last
<1> DEFINE t == TailLine(segment)
<1>1. /\ segment \in Files /\ stateFile \in KnownStates
      /\ SoundAt(segment, stateFile) /\ Anchored(segment, stateFile)
      /\ AckedKept(Lines(segment), stateFile)
      /\ \A e \in Lines(segment) : e.sequence \in Nat /\ e.id \in Nat
  BY DEF JournalInv, JournalTypeOK, ChainIsSound, Clean
<1>2. /\ Top(Lines(segment), t) /\ t \in JournalLines /\ stateFile.last <= t.sequence
      /\ LoadOrRebuildState(segment, stateFile) = s
      /\ LoadStateForWrite(segment, stateFile) = s
  BY <1>1, SoundLogLoads DEF Clean
<1>3. t.sequence \in Nat /\ t.id \in Nat
  BY <1>1, <1>2 DEF Top
<1> HIDE DEF t
<1>4. /\ s \in KnownStates /\ s.first = stateFile.first /\ s.last = t.sequence /\ s # Refused
      /\ Chained(Lines(segment), s) /\ HasEnds(Lines(segment), s)
  BY <1>1, <1>2, <1>3, LoadedEnds, SMTT(30) DEF SoundAt, t
<1>5. s # Missing
  BY <1>4, JournalConstants, SMTT(30) DEF KnownStates, JournalStates
<1>6. Anchored(segment, s) /\ AckedKept(Lines(segment), s)
  BY <1>1, <1>4 DEF Anchored, AckedKept
<1>7. \A e \in Lines(segment) : e.sequence <= s.last
  BY <1>1, <1>2, <1>3, <1>4, SMTT(30) DEF Top, Older
<1> QED BY <1>1, <1>2, <1>4, <1>5, <1>6, <1>7 DEF SoundAt

\* A damaged log is refused by every load.
LEMMA DamagedIsRefused ==
  ASSUME JournalInv, ~Clean
  PROVE  LoadStateForWrite(segment, stateFile) = Refused
         /\ LoadOrRebuildState(segment, stateFile) = Refused
<1>1. /\ segment \in Files /\ 0 \in SegmentPaths(segment) /\ segment[0] # <<>>
      /\ segment[0][Len(segment[0])] = Damaged
  BY JournalConstants, SMTT(30)
     DEF JournalInv, JournalTypeOK, DamageIsLast, SegmentPaths, Indices, Highest
<1>2. TailLine(segment) = Damaged
  BY <1>1, DamagedTail
<1>3. LinePlaces(segment) # {}
  BY <1>1, PlaceIs DEF Clean
<1>4. CASE stateFile = Missing
  BY <1>1, <1>4 DEF LoadStateForWrite, LoadOrRebuildState
<1>5. CASE stateFile # Missing
  <2>1. ~ReadVerified(segment, stateFile).ok
    BY DEF ReadVerified, Clean
  <2> QED BY <1>2, <1>3, <1>5, <2>1 DEF LoadStateForWrite, LoadOrRebuildState
<1> QED BY <1>4, <1>5

\* A write that begins: the log is whole, and the writer knows its end.
LEMMA BeginWriteKeepsInv ==
  ASSUME NatWellOrdered,
         JournalInv, BeginWrite
  PROVE  JournalInv'
<1> DEFINE state == LoadStateForWrite(segment, stateFile)
           full == ShouldRotate(segment)
<1>1. /\ writer.at = "idle" /\ written < MaxWrites /\ state # Refused
      /\ writer' = [at |-> IF full THEN "rotate" ELSE "append", state |-> state,
                    todo |-> IF full THEN SegmentPaths(segment) ELSE {}]
      /\ stateFile' = IF stateFile = Missing THEN Missing ELSE state
      /\ segment' = segment /\ unterminated' = unterminated /\ written' = written
      /\ acked' = acked /\ crashes' = crashes
  BY DEF BeginWrite
<1> HIDE DEF state, full
<1>2. Clean /\ Clean' = Clean
  BY <1>1, DamagedIsRefused DEF Clean, state
<1>3. /\ SegmentPaths(segment) \subseteq Indices /\ 0 \in Indices
      /\ full => /\ 0 \in SegmentPaths(segment) /\ segment[0] # <<>>
  BY JournalConstants, SMTT(30) DEF SegmentPaths, Indices, Highest, full, ShouldRotate
<1>4. CASE stateFile = Missing
  <2>1. SegmentPaths(segment) = {} /\ state = EmptyState
    BY <1>1, <1>4 DEF state, LoadStateForWrite, LoadOrRebuildState
  <2>2. /\ ~full
        /\ writer'.at = "append" /\ writer'.state = EmptyState /\ writer'.todo = {}
        /\ writer' \in [at : {"append"}, state : KnownStates \cup {EmptyState}, todo : SUBSET Indices]
    BY <1>1, <1>3, <2>1
  <2>3. JournalTypeOK'
    BY <1>1, <1>4, <2>2 DEF JournalInv, JournalTypeOK, Writing
  <2>4. DamageIsLast' /\ ChainIsSound' /\ WriterIsSound' /\ RotationIsSound'
    BY <1>1, <1>2, <1>4, <2>2 DEF DamageIsLast, ChainIsSound, WriterIsSound, RotationIsSound
  <2>5. IndicesSuffice'
    BY <1>1, <2>1, <2>2 DEF JournalInv, IndicesSuffice, Writing
  <2>6. FirstWrite'
    BY <1>1, <1>4, <2>1, <2>2 DEF JournalInv, FirstWrite
  <2>7. LossIsLast'
    BY <1>1, <1>2, <2>2, WholeKeepsLoss
  <2> QED BY <2>3, <2>4, <2>5, <2>6, <2>7 DEF JournalInv
<1>5. CASE stateFile # Missing
  <2>1. /\ state \in KnownStates /\ state # Missing
        /\ SoundAt(segment, state) /\ Anchored(segment, state) /\ AckedKept(Lines(segment), state)
        /\ \A e \in Lines(segment) : e.sequence <= state.last
    BY <1>2, <1>5, LoadFacts DEF state
  <2>2. stateFile' = state /\ writer'.state = state /\ writer'.at \in {"rotate", "append"}
    BY <1>1, <1>5
  <2>3. JournalTypeOK'
    <3>1. writer' \in [at : {"rotate", "append"}, state : KnownStates, todo : SUBSET Indices]
      BY <1>1, <1>3, <2>1
    <3> QED BY <1>1, <2>1, <2>2, <3>1 DEF JournalInv, JournalTypeOK, Writing
  <2>4. DamageIsLast' /\ FirstWrite'
    BY <1>2, <2>1, <2>2 DEF DamageIsLast, FirstWrite
  <2>5. IndicesSuffice'
    <3>1. \A i \in SegmentPaths(segment) : i \in Nat /\ i <= written + crashes + 0
      BY <1>1, SegmentLines DEF JournalInv, JournalTypeOK, IndicesSuffice, Writing
    <3>2. written \in Nat /\ crashes \in Nat /\ written <= MaxWrites /\ crashes <= MaxCrashes
      BY DEF JournalInv, JournalTypeOK, IndicesSuffice
    <3>3. \A i \in SegmentPaths(segment) : i <= written + crashes + 1
      BY <3>1, <3>2, SMTT(30)
    <3> QED BY <1>1, <2>2, <3>2, <3>3 DEF IndicesSuffice, Writing
  <2>6. RotationIsSound'
    <3> SUFFICES ASSUME writer'.at = "rotate" PROVE RotationIsSound'
      BY DEF RotationIsSound
    <3>1. full /\ writer'.todo = SegmentPaths(segment)
      BY <1>1
    <3>2. \A i \in SegmentPaths(segment) : i \in Nat /\ i <= written + crashes + 0
      BY <1>1, SegmentLines DEF JournalInv, JournalTypeOK, IndicesSuffice, Writing
    <3>3. written \in Nat /\ crashes \in Nat
      BY DEF JournalInv, JournalTypeOK
    <3>4. \A i \in SegmentPaths(segment) : i <= written + crashes
      BY <3>2, <3>3, SMTT(30)
    <3> QED BY <1>1, <1>3, <3>1, <3>4 DEF RotationIsSound
  <2>7. ChainIsSound'
    BY <1>1, <2>1, <2>2 DEF ChainIsSound, AckedKept
  <2>8. WriterIsSound'
    BY <1>1, <2>1, <2>2 DEF WriterIsSound
  <2>9. LossIsLast'
    BY <1>1, <1>2, <2>2, WholeKeepsLoss
  <2> QED BY <2>3, <2>4, <2>5, <2>6, <2>7, <2>8, <2>9 DEF JournalInv
<1> QED BY <1>4, <1>5

\* A read that finds a longer log saves where it ends.
LEMMA ReadJournalKeepsInv ==
  ASSUME NatWellOrdered,
         JournalInv, ReadJournal
  PROVE  JournalInv'
<1> DEFINE state == LoadOrRebuildState(segment, stateFile)
<1>1. /\ writer.at = "idle" /\ stateFile # Missing /\ state # Refused /\ stateFile' = state
      /\ segment' = segment /\ unterminated' = unterminated /\ written' = written
      /\ acked' = acked /\ crashes' = crashes /\ writer' = writer
  BY DEF ReadJournal
<1> HIDE DEF state
<1>2. Clean /\ Clean' = Clean
  BY <1>1, DamagedIsRefused DEF Clean, state
<1>3. /\ state \in KnownStates /\ state # Missing
      /\ SoundAt(segment, state) /\ Anchored(segment, state) /\ AckedKept(Lines(segment), state)
  BY <1>1, <1>2, LoadFacts DEF state
<1>4. JournalTypeOK'
  BY <1>1, <1>3 DEF JournalInv, JournalTypeOK
<1>5. DamageIsLast' /\ FirstWrite' /\ RotationIsSound' /\ WriterIsSound'
  BY <1>1, <1>2, <1>3 DEF DamageIsLast, FirstWrite, RotationIsSound, WriterIsSound, Writing
<1>6. IndicesSuffice'
  BY <1>1 DEF JournalInv, IndicesSuffice
<1>7. ChainIsSound'
  BY <1>1, <1>3 DEF ChainIsSound, AckedKept
<1>8. LossIsLast'
  BY <1>1, <1>2, WholeKeepsLoss
<1> QED BY <1>4, <1>5, <1>6, <1>7, <1>8 DEF JournalInv

\* Every file operation of a writer may be its last.
LEMMA CrashKeepsInv ==
  ASSUME JournalInv, Crash
  PROVE  JournalInv'
<1>1. /\ writer' = Idle /\ crashes' = crashes + 1 /\ crashes < MaxCrashes
      /\ segment' = segment /\ unterminated' = unterminated /\ written' = written
      /\ acked' = acked /\ stateFile' = stateFile
  BY DEF Crash
<1>2. /\ Idle \in [at : {"idle"}, state : KnownStates \cup {EmptyState}, todo : SUBSET Indices]
      /\ Idle.at = "idle"
  BY DEF Idle
<1>3. JournalTypeOK'
  BY <1>1, <1>2, SMTT(30) DEF JournalInv, JournalTypeOK
<1>4. Clean' = Clean
  BY <1>1 DEF Clean
<1>5. DamageIsLast'
  BY <1>1, <1>2, <1>4 DEF JournalInv, DamageIsLast
<1>6. RotationIsSound' /\ WriterIsSound'
  BY <1>1, <1>2 DEF RotationIsSound, WriterIsSound, Writing
<1>7. FirstWrite'
  BY <1>1, <1>2 DEF JournalInv, FirstWrite
<1>8. ChainIsSound'
  BY <1>1, <1>4 DEF JournalInv, ChainIsSound, AckedKept
<1>9. IndicesSuffice'
  <2>1. written \in Nat /\ crashes \in Nat /\ MaxCrashes \in Nat
    BY JournalConstants DEF JournalInv, JournalTypeOK
  <2>2. /\ written <= MaxWrites
        /\ \A i \in SegmentPaths(segment) :
              i \in Nat /\ i <= written + crashes + (IF writer.at \in Writing THEN 1 ELSE 0)
    BY SegmentLines DEF JournalInv, JournalTypeOK, IndicesSuffice
  <2>3. \A i \in SegmentPaths(segment) : i <= written + (crashes + 1) + 0
    BY <2>1, <2>2, SMTT(30)
  <2>4. writer'.at \notin Writing
    BY <1>1, <1>2 DEF Writing
  <2> QED BY <1>1, <2>1, <2>2, <2>3, <2>4, SMTT(30) DEF IndicesSuffice
<1>10. LossIsLast'
  BY <1>1, <1>2, <1>4 DEF JournalInv, LossIsLast, LeftInLines
<1> QED BY <1>3, <1>5, <1>6, <1>7, <1>8, <1>9, <1>10 DEF JournalInv

\* The next rename, of the highest index that is left, has room.
LEMMA NextRename ==
  ASSUME NatWellOrdered,
         JournalInv, writer.at = "rotate", writer.todo # {}, NEW i, i = Max(writer.todo)
  PROVE  /\ i \in writer.todo /\ i \in SegmentPaths(segment) /\ i \in Nat /\ i + 1 \in Indices
         /\ i + 1 \notin SegmentPaths(segment)
         /\ \A j \in writer.todo : j \in Nat /\ j <= i
         /\ i <= written + crashes
<1>1. /\ writer.todo \subseteq SegmentPaths(segment) /\ segment \in Files
      /\ \A j \in writer.todo : j <= written + crashes
      /\ written < MaxWrites /\ crashes <= MaxCrashes
      /\ written \in Nat /\ crashes \in Nat /\ MaxWrites \in Nat /\ MaxCrashes \in Nat
  BY JournalConstants
     DEF JournalInv, JournalTypeOK, RotationIsSound, IndicesSuffice, Writing
<1>2. \A j \in writer.todo : j \in Nat
  BY <1>1, SegmentLines
<1>3. writer.todo \in SUBSET (0..(written + crashes)) /\ written + crashes \in Nat
  BY <1>1, <1>2, SMTT(30)
<1>4. i \in writer.todo /\ \A j \in writer.todo : j <= i
  BY <1>3, LargestIsMember
<1>5. i \in Nat /\ i + 1 \in Indices
  BY <1>1, <1>2, <1>4, SMTT(30) DEF Indices, Highest
<1>6. i + 1 \notin SegmentPaths(segment)
  <2>1. i + 1 \notin writer.todo
    BY <1>4, <1>5, SMTT(30)
  <2>2. \A j \in SegmentPaths(segment) \ writer.todo : j > i + 1
    BY <1>4 DEF JournalInv, RotationIsSound
  <2> QED BY <1>5, <2>1, <2>2, SMTT(30)
<1> QED BY <1>1, <1>2, <1>4, <1>5, <1>6

\* A rename of _rotate().
LEMMA RotateKeepsInv ==
  ASSUME NatWellOrdered,
         JournalInv, Rotate
  PROVE  JournalInv'
<1> DEFINE i == Max(writer.todo)
<1>1. /\ writer.at = "rotate" /\ writer.todo # {}
      /\ segment' = Rename(segment, i, i + 1) /\ unterminated' = (unterminated /\ i # 0)
      /\ writer' = [writer EXCEPT !.todo = writer.todo \ {i}]
      /\ stateFile' = stateFile /\ written' = written /\ acked' = acked /\ crashes' = crashes
  BY DEF Rotate
<1>2. /\ i \in writer.todo /\ i \in SegmentPaths(segment) /\ i \in Nat /\ i + 1 \in Indices
      /\ i + 1 \notin SegmentPaths(segment)
      /\ \A j \in writer.todo : j \in Nat /\ j <= i
      /\ i <= written + crashes
  BY <1>1, NextRename
<1> HIDE DEF i
<1>3. /\ segment \in Files /\ written \in Nat /\ crashes \in Nat /\ 0 \in Indices
      /\ writer \in [at : Writing \cup {"idle", "record"}, state : KnownStates \cup {EmptyState},
                   todo : SUBSET Indices]
  BY JournalConstants, SMTT(30) DEF JournalInv, JournalTypeOK, Indices, Highest
<1>4. /\ segment' \in Files
      /\ SegmentPaths(segment') = (SegmentPaths(segment) \ {i}) \cup {i + 1}
      /\ segment'[i + 1] = segment[i]
      /\ \A j \in Indices \ {i, i + 1} : segment'[j] = segment[j]
      /\ Lines(segment') = Lines(segment)
      /\ InOrder(segment) => InOrder(segment')
  BY <1>1, <1>2, <1>3, RenameKeepsLines, SMTT(30)
<1>5. /\ writer'.at = "rotate" /\ writer'.state = writer.state /\ writer'.todo = writer.todo \ {i}
      /\ writer' \in [at : Writing \cup {"idle", "record"}, state : KnownStates \cup {EmptyState},
                   todo : SUBSET Indices]
  BY <1>1, <1>3
<1>6. Clean' /\ Clean /\ stateFile # Missing
  BY <1>1, <1>4 DEF JournalInv, DamageIsLast, FirstWrite, Clean
<1>7. i # 0 => segment'[0] = segment[0]
  <2>1. i # 0 => 0 \in Indices \ {i, i + 1}
    BY <1>2, <1>3, SMTT(30)
  <2> QED BY <1>4, <2>1
<1>8. JournalTypeOK'
  BY <1>1, <1>3, <1>4, <1>5, <1>7 DEF JournalInv, JournalTypeOK
<1>9. DamageIsLast' /\ FirstWrite'
  BY <1>1, <1>6 DEF DamageIsLast, FirstWrite
<1>10. IndicesSuffice'
  <2>1. \A j \in SegmentPaths(segment) : j <= written + crashes + 1
    BY <1>1 DEF JournalInv, IndicesSuffice, Writing
  <2>2. i + 1 <= written + crashes + 1
    BY <1>2, <1>3, SMTT(30)
  <2>3. \A j \in SegmentPaths(segment') : j <= written + crashes + 1
    BY <1>4, <2>1, <2>2
  <2>4. written <= MaxWrites /\ crashes <= MaxCrashes /\ written < MaxWrites
    BY <1>1 DEF JournalInv, IndicesSuffice, Writing
  <2> QED BY <1>1, <1>5, <2>3, <2>4 DEF IndicesSuffice, Writing
<1>11. RotationIsSound'
  <2>1. /\ writer.todo \subseteq SegmentPaths(segment)
        /\ \A a \in writer.todo : a <= written + crashes
        /\ \A a \in writer.todo : \A b \in SegmentPaths(segment) \ writer.todo : b > a + 1
        /\ IF 0 \in writer.todo THEN segment[0] # <<>>
           ELSE writer.todo = {}
    BY <1>1 DEF JournalInv, RotationIsSound
  <2>2. writer'.todo \subseteq SegmentPaths(segment')
    BY <1>4, <1>5, <2>1
  <2>3. ASSUME NEW a \in writer'.todo, NEW b \in SegmentPaths(segment') \ writer'.todo
        PROVE  b > a + 1
    <3>1. a \in writer.todo /\ a # i /\ a \in Nat /\ a < i
      BY <1>2, <1>5, SMTT(30)
    <3>2. CASE b = i + 1
      BY <1>2, <3>1, <3>2, SMTT(30)
    <3>3. CASE b # i + 1
      <4>1. b \in SegmentPaths(segment) \ writer.todo
        BY <1>4, <1>5, <3>3
      <4> QED BY <2>1, <3>1, <4>1
    <3> QED BY <3>2, <3>3
  <2>4. 0 \in writer.todo /\ segment[0] # <<>>
    BY <1>2, <2>1
  <2>5. CASE i = 0
    <3>1. writer.todo = {0}
      BY <1>2, <2>4, <2>5, SMTT(30)
    <3>2. writer'.todo = {}
      BY <1>5, <2>5, <3>1
    <3>3. 1 \in SegmentPaths(segment') /\ segment'[1] # <<>>
      BY <1>4, <2>4, <2>5, SMTT(30)
    <3> QED BY <1>1, <2>1, <2>2, <2>3, <3>2, <3>3 DEF RotationIsSound
  <2>6. CASE i # 0
    <3>1. 0 \in writer'.todo /\ segment'[0] # <<>>
      BY <1>5, <1>7, <2>4, <2>6
    <3>2. \A a \in writer'.todo : a <= written' + crashes'
      BY <1>1, <1>5, <2>1
    <3> QED BY <2>2, <2>3, <3>1, <3>2 DEF RotationIsSound
  <2> QED BY <2>5, <2>6
<1>12. ChainIsSound'
  <2>1. SoundAt(segment, stateFile) /\ Anchored(segment, stateFile)
        /\ AckedKept(Lines(segment), stateFile)
    BY <1>6 DEF JournalInv, ChainIsSound
  <2>2. SoundAt(segment', stateFile)
    BY <1>4, <2>1 DEF SoundAt
  <2>3. Anchored(segment', stateFile)
    <3> SUFFICES ASSUME NEW j \in SegmentPaths(segment'), j <= BackupCount,
                        NEW k \in DOMAIN segment'[j]
                 PROVE  segment'[j][k].sequence >= stateFile.first
      BY DEF Anchored
    <3>1. CASE j = i + 1
      <4>1. i <= BackupCount
        BY <1>2, <3>1, JournalConstants, SMTT(30)
      <4> QED BY <1>2, <1>4, <2>1, <3>1, <4>1 DEF Anchored
    <3>2. CASE j # i + 1
      <4>1. j \in SegmentPaths(segment) /\ segment'[j] = segment[j]
        BY <1>4, <3>2 DEF SegmentPaths
      <4> QED BY <2>1, <4>1 DEF Anchored
    <3> QED BY <3>1, <3>2
  <2> QED BY <1>1, <1>4, <2>1, <2>2, <2>3 DEF ChainIsSound, AckedKept
<1>13. WriterIsSound'
  BY <1>1, <1>4, <1>5, <1>6 DEF JournalInv, WriterIsSound, Writing
<1>14. LossIsLast'
  BY <1>1, <1>5, <1>6, <1>7, WholeKeepsLoss
<1> QED BY <1>8, <1>9, <1>10, <1>11, <1>12, <1>13, <1>14 DEF JournalInv

\* The anchor is the first line of the oldest segment that stays.
LEMMA AnchorIsFirstKept ==
  ASSUME NatWellOrdered,
         NEW files \in Files, NEW one \in Kept(files), NEW m, m = Max(Kept(files))
  PROVE  /\ m \in SegmentPaths(files) /\ m <= BackupCount /\ files[m] # <<>>
         /\ 1 \in DOMAIN files[m] /\ Head(files[m]) = files[m][1]
         /\ \A i \in SegmentPaths(files) : \A k \in DOMAIN files[i] :
               IF i <= BackupCount THEN (i = m /\ k = 1) \/ Earlier(m, 1, i, k)
               ELSE Earlier(i, k, m, 1)
<1>1. \A i \in Kept(files) : i \in SegmentPaths(files) /\ i <= BackupCount /\ files[i] # <<>> /\ i \in Nat
  BY SegmentLines DEF Kept
<1>2. m \in Kept(files) /\ \A i \in Kept(files) : i <= m
  <2>1. Kept(files) \in SUBSET (0..BackupCount) /\ BackupCount \in Nat
    BY <1>1, JournalConstants, SMTT(30)
  <2> QED BY <2>1, LargestIsMember
<1>3. /\ m \in SegmentPaths(files) /\ m <= BackupCount /\ files[m] # <<>> /\ m \in Nat
      /\ files[m] \in Seq(JournalLines) /\ DOMAIN files[m] = 1..Len(files[m]) /\ Len(files[m]) \in Nat
  BY <1>1, <1>2, SegmentLines
<1>4. 1 \in DOMAIN files[m] /\ Head(files[m]) = files[m][1]
  BY <1>3, SMTT(30)
<1>5. ASSUME NEW i \in SegmentPaths(files), NEW k \in DOMAIN files[i]
      PROVE  IF i <= BackupCount THEN (i = m /\ k = 1) \/ Earlier(m, 1, i, k)
             ELSE Earlier(i, k, m, 1)
  <2>1. /\ i \in Nat /\ files[i] \in Seq(JournalLines)
        /\ DOMAIN files[i] = 1..Len(files[i]) /\ Len(files[i]) \in Nat
    BY SegmentLines
  <2>2. files[i] # <<>> /\ k \in Nat /\ k >= 1
    BY <2>1, SMTT(30)
  <2>3. i <= BackupCount => i <= m
    BY <1>2, <2>2 DEF Kept
  <2> QED BY <1>3, <2>1, <2>2, <2>3, JournalConstants, SMTT(30) DEF Earlier
<1> QED BY <1>3, <1>4, <1>5

\* _state_before_prune() and the save of the new anchor.
LEMMA SaveAnchorKeepsInv ==
  ASSUME NatWellOrdered,
         JournalInv, SaveAnchor
  PROVE  JournalInv'
<1> DEFINE m == Max(Kept(segment))
           h == segment[m][1]
           s == AnchorAt(h, stateFile)
<1>1. /\ writer.at = "rotate" /\ writer.todo = {}
      /\ writer' = [writer EXCEPT !.at = "prune", !.state = StateBeforePrune(segment, writer.state)]
      /\ stateFile' = writer'.state
      /\ segment' = segment /\ unterminated' = unterminated /\ written' = written
      /\ acked' = acked /\ crashes' = crashes
  BY DEF SaveAnchor
<1>2. /\ segment \in Files /\ stateFile \in KnownStates /\ Clean /\ stateFile # Missing
      /\ writer.state = stateFile
      /\ \A e \in Lines(segment) : e.sequence \in Nat /\ e.id \in Nat /\ e.prev \in Nat
      /\ \A e \in Lines(segment) : e.sequence <= stateFile.last
      /\ SoundAt(segment, stateFile) /\ Anchored(segment, stateFile)
      /\ AckedKept(Lines(segment), stateFile)
      /\ writer \in [at : Writing \cup {"idle", "record"}, state : KnownStates \cup {EmptyState},
                     todo : SUBSET Indices]
  BY <1>1 DEF JournalInv, JournalTypeOK, DamageIsLast, FirstWrite, ChainIsSound, WriterIsSound,
              Writing, Clean
<1>3. 1 \in Kept(segment)
  BY <1>1, JournalConstants, SMTT(30) DEF JournalInv, RotationIsSound, Kept
<1>4. /\ m \in SegmentPaths(segment) /\ m <= BackupCount
      /\ 1 \in DOMAIN segment[m] /\ Head(segment[m]) = h
      /\ \A i \in SegmentPaths(segment) : \A k \in DOMAIN segment[i] :
             IF i <= BackupCount THEN (i = m /\ k = 1) \/ Earlier(m, 1, i, k)
             ELSE Earlier(i, k, m, 1)
  BY <1>2, <1>3, AnchorIsFirstKept
<1>5. h \in Lines(segment) /\ h.sequence \in Nat /\ h.id \in Nat /\ h.prev \in Nat
      /\ stateFile.first <= h.sequence /\ stateFile.first \in Nat /\ stateFile.last \in Nat
  <2>1. h \in Lines(segment) /\ stateFile.first \in Nat /\ stateFile.last \in Nat
    BY <1>2, <1>4, SegmentLines DEF KnownStates
  <2> QED BY <1>2, <1>4, <2>1 DEF Anchored
<1>6. StateBeforePrune(segment, writer.state) = s
  BY <1>2, <1>3, <1>4 DEF StateBeforePrune
<1> HIDE DEF m, h
<1>7. /\ s \in KnownStates /\ s.first = h.sequence /\ s.firstPrev = h.prev
      /\ s.last = stateFile.last /\ s.lastHash = stateFile.lastHash
  BY <1>2, <1>5 DEF AnchorAt, KnownStates
<1> HIDE DEF s
<1>8. s # Missing
  BY <1>7, JournalConstants, SMTT(30) DEF KnownStates, JournalStates
<1>9. /\ writer'.at = "prune" /\ writer'.state = s /\ stateFile' = s
      /\ writer' \in [at : {"prune"}, state : KnownStates, todo : SUBSET Indices]
  BY <1>1, <1>2, <1>6, <1>7
<1>10. Clean'
  BY <1>1, <1>2 DEF Clean
<1>11. \A d, e \in Lines(segment) : d = e \/ Older(d, e) \/ Older(e, d)
  BY <1>2, LinesAreLinear DEF SoundAt
<1>12. JournalTypeOK'
  BY <1>1, <1>7, <1>9 DEF JournalInv, JournalTypeOK, Writing
<1>13. DamageIsLast' /\ FirstWrite' /\ RotationIsSound'
  BY <1>8, <1>9, <1>10 DEF DamageIsLast, FirstWrite, RotationIsSound
<1>14. IndicesSuffice'
  BY <1>1, <1>9 DEF JournalInv, IndicesSuffice, Writing
<1>15. SoundAt(segment, s)
  <2>1. ASSUME NEW e \in Lines(segment), e.sequence = s.first PROVE e.prev = s.firstPrev
    <3>1. e = h
      BY <1>2, <1>5, <1>7, <1>11, <2>1, SMTT(30) DEF Older
    <3> QED BY <1>7, <3>1
  <2>2. ASSUME NEW e \in Lines(segment), e.sequence > s.first
        PROVE  \E d \in Lines(segment) : d.sequence = e.sequence - 1 /\ d.id = e.prev
    <3>1. e.sequence > stateFile.first
      BY <1>2, <1>5, <1>7, <2>2, SMTT(30)
    <3> QED BY <1>2, <3>1 DEF SoundAt, Chained
  <2>3. HasEnds(Lines(segment), s)
    <3>1. h.sequence <= stateFile.last
      BY <1>2, <1>5
    <3> QED BY <1>2, <1>5, <1>7, <3>1 DEF SoundAt, HasEnds
  <2> QED BY <1>2, <2>1, <2>2, <2>3 DEF SoundAt, Chained
<1>16. ASSUME NEW i \in SegmentPaths(segment), NEW k \in DOMAIN segment[i]
       PROVE  IF i <= BackupCount THEN segment[i][k].sequence >= h.sequence
              ELSE segment[i][k].sequence < h.sequence
  <2>1. segment[i][k] \in Lines(segment) /\ segment[i][k].sequence \in Nat
    BY <1>2, SegmentLines
  <2>2. CASE i <= BackupCount
    <3>1. (i = m /\ k = 1) \/ Older(h, segment[i][k])
      BY <1>2, <1>4, <2>2 DEF SoundAt, InOrder, h
    <3> QED BY <1>5, <2>1, <2>2, <3>1, SMTT(30) DEF Older, h
  <2>3. CASE ~(i <= BackupCount)
    <3>1. Older(segment[i][k], h)
      BY <1>2, <1>4, <2>3 DEF SoundAt, InOrder, h
    <3> QED BY <2>3, <3>1 DEF Older
  <2> QED BY <2>2, <2>3
<1>17. AckedKept(Lines(segment), s)
  <2> SUFFICES ASSUME NEW a \in acked
               PROVE  \/ \E e \in Lines(segment) : e.id = a /\ e.sequence >= s.first
                      \/ \A e \in Lines(segment) : e.sequence >= s.first => a < e.id
    BY DEF AckedKept
  <2>1. CASE \A e \in Lines(segment) : e.sequence >= stateFile.first => a < e.id
    BY <1>2, <1>5, <1>7, <2>1, SMTT(30)
  <2>2. CASE \E e \in Lines(segment) : e.id = a /\ e.sequence >= stateFile.first
    <3>1. PICK e \in Lines(segment) : e.id = a
      BY <2>2
    <3>2. CASE e.sequence >= s.first
      BY <3>1, <3>2
    <3>3. CASE ~(e.sequence >= s.first)
      <4>1. ASSUME NEW d \in Lines(segment), d.sequence >= s.first PROVE a < d.id
        BY <1>2, <1>5, <1>7, <1>11, <3>1, <3>3, <4>1, SMTT(30) DEF Older
      <4> QED BY <4>1
    <3> QED BY <3>2, <3>3
  <2> QED BY <1>2, <2>1, <2>2 DEF AckedKept
<1>18. ChainIsSound'
  <2>1. Anchored(segment, s)
    BY <1>7, <1>16 DEF Anchored
  <2> QED BY <1>1, <1>9, <1>15, <1>17, <2>1 DEF ChainIsSound, AckedKept
<1>19. WriterIsSound'
  <2>1. \A i \in SegmentPaths(segment) : i > BackupCount =>
                  \A k \in DOMAIN segment[i] : segment[i][k].sequence < s.first
    <3>1. \A i \in SegmentPaths(segment) : i \in Nat
      BY <1>2, SegmentLines
    <3> QED BY <1>7, <1>16, <3>1, JournalConstants, SMTT(30)
  <2> QED BY <1>1, <1>2, <1>7, <1>9, <2>1 DEF WriterIsSound
<1>20. LossIsLast'
  BY <1>1, <1>2, <1>9, <1>10, WholeKeepsLoss
<1> QED BY <1>12, <1>13, <1>14, <1>18, <1>19, <1>20 DEF JournalInv

\* An unlink of _prune_rotated_segments(), and its end.
LEMMA PruneKeepsInv ==
  ASSUME NatWellOrdered,
         JournalInv, Prune
  PROVE  JournalInv'
<1> DEFINE surplus == {i \in BackupIndices(segment) : i > BackupCount}
<1>1. /\ writer.at = "prune" /\ unterminated' = unterminated /\ stateFile' = stateFile
      /\ written' = written /\ acked' = acked /\ crashes' = crashes
  BY DEF Prune
<1>2. /\ segment \in Files /\ Clean /\ stateFile # Missing /\ stateFile \in KnownStates
      /\ SoundAt(segment, stateFile) /\ Anchored(segment, stateFile)
      /\ AckedKept(Lines(segment), stateFile)
      /\ writer.state = stateFile
      /\ \A e \in Lines(segment) : e.sequence <= stateFile.last
      /\ \A e \in Lines(segment) : e.sequence \in Nat
      /\ writer \in [at : Writing \cup {"idle", "record"}, state : KnownStates \cup {EmptyState},
                     todo : SUBSET Indices]
  BY <1>1 DEF JournalInv, JournalTypeOK, DamageIsLast, FirstWrite, ChainIsSound, WriterIsSound,
              Writing, Clean
<1>3. CASE surplus = {}
  <2>1. writer' = [writer EXCEPT !.at = "append"] /\ segment' = segment
    BY <1>3 DEF Prune
  <2>2. /\ writer'.at = "append" /\ writer'.state = stateFile
        /\ writer' \in [at : {"append"}, state : KnownStates \cup {EmptyState}, todo : SUBSET Indices]
    BY <1>2, <2>1
  <2>3. Clean'
    BY <1>2, <2>1 DEF Clean
  <2>4. JournalTypeOK'
    BY <1>1, <2>1, <2>2 DEF JournalInv, JournalTypeOK, Writing
  <2>5. DamageIsLast' /\ FirstWrite' /\ RotationIsSound'
    BY <1>1, <1>2, <2>2, <2>3 DEF DamageIsLast, FirstWrite, RotationIsSound
  <2>6. IndicesSuffice'
    BY <1>1, <2>1, <2>2 DEF JournalInv, IndicesSuffice, Writing
  <2>7. ChainIsSound' /\ WriterIsSound'
    BY <1>1, <1>2, <2>1, <2>2 DEF ChainIsSound, AckedKept, WriterIsSound
  <2>8. LossIsLast'
    BY <1>1, <1>2, <2>1, <2>2, <2>3, WholeKeepsLoss
  <2> QED BY <2>4, <2>5, <2>6, <2>7, <2>8 DEF JournalInv
<1>4. CASE surplus # {}
  <2> DEFINE i == Min(surplus)
  <2>1. segment' = [segment EXCEPT ![i] = Missing] /\ writer' = writer
    BY <1>4 DEF Prune
  <2>2. i \in surplus
    <3>1. surplus \in SUBSET Nat
      BY <1>2, SegmentLines DEF BackupIndices
    <3> QED BY <1>4, <3>1, SmallestIsMember
  <2>3. i \in SegmentPaths(segment) /\ i > BackupCount /\ i \in Nat /\ i # 0
    BY <1>2, <2>2, SegmentLines DEF BackupIndices
  <2> HIDE DEF i
  <2>4. /\ segment' \in Files /\ SegmentPaths(segment') = SegmentPaths(segment) \ {i}
        /\ \A j \in Indices \ {i} : segment'[j] = segment[j]
        /\ Lines(segment') \subseteq Lines(segment)
        /\ \A e \in Lines(segment) : e \in Lines(segment') \/ e \in Range(segment[i])
        /\ InOrder(segment) => InOrder(segment')
    <3>1. Unlinked(segment, i, segment')
      BY <1>2, <2>1, <2>3, UnlinkKeepsOrder
    <3> QED BY <3>1 DEF Unlinked
  <2>5. /\ \A j \in SegmentPaths(segment') : j \in SegmentPaths(segment) /\ segment'[j] = segment[j]
        /\ segment'[0] = segment[0]
    <3>1. 0 \in Indices
      BY JournalConstants, SMTT(30) DEF Indices, Highest
    <3>2. \A j \in SegmentPaths(segment) : j \in Indices
      BY DEF SegmentPaths
    <3> QED BY <2>3, <2>4, <3>1, <3>2
  <2>6. \A e \in Lines(segment) : e.sequence >= stateFile.first => e \in Lines(segment')
    <3>1. \A k \in DOMAIN segment[i] : segment[i][k].sequence < stateFile.first
      BY <1>1, <1>2, <2>3 DEF JournalInv, WriterIsSound
    <3>2. stateFile.first \in Nat
      BY <1>2 DEF KnownStates
    <3> QED BY <1>2, <2>4, <3>1, <3>2, SMTT(30) DEF Range
  <2>7. Clean'
    BY <1>2, <2>4 DEF Clean
  <2>8. JournalTypeOK'
    BY <1>1, <2>1, <2>4, <2>5 DEF JournalInv, JournalTypeOK
  <2>9. DamageIsLast' /\ FirstWrite' /\ RotationIsSound'
    BY <1>1, <1>2, <2>1, <2>7 DEF DamageIsLast, FirstWrite, RotationIsSound
  <2>10. IndicesSuffice'
    BY <1>1, <2>1, <2>5 DEF JournalInv, IndicesSuffice
  <2>11. SoundAt(segment', stateFile)
    <3>1. ASSUME NEW e \in Lines(segment'), e.sequence > stateFile.first
          PROVE  \E d \in Lines(segment') : d.sequence = e.sequence - 1 /\ d.id = e.prev
      <4>1. PICK d \in Lines(segment) : d.sequence = e.sequence - 1 /\ d.id = e.prev
        BY <1>2, <2>4, <3>1 DEF SoundAt, Chained
      <4>2. stateFile.first \in Nat /\ e.sequence \in Nat
        BY <1>2, <2>4 DEF KnownStates
      <4>3. d.sequence >= stateFile.first
        BY <3>1, <4>1, <4>2, SMTT(30)
      <4> QED BY <2>6, <4>1, <4>3
    <3>2. Chained(Lines(segment'), stateFile)
      BY <1>2, <2>4, <3>1 DEF SoundAt, Chained
    <3>3. HasEnds(Lines(segment'), stateFile)
      <4>1. stateFile.first \in Nat /\ stateFile.last \in Nat /\ stateFile.first <= stateFile.last
        BY <1>2, SMTT(30) DEF KnownStates, SoundAt, HasEnds
      <4> QED BY <1>2, <2>6, <4>1, SMTT(30) DEF SoundAt, HasEnds
    <3> QED BY <1>2, <2>4, <3>2, <3>3 DEF SoundAt
  <2>12. Anchored(segment', stateFile)
    BY <1>2, <2>5 DEF Anchored
  <2>13. AckedKept(Lines(segment'), stateFile)
    BY <1>2, <2>4, <2>6 DEF AckedKept
  <2>14. ChainIsSound'
    BY <1>1, <2>11, <2>12, <2>13 DEF ChainIsSound, AckedKept
  <2>15. WriterIsSound'
    <3>1. \A j \in SegmentPaths(segment) : j > BackupCount =>
                  \A k \in DOMAIN segment[j] : segment[j][k].sequence < stateFile.first
      BY <1>1, <1>2 DEF JournalInv, WriterIsSound
    <3> QED BY <1>1, <1>2, <2>1, <2>4, <2>5, <3>1 DEF WriterIsSound
  <2>16. LossIsLast'
    BY <1>1, <1>2, <2>1, <2>5, <2>7, WholeKeepsLoss
  <2> QED BY <2>8, <2>9, <2>10, <2>14, <2>15, <2>16 DEF JournalInv
<1> QED BY <1>3, <1>4

\* What an append leaves in the live segment.
LEMMA AppendLineIs ==
  ASSUME NEW line, AppendLine(line), segment \in Files,
         unterminated => segment[0] # Missing
  PROVE  IF unterminated THEN segment' = [segment EXCEPT ![0] = Joined(segment[0])]
         ELSE segment' = [segment EXCEPT ![0] = IF segment[0] = Missing THEN <<line>>
                                                ELSE Append(segment[0], line)]
<1>1. CASE unterminated
  BY <1>1 DEF AppendLine
<1>2. CASE ~unterminated /\ segment[0] = Missing
  BY <1>2 DEF AppendLine
<1>3. CASE ~unterminated /\ segment[0] # Missing
  BY <1>3 DEF AppendLine
<1> QED BY <1>1, <1>2, <1>3

\* The log after an append: whole and one line longer, or damaged at its end.
Appended(line, g) ==
    /\ g \in Files /\ g[0] # Missing /\ g[0] # <<>>
    /\ SegmentPaths(g) = SegmentPaths(segment) \cup {0}
    /\ Damaged \in Lines(g) =>
          /\ g[0][Len(g[0])] = Damaged
          /\ Lines(g) \subseteq Lines(segment) \cup {Damaged}
          /\ \A e \in Lines(segment) :
                e \in Lines(g) \/ (unterminated /\ e = segment[0][Len(segment[0])])
    /\ \A e \in Lines(g) : e \in Lines(segment) \/ e = line \/ e = Damaged
    /\ Damaged \notin Lines(g) =>
          /\ Lines(g) = Lines(segment) \cup {line} /\ line # Damaged /\ g[0][Len(g[0])] = line
          /\ \A j \in Indices \ {0} : g[j] = segment[j]
          /\ \A k \in DOMAIN g[0] :
                g[0][k] = line \/ (segment[0] # Missing /\ g[0][k] \in Range(segment[0]))
          /\ InOrder(segment) /\ (\A e \in Lines(segment) : Older(e, line)) => InOrder(g)

\* What write() leaves on the live path, whatever it found there.
LEMMA AppendMakes ==
  ASSUME NEW line \in JournalLines, AppendLine(line), segment \in Files, Clean,
         unterminated => segment[0] # Missing /\ segment[0] # <<>>
  PROVE  Appended(line, segment')
<1> DEFINE g == segment'
<1>1. CASE unterminated
  <2>1. g = [segment EXCEPT ![0] = Joined(segment[0])]
    BY <1>1, AppendLineIs
  <2> HIDE DEF g
  <2>2. DamagedBy(segment, g)
    BY <1>1, <2>1, JoinDamages
  <2>3. 0 \in SegmentPaths(g)
    BY <2>2, JournalConstants, SMTT(30) DEF SegmentPaths, Indices, Highest, DamagedBy
  <2>4. Appended(line, g)
    BY <1>1, <2>2, <2>3 DEF Appended, DamagedBy
  <2> QED BY <2>4 DEF g
<1>2. CASE ~unterminated
  <2>1. g = [segment EXCEPT ![0] = IF segment[0] = Missing THEN <<line>>
                                   ELSE Append(segment[0], line)]
    BY <1>2, AppendLineIs
  <2> HIDE DEF g
  <2>2. LongerBy(segment, line, g)
    BY <2>1, AppendKeepsLines
  <2>3. Appended(line, g)
    BY <2>2 DEF LongerBy, Appended, Clean
  <2> QED BY <2>3 DEF g
<1> QED BY <1>1, <1>2

\* The state a write leaves to record: the chain goes on, or starts here.
Extended(state, e) ==
    [first |-> IF state.last < state.first THEN e.sequence ELSE state.first,
     firstPrev |-> IF state.last < state.first THEN e.prev ELSE state.firstPrev,
     last |-> e.sequence, lastHash |-> e.id]

\* The fields of a state moved to a new end.
LEMMA EndingAtIs ==
  ASSUME NEW state \in KnownStates, NEW e, e.sequence \in Nat, e.id \in Nat
  PROVE  EndingAt(state, e) = [first |-> state.first, firstPrev |-> state.firstPrev,
                               last |-> e.sequence, lastHash |-> e.id]
<1>1. EndingAt(state, e) \in KnownStates
  BY DEF EndingAt, KnownStates
<1>2. /\ EndingAt(state, e).first = state.first /\ EndingAt(state, e).firstPrev = state.firstPrev
      /\ EndingAt(state, e).last = e.sequence /\ EndingAt(state, e).lastHash = e.id
  BY DEF EndingAt, KnownStates
<1> QED BY <1>1, <1>2 DEF KnownStates

\* The writer that appends found a whole log, and continues what its state names.
LEMMA AppenderFacts ==
  ASSUME JournalInv, writer.at = "append"
  PROVE  /\ Clean /\ segment \in Files
         /\ NextEvent \in JournalLines /\ NextEvent # Damaged
         /\ NextEvent.sequence \in Nat /\ NextEvent.id = written + 1 /\ NextEvent.prev \in Nat
         /\ Extended(writer.state, NextEvent) \in KnownStates
         /\ \A d \in Lines(segment) : d.sequence \in Nat /\ d.id \in Nat /\ Older(d, NextEvent)
         /\ stateFile # Missing =>
               /\ stateFile \in KnownStates /\ writer.state = stateFile
               /\ SoundAt(segment, stateFile) /\ Anchored(segment, stateFile)
               /\ AckedKept(Lines(segment), stateFile)
               /\ Extended(writer.state, NextEvent) = EndingAt(stateFile, NextEvent)
         /\ stateFile = Missing =>
               /\ Lines(segment) = {} /\ SegmentPaths(segment) = {}
               /\ Extended(writer.state, NextEvent) =
                     [first |-> 0, firstPrev |-> 0, last |-> 0, lastHash |-> written + 1]
               /\ NextEvent = AuditEvent(0, written + 1, 0)
<1>1. Clean
  BY DEF JournalInv, DamageIsLast
<1>2. /\ segment \in Files /\ written \in Nat
      /\ stateFile = Missing \/ stateFile \in KnownStates
      /\ \A d \in Lines(segment) : d.sequence \in Nat /\ d.id \in Nat /\ d.id <= written
  BY <1>1 DEF JournalInv, JournalTypeOK, Clean
<1>3. CASE stateFile # Missing
  <2>1. /\ stateFile \in KnownStates /\ writer.state = stateFile
        /\ SoundAt(segment, stateFile) /\ Anchored(segment, stateFile)
        /\ AckedKept(Lines(segment), stateFile)
        /\ \A d \in Lines(segment) : d.sequence <= stateFile.last
    BY <1>1, <1>2, <1>3 DEF JournalInv, ChainIsSound, WriterIsSound, Writing
  <2>2. NextEvent = AuditEvent(stateFile.last + 1, written + 1, stateFile.lastHash)
    BY <2>1 DEF NextEvent
  <2>3. /\ stateFile.first \in Nat /\ stateFile.last \in Nat /\ stateFile.lastHash \in Nat
        /\ stateFile.firstPrev \in Nat /\ stateFile.first <= stateFile.last
    BY <2>1 DEF KnownStates, SoundAt, HasEnds
  <2>4. /\ NextEvent.sequence = stateFile.last + 1 /\ NextEvent.id = written + 1
        /\ NextEvent.prev = stateFile.lastHash
        /\ NextEvent \in JournalLines /\ NextEvent # Damaged
    BY <1>2, <2>2, <2>3, SMTT(30) DEF AuditEvent, JournalLines, Damaged
  <2>5. Extended(writer.state, NextEvent) = EndingAt(stateFile, NextEvent)
    <3>1. Extended(writer.state, NextEvent) =
            [first |-> stateFile.first, firstPrev |-> stateFile.firstPrev,
             last |-> NextEvent.sequence, lastHash |-> NextEvent.id]
      BY <2>1, <2>3, SMTT(30) DEF Extended
    <3>2. EndingAt(stateFile, NextEvent) =
            [first |-> stateFile.first, firstPrev |-> stateFile.firstPrev,
             last |-> NextEvent.sequence, lastHash |-> NextEvent.id]
      <4>1. NextEvent.sequence \in Nat /\ NextEvent.id \in Nat
        BY <1>2, <2>3, <2>4, SMTT(30)
      <4> QED BY <2>1, <4>1, EndingAtIs
    <3> QED BY <3>1, <3>2, SMTT(30)
  <2>6. Extended(writer.state, NextEvent) \in KnownStates
    <3>1. Extended(writer.state, NextEvent) =
            [first |-> stateFile.first, firstPrev |-> stateFile.firstPrev,
             last |-> stateFile.last + 1, lastHash |-> written + 1]
      BY <2>1, <2>3, <2>4, SMTT(30) DEF Extended
    <3> QED BY <1>2, <2>3, <3>1, SMTT(30) DEF KnownStates
  <2>7. \A d \in Lines(segment) : Older(d, NextEvent)
    BY <1>2, <2>1, <2>3, <2>4, SMTT(30) DEF Older
  <2>8. NextEvent.sequence \in Nat /\ NextEvent.prev \in Nat
    BY <2>3, <2>4, SMTT(30)
  <2> QED BY <1>1, <1>2, <1>3, <2>1, <2>4, <2>5, <2>6, <2>7, <2>8
<1>4. CASE stateFile = Missing
  <2>1. SegmentPaths(segment) = {} /\ writer.state = EmptyState
    BY <1>4, SMTT(30) DEF JournalInv, FirstWrite
  <2>2. Lines(segment) = {}
    BY <2>1, SMTT(30) DEF Lines
  <2>3. NextEvent = AuditEvent(0, written + 1, 0)
    BY <2>1, SMTT(30) DEF NextEvent, EmptyState, Genesis
  <2>4. /\ NextEvent.sequence = 0 /\ NextEvent.id = written + 1 /\ NextEvent.prev = 0
        /\ NextEvent \in JournalLines /\ NextEvent # Damaged
    BY <1>2, <2>3, SMTT(30) DEF AuditEvent, JournalLines, Damaged
  <2>5. Extended(writer.state, NextEvent) =
           [first |-> 0, firstPrev |-> 0, last |-> 0, lastHash |-> written + 1]
    BY <2>1, <2>4, SMTT(30) DEF Extended, EmptyState
  <2>6. Extended(writer.state, NextEvent) \in KnownStates
    BY <1>2, <2>5, SMTT(30) DEF KnownStates
  <2> QED BY <1>1, <1>2, <1>4, <2>1, <2>2, <2>3, <2>4, <2>5, <2>6, SMTT(30)
<1> QED BY <1>3, <1>4

\* A whole append leaves a sound log, for the state file as it is and for the
\* state the writer is about to record.
LEMMA AppendedIsSound ==
  ASSUME JournalInv, writer.at = "append", NEW g, Appended(NextEvent, g), Damaged \notin Lines(g),
         NEW s, s = Extended(writer.state, NextEvent)
  PROVE  /\ stateFile # Missing =>
               /\ SoundAt(g, stateFile) /\ Anchored(g, stateFile) /\ AckedKept(Lines(g), stateFile)
               /\ s.first = stateFile.first /\ s.firstPrev = stateFile.firstPrev
               /\ HasEnds(Lines(g), s)
         /\ stateFile = Missing => SoundAt(g, s) /\ Anchored(g, s)
<1> DEFINE e == NextEvent
<1>1. /\ segment \in Files /\ e \in JournalLines
      /\ e.sequence \in Nat /\ e.id = written + 1 /\ e.prev \in Nat
      /\ \A d \in Lines(segment) : d.sequence \in Nat /\ d.id \in Nat /\ Older(d, e)
  BY AppenderFacts
<1>2. /\ g \in Files /\ Lines(g) = Lines(segment) \cup {e}
      /\ InOrder(segment) => InOrder(g)
      /\ SegmentPaths(g) = SegmentPaths(segment) \cup {0}
      /\ \A j \in Indices \ {0} : g[j] = segment[j]
      /\ \A k \in DOMAIN g[0] : g[0][k] = e \/ (segment[0] # Missing /\ g[0][k] \in Range(segment[0]))
  BY <1>1 DEF Appended
<1>3. written \in Nat
  BY SMTT(30) DEF JournalInv, JournalTypeOK
<1>4. CASE stateFile # Missing
  <2>1. /\ stateFile \in KnownStates /\ writer.state = stateFile
        /\ SoundAt(segment, stateFile) /\ Anchored(segment, stateFile)
        /\ AckedKept(Lines(segment), stateFile)
        /\ s = EndingAt(stateFile, e)
    BY <1>4, AppenderFacts
  <2>2. /\ e.sequence = stateFile.last + 1 /\ e.prev = stateFile.lastHash
        /\ stateFile.first \in Nat /\ stateFile.last \in Nat /\ stateFile.first <= stateFile.last
    BY <2>1 DEF NextEvent, AuditEvent, KnownStates, SoundAt, HasEnds
  <2>3. /\ s.first = stateFile.first /\ s.firstPrev = stateFile.firstPrev
        /\ s.last = e.sequence /\ s.lastHash = e.id
    BY <2>1 DEF EndingAt, KnownStates
  <2> HIDE DEF e
  <2>4. HasEnds(Lines(g), stateFile) /\ HasEnds(Lines(g), s)
    BY <1>2, <2>1, <2>2, <2>3, SMTT(30) DEF SoundAt, HasEnds
  <2>5. Chained(Lines(g), stateFile)
    <3> SUFFICES ASSUME NEW d \in Lines(g)
                 PROVE  /\ d.sequence = stateFile.first => d.prev = stateFile.firstPrev
                        /\ d.sequence > stateFile.first =>
                              \E c \in Lines(g) : c.sequence = d.sequence - 1 /\ c.id = d.prev
      BY SMTT(30) DEF Chained
    <3>1. CASE d = e
      <4>1. PICK c \in Lines(segment) : c.sequence = stateFile.last /\ c.id = stateFile.lastHash
        BY <2>1 DEF SoundAt, HasEnds
      <4>2. c \in Lines(g) /\ c.sequence = d.sequence - 1 /\ c.id = d.prev
        BY <1>2, <2>2, <3>1, <4>1, SMTT(30)
      <4>3. d.sequence # stateFile.first
        BY <2>2, <3>1, SMTT(30)
      <4> QED BY <4>2, <4>3, SMTT(30)
    <3>2. CASE d \in Lines(segment)
      BY <1>2, <2>1, <3>2 DEF SoundAt, Chained
    <3> QED BY <1>2, <3>1, <3>2
  <2>6. SoundAt(g, stateFile)
    BY <1>2, <2>1, <2>4, <2>5, SMTT(30) DEF SoundAt
  <2>7. Anchored(g, stateFile)
    <3> SUFFICES ASSUME NEW i \in SegmentPaths(g), i <= BackupCount, NEW k \in DOMAIN g[i]
                 PROVE  g[i][k].sequence >= stateFile.first
      BY DEF Anchored
    <3>1. CASE i # 0
      <4>1. i \in SegmentPaths(segment) /\ g[i] = segment[i]
        BY <1>2, <3>1, SMTT(30) DEF SegmentPaths
      <4> QED BY <2>1, <4>1 DEF Anchored
    <3>2. CASE i = 0 /\ g[i][k] = e
      BY <2>2, <3>2, SMTT(30)
    <3>3. CASE i = 0 /\ segment[0] # Missing /\ g[0][k] \in Range(segment[0])
      <4>1. 0 \in SegmentPaths(segment)
        BY <3>3, JournalConstants, SMTT(30) DEF SegmentPaths, Indices, Highest
      <4>2. PICK l \in DOMAIN segment[0] : g[0][k] = segment[0][l]
        BY <3>3, SMTT(30) DEF Range
      <4> QED BY <2>1, <3>3, <4>1, <4>2 DEF Anchored
    <3> QED BY <1>2, <3>1, <3>2, <3>3
  <2>8. AckedKept(Lines(g), stateFile)
    <3> SUFFICES ASSUME NEW a \in acked
                 PROVE  \/ \E d \in Lines(g) : d.id = a /\ d.sequence >= stateFile.first
                        \/ \A d \in Lines(g) : d.sequence >= stateFile.first => a < d.id
      BY SMTT(30) DEF AckedKept
    <3>1. CASE \E d \in Lines(segment) : d.id = a /\ d.sequence >= stateFile.first
      BY <1>2, <3>1
    <3>2. CASE \A d \in Lines(segment) : d.sequence >= stateFile.first => a < d.id
      <4>1. PICK f \in Lines(segment) : f.sequence = stateFile.first
        BY <2>1 DEF SoundAt, HasEnds
      <4>2. a < f.id /\ f.id < e.id /\ f.id \in Nat
        BY <1>1, <2>2, <3>2, <4>1, SMTT(30) DEF Older, e
      <4>3. a \in Nat
        BY DEF JournalInv, JournalTypeOK
      <4>4. a < e.id
        BY <1>1, <1>3, <4>2, <4>3, SMTT(30) DEF e
      <4> QED BY <1>2, <3>2, <4>4
    <3> QED BY <2>1, <3>1, <3>2 DEF AckedKept
  <2> QED BY <1>4, <2>3, <2>4, <2>6, <2>7, <2>8
<1>5. CASE stateFile = Missing
  <2>1. /\ Lines(segment) = {} /\ SegmentPaths(segment) = {}
        /\ s = [first |-> 0, firstPrev |-> 0, last |-> 0, lastHash |-> written + 1]
        /\ e = AuditEvent(0, written + 1, 0)
    BY <1>5, AppenderFacts
  <2>2. /\ s.first = 0 /\ s.firstPrev = 0 /\ s.last = 0 /\ s.lastHash = written + 1
        /\ e.sequence = 0 /\ e.id = written + 1 /\ e.prev = 0
    BY <2>1, SMTT(30) DEF AuditEvent
  <2> HIDE DEF e
  <2>3. Lines(g) = {e} /\ SegmentPaths(g) = {0}
    BY <1>2, <2>1, SMTT(30)
  <2>4. InOrder(segment)
    BY <2>1, SMTT(30) DEF InOrder
  <2>5. SoundAt(g, s)
    BY <1>2, <2>2, <2>3, <2>4, SMTT(30) DEF SoundAt, Chained, HasEnds
  <2>6. Anchored(g, s)
    <3>1. \A i \in SegmentPaths(g) : \A k \in DOMAIN g[i] : g[i][k] \in Lines(g)
      BY <1>2, SegmentLines
    <3> QED BY <2>2, <2>3, <3>1, SMTT(30) DEF Anchored
  <2> QED BY <1>5, <2>5, <2>6, SMTT(30)
<1> QED BY <1>4, <1>5, SMTT(30)

\* What an append that was begun leaves in any case: types, indices and where damage is.
LEMMA AppendKeepsShape ==
  ASSUME JournalInv, writer.at = "append", NEW line, Appended(line, segment'),
         line \in {NextEvent, Damaged}, unterminated' \in BOOLEAN,
         stateFile' = stateFile, acked' = acked,
         written' \in {written, written + 1}, line = NextEvent => written' = written + 1,
         crashes' \in {crashes, crashes + 1}, crashes' <= MaxCrashes,
         written' + crashes' > written + crashes,
         writer' \in [at : {"idle", "record"}, state : KnownStates \cup {EmptyState},
                      todo : SUBSET Indices],
         writer'.at = "record" => writer'.state \in KnownStates
  PROVE  JournalTypeOK' /\ DamageIsLast' /\ IndicesSuffice' /\ RotationIsSound'
<1>1. /\ written \in Nat /\ crashes \in Nat /\ written < MaxWrites /\ acked \in SUBSET Nat
      /\ stateFile = Missing \/ stateFile \in KnownStates
  BY SMTT(30) DEF JournalInv, JournalTypeOK, IndicesSuffice, Writing
<1>2. /\ segment' \in Files /\ segment'[0] # Missing /\ segment'[0] # <<>>
      /\ SegmentPaths(segment') = SegmentPaths(segment) \cup {0}
      /\ Damaged \in Lines(segment') => segment'[0][Len(segment'[0])] = Damaged
      /\ \A e \in Lines(segment') : e \in Lines(segment) \/ e = line \/ e = Damaged
  BY DEF Appended
<1>3. written' \in Nat /\ crashes' \in Nat /\ written <= written' /\ written' <= MaxWrites
  BY <1>1, JournalConstants, SMTT(30)
<1>4. ASSUME NEW e \in Lines(segment')
      PROVE  e = Damaged \/ (e.sequence \in Nat /\ e.id \in Nat /\ e.id <= written' /\ e.prev \in Nat)
  <2>1. CASE e \in Lines(segment)
    <3>1. e = Damaged \/ (e.sequence \in Nat /\ e.id \in Nat /\ e.id <= written /\ e.prev \in Nat)
      BY <2>1 DEF JournalInv, JournalTypeOK
    <3> QED BY <1>1, <1>3, <3>1, SMTT(30)
  <2>2. CASE e = NextEvent /\ line = NextEvent
    <3>1. /\ NextEvent.sequence \in Nat /\ NextEvent.id = written + 1 /\ NextEvent.prev \in Nat
      BY AppenderFacts
    <3> QED BY <1>1, <2>2, <3>1, SMTT(30)
  <2> QED BY <1>2, <2>1, <2>2, SMTT(30)
<1>5. JournalTypeOK'
  BY <1>1, <1>2, <1>3, <1>4 DEF JournalTypeOK, Writing
<1>6. writer'.at \in {"idle", "record"}
  BY SMTT(30)
<1>7. DamageIsLast' /\ RotationIsSound'
  BY <1>2, <1>6 DEF DamageIsLast, RotationIsSound, Clean
<1>8. IndicesSuffice'
  <2>0. written' + crashes' \in Nat /\ \A i \in Nat : i <= written + crashes + 1 => i <= written' + crashes'
    <3>1. \A w, c, v, d \in Nat : v + d > w + c =>
             v + d \in Nat /\ \A i \in Nat : i <= w + c + 1 => i <= v + d
      BY SMTT(30)
    <3> QED BY <1>1, <1>3, <3>1
  <2>1. ASSUME NEW i \in SegmentPaths(segment') PROVE i <= written' + crashes'
    <3>1. CASE i = 0
      <4>1. \A n \in Nat : 0 <= n
        BY SMTT(30)
      <4> QED BY <2>0, <3>1, <4>1, SMTT(30)
    <3>2. CASE i \in SegmentPaths(segment)
      <4>1. i <= written + crashes + 1
        BY <3>2, SMTT(30) DEF JournalInv, IndicesSuffice, Writing
      <4>2. i \in Nat
        BY <3>2, SegmentLines DEF JournalInv, JournalTypeOK
      <4> QED BY <2>0, <4>1, <4>2, SMTT(30)
    <3> QED BY <1>2, <3>1, <3>2, SMTT(30)
  <2>2. writer'.at \notin Writing
    BY <1>6, SMTT(30) DEF Writing
  <2>3. \A i \in SegmentPaths(segment') : i \in Nat
    BY <1>2, SegmentLines, SMTT(30)
  <2> QED BY <1>3, <2>1, <2>2, <2>3, SMTT(30) DEF IndicesSuffice
<1> QED BY <1>5, <1>7, <1>8, SMTT(30)

\* An append that was begun, and damage: every acknowledged event keeps its line.
LEMMA AppendKeepsAcked ==
  ASSUME JournalInv, writer.at = "append", NEW line, Appended(line, segment'),
         line = NextEvent => written' = written + 1, line \in {NextEvent, Damaged},
         written' \in {written, written + 1}, unterminated' \in BOOLEAN,
         stateFile' = stateFile, acked' = acked,
         writer'.at = "record" =>
             /\ writer'.state = Extended(writer.state, NextEvent)
             /\ line = NextEvent /\ ~unterminated'
  PROVE  LossIsLast'
<1>1. /\ Clean /\ written \in Nat /\ acked \in SUBSET Nat /\ \A a \in acked : a <= written
      /\ unterminated => segment[0][Len(segment[0])].id \notin acked
      /\ NextEvent.id = written + 1
  BY AppenderFacts DEF JournalInv, JournalTypeOK, LossIsLast
<1>2. /\ \A a \in acked : a <= written'
      /\ writer'.at = "record" => Extended(writer.state, NextEvent).lastHash = written'
  <2>1. \A a \in acked : a <= written'
    BY <1>1, SMTT(30)
  <2>2. Extended(writer.state, NextEvent).lastHash = NextEvent.id
    BY DEF Extended
  <2> QED BY <1>1, <2>1, <2>2
<1>3. Clean' => segment'[0][Len(segment'[0])].id \notin acked
  <2>1. Clean' => segment'[0][Len(segment'[0])] = NextEvent
    BY DEF Appended, Clean
  <2>2. written + 1 \notin acked
    BY <1>1, SMTT(30)
  <2> QED BY <1>1, <2>1, <2>2
<1>4. ASSUME ~Clean', stateFile # Missing
      PROVE  /\ LeftInLines(Lines(segment), stateFile)'
             /\ Extended(writer.state, NextEvent).first = stateFile.first
  <2>1. /\ stateFile \in KnownStates /\ AckedKept(Lines(segment), stateFile)
        /\ Extended(writer.state, NextEvent) = EndingAt(stateFile, NextEvent)
    BY <1>4, AppenderFacts
  <2>2. /\ Lines(segment') \subseteq Lines(segment) \cup {Damaged}
        /\ \A e \in Lines(segment) :
              e \in Lines(segment') \/ (unterminated /\ e = segment[0][Len(segment[0])])
    BY <1>4 DEF Appended, Clean
  <2>3. ASSUME NEW a \in acked
        PROVE  \/ \E e \in Lines(segment') \ {Damaged} : e.id = a
               \/ \A e \in Lines(segment') \ {Damaged} : e.sequence >= stateFile.first => a < e.id
    <3>1. CASE \E e \in Lines(segment) : e.id = a
      <4>1. PICK e \in Lines(segment) : e.id = a
        BY <3>1
      <4>2. e \in Lines(segment') /\ e # Damaged
        BY <1>1, <2>2, <4>1 DEF Clean
      <4> QED BY <4>1, <4>2
    <3>2. CASE \A e \in Lines(segment) : e.sequence >= stateFile.first => a < e.id
      BY <2>2, <3>2
    <3> QED BY <2>1, <3>1, <3>2 DEF AckedKept
  <2>4. Extended(writer.state, NextEvent).first = stateFile.first
    BY <2>1 DEF EndingAt, KnownStates
  <2> QED BY <2>3, <2>4 DEF LeftInLines
<1> QED BY <1>2, <1>3, <1>4 DEF LossIsLast

\* The append of write().
LEMMA AppendEventKeepsInv ==
  ASSUME JournalInv, AppendEvent
  PROVE  JournalInv'
<1>1. /\ writer.at = "append" /\ AppendLine(NextEvent) /\ unterminated' = FALSE
      /\ writer' = [at |-> "record", todo |-> {}, state |-> Extended(writer.state, NextEvent)]
      /\ written' = written + 1 /\ stateFile' = stateFile /\ acked' = acked /\ crashes' = crashes
  BY DEF AppendEvent, Extended
<1>2. Appended(NextEvent, segment')
  BY <1>1, AppenderFacts, AppendMakes DEF JournalInv, JournalTypeOK
<1>3. /\ writer'.at = "record" /\ writer'.state = Extended(writer.state, NextEvent)
      /\ writer'.state \in KnownStates
      /\ writer' \in [at : {"idle", "record"}, state : KnownStates \cup {EmptyState},
                      todo : SUBSET Indices]
  <2>1. Extended(writer.state, NextEvent) \in KnownStates
    BY <1>1, AppenderFacts
  <2> QED BY <1>1, <2>1
<1>4. /\ written \in Nat /\ crashes \in Nat /\ crashes <= MaxCrashes
  BY SMTT(30) DEF JournalInv, JournalTypeOK, IndicesSuffice
<1>5. JournalTypeOK' /\ DamageIsLast' /\ IndicesSuffice' /\ RotationIsSound'
  <2>1. written' + crashes' > written + crashes /\ crashes' <= MaxCrashes
    BY <1>1, <1>4, SMTT(30)
  <2> QED BY <1>1, <1>2, <1>3, <2>1, AppendKeepsShape
<1>6. Clean' =>
        /\ stateFile # Missing =>
              /\ SoundAt(segment', stateFile) /\ Anchored(segment', stateFile)
              /\ AckedKept(Lines(segment'), stateFile)
              /\ writer'.state.first = stateFile.first /\ writer'.state.firstPrev = stateFile.firstPrev
              /\ HasEnds(Lines(segment'), writer'.state)
        /\ stateFile = Missing => SoundAt(segment', writer'.state) /\ Anchored(segment', writer'.state)
  BY <1>1, <1>2, <1>3, AppendedIsSound DEF Clean
<1>7. FirstWrite'
  <2>1. stateFile = Missing => acked = {}
    BY SMTT(30) DEF JournalInv, FirstWrite
  <2> QED BY <1>1, <1>3, <1>6, <2>1 DEF FirstWrite
<1>8. ChainIsSound'
  BY <1>1, <1>6, SMTT(30) DEF ChainIsSound, AckedKept
<1>9. WriterIsSound'
  BY <1>1, <1>3, <1>6 DEF WriterIsSound, Writing
<1>10. LossIsLast'
  BY <1>1, <1>2, <1>3, AppendKeepsAcked
<1> QED BY <1>5, <1>7, <1>8, <1>9, <1>10, SMTT(30) DEF JournalInv

\* The save of the state after the append.
LEMMA RecordEventKeepsInv ==
  ASSUME JournalInv, RecordEvent
  PROVE  JournalInv'
<1>1. /\ writer.at = "record" /\ stateFile' = writer.state
      /\ acked' = acked \cup {writer.state.lastHash} /\ writer' = Idle
      /\ segment' = segment /\ unterminated' = unterminated /\ written' = written
      /\ crashes' = crashes
  BY SMTT(30) DEF RecordEvent
<1>2. /\ writer.state \in KnownStates /\ writer.state # Missing /\ writer.state.lastHash \in Nat
      /\ writer.state.first \in Nat /\ writer.state.last \in Nat
  BY <1>1, JournalConstants, SMTT(30) DEF JournalInv, JournalTypeOK, KnownStates, JournalStates
<1>3. /\ writer'.at = "idle"
      /\ writer' \in [at : {"idle"}, state : {EmptyState}, todo : SUBSET Indices]
      /\ Clean' = Clean
  BY <1>1, SMTT(30) DEF Idle, Clean
<1>4. JournalTypeOK'
  BY <1>1, <1>2, <1>3 DEF JournalInv, JournalTypeOK
<1>5. DamageIsLast' /\ FirstWrite' /\ RotationIsSound' /\ WriterIsSound'
  BY <1>1, <1>2, <1>3 DEF JournalInv, DamageIsLast, FirstWrite, RotationIsSound, WriterIsSound,
                          Writing, Clean
<1>6. IndicesSuffice'
  BY <1>1, <1>3, SMTT(30) DEF JournalInv, IndicesSuffice, Writing
<1>7. ASSUME Clean
      PROVE  /\ SoundAt(segment, writer.state) /\ Anchored(segment, writer.state)
             /\ \A a \in acked :
                   \/ \E e \in Lines(segment) : e.id = a /\ e.sequence >= writer.state.first
                   \/ \A e \in Lines(segment) : e.sequence >= writer.state.first => a < e.id
  <2>1. CASE stateFile = Missing
    BY <1>1, <1>7, <2>1 DEF JournalInv, FirstWrite
  <2>2. CASE stateFile # Missing
    <3>1. /\ SoundAt(segment, stateFile) /\ Anchored(segment, stateFile)
          /\ AckedKept(Lines(segment), stateFile)
          /\ writer.state.first = stateFile.first /\ writer.state.firstPrev = stateFile.firstPrev
          /\ HasEnds(Lines(segment), writer.state)
      BY <1>1, <1>7, <2>2 DEF JournalInv, ChainIsSound, WriterIsSound
    <3>2. SoundAt(segment, writer.state)
      BY <3>1 DEF SoundAt, Chained
    <3> QED BY <3>1, <3>2 DEF Anchored, AckedKept
  <2> QED BY <2>1, <2>2
<1>8. ChainIsSound'
  <2> SUFFICES ASSUME Clean
               PROVE  /\ SoundAt(segment, writer.state) /\ Anchored(segment, writer.state)
                      /\ AckedKept(Lines(segment), stateFile)'
    BY <1>1, <1>3, SMTT(30) DEF ChainIsSound
  <2>1. \E e \in Lines(segment) : e.id = writer.state.lastHash /\ e.sequence >= writer.state.first
    BY <1>2, <1>7 DEF SoundAt, HasEnds
  <2> QED BY <1>1, <1>7, <2>1 DEF AckedKept
<1>9. LossIsLast'
  <2>1. /\ writer.state.lastHash = written /\ written \in Nat /\ \A a \in acked : a <= written
        /\ stateFile = Missing => acked = {}
        /\ ~unterminated
    BY <1>1 DEF JournalInv, JournalTypeOK, LossIsLast, FirstWrite
  <2>2. \A a \in acked' : a <= written
    BY <1>1, <2>1, SMTT(30)
  <2>4. ASSUME ~Clean PROVE LeftInLines(Lines(segment), stateFile)'
    <3>1. CASE stateFile = Missing
      BY <1>1, <2>1, <3>1 DEF LeftInLines
    <3>2. CASE stateFile # Missing
      <4>1. LeftInLines(Lines(segment), stateFile) /\ writer.state.first = stateFile.first
        BY <1>1, <2>4, <3>2 DEF JournalInv, LossIsLast
      <4> QED BY <1>1, <2>1, <4>1 DEF LeftInLines
    <3> QED BY <3>1, <3>2
  <2> QED BY <1>1, <1>3, <2>1, <2>2, <2>4 DEF LossIsLast
<1> QED BY <1>4, <1>5, <1>6, <1>8, <1>9, SMTT(30) DEF JournalInv

\* A crash right after the live file was created.
LEMMA CreatedIsSound ==
  ASSUME JournalInv, writer.at = "append", segment[0] = Missing, NEW g,
         g = [segment EXCEPT ![0] = <<>>]
  PROVE  /\ g \in Files /\ Lines(g) = Lines(segment)
         /\ SegmentPaths(g) = SegmentPaths(segment) \cup {0}
         /\ stateFile # Missing =>
               SoundAt(g, stateFile) /\ Anchored(g, stateFile) /\ AckedKept(Lines(g), stateFile)
<1>1. segment \in Files
  BY SMTT(30) DEF JournalInv, JournalTypeOK
<1>2. <<>> \in Seq(JournalLines) /\ DOMAIN <<>> = {} /\ Range(<<>>) = {}
  BY SMTT(30) DEF Range
<1>3. ChangedLive(segment, <<>>, g)
  BY <1>1, <1>2, LiveChange
<1>4. 0 \notin SegmentPaths(segment)
  BY SMTT(30) DEF SegmentPaths
<1>5. Lines(g) = Lines(segment)
  BY <1>2, <1>3, <1>4 DEF ChangedLive
<1>6. \A j \in SegmentPaths(g) : \A k \in DOMAIN g[j] :
         j \in SegmentPaths(segment) /\ k \in DOMAIN segment[j] /\ g[j][k] = segment[j][k]
  BY <1>2, <1>3, SMTT(30) DEF ChangedLive
<1>7. ASSUME stateFile # Missing
      PROVE  SoundAt(g, stateFile) /\ Anchored(g, stateFile) /\ AckedKept(Lines(g), stateFile)
  <2>1. /\ SoundAt(segment, stateFile) /\ Anchored(segment, stateFile)
        /\ AckedKept(Lines(segment), stateFile)
    BY <1>7, AppenderFacts
  <2>2. InOrder(g)
    BY <1>6, <2>1, SMTT(30) DEF SoundAt, InOrder
  <2>3. Anchored(g, stateFile)
    BY <1>6, <2>1 DEF Anchored
  <2> QED BY <1>5, <2>1, <2>2, <2>3, SMTT(30) DEF SoundAt
<1> QED BY <1>3, <1>5, <1>7 DEF ChangedLive

\* A crash inside the append.
LEMMA CrashInAppendKeepsInv ==
  ASSUME JournalInv, CrashInAppend
  PROVE  JournalInv'
<1>1. /\ writer.at = "append" /\ crashes < MaxCrashes /\ crashes' = crashes + 1
      /\ writer' = Idle /\ stateFile' = stateFile /\ acked' = acked
  BY SMTT(30) DEF CrashInAppend
<1>2. /\ written \in Nat /\ crashes \in Nat /\ crashes' <= MaxCrashes /\ crashes' \in Nat
      /\ segment \in Files /\ Clean
      /\ unterminated => segment[0] # Missing /\ segment[0] # <<>>
      /\ Damaged \in JournalLines /\ NextEvent \in JournalLines
  BY <1>1, AppenderFacts, JournalConstants, SMTT(30)
     DEF JournalInv, JournalTypeOK, Damaged, AuditEvent, JournalLines
<1>3. /\ writer'.at = "idle"
      /\ writer' \in [at : {"idle", "record"}, state : KnownStates \cup {EmptyState},
                      todo : SUBSET Indices]
  BY <1>1 DEF Idle
<1>4. FirstWrite'
  <2>1. stateFile = Missing => acked = {}
    BY SMTT(30) DEF JournalInv, FirstWrite
  <2> QED BY <1>1, <1>3, <2>1, SMTT(30) DEF FirstWrite
<1>5. WriterIsSound'
  BY <1>3, SMTT(30) DEF WriterIsSound, Writing
<1>6. CASE segment[0] = Missing /\ segment' = [segment EXCEPT ![0] = <<>>]
           /\ UNCHANGED <<unterminated, written>>
  <2>1. /\ segment' \in Files /\ Lines(segment') = Lines(segment)
        /\ SegmentPaths(segment') = SegmentPaths(segment) \cup {0}
        /\ stateFile # Missing =>
              /\ SoundAt(segment', stateFile) /\ Anchored(segment', stateFile)
              /\ AckedKept(Lines(segment'), stateFile)
    BY <1>1, <1>6, CreatedIsSound
  <2>2. unterminated' = unterminated /\ unterminated = FALSE /\ written' = written
    BY <1>2, <1>6, SMTT(30) DEF JournalInv, JournalTypeOK
  <2>3. Clean'
    BY <1>2, <2>1, SMTT(30) DEF Clean
  <2>4. JournalTypeOK'
    BY <1>1, <1>2, <1>3, <2>1, <2>2 DEF JournalInv, JournalTypeOK, Writing
  <2>5. DamageIsLast' /\ RotationIsSound'
    BY <1>3, <2>3, SMTT(30) DEF DamageIsLast, RotationIsSound
  <2>6. IndicesSuffice'
    <3>1. ASSUME NEW i \in SegmentPaths(segment') PROVE i <= written' + crashes'
      <4>1. written + crashes + 1 \in Nat /\ written' + crashes' = written + crashes + 1
        BY <1>1, <1>2, <2>2, SMTT(30)
      <4>2. CASE i = 0
        <5>1. \A n \in Nat : 0 <= n
          BY SMTT(30)
        <5> QED BY <4>1, <4>2, <5>1, SMTT(30)
      <4>3. CASE i \in SegmentPaths(segment)
        BY <1>1, <4>1, <4>3, SMTT(30) DEF JournalInv, IndicesSuffice, Writing
      <4> QED BY <2>1, <4>2, <4>3, SMTT(30)
    <3>2. writer'.at \notin Writing /\ written' <= MaxWrites
      BY <1>1, <1>3, <2>2, SMTT(30) DEF JournalInv, IndicesSuffice, Writing
    <3>3. written' + crashes' + 0 = written' + crashes'
      BY <1>2, <2>2, SMTT(30)
    <3> QED BY <1>2, <3>1, <3>2, <3>3, SMTT(30) DEF IndicesSuffice
  <2>7. ChainIsSound'
    BY <1>1, <2>1, SMTT(30) DEF ChainIsSound, AckedKept
  <2>8. LossIsLast'
    BY <1>1, <1>2, <1>3, <2>2, <2>3, WholeKeepsLoss
  <2> QED BY <1>4, <1>5, <2>4, <2>5, <2>6, <2>7, <2>8, SMTT(30) DEF JournalInv
<1>7. CASE AppendLine(Damaged) /\ unterminated' = TRUE /\ written' = written
  <2>1. Appended(Damaged, segment')
    BY <1>2, <1>7, AppendMakes, SMTT(30)
  <2>2. JournalTypeOK' /\ DamageIsLast' /\ IndicesSuffice' /\ RotationIsSound'
    <3>1. written' + crashes' > written + crashes /\ Damaged # NextEvent
      BY <1>1, <1>2, <1>7, AppenderFacts, SMTT(30)
    <3> QED BY <1>1, <1>2, <1>3, <1>7, <2>1, <3>1, AppendKeepsShape
  <2>3. ~Clean'
    BY <2>1 DEF Appended, Clean
  <2>4. LossIsLast'
    <3>1. Damaged # NextEvent
      BY <1>1, AppenderFacts
    <3> QED BY <1>1, <1>3, <1>7, <2>1, <3>1, AppendKeepsAcked
  <2> QED BY <1>4, <1>5, <2>2, <2>3, <2>4, SMTT(30) DEF JournalInv, ChainIsSound
<1>8. CASE AppendLine(NextEvent) /\ unterminated' = TRUE /\ written' = written + 1
  <2>1. Appended(NextEvent, segment')
    BY <1>2, <1>8, AppendMakes
  <2>2. JournalTypeOK' /\ DamageIsLast' /\ IndicesSuffice' /\ RotationIsSound'
    <3>1. written' + crashes' > written + crashes
      BY <1>1, <1>2, <1>8, SMTT(30)
    <3> QED BY <1>1, <1>2, <1>3, <1>8, <2>1, <3>1, AppendKeepsShape
  <2>3. Clean' /\ stateFile # Missing =>
           /\ SoundAt(segment', stateFile) /\ Anchored(segment', stateFile)
           /\ AckedKept(Lines(segment'), stateFile)
    BY <1>1, <2>1, AppendedIsSound, SMTT(30) DEF Clean
  <2>4. ChainIsSound'
    BY <1>1, <2>3, SMTT(30) DEF ChainIsSound, AckedKept
  <2>5. LossIsLast'
    BY <1>1, <1>3, <1>8, <2>1, AppendKeepsAcked
  <2> QED BY <1>4, <1>5, <2>2, <2>4, <2>5, SMTT(30) DEF JournalInv
<1> QED BY <1>6, <1>7, <1>8 DEF CrashInAppend

-----------------------------------------------------------------------------

\* An empty directory satisfies the invariant.
LEMMA JournalInitInv ==
  ASSUME JournalInit
  PROVE  JournalInv
<1>1. SegmentPaths(segment) = {}
  BY SMTT(30) DEF JournalInit, SegmentPaths
<1>2. Lines(segment) = {}
  BY <1>1, SMTT(30) DEF Lines
<1>3. Clean
  BY <1>2, SMTT(30) DEF Clean
<1>4. segment \in Files
  BY SMTT(30) DEF JournalInit, Files
<1>5. writer.at = "idle" /\ writer \in [at : {"idle"}, state : {EmptyState}, todo : SUBSET Indices]
  BY SMTT(30) DEF JournalInit, Idle
<1>6. JournalTypeOK
  BY <1>2, <1>4, <1>5 DEF JournalInit, JournalTypeOK
<1>7. DamageIsLast /\ RotationIsSound
  BY <1>3, <1>5, SMTT(30) DEF DamageIsLast, RotationIsSound
<1>8. IndicesSuffice
  BY <1>1, <1>5, JournalConstants, SMTT(30) DEF JournalInit, IndicesSuffice, Writing
<1>9. FirstWrite /\ ChainIsSound /\ WriterIsSound
  BY <1>5 DEF JournalInit, FirstWrite, ChainIsSound, WriterIsSound
<1>10. LossIsLast
  BY <1>3, <1>5 DEF JournalInit, LossIsLast
<1> QED BY <1>6, <1>7, <1>8, <1>9, <1>10, SMTT(30) DEF JournalInv

\* Every step of the journal preserves the invariant.
LEMMA JournalStep ==
  ASSUME NatWellOrdered, JournalInv, [JournalNext]_journalVars
  PROVE  JournalInv'
<1>1. CASE JournalNext
  BY <1>1, BeginWriteKeepsInv, RotateKeepsInv, SaveAnchorKeepsInv, PruneKeepsInv,
     AppendEventKeepsInv, RecordEventKeepsInv, ReadJournalKeepsInv, CrashKeepsInv,
     CrashInAppendKeepsInv, SMTT(30) DEF JournalNext
<1>2. CASE UNCHANGED journalVars
  <2>1. /\ segment' = segment /\ unterminated' = unterminated /\ stateFile' = stateFile
        /\ writer' = writer /\ written' = written /\ acked' = acked /\ crashes' = crashes
    BY <1>2, SMTT(30) DEF journalVars
  <2>2. Clean' = Clean
    BY <2>1, SMTT(30) DEF Clean
  <2>3. JournalTypeOK'
    BY <2>1, SMTT(30) DEF JournalInv, JournalTypeOK
  <2>4. DamageIsLast' /\ IndicesSuffice'
    BY <2>1, <2>2, SMTT(30) DEF JournalInv, DamageIsLast, IndicesSuffice
  <2>5. RotationIsSound'
    BY <2>1, <2>2, SMTT(30) DEF JournalInv, RotationIsSound
  <2>6. FirstWrite' /\ ChainIsSound'
    BY <2>1, <2>2, SMTT(30) DEF JournalInv, FirstWrite, ChainIsSound, AckedKept
  <2>7. WriterIsSound'
    BY <2>1, <2>2, SMTT(30) DEF JournalInv, WriterIsSound, AckedKept
  <2>8. LossIsLast'
    BY <2>1, <2>2, SMTT(30) DEF JournalInv, LossIsLast, LeftInLines
  <2> QED BY <2>3, <2>4, <2>5, <2>6, <2>7, <2>8, SMTT(30) DEF JournalInv
<1> QED BY <1>1, <1>2, SMTT(30)

\* A state of the invariant with whole lines and a state file loads.
LEMMA InvIsRecoverable ==
  ASSUME NatWellOrdered, JournalInv
  PROVE  CrashRecoverable
BY LoadFacts, SMTT(30) DEF CrashRecoverable, Readable, DamagedLog, Clean

\* In a state of the invariant, a whole log that loads misses nothing acknowledged
\* but what pruning retired.
LEMMA WholeIsReadable ==
  ASSUME JournalInv, Readable
  PROVE  /\ acked \cap UNION {{e.id : e \in Range(segment[i])} :
                          i \in {j \in SegmentPaths(segment) : j <= BackupCount}}
                 \subseteq {e.id : e \in Verified}
         /\ \A lost \in acked \ {e.id : e \in Verified} :
               Verified # {} /\ \A e \in Verified : lost < e.id
<1>1. /\ segment \in Files /\ SoundAt(segment, stateFile) /\ Anchored(segment, stateFile)
      /\ AckedKept(Lines(segment), stateFile) /\ stateFile \in KnownStates
  BY SMTT(30) DEF Readable, DamagedLog, Clean, JournalInv, JournalTypeOK, ChainIsSound
<1>2. Verified = {e \in Lines(segment) : e.sequence >= stateFile.first}
  BY <1>1, ReadTakesTheRest, SMTT(30) DEF Verified, SoundAt
<1>3. Verified # {}
  <2>1. PICK e \in Lines(segment) : e.sequence = stateFile.first
    BY <1>1, SMTT(30) DEF SoundAt, HasEnds
  <2>2. stateFile.first \in Nat
    BY <1>1, SMTT(30) DEF KnownStates
  <2> QED BY <1>2, <2>1, <2>2, SMTT(30)
<1> HIDE DEF Verified
<1>4. ASSUME NEW i \in SegmentPaths(segment), i <= BackupCount, NEW e \in Range(segment[i])
      PROVE  e \in Verified
  <2>1. PICK k \in DOMAIN segment[i] : e = segment[i][k]
    BY <1>4, SMTT(30) DEF Range
  <2>2. e \in Lines(segment)
    BY <1>1, <2>1, SegmentLines, SMTT(30)
  <2>3. e.sequence >= stateFile.first
    BY <1>1, <1>4, <2>1, SMTT(30) DEF Anchored
  <2> QED BY <1>2, <2>2, <2>3, SMTT(30)
<1>5. ASSUME NEW lost \in acked, lost \notin {e.id : e \in Verified}
      PROVE  \A e \in Verified : lost < e.id
  BY <1>1, <1>2, <1>5, SMTT(30) DEF AckedKept
<1> QED BY <1>3, <1>4, <1>5, SMTT(30)

\* What the invariant says of the acknowledged events, of a whole and of a damaged log.
LEMMA InvIsReadable ==
  ASSUME JournalInv
  PROVE  AckedReadable
<1>1. CASE Readable
  BY <1>1, WholeIsReadable DEF AckedReadable, Readable
<1>2. CASE stateFile # Missing /\ DamagedLog
  <2>1. LeftInLines(Lines(segment), stateFile)
    BY <1>2 DEF JournalInv, LossIsLast, Clean, DamagedLog
  <2> QED BY <1>2, <2>1 DEF AckedReadable, LeftInLines
<1> QED BY <1>1, <1>2 DEF AckedReadable, Readable

INSTANCE WellFoundedInduction

\* Every nonempty set of naturals has a least element.
LEMMA NaturalsAreWellOrdered == NatWellOrdered
<1> DEFINE less == {ss \in Nat \X Nat : ss[1] < ss[2]}
<1>1. IsWellFoundedOn(less, Nat)
  BY NatLessThanWellFounded DEF OpToRel
<1> HIDE DEF less
<1> SUFFICES ASSUME NEW S \in SUBSET Nat, S # {} PROVE \E m \in S : \A i \in S : m <= i
  BY SMTT(30) DEF NatWellOrdered
<1>2. PICK m \in S : \A i \in S : ~(<<i, m>> \in less)
  BY <1>1, WFMin
<1>3. ASSUME NEW i \in S PROVE m <= i
  <2>1. m \in Nat /\ i \in Nat /\ ~(i < m)
    BY <1>2 DEF less
  <2> QED BY <2>1, SMTT(30)
<1> QED BY <1>3, SMTT(30)

\* The journal's invariant holds after any number of writes, rotations, reads and
\* crashes of JSONLAuditSink.
THEOREM JournalInvHolds == JournalSpec => []JournalInv
<1>1. JournalInv /\ [JournalNext]_journalVars => JournalInv'
  BY JournalStep, NaturalsAreWellOrdered, SMTT(30)
<1> QED BY <1>1, JournalInitInv, PTL DEF JournalSpec

\* Wherever write() stops, the next write() and the next read_verified() accept
\* the files they find, as long as every line is whole and the state file exists.
THEOREM JournalAlwaysRecoverable == JournalSpec => []CrashRecoverable
<1>1. JournalInv => CrashRecoverable
  BY InvIsRecoverable, NaturalsAreWellOrdered, SMTT(30)
<1> QED BY <1>1, JournalInvHolds, PTL

\* An event whose write() returned stays in what read_verified() returns until
\* rotation retired its segment, and what is lost is older than all that is read -
\* as long as no crash inside an append left part of a line.  When one did, the log
\* may become unreadable, but every event acknowledged before stays in a line of its
\* own: only the last write, joined to a line without newline, is destroyed.
THEOREM AckedAlwaysReadable == JournalSpec => []AckedReadable
<1>1. JournalInv => AckedReadable
  BY InvIsReadable, SMTT(30)
<1> QED BY <1>1, JournalInvHolds, PTL

=============================================================================
