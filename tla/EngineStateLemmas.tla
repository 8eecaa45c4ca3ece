-------------------------- MODULE EngineStateLemmas --------------------------
(***************************************************************************)
(* What each operator of EngineState returns: a provider state, and which  *)
(* of the parts that the invariants of an engine relate it leaves alone.   *)
(* The proofs about an engine cite these lemmas instead of the operators.  *)
(***************************************************************************)
EXTENDS EngineState, TLAPS

\* The selection after records are installed is a tournament or none.
LEMMA SelectionType ==
  ASSUME NEW ids \in SUBSET Tournament, NEW current \in Tournament \cup {NoTournament}
  PROVE  Selection(ids, current) \in Tournament \cup {NoTournament}
BY DEF Selection

\* Installing records touches the records and the selection only.
LEMMA SetTournamentRecordsState ==
  ASSUME NEW s \in State, NEW r \in Records
  PROVE  LET u == SetTournamentRecords(s, r)
         IN /\ u \in State
            /\ u.records = r
            /\ u.notices = s.notices
            /\ u.capturedClock = s.capturedClock
<1>1. r.loaded \in SUBSET Tournament /\ s.selected \in Tournament \cup {NoTournament}
  BY DEF State, Records
<1>2. Selection(r.loaded, s.selected) \in Tournament \cup {NoTournament}
  BY <1>1, SelectionType
<1> QED BY <1>2 DEF SetTournamentRecords, State

\* Selecting a tournament touches the selection only.
LEMMA SetTournamentIdState ==
  ASSUME NEW s \in State, NEW t \in Tournament \cup {NoTournament}
  PROVE  LET u == SetTournamentId(s, t)
         IN /\ u \in State
            /\ u.records = s.records
            /\ u.notices = s.notices
            /\ u.capturedClock = s.capturedClock
BY DEF SetTournamentId, State

\* Records a client hands over hold no write of the behaviour.
LEMMA UnwrittenRecords ==
  ASSUME NEW ids \in SUBSET Tournament
  PROVE  /\ Unwritten(ids) \in Records
         /\ \A t \in Tournament : Unwritten(ids).written[t] = {}
<1>1. 0 \in Instant
  BY BoundAssumption DEF Instant
<1> QED BY <1>1 DEF Unwritten, NoRecords, Records

\* setState leaves no write in any record.
LEMMA SetStateState ==
  ASSUME NEW s \in State, NEW ids \in SUBSET Tournament
  PROVE  LET u == SetState(s, ids)
         IN /\ u \in State
            /\ \A t \in Tournament : u.records.written[t] = {}
            /\ u.notices = s.notices
            /\ u.capturedClock = s.capturedClock
<1> DEFINE cleared == SetTournamentId(s, NoTournament)
<1>1. /\ cleared \in State
      /\ cleared.notices = s.notices
      /\ cleared.capturedClock = s.capturedClock
  BY SetTournamentIdState
<1>2. Unwritten(ids) \in Records /\ \A t \in Tournament : Unwritten(ids).written[t] = {}
  BY UnwrittenRecords
<1> HIDE DEF cleared
<1>3. LET u == SetTournamentRecords(cleared, Unwritten(ids))
      IN /\ u \in State
         /\ u.records = Unwritten(ids)
         /\ u.notices = cleared.notices
         /\ u.capturedClock = cleared.capturedClock
  BY <1>1, <1>2, SetTournamentRecordsState
<1> QED BY <1>1, <1>2, <1>3 DEF SetState, cleared

\* Removing a record adds no write to any other.
LEMMA RemoveTournamentRecordState ==
  ASSUME NEW s \in State, NEW t \in Tournament
  PROVE  LET u == RemoveTournamentRecord(s, t)
         IN /\ u \in State
            /\ \A v \in Tournament : u.records.written[v] \subseteq s.records.written[v]
            /\ u.notices = s.notices
            /\ u.capturedClock = s.capturedClock
<1> DEFINE left == s.records.loaded \ {t}
           records == [loaded |-> left,
                       written |-> [s.records.written EXCEPT ![t] = {}],
                       stamp |-> [s.records.stamp EXCEPT ![t] = 0]]
<1>1. s.records \in Records
  BY DEF State
<1>2. left \in SUBSET Tournament /\ s.selected \in Tournament \cup {NoTournament}
  BY <1>1 DEF State, Records
<1>3. Selection(left, s.selected) \in Tournament \cup {NoTournament}
  BY <1>2, SelectionType
<1>4. 0 \in Instant
  BY BoundAssumption DEF Instant
<1>5. records \in Records
  BY <1>1, <1>2, <1>4 DEF Records
<1>6. \A v \in Tournament : records.written[v] \subseteq s.records.written[v]
  BY <1>1 DEF Records
<1>7. RemoveTournamentRecord(s, t)
        = [s EXCEPT !.records = records, !.selected = Selection(left, s.selected)]
  BY DEF RemoveTournamentRecord
<1> HIDE DEF left, records
<1> QED BY <1>3, <1>5, <1>6, <1>7 DEF State

\* A write reaches one record and leaves everything else of the state alone.
LEMMA WriteRecordState ==
  ASSUME NEW s \in State, NEW t \in Tournament, NEW w \in Write
  PROVE  LET u == WriteRecord(s, t, w)
         IN /\ u \in State
            /\ \A v \in Tournament :
                 u.records.written[v] \subseteq s.records.written[v] \cup {w}
            /\ u.notices = s.notices
            /\ u.capturedClock = s.capturedClock
<1> DEFINE written == [s.records.written EXCEPT ![t] = @ \cup {w}]
           records == [s.records EXCEPT !.written = written]
<1>1. s.records \in Records
  BY DEF State
<1>2. written \in [Tournament -> SUBSET Write]
  BY <1>1 DEF Records
<1>3. \A v \in Tournament : written[v] \subseteq s.records.written[v] \cup {w}
  BY <1>1 DEF Records
<1>4. WriteRecord(s, t, w) = [s EXCEPT !.records = records]
  BY DEF WriteRecord
<1>5. records \in Records /\ records.written = written
  <2> HIDE DEF written
  <2> QED BY <1>1, <1>2 DEF Records
<1> HIDE DEF written, records
<1> QED BY <1>3, <1>4, <1>5 DEF State

\* Marking a record modified leaves records and notices alone.
LEMMA MarkModifiedState ==
  ASSUME NEW s \in State, NEW id \in Tournament \cup {Unnamed}
  PROVE  LET u == MarkModified(s, id)
         IN /\ u \in State
            /\ u.records = s.records
            /\ u.notices = s.notices
            /\ u.capturedClock = s.capturedClock
BY DEF MarkModified, State

\* A notice is added to the buffer, in the place of those it supersedes.
LEMMA AddNoticeState ==
  ASSUME NEW s \in State, NEW n \in Notice, NEW id \in Tournament \cup {Unnamed}
  PROVE  LET u == AddNotice(s, n, id)
         IN /\ u \in State
            /\ u.records = s.records
            /\ u.notices \subseteq s.notices \cup {n}
            /\ u.capturedClock = s.capturedClock
<1>1. /\ MarkModified(s, id) \in State
      /\ MarkModified(s, id).records = s.records
      /\ MarkModified(s, id).notices = s.notices
      /\ MarkModified(s, id).capturedClock = s.capturedClock
  BY MarkModifiedState
<1> QED BY <1>1 DEF AddNotice, State

\* Emptying the buffer leaves the rest alone.
LEMMA DeleteNoticesState ==
  ASSUME NEW s \in State
  PROVE  LET u == DeleteNotices(s)
         IN /\ u \in State
            /\ u.records = s.records
            /\ u.notices = {}
            /\ u.capturedClock = s.capturedClock
BY DEF DeleteNotices, State

\* Clearing the mutation flag leaves records and notices alone.
LEMMA ClearMutationStatusState ==
  ASSUME NEW s \in State
  PROVE  LET u == ClearMutationStatus(s)
         IN /\ u \in State
            /\ u.records = s.records
            /\ u.notices = s.notices
            /\ u.capturedClock = s.capturedClock
BY DEF ClearMutationStatus, State

\* Stamping changes stamps, and neither writes nor notices.
LEMMA GetMutationStatusState ==
  ASSUME NEW s \in State, NEW instant \in Instant
  PROVE  LET u == GetMutationStatus(s, instant)
         IN /\ u \in State
            /\ u.records.written = s.records.written
            /\ u.notices = s.notices
            /\ u.capturedClock = s.capturedClock
<1> DEFINE c == ClearMutationStatus(s)
           stamp == [t \in Tournament |-> IF t \in Stamped(s) THEN instant ELSE c.records.stamp[t]]
           records == [c.records EXCEPT !.stamp = stamp]
<1>1. /\ c \in State
      /\ c.records = s.records
      /\ c.notices = s.notices
      /\ c.capturedClock = s.capturedClock
  BY ClearMutationStatusState
<1> HIDE DEF c
<1>2. c.records \in Records
  BY <1>1 DEF State
<1>3. stamp \in [Tournament -> Instant]
  BY <1>2 DEF Records
<1>4. records \in Records /\ records.written = c.records.written
  <2> HIDE DEF stamp
  <2> QED BY <1>2, <1>3 DEF Records
<1>5. GetMutationStatus(s, instant) = [c EXCEPT !.records = records]
  BY DEF GetMutationStatus, c
<1> HIDE DEF stamp, records
<1> QED BY <1>1, <1>4, <1>5 DEF State

\* A refused queue without rollback keeps its writes and empties the buffer.
LEMMA KeepWritesState ==
  ASSUME NEW s \in State, NEW instant \in Instant
  PROVE  LET u == KeepWrites(s, instant)
         IN /\ u \in State
            /\ u.records.written = s.records.written
            /\ u.notices = {}
            /\ u.capturedClock = s.capturedClock
<1> DEFINE g == GetMutationStatus(s, instant)
<1>1. /\ g \in State
      /\ g.records.written = s.records.written
      /\ g.capturedClock = s.capturedClock
  BY GetMutationStatusState
<1> HIDE DEF g
<1> QED BY <1>1, DeleteNoticesState DEF KeepWrites, g

\* A capture holds the records and the notices as they are.
LEMMA CaptureOperationSnapshot ==
  ASSUME NEW s \in State
  PROVE  /\ CaptureOperation(s) \in Snapshot
         /\ CaptureOperation(s).records = s.records
         /\ CaptureOperation(s).notices = s.notices
BY DEF CaptureOperation, Snapshot, State

\* A restore puts back the captured records and notices, and keeps the instant.
LEMMA RestoreOperationState ==
  ASSUME NEW s \in State, NEW captured \in Snapshot
  PROVE  LET u == RestoreOperation(s, captured)
         IN /\ u \in State
            /\ u.records = captured.records
            /\ u.notices = captured.notices
            /\ u.capturedClock = s.capturedClock
<1> DEFINE installed == SetTournamentRecords(s, captured.records)
           reselected == SetTournamentId(installed, captured.selected)
           refilled == [reselected EXCEPT !.notices = captured.notices]
<1>1. /\ captured.records \in Records
      /\ captured.selected \in Tournament \cup {NoTournament}
      /\ captured.notices \in SUBSET Notice
  BY DEF Snapshot
<1>2. /\ installed \in State
      /\ installed.records = captured.records
      /\ installed.capturedClock = s.capturedClock
  BY <1>1, SetTournamentRecordsState
<1> HIDE DEF installed
<1>3. /\ reselected \in State
      /\ reselected.records = captured.records
      /\ reselected.capturedClock = s.capturedClock
  BY <1>1, <1>2, SetTournamentIdState
<1> HIDE DEF reselected
<1>4. /\ refilled \in State
      /\ refilled.records = captured.records
      /\ refilled.notices = captured.notices
      /\ refilled.capturedClock = s.capturedClock
  BY <1>1, <1>3 DEF State
<1> HIDE DEF refilled
<1>5. RestoreOperation(s, captured) = ClearMutationStatus(refilled)
  BY DEF RestoreOperation, refilled, reselected, installed
<1> QED BY <1>4, <1>5, ClearMutationStatusState
=============================================================================
