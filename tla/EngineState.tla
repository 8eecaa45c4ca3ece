----------------------------- MODULE EngineState -----------------------------
(***************************************************************************)
(* The state provider behind every engine (global/state/syncGlobalState.ts *)
(* and the async providers that copy it) and the parts of an engine call   *)
(* that read and write it as a whole: the capture and restore of an        *)
(* operation, the stamp of the modified records, the notice buffer.        *)
(*                                                                         *)
(* A tournament record is abstracted to the set of the writes it holds and *)
(* the instant of its factory stamp.  A write is a number, unique in a     *)
(* behaviour; a notice carries the write it announces.  The buffer is a    *)
(* set: the order of the payloads of one topic is left out.                *)
(***************************************************************************)
EXTENDS Naturals

CONSTANTS
  Tournament,    \* ids of the tournament records a client may load
  NoTournament,  \* no selected tournament
  Unnamed,       \* '*', the tournament of a notice that names none
  Topic,         \* the topics that are subscribed
  Key,           \* keys of notices that supersede one another
  NoKey,         \* the key of a notice that supersedes none
  MaxWrites,     \* bound: writes in a behaviour
  MaxCalls       \* bound: engine calls and state methods in a behaviour

ASSUME TournamentAssumption == NoTournament \notin Tournament /\ Unnamed \notin Tournament
ASSUME KeyAssumption == NoKey \notin Key
ASSUME BoundAssumption == MaxWrites \in Nat /\ MaxCalls \in Nat \ {0}

Write == 1 .. MaxWrites

\* Instant 0 stands for "no instant": nothing captured, a record not stamped.
Instant == 0 .. MaxCalls

Notice == [topic : Topic, key : Key \cup {NoKey}, write : Write]

Records == [loaded : SUBSET Tournament,
            written : [Tournament -> SUBSET Write],
            stamp : [Tournament -> Instant]]

Snapshot == [records : Records,
             selected : Tournament \cup {NoTournament},
             notices : SUBSET Notice]

State == [records : Records,
          selected : Tournament \cup {NoTournament},
          notices : SUBSET Notice,
          modified : BOOLEAN,
          modifiedIds : SUBSET (Tournament \cup {Unnamed}),
          capturedClock : Instant]

NoRecords == [loaded |-> {},
              written |-> [t \in Tournament |-> {}],
              stamp |-> [t \in Tournament |-> 0]]

FreshState == [records |-> NoRecords, selected |-> NoTournament, notices |-> {},
               modified |-> FALSE, modifiedIds |-> {}, capturedClock |-> 0]

\* The writes some loaded record holds.
KeptWrites(r) == UNION {r.written[t] : t \in r.loaded}

-----------------------------------------------------------------------------
(* Records and selection.                                                  *)

\* Records as a client hands them over: no write of this behaviour in them.
Unwritten(ids) == [NoRecords EXCEPT !.loaded = ids]

\* A single record is selected, none clears the selection, several leave it as it was.
Selection(ids, current) ==
  IF ids = {} THEN NoTournament
  ELSE IF \E t \in ids : ids = {t} THEN CHOOSE t \in ids : ids = {t}
  ELSE current

SetTournamentRecords(s, r) ==
  [s EXCEPT !.records = r, !.selected = Selection(r.loaded, s.selected)]

\* An id whose record is not loaded is refused, and the selection stays.
SetTournamentId(s, t) ==
  IF t \in s.records.loaded \cup {NoTournament} THEN [s EXCEPT !.selected = t] ELSE s

RemoveTournamentRecord(s, t) ==
  LET left == s.records.loaded \ {t}
  IN [s EXCEPT !.records = [loaded |-> left,
                            written |-> [s.records.written EXCEPT ![t] = {}],
                            stamp |-> [s.records.stamp EXCEPT ![t] = 0]],
               !.selected = Selection(left, s.selected)]

\* setState clears the selection before it installs the records.
SetState(s, ids) == SetTournamentRecords(SetTournamentId(s, NoTournament), Unwritten(ids))

-----------------------------------------------------------------------------
(* Notices and the mutation flag.                                          *)

MarkModified(s, id) ==
  [s EXCEPT !.modified = TRUE, !.modifiedIds = @ \cup {id}]

\* The buffered notices a notice with this topic and key replaces.
Superseded(s, topic, key) ==
  {n \in s.notices : key # NoKey /\ n.topic = topic /\ n.key = key}

AddNotice(s, n, id) ==
  [MarkModified(s, id) EXCEPT
     !.notices = (@ \ Superseded(s, n.topic, n.key)) \cup {n}]

GetNotices(s, topic) == {n \in s.notices : n.topic = topic}

DeleteNotices(s) == [s EXCEPT !.notices = {}]

\* A method's write to a loaded record.
WriteRecord(s, t, w) == [s EXCEPT !.records.written[t] = @ \cup {w}]

-----------------------------------------------------------------------------
(* The parts of an engine call.                                            *)

ClearMutationStatus(s) == [s EXCEPT !.modified = FALSE, !.modifiedIds = {}]

\* The records getMutationStatus stamps: those the call modified, or all of
\* them when a notice named no tournament.
Stamped(s) ==
  {t \in s.records.loaded : s.modified /\ s.modifiedIds \cap {t, Unnamed} # {}}

GetMutationStatus(s, instant) ==
  [ClearMutationStatus(s) EXCEPT
     !.records.stamp = [t \in Tournament |-> IF t \in Stamped(s) THEN instant ELSE @[t]]]

\* Faulty: the refused queue's writes are kept but not stamped.
KeepWritesUnstamped(s, instant) == DeleteNotices(ClearMutationStatus(s))

\* What a refused queue without rollback leaves: stamped writes and no notices.
KeepWrites(s, instant) == DeleteNotices(GetMutationStatus(s, instant))

CaptureOperation(s) ==
  [records |-> s.records, selected |-> s.selected, notices |-> s.notices]

\* Faulty: the mutation flag of the refused writes survives them.
RestoreKeepingFlag(s, captured) ==
  [SetTournamentId(SetTournamentRecords(s, captured.records), captured.selected)
     EXCEPT !.notices = captured.notices]

\* Faulty: the whole buffer is emptied, an enclosing operation's notices with it.
RestoreEmptyingBuffer(s, captured) ==
  DeleteNotices(ClearMutationStatus(
    SetTournamentId(SetTournamentRecords(s, captured.records), captured.selected)))

\* Faulty: the records are restored through setState, which clears the selection.
RestoreThroughSetState(s, captured) ==
  LET installed == SetTournamentRecords(SetTournamentId(s, NoTournament), captured.records)
  IN ClearMutationStatus([installed EXCEPT !.notices = captured.notices])

RestoreOperation(s, captured) ==
  LET installed == SetTournamentRecords(s, captured.records)
      reselected == SetTournamentId(installed, captured.selected)
  IN ClearMutationStatus([reselected EXCEPT !.notices = captured.notices])
=============================================================================
