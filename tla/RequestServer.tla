---------------------------- MODULE RequestServer ----------------------------
(***************************************************************************)
(* The reference server (server/providers/factory) over its file storage   *)
(* (server/data/fileSystem).  A request to run a queue fetches the records *)
(* it names, runs its directives on an engine of its own and saves all of  *)
(* that engine's records, if the queue was a success.                      *)
(*                                                                         *)
(* The server awaits each record it fetches and each directive; requests   *)
(* that are in progress together interleave there.  Saving has no await:   *)
(* a save is one step, which may fail or be cut by a crash between two     *)
(* files or within one.  A crash loses the requests in progress; the files *)
(* stay, and the server is started again.                                  *)
(*                                                                         *)
(* A record is the set of the writes it holds.  A write is a number; the   *)
(* directives of a server's engine do not await, so one is one step.       *)
(***************************************************************************)
EXTENDS Naturals

CONSTANTS
  Tournament,  \* ids of the stored records
  Request,     \* requests to run a queue
  Missing,     \* no such file
  Torn,        \* a file cut short: empty, or not JSON
  MaxWrites    \* bound: writes in a behaviour

Write == 1 .. MaxWrites

ASSUME FileAssumption == Missing # Torn /\ \A c \in SUBSET Write : c # Missing /\ c # Torn
ASSUME WriteAssumption == MaxWrites \in Nat

VARIABLES
  codes,    \* the records' files, suffix .codes.json
  legacy,   \* their older copies, suffix .tods.json
  request   \* the requests

\* History, read by no action.
VARIABLES
  made,    \* how many writes were made: 1 .. made
  by,      \* the request that made each write and the record it is in
  missed,  \* what others saved while a request was in progress
  written, \* records saved under the current suffix
  cut      \* records whose removal was cut after the first of the two files

files == <<codes, legacy>>
history == <<made, by, missed, written, cut>>
vars == <<files, request, history>>

-----------------------------------------------------------------------------

Content == SUBSET Write
File == {Missing, Torn} \cup Content
Phase == {"none", "fetching", "running", "saved", "refused", "failed", "lost"}

\* records: what the request's engine holds, Missing where it holds no record.
RequestRecord == [phase : Phase, todo : SUBSET Tournament, records : [Tournament -> {Missing} \cup Content]]

NoRequest == [phase |-> "none", todo |-> {}, records |-> [t \in Tournament |-> Missing]]

\* existingRecordFile: the current file shadows the older copy.
Existing(t) == IF codes[t] # Missing THEN codes[t] ELSE legacy[t]

InProgress == {r \in Request : request[r].phase \in {"fetching", "running"}}
Held(r) == {t \in Tournament : request[r].records[t] # Missing}
WritesIn(r, t) == {w \in 1 .. made : by[w] = <<r, t>>}

Init ==
  /\ codes \in [Tournament -> {Missing, {}}]
  /\ legacy \in [Tournament -> {Missing, {}}]
  /\ request = [r \in Request |-> NoRequest]
  /\ made = 0
  /\ by = [w \in Write |-> <<>>]
  /\ missed = [r \in Request |-> {}]
  /\ written = {t \in Tournament : codes[t] # Missing} /\ cut = {}

-----------------------------------------------------------------------------
(* executionQueue.                                                         *)

Arrive(r, ids) ==
  /\ request[r].phase = "none"
  /\ request' = [request EXCEPT ![r].phase = "fetching", ![r].todo = ids]
  /\ UNCHANGED <<files, history>>

Answer(r, outcome) == request' = [request EXCEPT ![r] = [NoRequest EXCEPT !.phase = outcome]]

\* Faulty: a record that is not found is looked for again.
FetchUntilFound(r, t) ==
  /\ request[r].phase = "fetching"
  /\ t \in request[r].todo
  /\ Existing(t) # Torn
  /\ request' = [request EXCEPT ![r].records[t] = Existing(t),
                                ![r].todo = IF Existing(t) = Missing THEN @ ELSE @ \ {t}]
  /\ UNCHANGED <<files, history>>

\* Faulty: the older copy is preferred.
FetchOldCopy(r, t) ==
  /\ request[r].phase = "fetching"
  /\ t \in request[r].todo
  /\ Existing(t) # Torn
  /\ request' = [request EXCEPT ![r].records[t] = IF legacy[t] # Missing THEN legacy[t] ELSE codes[t],
                                ![r].todo = @ \ {t}]
  /\ UNCHANGED <<files, history>>

\* A record that is not found is passed over.
FetchRecord(r, t) ==
  /\ request[r].phase = "fetching"
  /\ t \in request[r].todo
  /\ Existing(t) # Torn
  /\ request' = [request EXCEPT ![r].records[t] = Existing(t), ![r].todo = @ \ {t}]
  /\ UNCHANGED <<files, history>>

\* A file that is not JSON fails the request; an empty one makes setState refuse
\* the records, and the first directive then finds none.
FetchTorn(r, t) ==
  /\ request[r].phase = "fetching"
  /\ t \in request[r].todo
  /\ Existing(t) = Torn
  /\ Answer(r, "failed")
  /\ UNCHANGED <<files, history>>

\* Faulty: a request that found no record goes on.
FetchEndsRegardless(r) ==
  /\ request[r].phase = "fetching"
  /\ request[r].todo = {}
  /\ request' = [request EXCEPT ![r].phase = "running"]
  /\ UNCHANGED <<files, history>>

\* Everything was fetched: without a record the request is refused, else its queue begins.
FetchEnds(r) ==
  /\ request[r].phase = "fetching"
  /\ request[r].todo = {}
  /\ IF Held(r) = {} THEN Answer(r, "refused")
     ELSE request' = [request EXCEPT ![r].phase = "running"]
  /\ UNCHANGED <<files, history>>

\* Faulty: the record is saved after each directive.
DirectiveSaves(r, t) ==
  /\ request[r].phase = "running"
  /\ t \in Held(r)
  /\ made < MaxWrites
  /\ made' = made + 1
  /\ by' = [by EXCEPT ![made + 1] = <<r, t>>]
  /\ request' = [request EXCEPT ![r].records[t] = @ \cup {made + 1}]
  /\ codes' = [codes EXCEPT ![t] = request[r].records[t] \cup {made + 1}]
  /\ UNCHANGED <<legacy, missed, written, cut>>

DirectiveWrites(r, t) ==
  /\ request[r].phase = "running"
  /\ t \in Held(r)
  /\ made < MaxWrites
  /\ made' = made + 1
  /\ by' = [by EXCEPT ![made + 1] = <<r, t>>]
  /\ request' = [request EXCEPT ![r].records[t] = @ \cup {made + 1}]
  /\ UNCHANGED <<files, missed, written, cut>>

\* Faulty: a refused queue is saved with what its first directives wrote.
RefusedQueueSaves(r) ==
  /\ request[r].phase = "running"
  /\ codes' = [t \in Tournament |-> IF t \in Held(r) THEN request[r].records[t] ELSE codes[t]]
  /\ Answer(r, "refused")
  /\ UNCHANGED <<legacy, history>>

\* A directive returns an error, or none of them a success: nothing is saved.
QueueRefused(r) ==
  /\ request[r].phase = "running"
  /\ Answer(r, "refused")
  /\ UNCHANGED <<files, history>>

-----------------------------------------------------------------------------
(* saveTournamentRecords.                                                  *)

\* What the requests in progress, the saving one apart, will not have seen.
Missed(r, ts) ==
  [q \in Request |-> IF q \in InProgress \ {r}
                     THEN missed[q] \cup UNION {request[r].records[t] : t \in ts} ELSE missed[q]]

\* The records ts are written, and their older copies dropped.
Save(r, ts) ==
  /\ codes' = [t \in Tournament |-> IF t \in ts THEN request[r].records[t] ELSE codes[t]]
  /\ legacy' = [t \in Tournament |-> IF t \in ts THEN Missing ELSE legacy[t]]
  /\ missed' = Missed(r, ts) /\ written' = written \cup ts

QueueSaved(r) ==
  /\ request[r].phase = "running"
  /\ Save(r, Held(r))
  /\ Answer(r, "saved")
  /\ UNCHANGED <<made, by, cut>>

\* Saving stops at record t, those of ts saved: its file is truncated, or
\* written with the older copy still there.
SaveStops(r, ts, t) ==
  /\ request[r].phase = "running"
  /\ t \in Held(r) /\ ts \subseteq Held(r) \ {t}
  /\ \E whole \in BOOLEAN :
       /\ codes' = [u \in Tournament |->
            IF u \in ts \/ (u = t /\ whole) THEN request[r].records[u]
            ELSE IF u = t THEN Torn ELSE codes[u]]
       /\ missed' = Missed(r, IF whole THEN ts \cup {t} ELSE ts)
  /\ legacy' = [u \in Tournament |-> IF u \in ts THEN Missing ELSE legacy[u]]
  /\ written' = written \cup ts \cup {t}
  /\ UNCHANGED <<made, by, cut>>

SaveFails(r, ts, t) == SaveStops(r, ts, t) /\ Answer(r, "failed")

Lose == request' = [r \in Request |->
  IF r \in InProgress THEN [NoRequest EXCEPT !.phase = "lost"] ELSE request[r]]

Crash == InProgress # {} /\ Lose /\ UNCHANGED <<files, history>>

CrashWhileSaving(r, ts, t) == SaveStops(r, ts, t) /\ Lose

-----------------------------------------------------------------------------
(* The other endpoints that write.                                         *)

\* saveTournamentRecords or generateTournamentRecord: a record nobody has written to.
SaveTournamentRecord(t) ==
  /\ codes[t] # {} \/ legacy[t] # Missing
  /\ codes' = [codes EXCEPT ![t] = {}]
  /\ legacy' = [legacy EXCEPT ![t] = Missing]
  /\ written' = written \cup {t}
  /\ UNCHANGED <<request, made, by, missed, cut>>

\* Faulty: the first file found is removed, as it is the one that is read.
RemoveFileRead(t) ==
  /\ Existing(t) # Missing
  /\ codes' = [codes EXCEPT ![t] = Missing]
  /\ legacy' = IF codes[t] = Missing THEN [legacy EXCEPT ![t] = Missing] ELSE legacy
  /\ UNCHANGED <<request, history>>

RemoveTournamentRecord(t) ==
  /\ Existing(t) # Missing
  /\ codes' = [codes EXCEPT ![t] = Missing]
  /\ legacy' = [legacy EXCEPT ![t] = Missing]
  /\ UNCHANGED <<request, history>>

\* The removal fails or is cut by a crash after the first file; a crash also loses the requests.
RemovalStops(t) ==
  /\ codes[t] # Missing /\ legacy[t] # Missing
  /\ codes' = [codes EXCEPT ![t] = Missing]
  /\ cut' = cut \cup {t}
  /\ UNCHANGED request \/ Lose
  /\ UNCHANGED <<legacy, made, by, missed, written>>

-----------------------------------------------------------------------------

\* The steps the server owes a request.
Step(r) ==
  \/ \E t \in Tournament : FetchRecord(r, t) \/ FetchTorn(r, t) \/ DirectiveWrites(r, t)
  \/ FetchEnds(r)
  \/ QueueRefused(r)
  \/ QueueSaved(r)

Next ==
  \/ \E r \in Request : Step(r)
  \/ \E r \in Request, ids \in SUBSET Tournament \ {{}} : Arrive(r, ids)
  \/ \E r \in Request, ts \in SUBSET Tournament, t \in Tournament : SaveFails(r, ts, t)
  \/ \E r \in Request, ts \in SUBSET Tournament, t \in Tournament : CrashWhileSaving(r, ts, t)
  \/ Crash
  \/ \E t \in Tournament : SaveTournamentRecord(t)
  \/ \E t \in Tournament : RemoveTournamentRecord(t)
  \/ \E t \in Tournament : RemovalStops(t)

\* The event loop runs whatever can be run.
Fairness == \A r \in Request : WF_vars(Step(r))

Spec == Init /\ [][Next]_vars /\ Fairness

-----------------------------------------------------------------------------
(* Properties.                                                             *)

\* Every variable has its type; a queue runs on an engine that holds every record
\* that was found and at least one, and an answered request holds nothing.
TypeOK ==
  /\ codes \in [Tournament -> File] /\ legacy \in [Tournament -> File]
  /\ request \in [Request -> RequestRecord]
  /\ \A r \in Request :
       /\ request[r].phase = "running" => request[r].todo = {} /\ Held(r) # {}
       /\ r \notin InProgress => Held(r) = {}
  /\ made \in 0 .. MaxWrites
  /\ by \in [Write -> {<<>>} \cup (Request \X Tournament)]
  /\ missed \in [Request -> SUBSET Write]
  /\ written \subseteq Tournament /\ cut \subseteq Tournament

\* A queue refused part-way persists nothing: what its directives wrote is in no
\* file, through any crash, failing save or overlapping request.
RefusedPersistsNothing ==
  \A r \in Request : request[r].phase = "refused" =>
    \A t, u \in Tournament :
      /\ codes[u] \notin {Missing, Torn} => WritesIn(r, t) \cap codes[u] = {}
      /\ legacy[u] \notin {Missing, Torn} => WritesIn(r, t) \cap legacy[u] = {}

\* A file that can be read holds all of a request's writes to the record or none
\* of them, although the requests interleave between two directives and a save
\* over several records may be cut between them.
WholeOrNothing ==
  \A t \in Tournament : Existing(t) \notin {Missing, Torn} =>
    \A r \in Request : Existing(t) \cap WritesIn(r, t) \in {{}, WritesIn(r, t)}

\* A request that saves overwrites only what other requests saved while it was in
\* progress; whatever it could have read when it arrived stays in the record,
\* unless the file itself is torn.
LostOnlyToOverlap ==
  [][\A r \in InProgress, t \in Tournament :
       /\ request'[r].phase \in {"saved", "failed"}
       /\ Existing(t) \notin {Missing, Torn} /\ Existing(t)' \notin {Missing, Torn}
       => Existing(t) \ Existing(t)' \subseteq missed[r]]_vars

\* The older copy of a record saved under the current suffix is read again only
\* after a removal that was cut between the two files.
OldCopyStaysHidden ==
  \A t \in Tournament : codes[t] = Missing /\ legacy[t] # Missing => t \notin written \/ t \in cut

\* Every request is answered, or lost in a crash.
EveryRequestEnds ==
  \A r \in Request : request[r].phase = "fetching" ~> request[r].phase \in {"saved", "refused", "failed", "lost"}
=============================================================================
