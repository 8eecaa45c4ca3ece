------------------------- MODULE RequestServerProofs --------------------------
(***************************************************************************)
(* Theorems about RequestServer, for any number of records, requests and   *)
(* writes, through any crash and any failing save.                         *)
(***************************************************************************)
EXTENDS RequestServer, TLAPS

-----------------------------------------------------------------------------
(* Types.                                                                  *)

\* What a file or an engine can hold are three different things.
LEMMA FileKinds ==
  ASSUME NEW c \in Content
  PROVE  c # Missing /\ c # Torn /\ Missing # Torn
BY FileAssumption DEF Content

LEMMA NoRequestType ==
  ASSUME NEW outcome \in Phase
  PROVE  [NoRequest EXCEPT !.phase = outcome] \in RequestRecord
BY DEF NoRequest, RequestRecord

\* An engine holds Missing or the writes of a record.
LEMMA HeldContent ==
  ASSUME TypeOK, NEW r \in Request, NEW t \in Tournament
  PROVE  /\ request[r].phase \in Phase
         /\ request[r].todo \subseteq Tournament
         /\ request[r].records \in [Tournament -> {Missing} \cup Content]
         /\ t \in Held(r) => request[r].records[t] \in Content
         /\ t \notin Held(r) => request[r].records[t] = Missing
BY DEF TypeOK, RequestRecord, Held

\* A queue runs on an engine with records, and who is answered holds none.
QueueOK(r) ==
  /\ request[r].phase = "running" => request[r].todo = {} /\ Held(r) # {}
  /\ r \notin InProgress => Held(r) = {}

RequestsOK == request \in [Request -> RequestRecord] /\ \A r \in Request : QueueOK(r)

LEMMA SameQueue ==
  ASSUME NEW r \in Request, request'[r] = request[r], QueueOK(r)
  PROVE  QueueOK(r)'
BY DEF QueueOK, Held, InProgress

\* A request that is answered holds nothing any more.
LEMMA AnswerType ==
  ASSUME RequestsOK, NEW r \in Request, NEW outcome \in Phase \ {"fetching", "running"},
         Answer(r, outcome)
  PROVE  RequestsOK'
<1>1. request' = [request EXCEPT ![r] = [NoRequest EXCEPT !.phase = outcome]]
  BY DEF Answer
<1>2. [NoRequest EXCEPT !.phase = outcome] \in RequestRecord
  BY NoRequestType
<1>3. request \in [Request -> RequestRecord]
  BY DEF RequestsOK
<1>4. request' \in [Request -> RequestRecord]
  BY <1>1, <1>2, <1>3
<1>5. ASSUME NEW q \in Request PROVE QueueOK(q)'
  <2>1. CASE q = r
    <3>1. request'[q] = [NoRequest EXCEPT !.phase = outcome]
      BY <1>1, <1>3, <2>1
    <3>2. request'[q].phase = outcome /\ request'[q].records = [t \in Tournament |-> Missing]
      BY <3>1 DEF NoRequest
    <3> QED BY <3>2 DEF QueueOK, Held, InProgress
  <2>2. CASE q # r
    <3>1. request'[q] = request[q]
      BY <1>1, <1>3, <2>2
    <3> QED BY <3>1, SameQueue DEF RequestsOK
  <2> QED BY <2>1, <2>2
<1> QED BY <1>4, <1>5 DEF RequestsOK

\* So does a crash with every request in progress.
LEMMA LoseType ==
  ASSUME RequestsOK, Lose
  PROVE  RequestsOK'
<1>1. request \in [Request -> RequestRecord]
  BY DEF RequestsOK
<1>2. [NoRequest EXCEPT !.phase = "lost"] \in RequestRecord
  BY NoRequestType DEF Phase
<1>3. request' \in [Request -> RequestRecord]
  BY <1>1, <1>2 DEF Lose
<1>4. ASSUME NEW q \in Request PROVE QueueOK(q)'
  <2>1. CASE q \in InProgress
    <3>1. request'[q] = [NoRequest EXCEPT !.phase = "lost"]
      BY <2>1 DEF Lose
    <3>2. request'[q].phase = "lost" /\ request'[q].records = [t \in Tournament |-> Missing]
      BY <3>1 DEF NoRequest
    <3> QED BY <3>2 DEF QueueOK, Held, InProgress
  <2>2. CASE q \notin InProgress
    <3>1. request'[q] = request[q]
      BY <2>2 DEF Lose
    <3> QED BY <3>1, SameQueue DEF RequestsOK
  <2> QED BY <2>1, <2>2
<1> QED BY <1>3, <1>4 DEF RequestsOK

\* A step of one request that stays in progress.
LEMMA StepType ==
  ASSUME RequestsOK, NEW r \in Request, NEW record \in RequestRecord,
         request' = [request EXCEPT ![r] = record],
         record.phase \in {"fetching", "running"},
         record.phase = "running" =>
           record.todo = {} /\ \E t \in Tournament : record.records[t] # Missing
  PROVE  RequestsOK'
<1>1. request \in [Request -> RequestRecord]
  BY DEF RequestsOK
<1>2. request' \in [Request -> RequestRecord]
  BY <1>1
<1>3. ASSUME NEW q \in Request PROVE QueueOK(q)'
  <2>1. CASE q = r
    <3>1. request'[q] = record
      BY <1>1, <2>1
    <3> QED BY <3>1 DEF QueueOK, Held, InProgress
  <2>2. CASE q # r
    <3>1. request'[q] = request[q]
      BY <1>1, <2>2
    <3> QED BY <3>1, SameQueue DEF RequestsOK
  <2> QED BY <2>1, <2>2
<1> QED BY <1>2, <1>3 DEF RequestsOK

\* The types of the files and of the history.
FilesOK == codes \in [Tournament -> File] /\ legacy \in [Tournament -> File]
HistoryOK ==
  /\ made \in 0 .. MaxWrites
  /\ by \in [Write -> {<<>>} \cup (Request \X Tournament)]
  /\ missed \in [Request -> SUBSET Write]
  /\ written \subseteq Tournament /\ cut \subseteq Tournament

LEMMA TypeParts ==
  /\ TypeOK <=> FilesOK /\ RequestsOK /\ HistoryOK
  /\ TypeOK' <=> FilesOK' /\ RequestsOK' /\ HistoryOK'
BY DEF TypeOK, FilesOK, RequestsOK, HistoryOK, QueueOK

LEMMA MissedType ==
  ASSUME TypeOK, NEW r \in Request, NEW ts \in SUBSET Held(r)
  PROVE  Missed(r, ts) \in [Request -> SUBSET Write]
<1>1. ASSUME NEW t \in ts PROVE request[r].records[t] \subseteq Write
  BY HeldContent DEF Held, Content
<1>2. UNION {request[r].records[t] : t \in ts} \subseteq Write
  BY <1>1
<1>3. missed \in [Request -> SUBSET Write]
  BY DEF TypeOK
<1> QED BY <1>2, <1>3 DEF Missed

LEMMA SaveStopsType ==
  ASSUME TypeOK, NEW r \in Request, NEW ts \in SUBSET Tournament, NEW t \in Tournament,
         SaveStops(r, ts, t)
  PROVE  FilesOK' /\ HistoryOK'
<1>1. t \in Held(r) /\ ts \subseteq Held(r) /\ t \notin ts
  BY DEF SaveStops
<1>2. PICK whole \in BOOLEAN :
        /\ codes' = [u \in Tournament |->
             IF u \in ts \/ (u = t /\ whole) THEN request[r].records[u]
             ELSE IF u = t THEN Torn ELSE codes[u]]
        /\ missed' = Missed(r, IF whole THEN ts \cup {t} ELSE ts)
  BY DEF SaveStops
<1>3. \A u \in ts \cup {t} : request[r].records[u] \in File
  BY <1>1, HeldContent DEF Held, File
<1>4. codes' \in [Tournament -> File]
  BY <1>2, <1>3 DEF TypeOK, File
<1>5. legacy' \in [Tournament -> File]
  BY DEF SaveStops, TypeOK, File
<1>6. missed' \in [Request -> SUBSET Write]
  <2>1. (IF whole THEN ts \cup {t} ELSE ts) \in SUBSET Held(r)
    BY <1>1
  <2> QED BY <1>2, <2>1, MissedType
<1> QED BY <1>4, <1>5, <1>6 DEF SaveStops, TypeOK, FilesOK, HistoryOK

LEMMA InitType == Init => TypeOK
<1> SUFFICES ASSUME Init PROVE TypeOK
  OBVIOUS
<1>1. FilesOK
  BY DEF Init, FilesOK, File, Content
<1>2. RequestsOK
  <2>1. request = [r \in Request |-> NoRequest] /\ NoRequest \in RequestRecord
    BY DEF Init, NoRequest, RequestRecord, Phase
  <2>2. NoRequest.phase = "none" /\ NoRequest.records = [t \in Tournament |-> Missing]
    BY DEF NoRequest
  <2> QED BY <2>1, <2>2 DEF RequestsOK, QueueOK, Held, InProgress
<1>3. HistoryOK
  BY WriteAssumption DEF Init, HistoryOK
<1> QED BY <1>1, <1>2, <1>3, TypeParts

LEMMA StepTypes ==
  ASSUME TypeOK, NEW r \in Request, Step(r)
  PROVE  TypeOK'
<1> USE DEF files, history
<1>0. FilesOK /\ RequestsOK /\ HistoryOK
  BY TypeParts
<1>1. ASSUME NEW t \in Tournament, FetchRecord(r, t) PROVE TypeOK'
  <2>1. Existing(t) \in {Missing} \cup Content
    BY <1>1 DEF FetchRecord, Existing, TypeOK, File
  <2> DEFINE record == [request[r] EXCEPT !.records[t] = Existing(t), !.todo = @ \ {t}]
  <2>2. record \in RequestRecord /\ record.phase = "fetching"
    BY <1>0, <1>1, <2>1 DEF FetchRecord, RequestsOK, RequestRecord
  <2>3. request' = [request EXCEPT ![r] = record]
    BY <1>1, <1>0 DEF FetchRecord, RequestsOK, RequestRecord
  <2> HIDE DEF record
  <2>4. RequestsOK'
    BY <1>0, <2>2, <2>3, StepType
  <2> QED BY <1>0, <1>1, <2>4, TypeParts DEF FetchRecord, FilesOK, HistoryOK
<1>2. ASSUME NEW t \in Tournament, FetchTorn(r, t) PROVE TypeOK'
  BY <1>0, <1>2, AnswerType, TypeParts DEF FetchTorn, Phase, FilesOK, HistoryOK
<1>3. ASSUME NEW t \in Tournament, DirectiveWrites(r, t) PROVE TypeOK'
  <2>1. /\ request[r].records[t] \in Content /\ request[r] \in RequestRecord
        /\ request[r].phase = "running" /\ request[r].todo = {}
    BY <1>0, <1>3, HeldContent DEF DirectiveWrites, RequestsOK, QueueOK
  <2>2. made + 1 \in Write /\ made + 1 \in 0 .. MaxWrites
    BY <1>0, <1>3, WriteAssumption DEF DirectiveWrites, HistoryOK, Write
  <2> DEFINE record == [request[r] EXCEPT !.records[t] = @ \cup {made + 1}]
  <2>3. request[r].records[t] \cup {made + 1} \in Content
    BY <2>1, <2>2 DEF Content
  <2>4. record \in RequestRecord /\ record.phase = "running" /\ record.todo = {}
    BY <2>1, <2>3 DEF RequestRecord
  <2>5. record.records[t] # Missing
    BY <2>1, <2>3, FileKinds DEF RequestRecord
  <2>6. request' = [request EXCEPT ![r] = record]
    BY <1>3, <1>0 DEF DirectiveWrites, RequestsOK
  <2> HIDE DEF record
  <2>7. RequestsOK'
    BY <1>0, <2>4, <2>5, <2>6, StepType
  <2>8. HistoryOK'
    BY <1>0, <1>3, <2>2 DEF DirectiveWrites, HistoryOK
  <2> QED BY <1>0, <1>3, <2>7, <2>8, TypeParts DEF DirectiveWrites, FilesOK
<1>4. CASE FetchEnds(r)
  <2>1. CASE Held(r) = {}
    BY <1>0, <1>4, <2>1, AnswerType, TypeParts DEF FetchEnds, Phase, FilesOK, HistoryOK
  <2>2. CASE Held(r) # {}
    <3> DEFINE record == [request[r] EXCEPT !.phase = "running"]
    <3>1. record \in RequestRecord /\ record.phase = "running" /\ record.todo = {}
      BY <1>0, <1>4 DEF FetchEnds, RequestsOK, RequestRecord, Phase
    <3>2. \E t \in Tournament : record.records[t] # Missing
      BY <1>0, <2>2 DEF RequestsOK, RequestRecord, Held
    <3>3. request' = [request EXCEPT ![r] = record]
      BY <1>4, <2>2, <1>0 DEF FetchEnds, RequestsOK
    <3> HIDE DEF record
    <3>4. RequestsOK'
      BY <1>0, <3>1, <3>2, <3>3, StepType
    <3> QED BY <1>0, <1>4, <3>4, TypeParts DEF FetchEnds, FilesOK, HistoryOK
  <2> QED BY <2>1, <2>2
<1>5. CASE QueueRefused(r)
  BY <1>0, <1>5, AnswerType, TypeParts DEF QueueRefused, Phase, FilesOK, HistoryOK
<1>6. CASE QueueSaved(r)
  <2>1. RequestsOK'
    BY <1>0, <1>6, AnswerType DEF QueueSaved, Phase
  <2>2. \A t \in Held(r) : request[r].records[t] \in File
    BY HeldContent DEF Held, File
  <2>3. FilesOK'
    BY <1>0, <1>6, <2>2 DEF QueueSaved, Save, FilesOK, File
  <2>4. Missed(r, Held(r)) \in [Request -> SUBSET Write] /\ Held(r) \subseteq Tournament
    BY MissedType DEF Held
  <2>5. HistoryOK'
    BY <1>0, <1>6, <2>4 DEF QueueSaved, Save, HistoryOK
  <2> QED BY <2>1, <2>3, <2>5, TypeParts
<1> QED BY <1>1, <1>2, <1>3, <1>4, <1>5, <1>6 DEF Step

LEMMA NextType == TypeOK /\ [Next]_vars => TypeOK'
<1> SUFFICES ASSUME TypeOK, [Next]_vars PROVE TypeOK'
  OBVIOUS
<1>0. FilesOK /\ RequestsOK /\ HistoryOK
  BY TypeParts
<1>1. ASSUME NEW r \in Request, Step(r) PROVE TypeOK'
  BY <1>1, StepTypes
<1>2. ASSUME NEW r \in Request, NEW ids \in SUBSET Tournament \ {{}}, Arrive(r, ids) PROVE TypeOK'
  <2> DEFINE record == [request[r] EXCEPT !.phase = "fetching", !.todo = ids]
  <2>1. record \in RequestRecord /\ record.phase = "fetching"
    BY <1>0 DEF RequestsOK, RequestRecord, Phase
  <2>2. request' = [request EXCEPT ![r] = record]
    BY <1>0, <1>2 DEF Arrive, RequestsOK
  <2> HIDE DEF record
  <2>3. RequestsOK'
    BY <1>0, <2>1, <2>2, StepType
  <2> QED BY <1>0, <1>2, <2>3, TypeParts DEF Arrive, files, history, FilesOK, HistoryOK
<1>3. ASSUME NEW r \in Request, NEW ts \in SUBSET Tournament, NEW t \in Tournament,
             SaveFails(r, ts, t) \/ CrashWhileSaving(r, ts, t)
      PROVE TypeOK'
  <2>1. SaveStops(r, ts, t) /\ RequestsOK'
    BY <1>0, <1>3, AnswerType, LoseType DEF SaveFails, CrashWhileSaving, Phase
  <2> QED BY <2>1, SaveStopsType, TypeParts
<1>4. CASE Crash
  BY <1>0, <1>4, LoseType, TypeParts DEF Crash, files, history, FilesOK, HistoryOK
<1>5. ASSUME NEW t \in Tournament, SaveTournamentRecord(t) PROVE TypeOK'
  <2>1. FilesOK' /\ HistoryOK'
    BY <1>0, <1>5 DEF SaveTournamentRecord, FilesOK, HistoryOK, File, Content
  <2>2. RequestsOK'
    BY <1>0, <1>5, SameQueue DEF SaveTournamentRecord, RequestsOK
  <2> QED BY <2>1, <2>2, TypeParts
<1>6. ASSUME NEW t \in Tournament, RemoveTournamentRecord(t) PROVE TypeOK'
  <2>1. FilesOK' /\ HistoryOK'
    BY <1>0, <1>6 DEF RemoveTournamentRecord, history, FilesOK, HistoryOK, File
  <2>2. RequestsOK'
    BY <1>0, <1>6, SameQueue DEF RemoveTournamentRecord, RequestsOK
  <2> QED BY <2>1, <2>2, TypeParts
<1>7. ASSUME NEW t \in Tournament, RemovalStops(t) PROVE TypeOK'
  <2>1. FilesOK' /\ HistoryOK'
    BY <1>0, <1>7 DEF RemovalStops, FilesOK, HistoryOK, File
  <2>2. RequestsOK'
    BY <1>0, <1>7, SameQueue, LoseType DEF RemovalStops, RequestsOK
  <2> QED BY <2>1, <2>2, TypeParts
<1>8. CASE UNCHANGED vars
  <2>1. RequestsOK'
    BY <1>0, <1>8, SameQueue DEF vars, RequestsOK
  <2> QED BY <1>0, <1>8, <2>1, TypeParts DEF vars, files, history, FilesOK, HistoryOK
<1> QED BY <1>1, <1>2, <1>3, <1>4, <1>5, <1>6, <1>7, <1>8 DEF Next

\* Every variable has its type, a queue that runs has everything that was found, and
\* an answered request holds nothing (executionQueue).
THEOREM TypeCorrect == Spec => []TypeOK
<1>1. Init => TypeOK
  BY InitType
<1>2. TypeOK /\ [Next]_vars => TypeOK'
  BY NextType
<1> QED BY <1>1, <1>2, PTL DEF Spec

-----------------------------------------------------------------------------
(* What the files hold.  A write reaches a file only when its request is   *)
(* over, by a save, and then with all the others to the same record; what  *)
(* an engine holds is the record as it was read and all of its own writes. *)

\* Requests that may have saved.
Over == {r \in Request : request[r].phase \in {"saved", "failed", "lost"}}

\* Content c of record t holds writes of the requests qs only, and no part of a
\* request's writes without the rest.
Clean(c, t, qs) ==
  /\ c \subseteq 1 .. made
  /\ \A w \in c : \E q \in qs : by[w] = <<q, t>>
  /\ \A q \in Request : c \cap WritesIn(q, t) \in {{}, WritesIn(q, t)}

FilesClean ==
  \A t \in Tournament :
    /\ codes[t] \notin {Missing, Torn} => Clean(codes[t], t, Over)
    /\ legacy[t] \in {Missing, {}}

CopyClean(r, t) ==
  t \in Held(r) => /\ Clean(request[r].records[t], t, Over \cup {r})
                   /\ WritesIn(r, t) \subseteq request[r].records[t]

\* Before its queue runs, and on records it does not hold, a request wrote nothing.
NothingYet(r, t) ==
  request[r].phase \in {"none", "fetching"} \/ (r \in InProgress /\ t \notin Held(r))
    => WritesIn(r, t) = {}

\* An engine that holds record t has, or was told of, all that is in its file.
Covered(r, t) ==
  r \in InProgress /\ t \in Held(r) /\ Existing(t) \notin {Missing, Torn}
    => Existing(t) \subseteq request[r].records[t] \cup missed[r]

PersistInv ==
  /\ TypeOK
  /\ FilesClean
  /\ \A r \in Request, t \in Tournament :
       CopyClean(r, t) /\ NothingYet(r, t) /\ Covered(r, t)

\* The older copy is never a writable one: only untouched records have it.
LEMMA ExistingClean ==
  ASSUME PersistInv, NEW t \in Tournament, Existing(t) \notin {Missing, Torn}
  PROVE  Clean(Existing(t), t, Over)
<1>1. CASE codes[t] # Missing
  BY <1>1 DEF Existing, PersistInv, FilesClean
<1>2. CASE codes[t] = Missing
  <2>1. Existing(t) = {}
    BY <1>2 DEF Existing, PersistInv, FilesClean
  <2> QED BY <2>1 DEF Clean
<1> QED BY <1>1, <1>2

\* Clean in the next state, for a content and requests given now.
CleanNext(c, t, qs) ==
  /\ c \subseteq 1 .. made'
  /\ \A w \in c : \E q \in qs : by'[w] = <<q, t>>
  /\ \A q \in Request : c \cap WritesIn(q, t)' \in {{}, WritesIn(q, t)'}

\* Content stays clean while nothing is written and no request it is from goes away.
LEMMA CleanStays ==
  ASSUME NEW c, NEW t \in Tournament, NEW qs, NEW rs,
         Clean(c, t, qs), qs \subseteq rs, UNCHANGED <<made, by>>
  PROVE  CleanNext(c, t, rs)
BY DEF Clean, CleanNext, WritesIn

\* The properties follow.
LEMMA PersistInvRefused == PersistInv => RefusedPersistsNothing
<1> SUFFICES ASSUME PersistInv, NEW r \in Request, request[r].phase = "refused",
                    NEW t \in Tournament, NEW u \in Tournament
             PROVE  /\ codes[u] \notin {Missing, Torn} => WritesIn(r, t) \cap codes[u] = {}
                    /\ legacy[u] \notin {Missing, Torn} => WritesIn(r, t) \cap legacy[u] = {}
  BY DEF RefusedPersistsNothing
<1>1. ASSUME codes[u] \notin {Missing, Torn}, NEW w \in WritesIn(r, t) \cap codes[u]
      PROVE  FALSE
  <2>1. PICK q \in Over : by[w] = <<q, u>>
    BY <1>1 DEF PersistInv, FilesClean, Clean
  <2>2. q = r
    BY <1>1, <2>1 DEF WritesIn
  <2> QED BY <2>1, <2>2 DEF Over
<1>2. legacy[u] \in {Missing, {}}
  BY DEF PersistInv, FilesClean
<1> QED BY <1>1, <1>2

LEMMA PersistInvWhole == PersistInv => WholeOrNothing
BY ExistingClean DEF WholeOrNothing, Clean

LEMMA InitPersistInv == Init => PersistInv
<1> SUFFICES ASSUME Init PROVE PersistInv
  OBVIOUS
<1>1. TypeOK
  BY InitType
<1>2. made = 0 /\ \A r \in Request, t \in Tournament : WritesIn(r, t) = {}
  BY DEF Init, WritesIn
<1>3. \A t \in Tournament : codes[t] \in {Missing, {}} /\ legacy[t] \in {Missing, {}}
  BY DEF Init
<1>4. FilesClean
  BY <1>3 DEF FilesClean, Clean
<1>5. ASSUME NEW r \in Request PROVE Held(r) = {}
  BY DEF Init, Held, NoRequest
<1>6. ASSUME NEW r \in Request, NEW t \in Tournament
      PROVE  CopyClean(r, t) /\ NothingYet(r, t) /\ Covered(r, t)
  BY <1>2, <1>5 DEF CopyClean, NothingYet, Covered
<1> QED BY <1>1, <1>4, <1>6 DEF PersistInv

\* A request in progress is answered or lost.
Answered(q) == q \in InProgress /\ request'[q].phase \in {"saved", "refused", "failed", "lost"}

\* Request p, answered by this step, saved its copy of record t, and the others missed it.
SavedBy(p, t) ==
  /\ t \in Held(p) /\ Answered(p) /\ request'[p].phase # "refused"
  /\ codes'[t] = request[p].records[t]
  /\ \A q \in InProgress \ {p} : request[p].records[t] \subseteq missed'[q]

\* A step without a new write, in which requests are only answered, files only
\* cleared, torn or saved, and older copies only dropped.
QuietStep ==
  /\ UNCHANGED <<made, by>>
  /\ \A q \in Request : request'[q] = request[q] \/ Answered(q)
  /\ \A q \in Request : missed[q] \subseteq missed'[q]
  /\ \A t \in Tournament :
       /\ codes'[t] \in {Missing, Torn, {}, codes[t]} \/ \E p \in Request : SavedBy(p, t)
       /\ legacy'[t] \in {Missing, legacy[t]}

LEMMA QuietStepPersistInv ==
  ASSUME PersistInv, TypeOK', QuietStep
  PROVE  PersistInv'
<1>1. UNCHANGED <<made, by>> /\ \A q \in Request, t \in Tournament : WritesIn(q, t)' = WritesIn(q, t)
  BY DEF QuietStep, WritesIn
<1>2. Over \subseteq Over'
  BY DEF QuietStep, Answered, Over, InProgress
<1>3. ASSUME NEW q \in Request, q \in InProgress'
      PROVE  request'[q] = request[q] /\ q \in InProgress
  BY <1>3 DEF QuietStep, Answered, InProgress
<1>4. ASSUME NEW q \in Request, NEW t \in Tournament, t \in Held(q)'
      PROVE  request'[q] = request[q] /\ t \in Held(q) /\ q \in InProgress'
  <2>1. q \in InProgress'
    BY <1>4 DEF TypeOK
  <2> QED BY <1>3, <1>4, <2>1 DEF Held
<1>5. ASSUME NEW t \in Tournament, NEW p \in Request, SavedBy(p, t)
      PROVE  Clean(request[p].records[t], t, Over \cup {p}) /\ p \in Over'
  BY <1>5 DEF PersistInv, CopyClean, SavedBy, Answered, Over
<1>6. FilesClean'
  <2> SUFFICES ASSUME NEW t \in Tournament
               PROVE  /\ codes'[t] \notin {Missing, Torn} => Clean(codes[t], t, Over)'
                      /\ legacy'[t] \in {Missing, {}}
    BY DEF FilesClean
  <2>1. legacy'[t] \in {Missing, {}}
    BY DEF QuietStep, PersistInv, FilesClean
  <2>2. CASE codes'[t] \in {Missing, Torn, {}}
    BY <2>1, <2>2 DEF Clean
  <2>3. CASE codes'[t] = codes[t] /\ codes[t] \notin {Missing, Torn}
    <3>1. Clean(codes[t], t, Over)
      BY <2>3 DEF PersistInv, FilesClean
    <3> DEFINE c == codes[t]
    <3>2. Clean(c, t, Over)
      BY <3>1
    <3> HIDE DEF c
    <3>3. CleanNext(c, t, Over')
      BY <1>1, <1>2, <3>2, CleanStays
    <3>4. codes'[t] = c
      BY <2>3 DEF c
    <3> QED BY <2>1, <3>3, <3>4 DEF Clean, CleanNext
  <2>4. ASSUME NEW p \in Request, SavedBy(p, t) PROVE Clean(codes[t], t, Over)'
    <3> DEFINE c == request[p].records[t]
    <3>1. Clean(c, t, Over \cup {p}) /\ Over \cup {p} \subseteq Over'
      BY <1>2, <1>5, <2>4
    <3> HIDE DEF c
    <3>2. CleanNext(c, t, Over')
      BY <1>1, <3>1, CleanStays
    <3>3. codes'[t] = c
      BY <2>4 DEF SavedBy, c
    <3> QED BY <3>2, <3>3 DEF Clean, CleanNext
  <2> QED BY <2>1, <2>2, <2>3, <2>4 DEF QuietStep
<1>7. ASSUME NEW q \in Request, NEW t \in Tournament PROVE CopyClean(q, t)'
  <2> SUFFICES ASSUME t \in Held(q)'
               PROVE  /\ Clean(request[q].records[t], t, Over \cup {q})'
                      /\ WritesIn(q, t)' \subseteq request'[q].records[t]
    BY DEF CopyClean
  <2> DEFINE c == request[q].records[t]
  <2>1. c = request'[q].records[t] /\ Clean(c, t, Over \cup {q}) /\ WritesIn(q, t) \subseteq c
    BY <1>4 DEF PersistInv, CopyClean
  <2> HIDE DEF c
  <2>2. Over \cup {q} \subseteq Over' \cup {q}
    BY <1>2
  <2>3. CleanNext(c, t, Over' \cup {q})
    BY <1>1, <2>1, <2>2, CleanStays
  <2> QED BY <1>1, <2>1, <2>3 DEF Clean, CleanNext
<1>8. ASSUME NEW q \in Request, NEW t \in Tournament PROVE NothingYet(q, t)'
  <2>1. CASE request'[q] = request[q]
    <3>1. NothingYet(q, t)
      BY DEF PersistInv
    <3>2. (q \in InProgress' <=> q \in InProgress) /\ Held(q)' = Held(q)
      BY <2>1 DEF InProgress, Held
    <3> QED BY <1>1, <2>1, <3>1, <3>2 DEF NothingYet
  <2>2. CASE Answered(q)
    BY <2>2 DEF Answered, NothingYet, InProgress
  <2> QED BY <2>1, <2>2 DEF QuietStep
<1>9. ASSUME NEW q \in Request, NEW t \in Tournament PROVE Covered(q, t)'
  <2> SUFFICES ASSUME q \in InProgress', t \in Held(q)', Existing(t)' \notin {Missing, Torn}
               PROVE  Existing(t)' \subseteq request'[q].records[t] \cup missed'[q]
    BY DEF Covered
  <2>1. request'[q] = request[q] /\ q \in InProgress /\ t \in Held(q) /\ missed[q] \subseteq missed'[q]
    BY <1>3, <1>4 DEF QuietStep
  <2>2. CASE codes'[t] = Missing
    BY <2>2, <1>6 DEF Existing, FilesClean
  <2>3. CASE codes'[t] = {}
    BY <2>3, <1>6 DEF Existing, FilesClean
  <2>4. CASE codes'[t] = codes[t] /\ codes[t] # Missing
    BY <2>1, <2>4 DEF PersistInv, Covered, Existing
  <2>5. ASSUME NEW p \in Request, SavedBy(p, t)
        PROVE  Existing(t)' \subseteq request'[q].records[t] \cup missed'[q]
    <3>1. q # p
      BY <2>5 DEF SavedBy, Answered, InProgress
    <3>2. codes'[t] = request[p].records[t] /\ request[p].records[t] # Missing
      BY <2>5 DEF SavedBy, Held
    <3> QED BY <2>1, <2>5, <3>1, <3>2 DEF SavedBy, Existing
  <2> QED BY <2>2, <2>3, <2>4, <2>5 DEF QuietStep, Existing
<1> QED BY <1>6, <1>7, <1>8, <1>9 DEF PersistInv

\* A request arrives, fetches a record or has fetched them all.
FetchingStep(r) ==
  /\ UNCHANGED <<codes, legacy, made, by, missed>>
  /\ \A q \in Request \ {r} : request'[q] = request[q]
  /\ request[r].phase \in {"none", "fetching"} /\ request'[r].phase \in {"fetching", "running"}
  /\ \A t \in Tournament :
       \/ request'[r].records[t] = request[r].records[t] /\ request[r].phase = request'[r].phase
       \/ request'[r].records[t] = request[r].records[t] /\ request[r].phase = "fetching"
       \/ request'[r].records[t] = request[r].records[t] /\ t \notin Held(r)
       \/ request'[r].records[t] = Existing(t) /\ Existing(t) # Torn

LEMMA FetchingStepPersistInv ==
  ASSUME PersistInv, TypeOK', NEW r \in Request, FetchingStep(r)
  PROVE  PersistInv'
<1>1. /\ UNCHANGED <<made, by>>
      /\ \A q \in Request, t \in Tournament : WritesIn(q, t)' = WritesIn(q, t)
      /\ \A t \in Tournament : WritesIn(r, t) = {}
  BY DEF FetchingStep, WritesIn, PersistInv, NothingYet
<1>2. Over' = Over
  BY DEF FetchingStep, Over
<1>3. ASSUME NEW q \in Request, q # r
      PROVE  request'[q] = request[q] /\ Held(q)' = Held(q) /\ (q \in InProgress' <=> q \in InProgress)
  BY <1>3 DEF FetchingStep, Held, InProgress
<1>4. ASSUME NEW c, NEW t \in Tournament, NEW qs PROVE Clean(c, t, qs) => CleanNext(c, t, qs)
  BY <1>1, CleanStays
<1>5. FilesClean'
  <2> SUFFICES ASSUME NEW t \in Tournament, codes'[t] \notin {Missing, Torn}
               PROVE  Clean(codes[t], t, Over)'
    BY DEF FilesClean, FetchingStep, PersistInv
  <2> DEFINE c == codes[t]
  <2>1. Clean(c, t, Over) /\ codes'[t] = c
    BY DEF FilesClean, FetchingStep, PersistInv
  <2> HIDE DEF c
  <2> QED BY <1>2, <1>4, <2>1 DEF Clean, CleanNext
<1>6. ASSUME NEW q \in Request, NEW t \in Tournament PROVE CopyClean(q, t)'
  <2> SUFFICES ASSUME t \in Held(q)'
               PROVE  /\ Clean(request[q].records[t], t, Over \cup {q})'
                      /\ WritesIn(q, t)' \subseteq request'[q].records[t]
    BY DEF CopyClean
  <2> DEFINE c == request'[q].records[t]
  <2>1. Clean(c, t, Over \cup {q}) /\ WritesIn(q, t) \subseteq c
    <3>1. CASE request'[q].records[t] = request[q].records[t]
      BY <3>1 DEF PersistInv, CopyClean, Held
    <3>2. CASE q = r /\ request'[q].records[t] = Existing(t) /\ Existing(t) # Torn
      <4>1. Existing(t) \notin {Missing, Torn}
        BY <3>2 DEF Held
      <4>2. Clean(Existing(t), t, Over)
        BY <4>1, ExistingClean
      <4> QED BY <1>1, <3>2, <4>2 DEF Clean
    <3> QED BY <1>3, <3>1, <3>2 DEF FetchingStep
  <2>2. c = request'[q].records[t]
    OBVIOUS
  <2> HIDE DEF c
  <2>3. CleanNext(c, t, Over \cup {q})
    BY <1>4, <2>1
  <2> QED BY <1>1, <1>2, <2>1, <2>2, <2>3 DEF Clean, CleanNext
<1>7. ASSUME NEW q \in Request, NEW t \in Tournament PROVE NothingYet(q, t)'
  <2>1. CASE q = r
    BY <1>1, <2>1 DEF NothingYet
  <2>2. CASE q # r
    BY <1>1, <1>3, <2>2 DEF PersistInv, NothingYet
  <2> QED BY <2>1, <2>2
<1>8. ASSUME NEW q \in Request, NEW t \in Tournament PROVE Covered(q, t)'
  <2> SUFFICES ASSUME q \in InProgress', t \in Held(q)', Existing(t) \notin {Missing, Torn}
               PROVE  Existing(t) \subseteq request'[q].records[t] \cup missed[q]
    BY DEF Covered, Existing, FetchingStep
  <2>1. CASE q # r
    BY <1>3, <2>1 DEF PersistInv, Covered
  <2>2. CASE q = r /\ request'[r].records[t] = request[r].records[t]
    <3>1. t \in Held(r) /\ r \in InProgress
      BY <2>2 DEF Held, InProgress, FetchingStep, PersistInv, TypeOK
    <3> QED BY <2>2, <3>1 DEF PersistInv, Covered
  <2>3. CASE q = r /\ request'[r].records[t] = Existing(t)
    BY <2>3
  <2> QED BY <2>1, <2>2, <2>3 DEF FetchingStep
<1> QED BY <1>5, <1>6, <1>7, <1>8 DEF PersistInv

\* A directive writes to one record its engine holds.
LEMMA DirectivePersistInv ==
  ASSUME PersistInv, TypeOK', NEW r \in Request, NEW t \in Tournament, DirectiveWrites(r, t)
  PROVE  PersistInv'
<1> USE DEF files
<1>1. made \in Nat /\ made' = made + 1 /\ made + 1 \in Write /\ r \in InProgress
  BY WriteAssumption DEF DirectiveWrites, PersistInv, TypeOK, InProgress, Write
<1>2. by' = [by EXCEPT ![made + 1] = <<r, t>>] /\ by \in [Write -> {<<>>} \cup (Request \X Tournament)]
  BY DEF DirectiveWrites, PersistInv, TypeOK
<1>3. /\ 1 .. made' = 1 .. made \cup {made + 1} /\ made + 1 \notin 1 .. made
      /\ 1 .. made \subseteq Write
  <2>1. \A n \in Nat : 1 .. (n + 1) = 1 .. n \cup {n + 1} /\ n + 1 \notin 1 .. n
    OBVIOUS
  <2>2. 1 .. made \subseteq Write
    BY <1>1, WriteAssumption DEF Write
  <2> QED BY <1>1, <2>1, <2>2
<1>4. /\ by'[made + 1] = <<r, t>>
      /\ \A w \in 1 .. made : by'[w] = by[w]
  BY <1>1, <1>2, <1>3
<1>5. /\ WritesIn(r, t)' = WritesIn(r, t) \cup {made + 1}
      /\ \A q \in Request, u \in Tournament : q # r \/ u # t => WritesIn(q, u)' = WritesIn(q, u)
      /\ \A q \in Request, u \in Tournament : WritesIn(q, u) \subseteq 1 .. made
  BY <1>3, <1>4 DEF WritesIn
<1>6. /\ request' = [request EXCEPT ![r].records[t] = @ \cup {made + 1}]
      /\ request \in [Request -> RequestRecord] /\ t \in Held(r) /\ UNCHANGED <<codes, legacy, missed>>
  BY DEF DirectiveWrites, PersistInv, TypeOK
<1>7. /\ request'[r].records[t] = request[r].records[t] \cup {made + 1}
      /\ \A q \in Request, u \in Tournament :
           q # r \/ u # t => request'[q].records[u] = request[q].records[u]
      /\ \A q \in Request : request'[q].phase = request[q].phase
  BY <1>6 DEF RequestRecord
<1>8. Over' = Over /\ InProgress' = InProgress /\ r \notin Over
  BY <1>1, <1>7 DEF Over, InProgress
<1>9. \A q \in Request : Held(q)' = Held(q)
  <2>1. request[r].records[t] \in Content
    BY <1>6, HeldContent DEF PersistInv
  <2>2. request'[r].records[t] # Missing
    BY <1>1, <1>7, <2>1, FileKinds DEF Content
  <2> QED BY <1>6, <1>7, <2>2 DEF Held
<1>10. FilesClean'
  <2> SUFFICES ASSUME NEW u \in Tournament, codes[u] \notin {Missing, Torn}
               PROVE  Clean(codes[u], u, Over)'
    BY <1>6 DEF FilesClean, PersistInv
  <2> DEFINE c == codes[u]
  <2>1. Clean(c, u, Over) /\ codes'[u] = c
    BY <1>6 DEF FilesClean, PersistInv
  <2> HIDE DEF c
  <2>2. c \subseteq 1 .. made /\ \A w \in c : \E q \in Over : by[w] = <<q, u>>
    BY <2>1 DEF Clean
  <2>3. made + 1 \notin c /\ c \cap WritesIn(r, u) = {}
    BY <1>3, <1>8, <2>2 DEF WritesIn
  <2>4. ASSUME NEW q \in Request PROVE c \cap WritesIn(q, u)' \in {{}, WritesIn(q, u)'}
    <3>1. CASE q = r
      BY <1>5, <2>3, <3>1
    <3>2. CASE q # r
      <4>1. WritesIn(q, u)' = WritesIn(q, u)
        BY <1>5, <3>2
      <4> QED BY <2>1, <4>1 DEF Clean
    <3> QED BY <3>1, <3>2
  <2>5. \A w \in c : \E q \in Over' : by'[w] = <<q, u>>
    BY <1>4, <1>8, <2>2
  <2> QED BY <1>3, <2>1, <2>2, <2>4, <2>5 DEF Clean
<1>11. ASSUME NEW q \in Request, NEW u \in Tournament PROVE CopyClean(q, u)'
  <2> SUFFICES ASSUME u \in Held(q)
               PROVE  /\ Clean(request[q].records[u], u, Over \cup {q})'
                      /\ WritesIn(q, u)' \subseteq request'[q].records[u]
    BY <1>9 DEF CopyClean
  <2> DEFINE c == request[q].records[u]
  <2>1. Clean(c, u, Over \cup {q}) /\ WritesIn(q, u) \subseteq c
    BY DEF PersistInv, CopyClean
  <2>2. c \subseteq 1 .. made /\ \A w \in c : \E p \in Over \cup {q} : by[w] = <<p, u>>
    BY <2>1 DEF Clean
  <2>3. CASE q = r /\ u = t
    <3> DEFINE d == request'[q].records[u]
    <3>1. d = c \cup {made + 1}
      BY <1>7, <2>3
    <3>2. WritesIn(q, u)' \subseteq d
      BY <1>5, <2>1, <2>3, <3>1
    <3>3. \A w \in d : \E p \in Over' \cup {q} : by'[w] = <<p, u>>
      BY <1>4, <1>8, <2>2, <2>3, <3>1
    <3>4. ASSUME NEW p \in Request PROVE d \cap WritesIn(p, u)' \in {{}, WritesIn(p, u)'}
      <4>1. CASE p = q
        BY <3>2, <4>1
      <4>2. CASE p # q
        <5>1. WritesIn(p, u)' = WritesIn(p, u) /\ made + 1 \notin WritesIn(p, u)
          BY <1>3, <1>5, <2>3, <4>2
        <5> QED BY <2>1, <3>1, <5>1 DEF Clean
      <4> QED BY <4>1, <4>2
    <3> QED BY <1>3, <2>2, <3>1, <3>2, <3>3, <3>4 DEF Clean
  <2>4. CASE ~(q = r /\ u = t)
    <3> HIDE DEF c
    <3>1. request'[q].records[u] = c /\ WritesIn(q, u)' = WritesIn(q, u)
      BY <1>5, <1>7, <2>4 DEF c
    <3>2. \A w \in c : \E p \in Over' \cup {q} : by'[w] = <<p, u>>
      BY <1>4, <1>8, <2>2
    <3>3. ASSUME NEW p \in Request PROVE c \cap WritesIn(p, u)' \in {{}, WritesIn(p, u)'}
      <4>1. CASE p = r /\ u = t
        <5>1. r \notin Over \cup {q}
          BY <1>8, <2>4, <4>1
        <5>2. c \cap WritesIn(p, u)' = {}
          BY <1>3, <1>5, <2>2, <4>1, <5>1 DEF WritesIn
        <5> QED BY <5>2
      <4>2. CASE ~(p = r /\ u = t)
        <5>1. WritesIn(p, u)' = WritesIn(p, u)
          BY <1>5, <4>2
        <5> QED BY <2>1, <5>1 DEF Clean
      <4> QED BY <4>1, <4>2
    <3> QED BY <1>3, <2>1, <2>2, <3>1, <3>2, <3>3 DEF Clean
  <2> QED BY <2>3, <2>4
<1>12. ASSUME NEW q \in Request, NEW u \in Tournament PROVE NothingYet(q, u)'
  <2>1. CASE q = r /\ u = t
    <3>1. request'[r].phase = "running"
      BY <1>7 DEF DirectiveWrites
    <3> QED BY <1>6, <1>9, <2>1, <3>1 DEF NothingYet
  <2>2. CASE ~(q = r /\ u = t)
    <3>1. WritesIn(q, u)' = WritesIn(q, u)
      BY <1>5, <2>2
    <3> QED BY <1>7, <1>8, <1>9, <3>1 DEF NothingYet, PersistInv
  <2> QED BY <2>1, <2>2
<1>13. ASSUME NEW q \in Request, NEW u \in Tournament PROVE Covered(q, u)'
  <2>1. request[q].records[u] \subseteq request'[q].records[u]
    BY <1>7
  <2>2. Existing(u)' = Existing(u)
    BY <1>6 DEF Existing
  <2> QED BY <1>6, <1>8, <1>9, <2>1, <2>2 DEF Covered, PersistInv
<1> QED BY <1>10, <1>11, <1>12, <1>13 DEF PersistInv

-----------------------------------------------------------------------------
(* The steps.                                                              *)

LEMMA AnsweredStep ==
  ASSUME TypeOK, NEW r \in Request, r \in InProgress,
         NEW outcome \in {"saved", "refused", "failed"}, Answer(r, outcome)
  PROVE  /\ Answered(r) /\ request'[r].phase = outcome
         /\ \A q \in Request : request'[q] = request[q] \/ Answered(q)
<1>1. request' = [request EXCEPT ![r] = [NoRequest EXCEPT !.phase = outcome]]
  BY DEF Answer
<1>2. request \in [Request -> RequestRecord]
  BY DEF TypeOK
<1>3. request'[r].phase = outcome
  BY <1>1, <1>2 DEF NoRequest
<1> QED BY <1>1, <1>2, <1>3 DEF Answered

LEMMA LostStep ==
  ASSUME TypeOK, Lose
  PROVE  \A q \in Request : IF q \in InProgress THEN Answered(q) /\ request'[q].phase = "lost"
                            ELSE request'[q] = request[q]
BY DEF Lose, Answered, NoRequest

\* What the others missed only grows.
LEMMA MissedStep ==
  ASSUME TypeOK, NEW r \in Request, NEW ts \in SUBSET Held(r), missed' = Missed(r, ts)
  PROVE  /\ \A q \in Request : missed[q] \subseteq missed'[q]
         /\ \A q \in InProgress \ {r}, t \in ts : request[r].records[t] \subseteq missed'[q]
BY DEF Missed, InProgress

\* A save that stops, with its request answered or lost.
LEMMA SaveStopsQuiet ==
  ASSUME PersistInv, NEW r \in Request, NEW ts \in SUBSET Tournament, NEW t \in Tournament,
         SaveFails(r, ts, t) \/ CrashWhileSaving(r, ts, t)
  PROVE  QuietStep
<1>1. SaveStops(r, ts, t) /\ r \in InProgress /\ TypeOK
  BY DEF SaveFails, CrashWhileSaving, SaveStops, InProgress, PersistInv
<1>2. /\ Answered(r) /\ request'[r].phase # "refused"
      /\ \A q \in Request : request'[q] = request[q] \/ Answered(q)
  <2>1. CASE Answer(r, "failed")
    BY <1>1, <2>1, AnsweredStep
  <2>2. CASE Lose
    BY <1>1, <2>2, LostStep
  <2> QED BY <2>1, <2>2 DEF SaveFails, CrashWhileSaving
<1>3. t \in Held(r) /\ ts \subseteq Held(r) /\ t \notin ts
  BY <1>1 DEF SaveStops
<1>4. PICK whole \in BOOLEAN :
        /\ codes' = [u \in Tournament |->
             IF u \in ts \/ (u = t /\ whole) THEN request[r].records[u]
             ELSE IF u = t THEN Torn ELSE codes[u]]
        /\ missed' = Missed(r, IF whole THEN ts \cup {t} ELSE ts)
  BY <1>1 DEF SaveStops
<1> DEFINE us == IF whole THEN ts \cup {t} ELSE ts
<1>5. us \in SUBSET Held(r) /\ missed' = Missed(r, us)
  BY <1>3, <1>4
<1>6. /\ \A q \in Request : missed[q] \subseteq missed'[q]
      /\ \A q \in InProgress \ {r}, u \in us : request[r].records[u] \subseteq missed'[q]
  BY <1>1, <1>5, MissedStep
<1>7. ASSUME NEW u \in Tournament
      PROVE  codes'[u] \in {Missing, Torn, {}, codes[u]} \/ SavedBy(r, u)
  <2>1. CASE u \in us
    BY <1>2, <1>4, <1>5, <1>6, <2>1 DEF SavedBy
  <2>2. CASE u \notin us
    BY <1>4, <2>2
  <2> QED BY <2>1, <2>2
<1>8. UNCHANGED <<made, by>> /\ \A u \in Tournament : legacy'[u] \in {Missing, legacy[u]}
  BY <1>1 DEF SaveStops
<1> QED BY <1>2, <1>6, <1>7, <1>8 DEF QuietStep

LEMMA StepPersistInv ==
  ASSUME PersistInv, TypeOK', NEW r \in Request, Step(r)
  PROVE  PersistInv'
<1> USE DEF files, history
<1>0. TypeOK
  BY DEF PersistInv
<1>1. ASSUME NEW t \in Tournament, FetchRecord(r, t) PROVE PersistInv'
  <2>1. request' = [request EXCEPT ![r].records[t] = Existing(t), ![r].todo = @ \ {t}]
        /\ request \in [Request -> RequestRecord] /\ request[r].phase = "fetching"
        /\ Existing(t) # Torn
    BY <1>0, <1>1 DEF FetchRecord, TypeOK
  <2>2. /\ request'[r].phase = "fetching"
        /\ request'[r].records[t] = Existing(t)
        /\ \A u \in Tournament \ {t} : request'[r].records[u] = request[r].records[u]
        /\ \A q \in Request \ {r} : request'[q] = request[q]
    BY <2>1 DEF RequestRecord
  <2>3. FetchingStep(r)
    BY <1>1, <2>1, <2>2 DEF FetchRecord, FetchingStep
  <2> QED BY <2>3, FetchingStepPersistInv
<1>2. ASSUME NEW t \in Tournament, FetchTorn(r, t) PROVE PersistInv'
  <2>1. \A q \in Request : request'[q] = request[q] \/ Answered(q)
    BY <1>0, <1>2, AnsweredStep DEF FetchTorn, InProgress
  <2>2. QuietStep
    BY <1>2, <2>1 DEF FetchTorn, QuietStep
  <2> QED BY <2>2, QuietStepPersistInv
<1>3. ASSUME NEW t \in Tournament, DirectiveWrites(r, t) PROVE PersistInv'
  BY <1>3, DirectivePersistInv
<1>4. CASE FetchEnds(r)
  <2>1. CASE Held(r) = {}
    <3>1. \A q \in Request : request'[q] = request[q] \/ Answered(q)
      BY <1>0, <1>4, <2>1, AnsweredStep DEF FetchEnds, InProgress
    <3>2. QuietStep
      BY <1>4, <3>1 DEF FetchEnds, QuietStep
    <3> QED BY <3>2, QuietStepPersistInv
  <2>2. CASE Held(r) # {}
    <3>1. request' = [request EXCEPT ![r].phase = "running"] /\ request \in [Request -> RequestRecord]
      BY <1>0, <1>4, <2>2 DEF FetchEnds, TypeOK
    <3>2. /\ request'[r].phase = "running" /\ request'[r].records = request[r].records
          /\ \A q \in Request \ {r} : request'[q] = request[q]
      BY <3>1 DEF RequestRecord
    <3>3. FetchingStep(r)
      BY <1>4, <3>2 DEF FetchEnds, FetchingStep
    <3> QED BY <3>3, FetchingStepPersistInv
  <2> QED BY <2>1, <2>2
<1>5. CASE QueueRefused(r)
  <2>1. \A q \in Request : request'[q] = request[q] \/ Answered(q)
    BY <1>0, <1>5, AnsweredStep DEF QueueRefused, InProgress
  <2>2. QuietStep
    BY <1>5, <2>1 DEF QueueRefused, QuietStep
  <2> QED BY <2>2, QuietStepPersistInv
<1>6. CASE QueueSaved(r)
  <2>1. /\ Answered(r) /\ request'[r].phase # "refused"
        /\ \A q \in Request : request'[q] = request[q] \/ Answered(q)
    BY <1>0, <1>6, AnsweredStep DEF QueueSaved, InProgress
  <2>2. /\ \A q \in Request : missed[q] \subseteq missed'[q]
        /\ \A q \in InProgress \ {r}, t \in Held(r) : request[r].records[t] \subseteq missed'[q]
    BY <1>0, <1>6, MissedStep DEF QueueSaved, Save
  <2>3. ASSUME NEW t \in Tournament PROVE codes'[t] = codes[t] \/ SavedBy(r, t)
    BY <1>6, <2>1, <2>2 DEF QueueSaved, Save, SavedBy
  <2>4. QuietStep
    BY <1>6, <2>1, <2>2, <2>3 DEF QueueSaved, Save, QuietStep
  <2> QED BY <2>4, QuietStepPersistInv
<1> QED BY <1>1, <1>2, <1>3, <1>4, <1>5, <1>6 DEF Step

LEMMA NextPersistInv == PersistInv /\ [Next]_vars => PersistInv'
<1> SUFFICES ASSUME PersistInv, [Next]_vars PROVE PersistInv'
  OBVIOUS
<1>0. TypeOK /\ TypeOK'
  BY NextType DEF PersistInv
<1>1. ASSUME NEW r \in Request, Step(r) PROVE PersistInv'
  BY <1>0, <1>1, StepPersistInv
<1>2. ASSUME NEW r \in Request, NEW ids \in SUBSET Tournament \ {{}}, Arrive(r, ids) PROVE PersistInv'
  <2>1. /\ request[r].phase = "none"
        /\ request' = [request EXCEPT ![r].phase = "fetching", ![r].todo = ids]
        /\ request \in [Request -> RequestRecord]
    BY <1>0, <1>2 DEF Arrive, TypeOK
  <2>2. /\ request'[r].phase = "fetching" /\ request'[r].records = request[r].records
        /\ \A q \in Request \ {r} : request'[q] = request[q]
    BY <2>1 DEF RequestRecord
  <2>3. Held(r) = {}
    BY <1>0, <2>1 DEF TypeOK, InProgress
  <2>4. FetchingStep(r)
    BY <1>2, <2>1, <2>2, <2>3 DEF Arrive, files, history, FetchingStep
  <2> QED BY <1>0, <2>4, FetchingStepPersistInv
<1>3. ASSUME NEW r \in Request, NEW ts \in SUBSET Tournament, NEW t \in Tournament,
             SaveFails(r, ts, t) \/ CrashWhileSaving(r, ts, t)
      PROVE  PersistInv'
  BY <1>0, <1>3, SaveStopsQuiet, QuietStepPersistInv
<1>4. CASE Crash
  <2>1. \A q \in Request : request'[q] = request[q] \/ Answered(q)
    BY <1>0, <1>4, LostStep DEF Crash
  <2>2. QuietStep
    BY <1>4, <2>1 DEF Crash, files, history, QuietStep
  <2> QED BY <1>0, <2>2, QuietStepPersistInv
<1>5. ASSUME NEW t \in Tournament, SaveTournamentRecord(t) \/ RemoveTournamentRecord(t)
      PROVE  PersistInv'
  <2>1. QuietStep
    BY <1>0, <1>5 DEF SaveTournamentRecord, RemoveTournamentRecord, history, QuietStep, TypeOK
  <2> QED BY <1>0, <2>1, QuietStepPersistInv
<1>6. ASSUME NEW t \in Tournament, RemovalStops(t) PROVE PersistInv'
  <2>1. \A q \in Request : request'[q] = request[q] \/ Answered(q)
    BY <1>0, <1>6, LostStep DEF RemovalStops
  <2>2. QuietStep
    BY <1>0, <1>6, <2>1 DEF RemovalStops, QuietStep, TypeOK
  <2> QED BY <1>0, <2>2, QuietStepPersistInv
<1>7. CASE UNCHANGED vars
  <2>1. QuietStep
    BY <1>7 DEF vars, files, history, QuietStep
  <2> QED BY <1>0, <2>1, QuietStepPersistInv
<1> QED BY <1>1, <1>2, <1>3, <1>4, <1>5, <1>6, <1>7 DEF Next

\* The invariant from which the properties of the files follow.
THEOREM PersistInvHolds == Spec => []PersistInv
<1>1. Init => PersistInv
  BY InitPersistInv
<1>2. PersistInv /\ [Next]_vars => PersistInv'
  BY NextPersistInv
<1> QED BY <1>1, <1>2, PTL DEF Spec

\* A queue refused part-way persists nothing (executionQueue, saveTournamentRecords).
THEOREM RefusedQueuesPersistNothing == Spec => []RefusedPersistsNothing
BY PersistInvHolds, PersistInvRefused, PTL

\* A file that can be read holds all of a request's writes to the record or none.
THEOREM FilesAreWhole == Spec => []WholeOrNothing
BY PersistInvHolds, PersistInvWhole, PTL

-----------------------------------------------------------------------------
(* The older copies.                                                       *)

LEMMA NextHidden == TypeOK /\ OldCopyStaysHidden /\ [Next]_vars => OldCopyStaysHidden'
<1> SUFFICES ASSUME TypeOK, OldCopyStaysHidden, [Next]_vars,
                    NEW u \in Tournament, codes'[u] = Missing, legacy'[u] # Missing
             PROVE  u \notin written' \/ u \in cut'
  BY DEF OldCopyStaysHidden
<1> USE DEF files, history
<1>1. ASSUME UNCHANGED <<codes, legacy, written, cut>> PROVE u \notin written' \/ u \in cut'
  BY <1>1 DEF OldCopyStaysHidden
<1>2. ASSUME NEW r \in Request, NEW ts \in SUBSET Held(r), Save(r, ts), cut' = cut
      PROVE  u \notin written' \/ u \in cut'
  <2>1. u \notin ts
    BY <1>2 DEF Save
  <2>2. codes[u] = Missing /\ legacy[u] # Missing
    BY <1>2, <2>1 DEF Save
  <2> QED BY <1>2, <2>1, <2>2 DEF Save, OldCopyStaysHidden
<1>3. ASSUME NEW r \in Request, NEW ts \in SUBSET Tournament, NEW t \in Tournament, SaveStops(r, ts, t)
      PROVE  u \notin written' \/ u \in cut'
  <2>1. request[r].records[t] # Missing /\ Torn # Missing
    BY <1>3, FileAssumption DEF SaveStops, Held
  <2>2. u # t /\ u \notin ts
    BY <1>3, <2>1 DEF SaveStops
  <2>3. codes[u] = Missing /\ legacy[u] # Missing
    BY <1>3, <2>2 DEF SaveStops
  <2> QED BY <1>3, <2>2, <2>3 DEF SaveStops, OldCopyStaysHidden
<1>4. ASSUME NEW r \in Request, Step(r) PROVE u \notin written' \/ u \in cut'
  <2>1. CASE QueueSaved(r)
    <3>1. Save(r, Held(r)) /\ cut' = cut
      BY <2>1 DEF QueueSaved
    <3> QED BY <1>2, <3>1
  <2>2. CASE ~QueueSaved(r)
    BY <1>1, <1>4, <2>2 DEF Step, FetchRecord, FetchTorn, DirectiveWrites, FetchEnds, QueueRefused
  <2> QED BY <2>1, <2>2
<1>5. ASSUME NEW t \in Tournament, SaveTournamentRecord(t) PROVE u \notin written' \/ u \in cut'
  <2>1. u # t
    BY <1>5 DEF SaveTournamentRecord, TypeOK
  <2> QED BY <1>5, <2>1 DEF SaveTournamentRecord, OldCopyStaysHidden, TypeOK
<1>6. ASSUME NEW t \in Tournament, RemoveTournamentRecord(t) PROVE u \notin written' \/ u \in cut'
  BY <1>6 DEF RemoveTournamentRecord, OldCopyStaysHidden, TypeOK
<1>7. ASSUME NEW t \in Tournament, RemovalStops(t) PROVE u \notin written' \/ u \in cut'
  BY <1>7 DEF RemovalStops, OldCopyStaysHidden, TypeOK
<1>8. CASE Crash \/ UNCHANGED vars \/ \E r \in Request, ids \in SUBSET Tournament : Arrive(r, ids)
  BY <1>1, <1>8 DEF Crash, Arrive, vars
<1> QED BY <1>3, <1>4, <1>5, <1>6, <1>7, <1>8 DEF Next, SaveFails, CrashWhileSaving

\* An older copy that was shadowed comes back only by a removal cut between the two
\* files (saveTournamentRecords, removeTournamentRecords).
THEOREM OldCopiesStayHidden == Spec => []OldCopyStaysHidden
<1>1. Init => OldCopyStaysHidden
  BY DEF Init, OldCopyStaysHidden
<1>2. TypeOK /\ OldCopyStaysHidden /\ [Next]_vars => OldCopyStaysHidden'
  BY NextHidden
<1> QED BY <1>1, <1>2, TypeCorrect, PTL DEF Spec

-----------------------------------------------------------------------------
(* Lost updates.                                                           *)

\* Unless it saves it, a request that ends leaves a record as it is.
LostTo(r, t) ==
  /\ request'[r].phase \in {"saved", "failed"}
  /\ Existing(t) \notin {Missing, Torn} /\ Existing(t)' \notin {Missing, Torn}
  => Existing(t) \ Existing(t)' \subseteq missed[r]

LEMMA SaveLosesMissed ==
  ASSUME PersistInv, NEW r \in Request, r \in InProgress, NEW t \in Tournament, t \in Held(r),
         codes'[t] = request[r].records[t], Existing(t) \notin {Missing, Torn}
  PROVE  Existing(t) \ Existing(t)' \subseteq missed[r]
<1>1. Existing(t)' = request[r].records[t]
  BY DEF Existing, Held
<1> QED BY <1>1 DEF PersistInv, Covered

LEMMA NextLost ==
  ASSUME PersistInv, Next, NEW r \in Request, r \in InProgress, NEW t \in Tournament
  PROVE  LostTo(r, t)
<1> SUFFICES ASSUME request'[r].phase \in {"saved", "failed"},
                    Existing(t) \notin {Missing, Torn}, Existing(t)' \notin {Missing, Torn}
             PROVE  Existing(t) \ Existing(t)' \subseteq missed[r]
  BY DEF LostTo
<1> USE DEF files, history
<1>0. TypeOK /\ request \in [Request -> RequestRecord] /\ request[r].phase \in {"fetching", "running"}
  BY DEF PersistInv, TypeOK, InProgress
<1>1. ASSUME UNCHANGED <<codes, legacy>> PROVE Existing(t) \ Existing(t)' \subseteq missed[r]
  BY <1>1 DEF Existing
<1>2. ASSUME NEW q \in Request, q # r, request'[r] # request[r], ~Lose PROVE ~Step(q) /\ 
             \A ts \in SUBSET Tournament, u \in Tournament : ~SaveFails(q, ts, u)
  BY <1>0, <1>2 DEF Step, FetchRecord, FetchTorn, DirectiveWrites, FetchEnds, QueueRefused,
     QueueSaved, SaveFails, Answer
<1>3. request'[r] # request[r]
  BY <1>0
<1>4. ~Lose
  BY DEF Lose, NoRequest
<1>5. CASE Step(r)
  <2>1. CASE QueueSaved(r)
    <3>1. CASE t \in Held(r)
      BY <2>1, <3>1, SaveLosesMissed DEF QueueSaved, Save
    <3>2. CASE t \notin Held(r)
      BY <2>1, <3>2 DEF QueueSaved, Save, Existing
    <3> QED BY <3>1, <3>2
  <2>2. CASE ~QueueSaved(r)
    BY <1>0, <1>1, <1>5, <2>2 DEF Step, FetchRecord, FetchTorn, FetchEnds, QueueRefused, DirectiveWrites, RequestRecord
  <2> QED BY <2>1, <2>2
<1>6. ASSUME NEW ts \in SUBSET Tournament, NEW u \in Tournament, SaveFails(r, ts, u)
      PROVE  Existing(t) \ Existing(t)' \subseteq missed[r]
  <2>1. SaveStops(r, ts, u) /\ u \in Held(r) /\ ts \subseteq Held(r)
    BY <1>6 DEF SaveFails, SaveStops
  <2>2. CASE t \in ts
    BY <2>1, <2>2, SaveLosesMissed DEF SaveStops
  <2>3. CASE t = u /\ t \notin ts
    <3>1. codes'[t] = request[r].records[t] \/ codes'[t] = Torn
      BY <2>1, <2>3 DEF SaveStops
    <3>2. codes'[t] # Torn
      BY FileAssumption DEF Existing
    <3> QED BY <2>1, <2>3, <3>1, <3>2, SaveLosesMissed
  <2>4. CASE t # u /\ t \notin ts
    BY <2>1, <2>4 DEF SaveStops, Existing
  <2> QED BY <2>2, <2>3, <2>4
<1>7. ~ \E u \in Tournament : SaveTournamentRecord(u) \/ RemoveTournamentRecord(u) \/ RemovalStops(u)
  BY <1>3, <1>4 DEF SaveTournamentRecord, RemoveTournamentRecord, RemovalStops
<1>8. ASSUME NEW q \in Request, NEW ids \in SUBSET Tournament, Arrive(q, ids) PROVE FALSE
  <2>1. q = r
    BY <1>0, <1>3, <1>8 DEF Arrive
  <2> QED BY <1>0, <1>8, <2>1 DEF Arrive
<1>9. ~Crash /\ ~ \E q \in Request, ts \in SUBSET Tournament, u \in Tournament : CrashWhileSaving(q, ts, u)
  BY <1>4 DEF Crash, CrashWhileSaving
<1> QED BY <1>2, <1>3, <1>4, <1>5, <1>6, <1>7, <1>8, <1>9 DEF Next

\* A request that saves overwrites only what others saved while it was in progress
\* (executionQueue, saveTournamentRecords).
THEOREM OverwritesOnlyOverlap == Spec => LostOnlyToOverlap
<1> DEFINE Losses == \A r \in InProgress, t \in Tournament :
       /\ request'[r].phase \in {"saved", "failed"}
       /\ Existing(t) \notin {Missing, Torn} /\ Existing(t)' \notin {Missing, Torn}
       => Existing(t) \ Existing(t)' \subseteq missed[r]
<1>1. PersistInv /\ Next => Losses
  BY NextLost DEF LostTo, InProgress
<1>2. PersistInv /\ [Next]_vars => [Losses]_vars
  BY <1>1
<1> QED BY <1>2, PersistInvHolds, PTL DEF Spec, LostOnlyToOverlap
=============================================================================
