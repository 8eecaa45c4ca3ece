-------------------------- MODULE SanctioningProofs --------------------------
(***************************************************************************)
(* For any fields, changes, events, endorsers and policies: an application *)
(* is well typed, its endorsements are what the calls about them answered, *)
(* the fields a policy protects change only by review, and the tournament  *)
(* has the ids that were handed out for registration and not replaced by a *)
(* client.                                                                 *)
(***************************************************************************)
EXTENDS Sanctioning, SequenceTheorems, TLAPS

LEMMA Statuses ==
  /\ Status = {"DRAFT", "SUBMITTED", "UNDER_REVIEW", "APPROVED", "CONDITIONALLY_APPROVED",
               "REJECTED", "WITHDRAWN", "MODIFICATION_REQUESTED", "ACTIVE", "POST_EVENT",
               "CLOSED", "ISSUES_FLAGGED"}
  /\ \A s \in Status : Transition[s] \subseteq Status
<1>1. Status = {"DRAFT", "SUBMITTED", "UNDER_REVIEW", "APPROVED", "CONDITIONALLY_APPROVED",
                "REJECTED", "WITHDRAWN", "MODIFICATION_REQUESTED", "ACTIVE", "POST_EVENT",
                "CLOSED", "ISSUES_FLAGGED"}
  BY DEF Status, Transition
<1>2. ASSUME NEW s \in Status PROVE Transition[s] \subseteq Status
  BY <1>1 DEF Transition
<1> QED BY <1>1, <1>2

\* What a proposal's events map to ids.
LEMMA EventIdsMeans ==
  ASSUME NEW ids, NEW f
  PROVE  f \in EventIdsOf(ids) <=> DOMAIN f \subseteq Event /\ f \in [DOMAIN f -> ids]
BY DEF EventIdsOf

\* A sequence's elements, and a sequence with others in their places.
LEMMA SeqMeans ==
  ASSUME NEW S, NEW s \in Seq(S)
  PROVE  /\ Len(s) \in Nat /\ DOMAIN s = 1 .. Len(s)
         /\ \A i \in DOMAIN s : s[i] \in S
         /\ \A f \in [DOMAIN s -> S] : f \in Seq(S) /\ Len(f) = Len(s)
<1>1. Len(s) \in Nat /\ DOMAIN s = 1 .. Len(s) /\ \A i \in DOMAIN s : s[i] \in S
  OBVIOUS
<1>2. ASSUME NEW f \in [DOMAIN s -> S] PROVE f \in Seq(S) /\ Len(f) = Len(s)
  BY <1>1, SeqDef, LenProperties
<1> QED BY <1>1, <1>2

\* Changes give fields values, and events ids.
LEMMA ChangesApply ==
  ASSUME TypeOK, NEW c \in Change
  PROVE  /\ ApplyChanges(c) \in [Field -> Value] /\ AgreedOn(c) \in [Field -> Value]
         /\ IdsWritten(c) \in EventIdsOf(Id \cup {NoId})
         /\ StillPromised(c) \in [Event -> SUBSET Id]
<1>1. c.value \in Value /\ c.ids \in EventIdsOf(ClientId \cup {NoId})
  BY ProposalAssumption
<1>2. \A e \in DOMAIN c.ids : c.ids[e] \in Id \cup {NoId}
  BY <1>1, EventIdsMeans DEF Id
<1>3. DOMAIN events \subseteq Event /\ \A e \in DOMAIN events : events[e] \in Id \cup {NoId}
  BY EventIdsMeans DEF TypeOK
<1>4. IdsWritten(c) \in EventIdsOf(Id \cup {NoId})
  <2>1. DOMAIN IdsWritten(c) = DOMAIN events
        /\ IdsWritten(c) \in [DOMAIN events -> Id \cup {NoId}]
    BY <1>2, <1>3 DEF IdsWritten
  <2> QED BY <1>3, <2>1, EventIdsMeans
<1>5. StillPromised(c) \in [Event -> SUBSET Id]
  BY DEF StillPromised, TypeOK
<1> QED BY <1>1, <1>4, <1>5 DEF ApplyChanges, AgreedOn, TypeOK

\* An amendment applied, or not, keeps the types of what it changes.
LEMMA AmendmentsApply ==
  ASSUME TypeOK, NEW c \in Change, NEW approved, Applies(c, approved)
  PROVE  /\ proposal' \in [Field -> Value] /\ events' \in EventIdsOf(Id \cup {NoId})
         /\ promised' \in [tournament : SUBSET Id, events : [Event -> SUBSET Id]]
<1>1. CASE approved
  <2>1. StillPromised(c) \in [Event -> SUBSET Id]
    BY ChangesApply
  <2>2. promised' \in [tournament : SUBSET Id, events : [Event -> SUBSET Id]]
    BY <1>1, <2>1 DEF Applies, TypeOK
  <2> QED BY <1>1, <2>2, ChangesApply DEF Applies
<1>2. CASE ~approved
  BY <1>2 DEF Applies, TypeOK
<1> QED BY <1>1, <1>2

\* Registration opened once more mints an id that can still be given.
LEMMA IdsMinted ==
  ASSUME openings \in 0 .. MaxOpenings
  PROVE  /\ openings < MaxOpenings => Minted \in Id
         /\ MintedAtActivation \in Id
         /\ NoId \notin Id
BY BoundAssumption, ProposalAssumption DEF Minted, MintedAtActivation, Id, NoId

-----------------------------------------------------------------------------
(* Types.                                                                  *)

LEMMA TransitionType ==
  ASSUME TypeOK, NEW to, OnlyTransitions(to)
  PROVE  TypeOK'
BY Statuses DEF OnlyTransitions, TransitionStatus, TypeOK, historyVars

LEMMA InitType == Init => TypeOK
<1> SUFFICES ASSUME Init PROVE TypeOK
  OBVIOUS
<1>1. events \in EventIdsOf(Id \cup {NoId})
  <2>1. PICK S \in SUBSET Event : events = [e \in S |-> NoId]
    BY DEF Init
  <2> QED BY <2>1, EventIdsMeans
<1>2. status \in Status
  BY Statuses DEF Init
<1>3. proposal \in [Field -> Value] /\ agreed \in [Field -> Value]
  BY ProposalAssumption DEF Init
<1>4. promised \in [tournament : SUBSET Id, events : [Event -> SUBSET Id]]
  BY DEF Init
<1>5. answered \in [Endorser -> {"nothing", "PENDING", "ENDORSED", "DECLINED", "lost"}]
  BY DEF Init
<1>6. openings \in 0 .. MaxOpenings
  BY BoundAssumption DEF Init
<1>7. /\ endorsements \in Seq(Endorsement) /\ conditions \in Seq(BOOLEAN)
      /\ amendments \in Seq(Amendment)
      /\ Len(conditions) <= MaxConditions /\ Len(amendments) <= MaxAmendments
  BY BoundAssumption DEF Init
<1> QED BY <1>1, <1>2, <1>3, <1>4, <1>5, <1>6, <1>7 DEF Init, TypeOK

LEMMA ProposingType ==
  ASSUME TypeOK, Proposing
  PROVE  TypeOK'
<1>1. ASSUME NEW c \in Change, NEW id \in ClientId \cup {NoId, tournamentId}, UpdateProposal(c, id)
      PROVE  TypeOK'
  <2>1. tournamentId' \in Id \cup {NoId}
    BY <1>1 DEF UpdateProposal, TypeOK, Id
  <2>2. promised' \in [tournament : SUBSET Id, events : [Event -> SUBSET Id]]
    BY <1>1, ChangesApply DEF UpdateProposal, TypeOK
  <2>3. proposal' \in [Field -> Value] /\ events' \in EventIdsOf(Id \cup {NoId})
    BY <1>1, ChangesApply DEF UpdateProposal
  <2> QED BY <1>1, <2>1, <2>2, <2>3 DEF UpdateProposal, TypeOK
<1>2. ASSUME NEW e \in Event, AddEventProposal(e) PROVE TypeOK'
  <2>1. DOMAIN events \subseteq Event /\ \A x \in DOMAIN events : events[x] \in Id \cup {NoId}
    BY EventIdsMeans DEF TypeOK
  <2>2. events' \in EventIdsOf(Id \cup {NoId})
    <3>1. events' = [x \in DOMAIN events \cup {e} |-> IF x = e THEN NoId ELSE events[x]]
      BY <1>2 DEF AddEventProposal
    <3>2. DOMAIN events' \subseteq Event /\ events' \in [DOMAIN events' -> Id \cup {NoId}]
      BY <2>1, <3>1
    <3> QED BY <3>2, EventIdsMeans
  <2> QED BY <1>2, <2>2 DEF AddEventProposal, TypeOK, historyVars
<1>3. ASSUME NEW e \in Event, RemoveEventProposal(e) PROVE TypeOK'
  <2>1. events' \in EventIdsOf(Id \cup {NoId})
    <3>1. DOMAIN events \subseteq Event /\ \A x \in DOMAIN events : events[x] \in Id \cup {NoId}
      BY EventIdsMeans DEF TypeOK
    <3>2. events' = [x \in DOMAIN events \ {e} |-> events[x]]
      BY <1>3 DEF RemoveEventProposal
    <3>3. DOMAIN events' \subseteq Event /\ events' \in [DOMAIN events' -> Id \cup {NoId}]
      BY <3>1, <3>2
    <3> QED BY <3>3, EventIdsMeans
  <2>2. promised' \in [tournament : SUBSET Id, events : [Event -> SUBSET Id]]
    BY <1>3 DEF RemoveEventProposal, TypeOK
  <2> QED BY <1>3, <2>1, <2>2 DEF RemoveEventProposal, TypeOK
<1> QED BY <1>1, <1>2, <1>3 DEF Proposing

LEMMA EndorsingType ==
  ASSUME TypeOK, Endorsing
  PROVE  TypeOK'
<1>1. ASSUME NEW e \in Endorser, RequestEndorsement(e) PROVE TypeOK'
  <2>1. [endorser |-> e, status |-> "PENDING"] \in Endorsement
    BY DEF Endorsement
  <2>2. endorsements' \in Seq(Endorsement)
    <3>1. CASE EntryOf(e) = {}
      BY <1>1, <2>1, <3>1, AppendProperties DEF RequestEndorsement, TypeOK
    <3>2. CASE EntryOf(e) # {}
      <4>1. endorsements' \in [DOMAIN endorsements -> Endorsement]
        BY <1>1, <2>1, <3>2, SeqMeans DEF RequestEndorsement, TypeOK
      <4> QED BY <4>1, SeqMeans DEF TypeOK
    <3> QED BY <3>1, <3>2
  <2> QED BY <1>1, <2>2 DEF RequestEndorsement, TypeOK
<1>2. ASSUME NEW answer \in {"ENDORSED", "DECLINED"}, NEW i \in DOMAIN endorsements
      PROVE  [endorsements EXCEPT ![i].status = answer] \in Seq(Endorsement)
  <2>1. endorsements \in Seq(Endorsement)
    BY DEF TypeOK
  <2>2. \A j \in DOMAIN endorsements : endorsements[j] \in Endorsement
    BY <2>1, SeqMeans
  <2>3. [endorsements EXCEPT ![i].status = answer] \in [DOMAIN endorsements -> Endorsement]
    BY <2>2 DEF Endorsement
  <2> QED BY <2>1, <2>3, SeqMeans
<1>3. ASSUME NEW answer \in {"ENDORSED", "DECLINED"}, AnswerUnnamed(answer) PROVE TypeOK'
  <2>1. 1 \in DOMAIN endorsements /\ endorsements[1].endorser \in Endorser
    <3>1. endorsements \in Seq(Endorsement) /\ endorsements # <<>>
      BY <1>3 DEF AnswerUnnamed, TypeOK
    <3>2. 1 \in DOMAIN endorsements
      BY <3>1, EmptySeq
    <3>3. endorsements[1] \in Endorsement
      BY <3>1, <3>2, SeqMeans
    <3> QED BY <3>2, <3>3 DEF Endorsement
  <2>2. endorsements' \in Seq(Endorsement) /\ detached' = FALSE
    BY <1>2, <1>3, <2>1 DEF AnswerUnnamed, AnswerAndSync, TypeOK
  <2> QED BY <1>3, <2>1, <2>2 DEF AnswerUnnamed, TypeOK
<1>4. ASSUME NEW answer \in {"ENDORSED", "DECLINED"}, NEW e \in Endorser, AnswerNamed(e, answer)
      PROVE  TypeOK'
  <2>1. endorsements' \in Seq(Endorsement) /\ detached' = FALSE
    BY <1>2, <1>4 DEF AnswerNamed, AnswerAndSync, EntryOf
  <2> QED BY <1>4, <2>1 DEF AnswerNamed, TypeOK
<1>5. CASE InstallCopy
  BY <1>5 DEF InstallCopy, TypeOK, historyVars
<1> QED BY <1>1, <1>3, <1>4, <1>5 DEF Endorsing

LEMMA ApplyingType ==
  ASSUME TypeOK, Applying
  PROVE  TypeOK'
<1>1. ASSUME NEW policy \in Policy \cup {NoPolicy}, SubmitApplication(policy) PROVE TypeOK'
  BY <1>1, Statuses DEF SubmitApplication, TransitionStatus, TypeOK
<1>2. CASE ConditionallyApprove
  <2>1. conditions' \in Seq(BOOLEAN) /\ Len(conditions') <= MaxConditions
    BY <1>2, BoundAssumption DEF ConditionallyApprove, TypeOK
  <2> QED BY <1>2, <2>1, Statuses DEF ConditionallyApprove, TransitionStatus, TypeOK, historyVars
<1>3. ASSUME NEW i, MeetCondition(i) PROVE TypeOK'
  <2>1. conditions' \in Seq(BOOLEAN) /\ Len(conditions') <= MaxConditions
    BY <1>3 DEF MeetCondition, TypeOK
  <2> QED BY <1>3, <2>1 DEF MeetCondition, TypeOK, historyVars
<1>4. ASSUME NEW to, OnlyTransitions(to) PROVE TypeOK'
  BY <1>4, TransitionType
<1> QED BY <1>1, <1>2, <1>3, <1>4
        DEF Applying, ReviewApplication, ApproveApplication, RejectApplication,
            WithdrawApplication, RequestModification

LEMMA AmendingType ==
  ASSUME TypeOK, Amending
  PROVE  TypeOK'
<1>1. ASSUME NEW c \in Change, NEW own, NEW weeks, ProposeAmendment(c, own, weeks) PROVE TypeOK'
  <2>1. amendments' \in Seq(Amendment) /\ Len(amendments') <= MaxAmendments
    BY <1>1, BoundAssumption DEF ProposeAmendment, TypeOK, Amendment
  <2>2. /\ proposal' \in [Field -> Value] /\ events' \in EventIdsOf(Id \cup {NoId})
        /\ promised' \in [tournament : SUBSET Id, events : [Event -> SUBSET Id]]
    BY <1>1, AmendmentsApply DEF ProposeAmendment
  <2>3. agreed' \in [Field -> Value]
    BY <1>1, ChangesApply DEF ProposeAmendment, TypeOK
  <2> QED BY <1>1, <2>1, <2>2, <2>3 DEF ProposeAmendment, TypeOK
<1>2. ASSUME NEW i, NEW approved \in BOOLEAN, ReviewAmendment(i, approved) PROVE TypeOK'
  <2>1. amendments[i] \in Amendment /\ amendments[i].changes \in Change
    <3>1. i \in DOMAIN amendments /\ amendments \in Seq(Amendment)
      BY <1>2 DEF ReviewAmendment, TypeOK
    <3>2. amendments[i] \in Amendment
      BY <3>1, SeqMeans
    <3> QED BY <3>2 DEF Amendment
  <2>2. amendments' \in Seq(Amendment) /\ Len(amendments') <= MaxAmendments
    <3>1. amendments \in Seq(Amendment) /\ Len(amendments) <= MaxAmendments
      BY DEF TypeOK
    <3>2. \A j \in DOMAIN amendments : amendments[j] \in Amendment
      BY <3>1, SeqMeans
    <3>3. amendments' \in [DOMAIN amendments -> Amendment]
      BY <1>2, <3>2 DEF ReviewAmendment, Amendment
    <3> QED BY <3>1, <3>3, SeqMeans
  <2>3. /\ proposal' \in [Field -> Value] /\ events' \in EventIdsOf(Id \cup {NoId})
        /\ promised' \in [tournament : SUBSET Id, events : [Event -> SUBSET Id]]
    BY <1>2, <2>1, AmendmentsApply DEF ReviewAmendment
  <2>4. agreed' \in [Field -> Value]
    BY <1>2, <2>1, ChangesApply DEF ReviewAmendment, TypeOK
  <2> QED BY <1>2, <2>2, <2>3, <2>4 DEF ReviewAmendment, TypeOK
<1> QED BY <1>1, <1>2 DEF Amending

LEMMA ActivatingType ==
  ASSUME TypeOK, Activating
  PROVE  TypeOK'
<1>1. ASSUME NEW id \in ClientId \cup {NoId}, NEW S \in SUBSET ProfileField, NEW profile \in [S -> Value],
             OpenProposalRegistration(id, profile)
      PROVE  TypeOK'
  <2>1. Minted \in Id /\ openings' \in 0 .. MaxOpenings
    BY <1>1, IdsMinted, BoundAssumption DEF OpenProposalRegistration, TypeOK
  <2>0. DOMAIN events \subseteq Event /\ \A e \in DOMAIN events : events[e] \in Id \cup {NoId}
    BY EventIdsMeans DEF TypeOK
  <2>3. DOMAIN events' = DOMAIN events /\ DOMAIN events \subseteq Event
        /\ events' \in [DOMAIN events -> Id] /\ \A e \in DOMAIN events : events'[e] \in Id
    BY <1>1, <2>0, <2>1 DEF OpenProposalRegistration, EventIds
  <2>2. events' \in EventIdsOf(Id) /\ tournamentId' \in Id
    <3>1. events' \in EventIdsOf(Id)
      BY <2>3, EventIdsMeans
    <3> QED BY <1>1, <2>1, <3>1 DEF OpenProposalRegistration, TypeOK, Id
  <2>6. proposal' \in [Field -> Value]
    BY <1>1 DEF OpenProposalRegistration, TypeOK
  <2>4. promised' \in [tournament : SUBSET Id, events : [Event -> SUBSET Id]]
    BY <1>1, <2>2, <2>3 DEF OpenProposalRegistration, TypeOK
  <2>5. events' \in EventIdsOf(Id \cup {NoId})
    BY <2>2, EventIdsMeans
  <2> QED BY <1>1, <2>1, <2>2, <2>4, <2>5, <2>6 DEF OpenProposalRegistration, TypeOK
<1>2. CASE ActivateFromSanctioning
  <2>1. \A id \in Id \cup {NoId} : Activated(id) \in Id
    BY IdsMinted DEF Activated, TypeOK
  <2>2. DOMAIN events \subseteq Event /\ \A e \in DOMAIN events : events[e] \in Id \cup {NoId}
    BY EventIdsMeans DEF TypeOK
  <2>3. [e \in DOMAIN events |-> Activated(events[e])] \in EventIdsOf(Id)
    BY <2>1, <2>2, EventIdsMeans
  <2>4. tournament' \in [tournamentStatus : {"ACTIVE"}, id : Id, events : EventIdsOf(Id)]
    BY <1>2, <2>1, <2>3 DEF ActivateFromSanctioning, TypeOK
  <2> QED BY <1>2, <2>4, Statuses
          DEF ActivateFromSanctioning, TransitionStatus, TypeOK, historyVars
<1>3. ASSUME NEW to, OnlyTransitions(to) PROVE TypeOK'
  BY <1>3, TransitionType
<1> QED BY <1>1, <1>2, <1>3
        DEF Activating, ActivationRefused, TransitionToPostEvent, FlagComplianceIssues,
            CloseApplication

LEMMA NextType == TypeOK /\ [Next]_vars => TypeOK'
<1> SUFFICES ASSUME TypeOK, [Next]_vars PROVE TypeOK'
  OBVIOUS
<1>1. CASE UNCHANGED vars
  BY <1>1 DEF vars, historyVars, TypeOK
<1> QED BY <1>1, ProposingType, EndorsingType, ApplyingType, AmendingType, ActivatingType DEF Next

\* Every part of the record, and every history variable, has its type.
THEOREM TypeCorrect == Spec => []TypeOK
<1>1. Init => TypeOK
  BY InitType
<1>2. TypeOK /\ [Next]_vars => TypeOK'
  BY NextType
<1> QED BY <1>1, <1>2, PTL DEF Spec

-----------------------------------------------------------------------------
(* Endorsements.                                                           *)

\* No two entries are of one endorser, so an answer that finds an entry finds the one of whom
\* it speaks.
EndorsementInv ==
  /\ EndorsementsAsAnswered
  /\ \A i, j \in DOMAIN endorsements :
       endorsements[i].endorser = endorsements[j].endorser => i = j

\* An entry that is answered, and the answer noted, leave the others as they were.
LEMMA AnswerKeepsInv ==
  ASSUME TypeOK, EndorsementInv, NEW i \in DOMAIN endorsements, NEW answer,
         endorsements' = [endorsements EXCEPT ![i].status = answer],
         answered' = [answered EXCEPT ![endorsements[i].endorser] = answer]
  PROVE  EndorsementInv'
<1>1. endorsements \in Seq(Endorsement) /\ \A j \in DOMAIN endorsements : endorsements[j] \in Endorsement
  BY SeqMeans DEF TypeOK
<1>2. /\ DOMAIN endorsements' = DOMAIN endorsements
      /\ \A j \in DOMAIN endorsements :
           /\ endorsements'[j].endorser = endorsements[j].endorser
           /\ endorsements'[j].status = IF j = i THEN answer ELSE endorsements[j].status
  BY <1>1 DEF Endorsement
<1>3. \A e \in Endorser : answered'[e] = IF e = endorsements[i].endorser THEN answer ELSE answered[e]
  BY DEF TypeOK
<1>4. \A j \in DOMAIN endorsements : endorsements[j].endorser \in Endorser
  BY <1>1 DEF Endorsement
<1> QED BY <1>2, <1>3, <1>4 DEF EndorsementInv, EndorsementsAsAnswered

LEMMA EndorsingKeepsInv ==
  ASSUME TypeOK, EndorsementInv, Endorsing
  PROVE  EndorsementInv'
<1>0. endorsements \in Seq(Endorsement) /\ \A j \in DOMAIN endorsements : endorsements[j] \in Endorsement
  BY SeqMeans DEF TypeOK
<1>1. ASSUME NEW e \in Endorser, RequestEndorsement(e) PROVE EndorsementInv'
  <2> DEFINE entry == [endorser |-> e, status |-> "PENDING"]
  <2>1. answered' = [answered EXCEPT ![e] = "PENDING"] /\ entry \in Endorsement
    BY <1>1 DEF RequestEndorsement, Endorsement
  <2>2. \A x \in Endorser : answered'[x] = IF x = e THEN "PENDING" ELSE answered[x]
    BY <2>1 DEF TypeOK
  <2>3. CASE EntryOf(e) = {}
    <3>1. endorsements' = Append(endorsements, entry)
      BY <1>1, <2>3 DEF RequestEndorsement
    <3>2. /\ DOMAIN endorsements = 1 .. Len(endorsements) /\ Len(endorsements) \in Nat
          /\ DOMAIN endorsements' = 1 .. Len(endorsements) + 1
          /\ endorsements'[Len(endorsements) + 1] = entry
          /\ \A j \in DOMAIN endorsements : endorsements'[j] = endorsements[j]
      BY <1>0, <2>1, <3>1, AppendProperties, SeqMeans
    <3>3. \A j \in DOMAIN endorsements : endorsements[j].endorser \in Endorser \ {e}
      BY <1>0, <2>3 DEF EntryOf, Endorsement
    <3>4. \A j \in DOMAIN endorsements' : j \in DOMAIN endorsements \/ j = Len(endorsements) + 1
      BY <3>2
    <3>5. entry.endorser = e /\ entry.status = "PENDING"
      OBVIOUS
    <3> HIDE DEF entry
    <3> QED BY <2>2, <3>2, <3>3, <3>4, <3>5 DEF EndorsementInv, EndorsementsAsAnswered
  <2>4. CASE EntryOf(e) # {}
    <3>1. endorsements' = [i \in DOMAIN endorsements |->
                             IF i \in EntryOf(e) THEN entry ELSE endorsements[i]]
      BY <1>1, <2>4 DEF RequestEndorsement
    <3>2. \A j \in DOMAIN endorsements :
            /\ endorsements'[j].endorser = endorsements[j].endorser
            /\ endorsements'[j].status =
                 IF endorsements[j].endorser = e THEN "PENDING" ELSE endorsements[j].status
      BY <3>1 DEF EntryOf
    <3>3. DOMAIN endorsements' = DOMAIN endorsements
          /\ \A j \in DOMAIN endorsements : endorsements[j].endorser \in Endorser
      BY <1>0, <3>1 DEF Endorsement
    <3> QED BY <2>2, <3>2, <3>3 DEF EndorsementInv, EndorsementsAsAnswered
  <2> QED BY <2>3, <2>4
<1>2. ASSUME NEW answer \in {"ENDORSED", "DECLINED"}, AnswerUnnamed(answer) PROVE EndorsementInv'
  <2>1. 1 \in DOMAIN endorsements
    BY <1>0, <1>2, EmptySeq, SeqMeans DEF AnswerUnnamed
  <2>2. CASE detached
    <3>1. /\ endorsements' = endorsements
          /\ answered' = [answered EXCEPT ![endorsements[1].endorser] =
               IF endorsements[1].status # answer THEN "lost" ELSE answer]
      BY <1>2, <2>2 DEF AnswerUnnamed
    <3>2. \A j \in DOMAIN endorsements : endorsements[j].endorser \in Endorser
      BY <1>0 DEF Endorsement
    <3>3. \A j \in DOMAIN endorsements :
            answered'[endorsements[j].endorser] =
              IF endorsements[j].endorser = endorsements[1].endorser
              THEN IF endorsements[1].status # answer THEN "lost" ELSE answer
              ELSE answered[endorsements[j].endorser]
      BY <3>1, <3>2 DEF TypeOK
    <3> QED BY <2>1, <3>1, <3>3 DEF EndorsementInv, EndorsementsAsAnswered
  <2>3. CASE ~detached
    <3>1. /\ endorsements' = [endorsements EXCEPT ![1].status = answer]
          /\ answered' = [answered EXCEPT ![endorsements[1].endorser] = answer]
      BY <1>2, <2>3 DEF AnswerUnnamed, AnswerAndSync
    <3> QED BY <2>1, <3>1, AnswerKeepsInv
  <2> QED BY <2>2, <2>3
<1>3. ASSUME NEW answer \in {"ENDORSED", "DECLINED"}, NEW e \in Endorser, AnswerNamed(e, answer)
      PROVE  EndorsementInv'
  <2>1. PICK i \in EntryOf(e) : AnswerAndSync(answer, i)
    BY <1>3 DEF AnswerNamed
  <2>2. i \in DOMAIN endorsements /\ endorsements[i].endorser = e
    BY DEF EntryOf
  <2> QED BY <1>3, <2>1, <2>2, AnswerKeepsInv DEF AnswerNamed, AnswerAndSync
<1>4. CASE InstallCopy
  BY <1>4 DEF InstallCopy, EndorsementInv, EndorsementsAsAnswered, historyVars
<1> QED BY <1>1, <1>2, <1>3, <1>4 DEF Endorsing

\* The actions that leave endorsements alone.
LEMMA OthersKeepEndorsements ==
  Proposing \/ Applying \/ Amending \/ Activating \/ UNCHANGED vars =>
    UNCHANGED <<endorsements, answered>>
<1>1. \A to : OnlyTransitions(to) => UNCHANGED <<endorsements, answered>>
  BY DEF OnlyTransitions, historyVars
<1>2. Proposing => UNCHANGED <<endorsements, answered>>
  BY DEF Proposing, UpdateProposal, AddEventProposal, RemoveEventProposal, historyVars
<1>3. Applying => UNCHANGED <<endorsements, answered>>
  BY <1>1 DEF Applying, SubmitApplication, ReviewApplication, ApproveApplication,
         RejectApplication, WithdrawApplication, RequestModification, ConditionallyApprove,
         MeetCondition, historyVars
<1>4. Amending => UNCHANGED <<endorsements, answered>>
  BY DEF Amending, ProposeAmendment, ReviewAmendment
<1>5. Activating => UNCHANGED <<endorsements, answered>>
  BY <1>1 DEF Activating, OpenProposalRegistration, ActivateFromSanctioning, ActivationRefused,
         TransitionToPostEvent, FlagComplianceIssues, CloseApplication, historyVars
<1> QED BY <1>2, <1>3, <1>4, <1>5 DEF vars, historyVars

\* The list says of each endorser what the last call about them answered, but for answers that
\* named nobody and met a copy (endorsement.ts).
THEOREM EndorsementsFollowAnswers == Spec => []EndorsementsAsAnswered
<1>1. Init => EndorsementInv
  BY DEF Init, EndorsementInv, EndorsementsAsAnswered
<1>2. TypeOK /\ EndorsementInv /\ [Next]_vars => EndorsementInv'
  <2> SUFFICES ASSUME TypeOK, EndorsementInv, [Next]_vars PROVE EndorsementInv'
    OBVIOUS
  <2>1. CASE Endorsing
    BY <2>1, EndorsingKeepsInv
  <2>2. CASE UNCHANGED <<endorsements, answered>>
    BY <2>2 DEF EndorsementInv, EndorsementsAsAnswered
  <2> QED BY <2>1, <2>2, OthersKeepEndorsements DEF Next
<1>3. EndorsementInv => EndorsementsAsAnswered
  BY DEF EndorsementInv
<1> QED BY <1>1, <1>2, <1>3, TypeCorrect, PTL DEF Spec

-----------------------------------------------------------------------------
(* Substantial changes.                                                    *)

\* Only a submission and a withdrawal lead out of the editable statuses.
LEMMA EditableLeadsTo ==
  ASSUME NEW s \in Editable
  PROVE  Transition[s] \subseteq {"SUBMITTED", "WITHDRAWN"}
BY DEF Editable, Transition

LEMMA TransitionsKeepReviewed ==
  ASSUME SubstantialChangesReviewed, NEW to, to # "SUBMITTED", OnlyTransitions(to)
  PROVE  SubstantialChangesReviewed'
<1>1. status' = to /\ to \in Transition[status] /\ UNCHANGED <<proposal, agreed, policySnapshot>>
  BY DEF OnlyTransitions, TransitionStatus, historyVars
<1>2. status # "WITHDRAWN"
  BY <1>1 DEF Transition
<1>3. status \in Editable => status' = "WITHDRAWN"
  BY <1>1, EditableLeadsTo
<1> QED BY <1>1, <1>2, <1>3 DEF SubstantialChangesReviewed

\* An amendment is applied to the proposal and to what was agreed alike, or names no path of a
\* field that the policy submitted with protects.
LEMMA AmendingKeepsReviewed ==
  ASSUME TypeOK, SubstantialChangesReviewed, Amending
  PROVE  SubstantialChangesReviewed'
<1>1. proposal \in [Field -> Value] /\ agreed \in [Field -> Value]
  BY DEF TypeOK
<1>2. ASSUME NEW c, NEW f \in Field, proposal[f] = agreed[f]
      PROVE  ApplyChanges(c)[f] = AgreedOn(c)[f]
  BY <1>2 DEF ApplyChanges, AgreedOn
<1>3. ASSUME NEW c \in Change, NEW own, NEW weeks, ProposeAmendment(c, own, weeks)
      PROVE  SubstantialChangesReviewed'
  <2>1. UNCHANGED <<status, policySnapshot>>
    BY <1>3 DEF ProposeAmendment
  <2>2. CASE proposal' = proposal /\ agreed' = agreed
    BY <2>1, <2>2 DEF SubstantialChangesReviewed
  <2>3. CASE proposal' = ApplyChanges(c) /\ agreed' = AgreedOn(c)
    BY <1>2, <2>1, <2>3 DEF SubstantialChangesReviewed
  <2>4. CASE /\ proposal' = ApplyChanges(c) /\ agreed' = agreed
             /\ own = NoPolicy /\ ~Substantial(c, PolicyOf(own))
    <3>1. policySnapshot = NoPolicy \/ c.paths \cap policySnapshot.substantial = {}
      BY <2>4 DEF PolicyOf, Substantial
    <3>2. c.paths \subseteq Path
      BY ProposalAssumption
    <3>3. ASSUME NEW f \in Field, policySnapshot # NoPolicy, f \in Protected(policySnapshot)
          PROVE  proposal'[f] = proposal[f]
      <4>1. f \notin Written(c)
        BY <3>1, <3>2, <3>3 DEF Written, Protected
      <4> QED BY <2>4, <4>1 DEF ApplyChanges
    <3> QED BY <2>1, <2>4, <3>3 DEF SubstantialChangesReviewed
  <2> QED BY <1>3, <2>2, <2>3, <2>4 DEF ProposeAmendment, Applies
<1>4. ASSUME NEW i, NEW approved \in BOOLEAN, ReviewAmendment(i, approved)
      PROVE  SubstantialChangesReviewed'
  <2>1. /\ UNCHANGED <<status, policySnapshot>>
        /\ \/ proposal' = proposal /\ agreed' = agreed
           \/ /\ proposal' = ApplyChanges(amendments[i].changes)
              /\ agreed' = AgreedOn(amendments[i].changes)
    BY <1>4 DEF ReviewAmendment, Applies
  <2> QED BY <1>2, <2>1 DEF SubstantialChangesReviewed
<1> QED BY <1>3, <1>4 DEF Amending

\* What an opening merges is part of the registrationProfile, which no policy protects.
LEMMA OpeningKeepsReviewed ==
  ASSUME TypeOK, SubstantialChangesReviewed, NEW id, NEW S \in SUBSET ProfileField,
         NEW profile \in [S -> Value], OpenProposalRegistration(id, profile)
  PROVE  SubstantialChangesReviewed'
<1>1. UNCHANGED <<status, policySnapshot, agreed>>
  BY DEF OpenProposalRegistration
<1>2. \A f \in Field \ ProfileField : proposal'[f] = proposal[f]
  BY DEF OpenProposalRegistration
<1> QED BY <1>1, <1>2 DEF SubstantialChangesReviewed, Protected

LEMMA NextReviewed == TypeOK /\ SubstantialChangesReviewed /\ [Next]_vars => SubstantialChangesReviewed'
<1> SUFFICES ASSUME TypeOK, SubstantialChangesReviewed, [Next]_vars PROVE SubstantialChangesReviewed'
  OBVIOUS
<1>1. ASSUME NEW to \in {"UNDER_REVIEW", "APPROVED", "REJECTED", "WITHDRAWN",
                         "MODIFICATION_REQUESTED", "ACTIVE", "POST_EVENT", "ISSUES_FLAGGED",
                         "CLOSED"}, OnlyTransitions(to)
      PROVE  SubstantialChangesReviewed'
  BY <1>1, TransitionsKeepReviewed
<1>2. CASE UNCHANGED <<status, proposal, agreed, policySnapshot>>
  BY <1>2 DEF SubstantialChangesReviewed
<1>3. CASE Proposing
  <2>1. ASSUME NEW c, NEW id, UpdateProposal(c, id) PROVE SubstantialChangesReviewed'
    BY <2>1 DEF UpdateProposal, SubstantialChangesReviewed
  <2> QED BY <1>2, <1>3, <2>1 DEF Proposing, AddEventProposal, RemoveEventProposal, historyVars
<1>4. CASE Endorsing
  BY <1>2, <1>4 DEF Endorsing, RequestEndorsement, AnswerUnnamed, AnswerNamed, InstallCopy, historyVars
<1>5. CASE Applying
  <2>1. ASSUME NEW policy \in Policy \cup {NoPolicy}, SubmitApplication(policy)
        PROVE  SubstantialChangesReviewed'
    BY <2>1 DEF SubmitApplication, SubstantialChangesReviewed
  <2>2. CASE ConditionallyApprove
    <3>1. status \notin Editable /\ status # "WITHDRAWN"
      BY <2>2 DEF ConditionallyApprove, TransitionStatus, Transition, Editable
    <3> QED BY <2>2, <3>1 DEF ConditionallyApprove, SubstantialChangesReviewed, historyVars
  <2>3. ASSUME NEW i, MeetCondition(i) PROVE SubstantialChangesReviewed'
    BY <1>2, <2>3 DEF MeetCondition, historyVars
  <2> QED BY <1>1, <1>5, <2>1, <2>2, <2>3
          DEF Applying, ReviewApplication, ApproveApplication, RejectApplication,
              WithdrawApplication, RequestModification
<1>6. CASE Activating
  <2>1. ASSUME NEW id, NEW S \in SUBSET ProfileField, NEW profile \in [S -> Value],
               OpenProposalRegistration(id, profile)
        PROVE  SubstantialChangesReviewed'
    BY <2>1, OpeningKeepsReviewed
  <2>2. CASE ActivateFromSanctioning
    BY <2>2 DEF ActivateFromSanctioning, TransitionStatus, SubstantialChangesReviewed, Editable,
                historyVars
  <2> QED BY <1>1, <1>6, <2>1, <2>2
          DEF Activating, ActivationRefused, TransitionToPostEvent, FlagComplianceIssues,
              CloseApplication
<1> QED BY <1>2, <1>3, <1>4, <1>5, <1>6, AmendingKeepsReviewed DEF Next, vars, historyVars

\* From submission on, a field that the submitted policy protects (every path that writes it is
\* listed, and it is not part of the registration profile) changes only by review or by a call that
\* brings a policy of its own (amendments.ts, openProposalRegistration.ts).
THEOREM SubstantialFieldsReviewed == Spec => []SubstantialChangesReviewed
<1>1. Init => SubstantialChangesReviewed
  BY DEF Init, SubstantialChangesReviewed
<1> QED BY <1>1, NextReviewed, TypeCorrect, PTL DEF Spec

-----------------------------------------------------------------------------
(* Registration.                                                           *)

Known(id) == IF id = NoId THEN {} ELSE {id}

\* What was handed out and not replaced is still the proposal's.
PromisesKept ==
  /\ promised.tournament \subseteq Known(tournamentId)
  /\ \A e \in Event : promised.events[e] \subseteq (IF e \in DOMAIN events THEN Known(events[e]) ELSE {})

\* Once there is a tournament, the proposal's ids may go their own way.
RegistrationInv == RegistrationSurvives /\ (tournament = NoTournament => PromisesKept)

\* There is a tournament only from activation on, which does not come twice.
Activation == {"ACTIVE", "POST_EVENT", "ISSUES_FLAGGED", "CLOSED"}
MadeOnce == tournament # NoTournament => status \in Activation

LEMMA NextMadeOnce == MadeOnce /\ [Next]_vars => MadeOnce'
<1> SUFFICES ASSUME MadeOnce, [Next]_vars PROVE MadeOnce'
  OBVIOUS
<1>1. \A s \in Activation : Transition[s] \subseteq Activation
  BY DEF Activation, Transition
<1>2. ASSUME NEW to, TransitionStatus(to), UNCHANGED tournament PROVE MadeOnce'
  BY <1>1, <1>2 DEF TransitionStatus, MadeOnce
<1>3. ASSUME NEW to, OnlyTransitions(to) PROVE MadeOnce'
  BY <1>2, <1>3 DEF OnlyTransitions
<1>4. ASSUME UNCHANGED <<status, tournament>> PROVE MadeOnce'
  BY <1>4 DEF MadeOnce
<1>5. Proposing => UNCHANGED <<status, tournament>>
  BY DEF Proposing, UpdateProposal, AddEventProposal, RemoveEventProposal, historyVars
<1>6. Endorsing => UNCHANGED <<status, tournament>>
  BY DEF Endorsing, RequestEndorsement, AnswerUnnamed, AnswerNamed, InstallCopy, historyVars
<1>7. CASE Applying
  BY <1>2, <1>3, <1>4, <1>7 DEF Applying, SubmitApplication, ReviewApplication, ApproveApplication,
     RejectApplication, WithdrawApplication, RequestModification, ConditionallyApprove,
     MeetCondition
<1>8. Amending => UNCHANGED <<status, tournament>>
  BY DEF Amending, ProposeAmendment, ReviewAmendment
<1>9. CASE Activating
  <2>1. ASSUME NEW id, NEW profile, OpenProposalRegistration(id, profile) PROVE MadeOnce'
    BY <1>4, <2>1 DEF OpenProposalRegistration
  <2>2. CASE ActivateFromSanctioning
    BY <2>2 DEF ActivateFromSanctioning, TransitionStatus, MadeOnce, Activation
  <2> QED BY <1>3, <1>9, <2>1, <2>2 DEF Activating, ActivationRefused, TransitionToPostEvent,
             FlagComplianceIssues, CloseApplication
<1> QED BY <1>4, <1>5, <1>6, <1>7, <1>8, <1>9 DEF Next, vars

LEMMA OpeningKeepsPromises ==
  ASSUME TypeOK, RegistrationInv, NEW id \in ClientId \cup {NoId}, NEW profile,
         OpenProposalRegistration(id, profile)
  PROVE  RegistrationInv'
<1>0. tournament' = tournament
  BY DEF OpenProposalRegistration
<1>1. CASE tournament # NoTournament
  <2>1. promised' = promised
    BY <1>1 DEF OpenProposalRegistration
  <2> QED BY <1>0, <1>1, <2>1 DEF RegistrationInv, RegistrationSurvives
<1>2. CASE tournament = NoTournament
  <2>1. Minted \in Id /\ Minted # NoId
    BY IdsMinted DEF OpenProposalRegistration, TypeOK
  <2>2. /\ tournamentId' = IF id # NoId THEN id ELSE IF tournamentId # NoId THEN tournamentId ELSE Minted
        /\ promised'.tournament = {tournamentId'} \cup (IF id = NoId THEN promised.tournament ELSE {})
        /\ \A e \in Event : promised'.events[e] =
             IF e \in DOMAIN events THEN promised.events[e] \cup {events'[e]} ELSE promised.events[e]
    BY <1>2 DEF OpenProposalRegistration
  <2>3. tournamentId' # NoId /\ promised'.tournament \subseteq Known(tournamentId')
    BY <1>2, <2>1, <2>2 DEF RegistrationInv, PromisesKept, Known
  <2>4. /\ DOMAIN events' = DOMAIN events
        /\ \A e \in DOMAIN events : events'[e] # NoId
        /\ \A e \in DOMAIN events : Known(events[e]) \subseteq {events'[e]}
    BY <2>1 DEF OpenProposalRegistration, EventIds, Known
  <2>5. \A e \in Event :
          promised'.events[e] \subseteq (IF e \in DOMAIN events' THEN Known(events'[e]) ELSE {})
    BY <1>2, <2>2, <2>4 DEF RegistrationInv, PromisesKept, Known
  <2> QED BY <1>0, <1>2, <2>3, <2>5 DEF RegistrationInv, PromisesKept, RegistrationSurvives
<1> QED BY <1>1, <1>2

LEMMA ActivationKeepsPromises ==
  ASSUME TypeOK, MadeOnce, RegistrationInv, ActivateFromSanctioning
  PROVE  RegistrationInv'
<1>1. /\ UNCHANGED promised
      /\ tournament'.id = Activated(tournamentId)
      /\ tournament'.events = [e \in DOMAIN events |-> Activated(events[e])]
      /\ tournament'.tournamentStatus = "ACTIVE"
  BY DEF ActivateFromSanctioning, historyVars
<1>2. \A id : Known(id) \subseteq {Activated(id)}
  BY DEF Known, Activated
<1>3. DOMAIN events \subseteq Event
  BY EventIdsMeans DEF TypeOK
<1>4. tournament' # NoTournament
  BY <1>1 DEF NoTournament
<1>5. RegistrationSurvives'
  <2>0. tournament = NoTournament
    BY DEF ActivateFromSanctioning, MadeOnce, Activation
  <2>1. promised'.tournament \subseteq {tournament'.id}
    BY <1>1, <1>2, <2>0 DEF RegistrationInv, PromisesKept
  <2>2. \A e \in DOMAIN tournament'.events : promised'.events[e] \subseteq {tournament'.events[e]}
    BY <1>1, <1>2, <1>3, <2>0 DEF RegistrationInv, PromisesKept
  <2> QED BY <2>1, <2>2 DEF RegistrationSurvives
<1> QED BY <1>4, <1>5 DEF RegistrationInv

\* Changes of the events' ids take back the promises they break.
LEMMA ChangesKeepPromises ==
  ASSUME TypeOK, RegistrationInv, NEW c \in Change,
         events' = IdsWritten(c), promised'.events = StillPromised(c), UNCHANGED tournament,
         promised'.tournament \subseteq promised.tournament,
         promised'.tournament \subseteq Known(tournamentId') \/ UNCHANGED tournamentId
  PROVE  RegistrationInv'
<1>1. \A e \in Event :
        /\ promised'.events[e] \subseteq promised.events[e]
        /\ e \in DOMAIN c.ids => promised'.events[e] \subseteq {c.ids[e]}
  BY DEF StillPromised
<1>2. /\ DOMAIN events' = DOMAIN events
      /\ \A e \in DOMAIN events :
           events'[e] = IF e \in DOMAIN c.ids THEN c.ids[e] ELSE events[e]
  BY DEF IdsWritten
<1>3. tournament # NoTournament => DOMAIN tournament.events \subseteq Event
  BY EventIdsMeans DEF TypeOK
<1>4. RegistrationSurvives'
  BY <1>1, <1>3 DEF RegistrationInv, RegistrationSurvives
<1>5. ASSUME tournament = NoTournament PROVE PromisesKept'
  <2>1. promised'.tournament \subseteq Known(tournamentId')
    BY <1>5 DEF RegistrationInv, PromisesKept
  <2>2. \A e \in Event : promised.events[e] \subseteq Id /\ NoId \notin promised.events[e]
    BY IdsMinted DEF TypeOK
  <2>3. ASSUME NEW e \in Event
        PROVE  promised'.events[e] \subseteq (IF e \in DOMAIN events' THEN Known(events'[e]) ELSE {})
    BY <1>1, <1>2, <1>5, <2>2 DEF RegistrationInv, PromisesKept, Known
  <2> QED BY <2>1, <2>3 DEF PromisesKept
<1> QED BY <1>4, <1>5 DEF RegistrationInv

LEMMA ProposingKeepsPromises ==
  ASSUME TypeOK, RegistrationInv, Proposing
  PROVE  RegistrationInv'
<1>1. ASSUME NEW c \in Change, NEW id \in ClientId \cup {NoId, tournamentId}, UpdateProposal(c, id)
      PROVE  RegistrationInv'
  <2>1. /\ events' = IdsWritten(c) /\ promised'.events = StillPromised(c) /\ UNCHANGED tournament
        /\ tournamentId' = id /\ promised'.tournament = promised.tournament \cap {id}
    BY <1>1 DEF UpdateProposal
  <2>2. NoId \notin promised.tournament
    BY IdsMinted DEF TypeOK
  <2>3. promised'.tournament \subseteq Known(tournamentId')
    BY <2>1, <2>2 DEF Known
  <2> QED BY <2>1, <2>3, ChangesKeepPromises
<1>2. ASSUME NEW e \in Event, AddEventProposal(e) PROVE RegistrationInv'
  <2>1. /\ e \notin DOMAIN events /\ UNCHANGED <<promised, tournament, tournamentId>>
        /\ DOMAIN events' = DOMAIN events \cup {e}
        /\ \A x \in DOMAIN events : events'[x] = events[x]
    BY <1>2 DEF AddEventProposal, historyVars
  <2>2. tournament = NoTournament => promised.events[e] = {}
    BY <2>1 DEF RegistrationInv, PromisesKept
  <2> QED BY <2>1, <2>2 DEF RegistrationInv, PromisesKept, RegistrationSurvives, Known
<1>3. ASSUME NEW e \in Event, RemoveEventProposal(e) PROVE RegistrationInv'
  <2>1. /\ UNCHANGED <<tournament, tournamentId>>
        /\ promised'.tournament = promised.tournament
        /\ \A x \in Event : promised'.events[x] = IF x = e THEN {} ELSE promised.events[x]
        /\ DOMAIN events' = DOMAIN events \ {e}
        /\ \A x \in DOMAIN events \ {e} : events'[x] = events[x]
    BY <1>3 DEF RemoveEventProposal, TypeOK
  <2>2. tournament # NoTournament => DOMAIN tournament.events \subseteq Event
    BY EventIdsMeans DEF TypeOK
  <2> QED BY <2>1, <2>2 DEF RegistrationInv, PromisesKept, RegistrationSurvives, Known
<1> QED BY <1>1, <1>2, <1>3 DEF Proposing

LEMMA AmendingKeepsPromises ==
  ASSUME TypeOK, RegistrationInv, Amending
  PROVE  RegistrationInv'
<1>1. ASSUME NEW c \in Change, NEW approved, Applies(c, approved), UNCHANGED <<tournament, tournamentId>>
      PROVE  RegistrationInv'
  <2>1. CASE UNCHANGED <<events, promised>>
    BY <1>1, <2>1 DEF RegistrationInv, PromisesKept, RegistrationSurvives, Known
  <2>2. CASE /\ events' = IdsWritten(c)
             /\ promised' = [tournament |-> promised.tournament, events |-> StillPromised(c)]
    <3>1. promised'.events = StillPromised(c) /\ promised'.tournament = promised.tournament
      BY <2>2 DEF TypeOK
    <3> QED BY <1>1, <2>2, <3>1, ChangesKeepPromises
  <2> QED BY <1>1, <2>1, <2>2 DEF Applies
<1>2. ASSUME NEW c \in Change, NEW own, NEW weeks, ProposeAmendment(c, own, weeks)
      PROVE  RegistrationInv'
  BY <1>1, <1>2 DEF ProposeAmendment
<1>3. ASSUME NEW i, NEW approved, ReviewAmendment(i, approved)
      PROVE  RegistrationInv'
  <2>1. amendments[i] \in Amendment
    BY <1>3, SeqMeans DEF ReviewAmendment, TypeOK
  <2>2. amendments[i].changes \in Change
    BY <2>1 DEF Amendment
  <2> QED BY <1>1, <1>3, <2>2 DEF ReviewAmendment
<1> QED BY <1>2, <1>3 DEF Amending

\* The actions that touch none of the ids.
LEMMA OthersKeepPromises ==
  Endorsing \/ Applying \/ UNCHANGED vars => UNCHANGED <<promised, tournament, tournamentId, events>>
<1>1. \A to : OnlyTransitions(to) => UNCHANGED <<promised, tournament, tournamentId, events>>
  BY DEF OnlyTransitions, historyVars
<1>2. Endorsing => UNCHANGED <<promised, tournament, tournamentId, events>>
  BY DEF Endorsing, RequestEndorsement, AnswerUnnamed, AnswerNamed, InstallCopy, historyVars
<1>3. Applying => UNCHANGED <<promised, tournament, tournamentId, events>>
  BY <1>1 DEF Applying, SubmitApplication, ReviewApplication, ApproveApplication,
         RejectApplication, WithdrawApplication, RequestModification, ConditionallyApprove,
         MeetCondition, historyVars
<1> QED BY <1>2, <1>3 DEF vars, historyVars

LEMMA ActivatingKeepsPromises ==
  ASSUME TypeOK, MadeOnce, RegistrationInv, Activating
  PROVE  RegistrationInv'
<1>1. ASSUME NEW to, OnlyTransitions(to) PROVE RegistrationInv'
  BY <1>1 DEF OnlyTransitions, historyVars, RegistrationInv, PromisesKept, RegistrationSurvives, Known
<1>2. ASSUME NEW id \in ClientId \cup {NoId}, NEW profile, OpenProposalRegistration(id, profile)
      PROVE  RegistrationInv'
  BY <1>2, OpeningKeepsPromises
<1>3. CASE ActivateFromSanctioning
  BY <1>3, ActivationKeepsPromises
<1> QED BY <1>1, <1>2, <1>3 DEF Activating, ActivationRefused, TransitionToPostEvent,
                                FlagComplianceIssues, CloseApplication

\* An id handed out for registration is the tournament's, unless its event left the proposal or a
\* client replaced it (openProposalRegistration.ts, activateFromSanctioning.ts).
THEOREM RegistrationsSurvive == Spec => []RegistrationSurvives
<1>1. Init => MadeOnce /\ RegistrationInv
  BY DEF Init, MadeOnce, RegistrationInv, PromisesKept, RegistrationSurvives
<1>2. TypeOK /\ MadeOnce /\ RegistrationInv /\ [Next]_vars => RegistrationInv'
  <2> SUFFICES ASSUME TypeOK, MadeOnce, RegistrationInv, [Next]_vars PROVE RegistrationInv'
    OBVIOUS
  <2>1. CASE UNCHANGED <<promised, tournament, tournamentId, events>>
    BY <2>1 DEF RegistrationInv, PromisesKept, RegistrationSurvives, Known
  <2> QED BY <2>1, OthersKeepPromises, ProposingKeepsPromises, AmendingKeepsPromises,
             ActivatingKeepsPromises DEF Next
<1>3. RegistrationInv => RegistrationSurvives
  BY DEF RegistrationInv
<1> QED BY <1>1, <1>2, <1>3, NextMadeOnce, TypeCorrect, PTL DEF Spec
=============================================================================
