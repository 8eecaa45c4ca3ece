---------------------------- MODULE Sanctioning ----------------------------
(***************************************************************************)
(* The application for a sanctioned tournament (mutate/sanctioning, and    *)
(* its engine in assemblies/engines/sanctioning): a record with a status,  *)
(* a proposal, endorsements, conditions and amendments, each of which a    *)
(* call of its own changes.  A call runs to its end before the next        *)
(* begins.                                                                 *)
(*                                                                         *)
(* Two entries of the record may be one object: `endorsement' is set to    *)
(* the first entry of `endorsements'.  A copy of the record, which a queue *)
(* that is rolled back and a client that saves and loads it install, has   *)
(* two objects in their place.                                             *)
(***************************************************************************)
EXTENDS Integers, FiniteSets, Sequences

CONSTANTS
  Field,           \* the fields of a proposal, those of its events included, down to those
                   \* that have no parts
  ProfileField,    \* those of its registrationProfile
  Value,
  Path,            \* what an amendment may name: a field, or an object or array of them
  Under,           \* the fields that a value written at each path replaces
  FirstProposal,   \* the proposal the record is created with
  Change,          \* what a client changes
  Event,           \* proposed events
  ClientId,        \* ids that a client brings along
  Endorser,
  Policy,
  NoPolicy,
  Weeks,           \* how far off the start date a proposed amendment may be
  MaxConditions, MaxAmendments, MaxOpenings

Transition ==
  [DRAFT |-> {"SUBMITTED", "WITHDRAWN"},
   SUBMITTED |-> {"UNDER_REVIEW", "WITHDRAWN"},
   UNDER_REVIEW |->
     {"APPROVED", "CONDITIONALLY_APPROVED", "REJECTED", "MODIFICATION_REQUESTED"},
   APPROVED |-> {"ACTIVE", "MODIFICATION_REQUESTED", "WITHDRAWN"},
   CONDITIONALLY_APPROVED |-> {"APPROVED", "REJECTED", "WITHDRAWN"},
   REJECTED |-> {},
   WITHDRAWN |-> {},
   MODIFICATION_REQUESTED |-> {"SUBMITTED", "WITHDRAWN"},
   ACTIVE |-> {"POST_EVENT"},
   POST_EVENT |-> {"CLOSED", "ISSUES_FLAGGED"},
   CLOSED |-> {},
   ISSUES_FLAGGED |-> {"CLOSED"}]

Status == DOMAIN Transition
Terminal == {"REJECTED", "WITHDRAWN", "CLOSED"}
Editable == {"DRAFT", "MODIFICATION_REQUESTED"}
Amendable == {"APPROVED", "ACTIVE"}

NoId == 0
EventIdsOf(ids) == UNION {[S -> ids] : S \in SUBSET Event}

\* substantial: the paths that substantialChangeFields matches, each to its last segment.
\* Amendment rules that a policy does not have are given by the values they amount to: no
\* substantial fields, a noChange of 0, a window below any Weeks.  requirements: whether any
\* of postEventRequirements applies.
ASSUME PolicyAssumption ==
  /\ NoPolicy \notin Policy
  /\ Weeks \subseteq Int
  /\ \A p \in Policy :
       /\ p.endorsements \in Nat
       /\ p.guards \subseteq [from : Status, to : Status,
            guard : {"ENDORSEMENT_REQUIRED", "PROPOSAL_VALID", "ALL_CONDITIONS_MET"}]
       /\ p.substantial \subseteq Path
       /\ p.noChange \in Nat /\ p.window \in Int
       /\ p.requirements \in BOOLEAN

\* dropped: the changes never applied, of type REMOVED or outside AMENDABLE_FIELD_PREFIXES.
\* ids: the eventIds in the values written, of the events written as a whole or by eventId.
ASSUME ProposalAssumption ==
  /\ FirstProposal \in [Field -> Value] /\ ProfileField \subseteq Field
  /\ Under \in [Path -> SUBSET Field]
  /\ ClientId \subseteq Nat \ {NoId}
  /\ Change \subseteq [paths : SUBSET Path, dropped : SUBSET Path, value : Value,
                      ids : EventIdsOf(ClientId \cup {NoId})]

ASSUME BoundAssumption ==
  MaxConditions \in Nat /\ MaxAmendments \in Nat /\ MaxOpenings \in Nat

VARIABLES
  status,
  proposal,        \* the value of each field
  tournamentId,    \* proposal.tournamentId, or NoId
  events,          \* the eventId, or NoId, of each event proposed
  endorsements,
  detached,        \* `endorsement' is a copy of the first of them, of the same value
  conditions,      \* whether each is met
  amendments,
  policySnapshot,
  openings,        \* how often registration was opened; numbers the ids minted then
  tournament,      \* what activateFromSanctioning returned
  agreed,          \* history: the values submitted, approved by review, or set by a call
                   \* under a policy it brought along
  promised,        \* history: the ids handed out before there was a tournament, and not
                   \* replaced by a client since
  answered         \* history: what the last call about an endorser answered to have done,
                   \* or "lost" if it reached only a copy

historyVars == <<agreed, promised, answered>>
vars == <<status, proposal, tournamentId, events, endorsements, detached, conditions,
          amendments, policySnapshot, openings, tournament, historyVars>>

Minted == openings + 1             \* UUID(), in the call that is the next
MintedAtActivation == MaxOpenings + 1
Id == (1 .. MaxOpenings + 1) \cup ClientId
Endorsement == [endorser : Endorser, status : {"PENDING", "ENDORSED", "DECLINED"}]
Amendment == [changes : Change, status : {"PROPOSED", "APPROVED", "REJECTED"}]

NoTournament == [tournamentStatus |-> "none"]

-----------------------------------------------------------------------------
(* transitionStatus and the guards of the policy submitted with.           *)

Endorsed == {i \in DOMAIN endorsements : endorsements[i].status = "ENDORSED"}

CheckGuard(guard) ==
  CASE guard = "ENDORSEMENT_REQUIRED" -> Endorsed # {}
    [] guard = "PROPOSAL_VALID" -> DOMAIN events # {}
    [] guard = "ALL_CONDITIONS_MET" -> \A i \in DOMAIN conditions : conditions[i]

GuardsPass(to) ==
  policySnapshot # NoPolicy =>
    \A g \in policySnapshot.guards : g.from = status /\ g.to = to => CheckGuard(g.guard)

TransitionStatus(to) ==
  /\ to \in Transition[status]
  /\ GuardsPass(to)
  /\ status' = to

\* A call that changes the status and nothing else of the record modelled here.
OnlyTransitions(to) ==
  /\ TransitionStatus(to)
  /\ UNCHANGED <<proposal, tournamentId, events, endorsements, detached, conditions,
                 amendments, policySnapshot, openings, tournament, historyVars>>

ReviewApplication == OnlyTransitions("UNDER_REVIEW")
ApproveApplication == OnlyTransitions("APPROVED")
RejectApplication == OnlyTransitions("REJECTED")
WithdrawApplication == OnlyTransitions("WITHDRAWN")
RequestModification == OnlyTransitions("MODIFICATION_REQUESTED")
TransitionToPostEvent == OnlyTransitions("POST_EVENT")
FlagComplianceIssues == OnlyTransitions("ISSUES_FLAGGED")
CloseApplication == OnlyTransitions("CLOSED")

-----------------------------------------------------------------------------

\* createSanctioningRecord: at least one event, no other part of the record yet.
Init ==
  /\ status = "DRAFT"
  /\ proposal = FirstProposal
  /\ tournamentId = NoId
  /\ \E S \in SUBSET Event \ {{}} : events = [e \in S |-> NoId]
  /\ endorsements = <<>> /\ detached = FALSE
  /\ conditions = <<>>
  /\ amendments = <<>>
  /\ policySnapshot = NoPolicy
  /\ openings = 0
  /\ tournament = NoTournament
  /\ agreed = proposal
  /\ promised = [tournament |-> {}, events |-> [e \in Event |-> {}]]
  /\ answered = [e \in Endorser |-> "nothing"]

(* Editing the proposal.                                                   *)

Written(c) == UNION {Under[p] : p \in c.paths \ c.dropped}

\* applyChanges of an amendment; Object.assign of an update.
ApplyChanges(c) == [f \in Field |-> IF f \in Written(c) THEN c.value ELSE proposal[f]]

IdsWritten(c) ==
  [e \in DOMAIN events |-> IF e \in DOMAIN c.ids THEN c.ids[e] ELSE events[e]]

\* What is left of the promises: not an eventId that the client wrote over.
StillPromised(c) ==
  [e \in Event |-> IF e \in DOMAIN c.ids THEN promised.events[e] \cap {c.ids[e]}
                                         ELSE promised.events[e]]

\* updateProposal, which may write tournamentId too, and updateEventProposal.
UpdateProposal(c, id) ==
  /\ status \in Editable
  /\ c.dropped = {}
  /\ proposal' = ApplyChanges(c)
  /\ events' = IdsWritten(c)
  /\ tournamentId' = id
  /\ promised' = [tournament |-> promised.tournament \cap {id}, events |-> StillPromised(c)]
  /\ UNCHANGED <<status, endorsements, detached, conditions, amendments, policySnapshot,
                 openings, tournament, agreed, answered>>

AddEventProposal(e) ==
  /\ status \in Editable
  /\ e \notin DOMAIN events
  /\ events' = [x \in DOMAIN events \cup {e} |-> IF x = e THEN NoId ELSE events[x]]
  /\ UNCHANGED <<status, proposal, tournamentId, endorsements, detached, conditions, amendments,
                 policySnapshot, openings, tournament, historyVars>>

\* Registrations for the event go with it.
RemoveEventProposal(e) ==
  /\ status \in Editable
  /\ e \in DOMAIN events
  /\ events' = [x \in DOMAIN events \ {e} |-> events[x]]
  /\ promised' = [promised EXCEPT !.events[e] = {}]
  /\ UNCHANGED <<status, proposal, tournamentId, endorsements, detached, conditions, amendments,
                 policySnapshot, openings, tournament, agreed, answered>>

(* Endorsement.                                                            *)

EntryOf(e) == {i \in DOMAIN endorsements : endorsements[i].endorser = e}

\* requestEndorsement: an entry of this endorser is replaced, its answer with it.
RequestEndorsement(e) ==
  LET entry == [endorser |-> e, status |-> "PENDING"]
  IN /\ endorsements' = IF EntryOf(e) = {}
                          THEN Append(endorsements, entry)
                          ELSE [i \in DOMAIN endorsements |->
                                  IF i \in EntryOf(e) THEN entry ELSE endorsements[i]]
     /\ detached' = FALSE
     /\ answered' = [answered EXCEPT ![e] = "PENDING"]
     /\ UNCHANGED <<status, proposal, tournamentId, events, conditions, amendments,
                    policySnapshot, openings, tournament, agreed, promised>>

\* Faulty: the list takes what `endorsement' says, not the other way round.
SyncList(answer, i) ==
  /\ endorsements' = IF detached /\ i = 1 THEN endorsements
                                         ELSE [endorsements EXCEPT ![i].status = answer]
  /\ detached' = FALSE

\* Entry i takes the answer, and `endorsement' is the first entry again.
AnswerAndSync(answer, i) ==
  /\ endorsements' = [endorsements EXCEPT ![i].status = answer]
  /\ detached' = FALSE

\* endorseApplication and declineEndorsement with an endorserId.
AnswerNamed(e, answer) ==
  /\ \E i \in EntryOf(e) : AnswerAndSync(answer, i)
  /\ answered' = [answered EXCEPT ![e] = answer]
  /\ UNCHANGED <<status, proposal, tournamentId, events, conditions, amendments,
                 policySnapshot, openings, tournament, agreed, promised>>

\* Without an endorserId they find `endorsement'.  If it is a copy, the answer is written there,
\* and lost when syncEndorsement puts the first entry in its place.
AnswerUnnamed(answer) ==
  /\ endorsements # <<>>
  /\ IF detached THEN detached' = FALSE /\ UNCHANGED endorsements
                 ELSE AnswerAndSync(answer, 1)
  /\ answered' = [answered EXCEPT ![endorsements[1].endorser] =
       IF detached /\ endorsements[1].status # answer THEN "lost" ELSE answer]
  /\ UNCHANGED <<status, proposal, tournamentId, events, conditions, amendments,
                 policySnapshot, openings, tournament, agreed, promised>>

\* A queue with rollbackOnError that fails, whatever its directives did before, or a client's
\* setState(getState()): the record is a copy of what it was.
InstallCopy ==
  /\ detached' = (endorsements # <<>>)
  /\ UNCHANGED <<status, proposal, tournamentId, events, endorsements, conditions, amendments,
                 policySnapshot, openings, tournament, historyVars>>

(* The application.                                                        *)

\* submitApplication; the guards are those of the last policy submitted with.
SubmitApplication(policy) ==
  /\ policy # NoPolicy => Cardinality(Endorsed) >= policy.endorsements
  /\ TransitionStatus("SUBMITTED")
  /\ policySnapshot' = IF policy = NoPolicy THEN policySnapshot ELSE policy
  /\ agreed' = proposal
  /\ UNCHANGED <<proposal, tournamentId, events, endorsements, detached, conditions, amendments,
                 openings, tournament, promised, answered>>

ConditionallyApprove ==
  /\ Len(conditions) < MaxConditions
  /\ TransitionStatus("CONDITIONALLY_APPROVED")
  /\ conditions' = Append(conditions, FALSE)
  /\ UNCHANGED <<proposal, tournamentId, events, endorsements, detached, amendments,
                 policySnapshot, openings, tournament, historyVars>>

MeetCondition(i) ==
  /\ i \in DOMAIN conditions
  /\ conditions' = [conditions EXCEPT ![i] = TRUE]
  /\ UNCHANGED <<status, proposal, tournamentId, events, endorsements, detached, amendments,
                 policySnapshot, openings, tournament, historyVars>>

(* Amendments.                                                             *)

\* The policy a call works with: its own, or the snapshot; NoPolicy for neither.
PolicyOf(own) == IF own = NoPolicy THEN policySnapshot ELSE own

\* Faulty: a change is substantial if all the paths it names are.
AllSubstantial(c, policy) == policy # NoPolicy /\ c.paths \subseteq policy.substantial

\* A path above or below a substantial one is not substantial.
Substantial(c, policy) == policy # NoPolicy /\ c.paths \cap policy.substantial # {}

Blocked(weeks, policy) ==
  policy # NoPolicy /\ policy.noChange > 0 /\ weeks < policy.noChange

WithinWindow(weeks, policy) == policy # NoPolicy => weeks >= policy.window

AgreedOn(c) == [f \in Field |-> IF f \in Written(c) THEN c.value ELSE agreed[f]]

\* An amendment is applied, or not.
Applies(c, approved) ==
  IF approved THEN /\ proposal' = ApplyChanges(c) /\ events' = IdsWritten(c)
                   /\ promised' = [tournament |-> promised.tournament,
                                  events |-> StillPromised(c)]
              ELSE UNCHANGED <<proposal, events, promised>>

ProposeAmendment(c, own, weeks) ==
  LET policy == PolicyOf(own)
      approved == ~Substantial(c, policy) /\ WithinWindow(weeks, policy)
  IN /\ status \in Amendable
     /\ Len(amendments) < MaxAmendments
     /\ ~Blocked(weeks, policy)
     /\ amendments' = Append(amendments,
          [changes |-> c, status |-> IF approved THEN "APPROVED" ELSE "PROPOSED"])
     /\ Applies(c, approved)
     /\ agreed' = IF approved /\ own # NoPolicy THEN AgreedOn(c) ELSE agreed
     /\ UNCHANGED <<status, tournamentId, endorsements, detached, conditions, policySnapshot,
                    openings, tournament, answered>>

\* reviewAmendment, in any status.
ReviewAmendment(i, approved) ==
  /\ i \in DOMAIN amendments
  /\ amendments[i].status = "PROPOSED"
  /\ amendments' = [amendments EXCEPT ![i].status = IF approved THEN "APPROVED" ELSE "REJECTED"]
  /\ Applies(amendments[i].changes, approved)
  /\ agreed' = IF approved THEN AgreedOn(amendments[i].changes) ELSE agreed
  /\ UNCHANGED <<status, tournamentId, endorsements, detached, conditions, policySnapshot,
                 openings, tournament, answered>>

(* Registration and activation.                                            *)

\* Faulty: every opening mints the events' ids anew.
RemintedIds == [e \in DOMAIN events |-> Minted]

EventIds == [e \in DOMAIN events |-> IF events[e] = NoId THEN Minted ELSE events[e]]

\* The call's own id comes before the proposal's.  What it supplies of the profile, and
\* entriesOpen where there is none, is merged into the proposal without review.
OpenProposalRegistration(id, profile) ==
  /\ status \notin Terminal
  /\ openings < MaxOpenings
  /\ openings' = openings + 1
  /\ tournamentId' = IF id # NoId THEN id ELSE IF tournamentId # NoId THEN tournamentId ELSE Minted
  /\ events' = EventIds
  /\ proposal' = [f \in Field |-> IF f \in DOMAIN profile THEN profile[f] ELSE proposal[f]]
  /\ promised' =
       IF tournament # NoTournament THEN promised
       ELSE [tournament |-> {tournamentId'} \cup (IF id = NoId THEN promised.tournament ELSE {}),
             events |-> [e \in Event |-> IF e \in DOMAIN events
                                           THEN promised.events[e] \cup {events'[e]}
                                           ELSE promised.events[e]]]
  /\ UNCHANGED <<status, endorsements, detached, conditions, amendments, policySnapshot,
                 tournament, agreed, answered>>

\* Faulty: the tournament has what the proposal has, an id or none.
ActivatedAsIs(id) == id

\* The tournament takes the ids the proposal has, and new ones where it has none.
Activated(id) == IF id = NoId THEN MintedAtActivation ELSE id

ActivateFromSanctioning ==
  /\ status = "APPROVED"
  /\ TransitionStatus("ACTIVE")
  /\ tournament' = [tournamentStatus |-> "ACTIVE", id |-> Activated(tournamentId),
                    events |-> [e \in DOMAIN events |-> Activated(events[e])]]
  /\ UNCHANGED <<proposal, tournamentId, events, endorsements, detached, conditions,
                 amendments, policySnapshot, openings, historyVars>>

\* With fewer uuids than the policy's requirements the call is refused, after the transition.
ActivationRefused(own) ==
  /\ status = "APPROVED"
  /\ PolicyOf(own) # NoPolicy /\ PolicyOf(own).requirements
  /\ OnlyTransitions("ACTIVE")

-----------------------------------------------------------------------------

Proposing ==
  \/ \E c \in Change, id \in ClientId \cup {NoId, tournamentId} : UpdateProposal(c, id)
  \/ \E e \in Event : AddEventProposal(e) \/ RemoveEventProposal(e)

Endorsing ==
  \/ \E e \in Endorser : RequestEndorsement(e)
  \/ \E answer \in {"ENDORSED", "DECLINED"} :
       AnswerUnnamed(answer) \/ \E e \in Endorser : AnswerNamed(e, answer)
  \/ InstallCopy

Applying ==
  \/ \E policy \in Policy \cup {NoPolicy} : SubmitApplication(policy)
  \/ ReviewApplication \/ ApproveApplication \/ RejectApplication \/ WithdrawApplication
  \/ RequestModification \/ ConditionallyApprove
  \/ \E i \in 1 .. MaxConditions : MeetCondition(i)

Amending ==
  \/ \E c \in Change, own \in Policy \cup {NoPolicy}, weeks \in Weeks :
       ProposeAmendment(c, own, weeks)
  \/ \E i \in 1 .. MaxAmendments, approved \in BOOLEAN : ReviewAmendment(i, approved)

Activating ==
  \/ \E id \in ClientId \cup {NoId}, S \in SUBSET ProfileField :
       \E profile \in [S -> Value] : OpenProposalRegistration(id, profile)
  \/ ActivateFromSanctioning
  \/ \E own \in Policy \cup {NoPolicy} : ActivationRefused(own)
  \/ TransitionToPostEvent \/ FlagComplianceIssues \/ CloseApplication

Next == Proposing \/ Endorsing \/ Applying \/ Amending \/ Activating

Spec == Init /\ [][Next]_vars

-----------------------------------------------------------------------------
(* Properties.                                                             *)

\* Every part of the record, and every history variable, has its type.
TypeOK ==
  /\ status \in Status
  /\ proposal \in [Field -> Value] /\ agreed \in [Field -> Value]
  /\ tournamentId \in Id \cup {NoId}
  /\ events \in EventIdsOf(Id \cup {NoId})
  /\ endorsements \in Seq(Endorsement) /\ detached \in BOOLEAN
  /\ conditions \in Seq(BOOLEAN) /\ Len(conditions) <= MaxConditions
  /\ amendments \in Seq(Amendment) /\ Len(amendments) <= MaxAmendments
  /\ policySnapshot \in Policy \cup {NoPolicy}
  /\ openings \in 0 .. MaxOpenings
  /\ tournament \in [tournamentStatus : {"ACTIVE"}, id : Id, events : EventIdsOf(Id)]
                     \cup {NoTournament}
  /\ promised \in [tournament : SUBSET Id, events : [Event -> SUBSET Id]]
  /\ answered \in [Endorser -> {"nothing", "PENDING", "ENDORSED", "DECLINED", "lost"}]

\* What the last call about an endorser answered to have done is what the list says of that
\* endorser, unless the call named no endorser and found `endorsement' detached by a copy:
\* that answer the code loses (endorsement.ts, syncEndorsement and findEndorsement).
EndorsementsAsAnswered ==
  \A i \in DOMAIN endorsements :
    LET e == endorsements[i].endorser
    IN answered[e] # "lost" => endorsements[i].status = answered[e]

\* The fields that a policy protects: every path that writes them is substantial, and they are
\* not part of the registrationProfile.
Protected(policy) ==
  {f \in Field \ ProfileField : \A p \in Path : f \in Under[p] => p \in policy.substantial}

\* From submission on, a field that the submitted policy protects has the value that was
\* submitted or approved by review, unless a call brought a policy of its own.  A field that can
\* also be written through an unlisted path above or below it, or through the registration
\* profile, has no such guarantee (amendments.ts, classifySeverity; openProposalRegistration.ts).
SubstantialChangesReviewed ==
  status \notin Editable \cup {"WITHDRAWN"} =>
    \A f \in Field :
      policySnapshot # NoPolicy /\ f \in Protected(policySnapshot) => proposal[f] = agreed[f]

\* Every id handed out for registration before the tournament existed is the tournament's,
\* unless its event left the proposal or a client replaced it: reopening with a tournamentId of
\* its own, or writing an event whole or its eventId (openProposalRegistration.ts,
\* activateFromSanctioning.ts).  Reopening, reviewing and activating never replace one.
RegistrationSurvives ==
  tournament # NoTournament =>
    /\ promised.tournament \subseteq {tournament.id}
    /\ \A e \in DOMAIN tournament.events : promised.events[e] \subseteq {tournament.events[e]}
=============================================================================
