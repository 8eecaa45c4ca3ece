-------------------------- MODULE SyncEngineProofs ---------------------------
(***************************************************************************)
(* Theorems about SyncEngine, for every set of tournaments, topics and     *)
(* keys and every bound.  Four invariants, each resting on those before    *)
(* it: types (TypeInv), the instant of the outermost call (OneInstant),    *)
(* what snapshots and the provider's state hold (RefusedInv) and what      *)
(* stamps and marks cover (MarksInv).  On them rest what a call leaves     *)
(* behind (DelayedInv), whose stamps there are (WitnessInv), what becomes  *)
(* of notices (FateInv), and that the engine implements AtomicEngine       *)
(* (GrowthInv).                                                            *)
(***************************************************************************)
EXTENDS SyncEngine, EngineStateLemmas

-----------------------------------------------------------------------------
(* Types.                                                                  *)

\* No more instants were read than calls begun: this keeps clock within Instant.
TypeInv == TypeOK /\ clock <= calls

\* Instants are bounded by the number of calls, and 0 is one of them.
LEMMA ZeroInstant == 0 \in Instant
BY BoundAssumption DEF Instant

LEMMA FreshStateType == FreshState \in State
<1>1. NoRecords \in Records
  BY ZeroInstant DEF NoRecords, Records
<1> QED BY <1>1, ZeroInstant DEF FreshState, State

LEMMA NoFrameType == NoFrame \in Frame
<1>1. NoSnapshot \in Snapshot
  BY FreshStateType, CaptureOperationSnapshot DEF NoSnapshot
<1>2. 0 \in 0 .. MaxWrites /\ 0 \in 0 .. LastRank
  BY BoundAssumption, RankAssumption
<1> QED BY <1>1, <1>2, ZeroInstant DEF NoFrame, Frame, Kind, Mode, Phase

\* While a call is in progress, Top is a frame.
LEMMA TopFrame ==
  ASSUME TypeOK, depth > 0
  PROVE  /\ depth \in 1 .. MaxDepth /\ depth - 1 \in 0 .. MaxDepth
         /\ Top \in Frame
<1>1. depth \in 0 .. MaxDepth /\ frame \in [1 .. MaxDepth -> Frame] /\ MaxDepth \in Nat
  BY DepthAssumption DEF TypeOK
<1>2. depth \in 1 .. MaxDepth /\ depth - 1 \in 0 .. MaxDepth
  BY <1>1
<1> QED BY <1>1, <1>2 DEF Top

LEMMA FatedType ==
  ASSUME NEW f \in [Write -> Fate], NEW buffered, NEW becomes \in Fate
  PROVE  Fated(f, buffered, becomes) \in [Write -> Fate]
BY DEF Fated

\* A method's write, to a record in state or to one that a restore replaced, adds itself at most.
LEMMA WrittenState ==
  ASSUME state \in State, NEW t \in Tournament, NEW w \in Write
  PROVE  LET u == Written(t, w)
         IN /\ u \in State
            /\ \A v \in Tournament :
                 u.records.written[v] \subseteq state.records.written[v] \cup {w}
            /\ u.notices = state.notices
            /\ u.capturedClock = state.capturedClock
<1>1. CASE depth \in detached
  BY <1>1 DEF Written
<1>2. CASE depth \notin detached
  <2>1. Written(t, w) = WriteRecord(state, t, w)
    BY <1>2 DEF Written
  <2> QED BY <2>1, WriteRecordState
<1> QED BY <1>1, <1>2

\* A call that returns leaves a well-typed stack, and releases the instant if it
\* was the outermost.
LEMMA ReturnType ==
  ASSUME TypeOK, depth > 0, NEW s \in State, Return(s)
  PROVE  /\ state' \in State
         /\ depth' \in 0 .. MaxDepth
         /\ frame' \in [1 .. MaxDepth -> Frame]
<1>1. Release(s) \in State
  BY ZeroInstant DEF Release, State
<1>2. frame \in [1 .. MaxDepth -> Frame]
  BY DEF TypeOK
<1> QED BY <1>1, <1>2, TopFrame, NoFrameType DEF Return

\* The type of everything an engine call may change, a step of the call stack aside.
LEMMA HistoryType ==
  ASSUME TypeInv, UNCHANGED historyVars
  PROVE  /\ made' \in 0 .. MaxWrites
         /\ madeAt' \in [Write -> Instant]
         /\ delivered' \in [Write -> 0 .. 2]
         /\ nested' \subseteq Write /\ undone' \subseteq Write /\ unmarked' \subseteq Write
         /\ lost' \subseteq Write
         /\ delayed' \subseteq Write
         /\ fate' \in [Write -> Fate]
BY DEF TypeInv, TypeOK, historyVars

\* A step that only moves the innermost call keeps the types.
LEMMA TopMoves ==
  ASSUME TypeInv, depth > 0, NEW s \in State, NEW f \in Frame,
         state' = s, frame' = [frame EXCEPT ![depth] = f], detached' \subseteq detached,
         UNCHANGED <<depth, clock, calls, historyVars>>
  PROVE  TypeInv'
<1>1. frame' \in [1 .. MaxDepth -> Frame]
  BY TopFrame DEF TypeInv, TypeOK
<1>2. UNCHANGED historyVars
  OBVIOUS
<1> QED BY <1>1, <1>2, HistoryType DEF TypeInv, TypeOK

LEMMA InitTypeInv == Init => TypeInv
<1> SUFFICES ASSUME Init PROVE TypeInv
  OBVIOUS
<1>1. state \in State
  <2>1. PICK ids \in SUBSET Tournament : state = SetState(FreshState, ids)
    BY DEF Init
  <2> QED BY <2>1, FreshStateType, SetStateState
<1>2. frame \in [1 .. MaxDepth -> Frame]
  BY NoFrameType DEF Init
<1>3. /\ depth \in 0 .. MaxDepth
      /\ clock \in Instant /\ calls \in 0 .. MaxCalls /\ clock <= calls
      /\ made \in 0 .. MaxWrites
  BY ZeroInstant, BoundAssumption, DepthAssumption DEF Init
<1>4. /\ madeAt \in [Write -> Instant]
      /\ delivered \in [Write -> 0 .. 2]
      /\ fate \in [Write -> Fate]
  BY ZeroInstant DEF Init, Fate
<1>5. /\ nested \subseteq Write /\ undone \subseteq Write /\ unmarked \subseteq Write
      /\ lost \subseteq Write /\ delayed \subseteq Write /\ detached \subseteq 1 .. MaxDepth
  BY DEF Init
<1> QED BY <1>1, <1>2, <1>3, <1>4, <1>5 DEF TypeInv, TypeOK

LEMMA EditTypeInv ==
  ASSUME TypeInv, NEW s \in State, Edit(s)
  PROVE  TypeInv'
<1>1. /\ calls' \in 0 .. MaxCalls /\ clock' <= calls'
      /\ clock' \in Instant
  BY BoundAssumption DEF TypeInv, TypeOK, Edit, Instant
<1>2. UNCHANGED historyVars
  BY DEF Edit
<1> QED BY <1>1, <1>2, HistoryType DEF TypeInv, TypeOK, Edit

LEMMA BeginTypeInv ==
  ASSUME TypeInv, NEW kind \in Kind, NEW mode \in Mode, NEW captures \in BOOLEAN,
         NEW directives \in Nat \ {0}, Begin(kind, mode, captures, directives)
  PROVE  TypeInv'
<1>1. /\ state \in State /\ made \in 0 .. MaxWrites
      /\ depth \in 0 .. MaxDepth /\ frame \in [1 .. MaxDepth -> Frame]
      /\ calls \in 0 .. MaxCalls /\ clock <= calls /\ clock \in Instant
      /\ calls < MaxCalls /\ depth < MaxDepth
      /\ MaxDepth \in Nat /\ MaxCalls \in Nat /\ MaxWrites \in Nat
  BY BoundAssumption, DepthAssumption DEF TypeInv, TypeOK, Begin
<1>2. state.capturedClock \in Instant
  BY <1>1 DEF State
<1>3. CallInstant \in Instant
  BY <1>1, <1>2 DEF CallInstant, Instant
<1>4. state' \in State
  BY <1>1, <1>3 DEF Begin, State
<1>5. clock' \in Instant /\ calls' \in 0 .. MaxCalls /\ clock' <= calls'
  <2>1. clock' = clock \/ clock' = clock + 1
    BY DEF Begin, CallInstant
  <2> QED BY <1>1, <2>1 DEF Begin, Instant
<1>6. depth' \in 0 .. MaxDepth /\ depth + 1 \in 1 .. MaxDepth
  BY <1>1 DEF Begin
<1>7. frame' \in [1 .. MaxDepth -> Frame]
  <2> DEFINE f == [NoFrame EXCEPT
          !.kind = kind, !.mode = mode, !.left = directives, !.timeStamp = CallInstant,
          !.captures = captures, !.since = IF captures THEN made ELSE 0,
          !.snapshot = IF captures THEN CaptureOperation(state) ELSE NoSnapshot]
  <2>1. frame' = [frame EXCEPT ![depth + 1] = f]
    BY DEF Begin
  <2>2. CaptureOperation(state) \in Snapshot /\ NoSnapshot \in Snapshot
    BY <1>1, FreshStateType, CaptureOperationSnapshot DEF NoSnapshot
  <2>3. (IF captures THEN made ELSE 0) \in 0 .. MaxWrites
    BY <1>1
  <2>4. f \in Frame
    BY <1>3, <2>2, <2>3, NoFrameType DEF Frame
  <2> HIDE DEF f
  <2> QED BY <1>1, <1>6, <2>1, <2>4
<1>8. UNCHANGED historyVars /\ detached' \subseteq 1 .. MaxDepth
  BY DEF Begin, TypeInv, TypeOK
<1> QED BY <1>4, <1>5, <1>6, <1>7, <1>8, HistoryType DEF TypeInv, TypeOK

LEMMA MethodWritesTypeInv ==
  ASSUME TypeInv, NEW t \in Tournament, NEW a \in Announcement, MethodWrites(t, a)
  PROVE  TypeInv'
<1> DEFINE w == made + 1
           id == IF a.named THEN t ELSE Unnamed
           written == Written(t, w)
           notice == [topic |-> a.topic, key |-> a.key, write |-> w]
<1>1. /\ state \in State /\ made \in 0 .. MaxWrites /\ made < MaxWrites
      /\ madeAt \in [Write -> Instant] /\ fate \in [Write -> Fate] /\ lost \subseteq Write
  BY DEF TypeInv, TypeOK, MethodWrites
<1>2. w \in Write /\ w \in 0 .. MaxWrites
  BY <1>1, BoundAssumption DEF Write
<1>3. id \in Tournament \cup {Unnamed}
  OBVIOUS
<1>4. written \in State
  BY <1>1, <1>2, WrittenState
<1>5. made' = w /\ madeAt' = [madeAt EXCEPT ![w] = state.capturedClock]
  BY DEF MethodWrites
<1>6. madeAt' \in [Write -> Instant]
  BY <1>1, <1>5 DEF State
<1>7. state' \in State /\ fate' \in [Write -> Fate]
  <2>1. CASE /\ a.topic \in Topic
             /\ state' = AddNotice(written, notice, id)
             /\ fate' = Fated([fate EXCEPT ![w] = "pending"],
                              Superseded(state, notice.topic, notice.key), "superseded")
    <3>1. notice \in Notice
      BY <1>2, <2>1, AnnouncementAssumption DEF Notice
    <3>2. AddNotice(written, notice, id) \in State
      BY <1>3, <1>4, <3>1, AddNoticeState
    <3>3. [fate EXCEPT ![w] = "pending"] \in [Write -> Fate] /\ "superseded" \in Fate
      BY <1>1 DEF Fate
    <3> HIDE DEF notice, w
    <3> QED BY <2>1, <3>2, <3>3, FatedType
  <2>2. CASE state' = MarkModified(written, id) /\ UNCHANGED fate
    BY <1>1, <1>3, <1>4, <2>2, MarkModifiedState
  <2> QED BY <2>1, <2>2 DEF MethodWrites
<1> HIDE DEF w
<1> QED BY <1>2, <1>5, <1>6, <1>7 DEF TypeInv, TypeOK, MethodWrites

LEMMA DirectiveSucceedsTypeInv ==
  ASSUME TypeInv, DirectiveSucceeds
  PROVE  TypeInv'
<1> DEFINE f == [Top EXCEPT !.left = @ - 1]
<1>1. TypeOK /\ depth > 0 /\ Top.left > 1
  BY DEF TypeInv, DirectiveSucceeds, MethodRuns
<1>2. Top \in Frame /\ depth \in 1 .. MaxDepth
  BY <1>1, TopFrame
<1>3. f \in Frame
  BY <1>1, <1>2 DEF Frame
<1>4. frame' = [frame EXCEPT ![depth] = f]
  BY <1>1, <1>2 DEF DirectiveSucceeds, Top, TypeOK
<1>5. state \in State /\ detached' \subseteq detached /\ UNCHANGED <<state, depth, clock, calls, historyVars>>
  BY <1>1 DEF TypeOK, DirectiveSucceeds, MethodEnds
<1> HIDE DEF f
<1> QED BY <1>1, <1>3, <1>4, <1>5, TopMoves

LEMMA CallSucceedsTypeInv ==
  ASSUME TypeInv, CallSucceeds
  PROVE  TypeInv'
<1> DEFINE f == [Top EXCEPT !.phase = "dispatch", !.modified = state.modified]
           s == GetMutationStatus(state, Top.timeStamp)
<1>1. TypeOK /\ depth > 0 /\ state \in State
  BY DEF TypeInv, TypeOK, CallSucceeds, MethodRuns
<1>2. Top \in Frame
  BY <1>1, TopFrame
<1>3. f \in Frame /\ Top.timeStamp \in Instant
  BY <1>1, <1>2 DEF Frame, Phase, State
<1>4. s \in State
  BY <1>1, <1>3, GetMutationStatusState
<1>5. frame' = [frame EXCEPT ![depth] = f]
  BY <1>1, <1>2 DEF CallSucceeds, BeginDispatch, Top, TypeOK
<1>6. state' = s /\ detached' \subseteq detached /\ UNCHANGED <<depth, clock, calls, historyVars>>
  BY DEF CallSucceeds, BeginDispatch, MethodEnds
<1> HIDE DEF f, s
<1> QED BY <1>1, <1>3, <1>4, <1>5, <1>6, TopMoves

\* Every way a call returns keeps the types, whatever state it returns with.
LEMMA ReturningTypeInv ==
  ASSUME TypeInv, depth > 0, NEW s \in State, Return(s),
         detached' \subseteq 1 .. MaxDepth,
         UNCHANGED <<made, madeAt, delivered, nested, lost>>,
         undone' \subseteq Write, unmarked' \subseteq Write, delayed' \subseteq Write,
         fate' \in [Write -> Fate]
  PROVE  TypeInv'
<1>1. TypeOK
  BY DEF TypeInv
<1>2. /\ state' \in State
      /\ depth' \in 0 .. MaxDepth
      /\ frame' \in [1 .. MaxDepth -> Frame]
  BY <1>1, ReturnType
<1> QED BY <1>2 DEF TypeInv, TypeOK, Return

LEMMA DelayedCallSucceedsTypeInv ==
  ASSUME TypeInv, DelayedCallSucceeds
  PROVE  TypeInv'
<1>1. TypeOK /\ depth > 0 /\ state \in State
  BY DEF TypeInv, TypeOK, DelayedCallSucceeds, MethodRuns
<1>2. Top.timeStamp \in Instant
  BY <1>1, TopFrame DEF Frame
<1>3. GetMutationStatus(state, Top.timeStamp) \in State
  BY <1>1, <1>2, GetMutationStatusState
<1>4. delayed' \subseteq Write
  BY <1>1 DEF DelayedCallSucceeds, TypeOK, State, Notice
<1> QED BY <1>1, <1>3, <1>4, ReturningTypeInv DEF DelayedCallSucceeds, MethodEnds, TypeOK

LEMMA EndUnannouncedTypeInv ==
  ASSUME TypeInv, depth > 0, EndUnannounced
  PROVE  TypeInv'
<1>1. TypeOK /\ state \in State
  BY DEF TypeInv, TypeOK
<1>2. Top.timeStamp \in Instant
  BY <1>1, TopFrame DEF Frame
<1>3. KeepWrites(state, Top.timeStamp) \in State
  BY <1>1, <1>2, KeepWritesState
<1>4. fate' \in [Write -> Fate]
  BY <1>1, FatedType DEF EndUnannounced, TypeOK, Fate
<1> QED BY <1>1, <1>3, <1>4, ReturningTypeInv DEF EndUnannounced, MethodEnds, TypeOK

LEMMA RestoreTypeInv ==
  ASSUME TypeInv, depth > 0, Restore
  PROVE  TypeInv'
<1> DEFINE restored == RestoreOperation(state, Top.snapshot)
<1>1. TypeOK /\ state \in State /\ made \in 0 .. MaxWrites
  BY DEF TypeInv, TypeOK
<1>2. Top.snapshot \in Snapshot /\ Top.since \in 0 .. MaxWrites
  BY <1>1, TopFrame DEF Frame
<1>3. restored \in State
  BY <1>1, <1>2, RestoreOperationState
<1>4. fate' \in [Write -> Fate]
  BY <1>1, FatedType DEF Restore, TypeOK, Fate
<1>5. undone' \subseteq Write
  <2>1. Top.since + 1 .. made \subseteq Write
    BY <1>1, <1>2, BoundAssumption DEF Write
  <2> QED BY <1>1, <2>1 DEF Restore, TypeOK
<1>6. unmarked' \subseteq Write
  BY <1>1 DEF Restore, TypeOK
<1>7. Return(restored) /\ UNCHANGED <<made, madeAt, delivered, nested, lost, delayed>>
  BY DEF Restore
<1>8. detached' \subseteq 1 .. MaxDepth
  BY <1>1, DepthAssumption DEF Restore, TypeOK
<1> HIDE DEF restored
<1> QED BY <1>1, <1>3, <1>4, <1>5, <1>6, <1>7, <1>8, ReturningTypeInv DEF TypeOK

LEMMA CallListenerTypeInv ==
  ASSUME TypeInv, NEW topic \in Topic, CallListener(topic)
  PROVE  TypeInv'
<1> DEFINE f == [Top EXCEPT !.phase = "listener", !.reached = Rank[topic]]
           payloads == {n.write : n \in GetNotices(state, topic)}
<1>1. TypeOK /\ depth > 0 /\ state \in State
  BY DEF TypeInv, TypeOK, CallListener, Dispatching
<1>2. Top \in Frame /\ depth \in 1 .. MaxDepth
  BY <1>1, TopFrame
<1>3. Rank[topic] \in 0 .. LastRank
  BY RankAssumption
<1>4. f \in Frame
  BY <1>2, <1>3 DEF Frame, Phase
<1>5. frame' = [frame EXCEPT ![depth] = f]
  BY <1>1, <1>2 DEF CallListener, Top, TypeOK
<1>6. frame' \in [1 .. MaxDepth -> Frame]
  <2> HIDE DEF f
  <2> QED BY <1>1, <1>2, <1>4, <1>5 DEF TypeOK
<1>7. payloads \subseteq Write
  BY <1>1 DEF GetNotices, State, Notice
<1>8. delivered' \in [Write -> 0 .. 2]
  BY <1>1 DEF CallListener, TypeOK
<1>9. nested' \subseteq Write
  BY <1>1, <1>7 DEF CallListener, TypeOK
<1> HIDE DEF f, payloads
<1> QED BY <1>6, <1>8, <1>9 DEF TypeInv, TypeOK, CallListener

LEMMA CallMutationsListenerTypeInv ==
  ASSUME TypeInv, CallMutationsListener
  PROVE  TypeInv'
<1> DEFINE f == [Top EXCEPT !.phase = "listener", !.reached = LastRank]
<1>1. TypeOK /\ depth > 0 /\ state \in State
  BY DEF TypeInv, TypeOK, CallMutationsListener, Dispatching
<1>2. Top \in Frame /\ LastRank \in 0 .. LastRank
  BY <1>1, TopFrame, RankAssumption
<1>3. f \in Frame
  BY <1>2 DEF Frame, Phase
<1>4. frame' = [frame EXCEPT ![depth] = f]
  BY <1>1, <1>2 DEF CallMutationsListener, Top, TypeOK
<1>5. state' = state /\ UNCHANGED <<depth, detached, clock, calls, historyVars>>
  BY DEF CallMutationsListener
<1> HIDE DEF f
<1> QED BY <1>1, <1>3, <1>4, <1>5, TopMoves

LEMMA ListenerReturnsTypeInv ==
  ASSUME TypeInv, ListenerReturns
  PROVE  TypeInv'
<1> DEFINE f == [Top EXCEPT !.phase = "dispatch"]
<1>1. TypeOK /\ depth > 0 /\ state \in State
  BY DEF TypeInv, TypeOK, ListenerReturns
<1>2. Top \in Frame
  BY <1>1, TopFrame
<1>3. f \in Frame
  BY <1>2 DEF Frame, Phase
<1>4. frame' = [frame EXCEPT ![depth] = f]
  BY <1>1, <1>2 DEF ListenerReturns, Top, TypeOK
<1>5. state' = state /\ UNCHANGED <<depth, detached, clock, calls, historyVars>>
  BY DEF ListenerReturns
<1> HIDE DEF f
<1> QED BY <1>1, <1>3, <1>4, <1>5, TopMoves

LEMMA DispatchEndsTypeInv ==
  ASSUME TypeInv, DispatchEnds
  PROVE  TypeInv'
<1>1. TypeOK /\ depth > 0 /\ state \in State
  BY DEF TypeInv, TypeOK, DispatchEnds, Dispatching
<1>2. DeleteNotices(state) \in State
  BY <1>1, DeleteNoticesState
<1>3. fate' \in [Write -> Fate]
  BY <1>1, FatedType DEF DispatchEnds, TypeOK, Fate
<1> QED BY <1>1, <1>2, <1>3, ReturningTypeInv DEF DispatchEnds, TypeOK

LEMMA NextTypeInv == TypeInv /\ [Next]_vars => TypeInv'
<1> SUFFICES ASSUME TypeInv, [Next]_vars PROVE TypeInv'
  OBVIOUS
<1>0. state \in State /\ TypeOK
  BY DEF TypeInv, TypeOK
<1>1. ASSUME NEW ids \in SUBSET Tournament, LoadState(ids) PROVE TypeInv'
  BY <1>0, <1>1, SetStateState, EditTypeInv DEF LoadState
<1>2. ASSUME NEW t \in Tournament \cup {NoTournament}, SelectTournament(t) PROVE TypeInv'
  BY <1>0, <1>2, SetTournamentIdState, EditTypeInv DEF SelectTournament
<1>3. ASSUME NEW t \in Tournament, UnloadTournament(t) PROVE TypeInv'
  BY <1>0, <1>3, RemoveTournamentRecordState, EditTypeInv DEF UnloadTournament
<1>4. ASSUME NEW mode \in Mode, NEW rollback \in BOOLEAN, EngineInvoke(mode, rollback)
      PROVE  TypeInv'
  BY <1>4, BeginTypeInv DEF EngineInvoke, Kind
<1>5. ASSUME NEW n \in QueueLength, NEW rollback \in BOOLEAN, ExecutionQueue(n, rollback)
      PROVE  TypeInv'
  BY <1>5, BeginTypeInv, DepthAssumption DEF ExecutionQueue, Kind, Mode
<1>6. ASSUME NEW n \in QueueLength, DryRun(n) PROVE TypeInv'
  BY <1>6, BeginTypeInv, DepthAssumption DEF DryRun, Kind, Mode
<1>7. ASSUME NEW t \in Tournament, NEW a \in Announcement, MethodWrites(t, a)
      PROVE  TypeInv'
  BY <1>7, MethodWritesTypeInv
<1>8. CASE DirectiveSucceeds
  BY <1>8, DirectiveSucceedsTypeInv
<1>9. CASE CallSucceeds
  BY <1>9, CallSucceedsTypeInv
<1>10. CASE DelayedCallSucceeds
  BY <1>10, DelayedCallSucceedsTypeInv
<1>11. CASE CallEndsUnannounced \/ CallRefused
  BY <1>11, EndUnannouncedTypeInv DEF CallEndsUnannounced, CallRefused, MethodRuns
<1>12. CASE CallRolledBack \/ PreviewEnds
  BY <1>12, RestoreTypeInv DEF CallRolledBack, PreviewEnds, MethodRuns
<1>13. ASSUME NEW topic \in Topic, CallListener(topic) PROVE TypeInv'
  BY <1>13, CallListenerTypeInv
<1>14. CASE CallMutationsListener
  BY <1>14, CallMutationsListenerTypeInv
<1>15. CASE ListenerReturns
  BY <1>15, ListenerReturnsTypeInv
<1>16. CASE DispatchEnds
  BY <1>16, DispatchEndsTypeInv
<1>17. CASE UNCHANGED vars
  BY <1>17 DEF TypeInv, TypeOK, vars, engineVars, historyVars
<1> QED
  BY <1>1, <1>2, <1>3, <1>4, <1>5, <1>6, <1>7, <1>8, <1>9, <1>10, <1>11, <1>12, <1>13,
     <1>14, <1>15, <1>16, <1>17 DEF Next

LEMMA SpecTypeInv == Spec => []TypeInv
BY InitTypeInv, NextTypeInv, PTL DEF Spec

\* Every reachable state is well typed: in particular a queue's directives never
\* run out before it ends, and a call never returns from an empty stack.
THEOREM TypeCorrect == Spec => []TypeOK
<1>1. TypeInv => TypeOK
  BY DEF TypeInv
<1> QED BY <1>1, SpecTypeInv, PTL

-----------------------------------------------------------------------------
(* The captured instant.                                                   *)

LEMMA InitOneInstant == Init => OneInstant
<1> SUFFICES ASSUME Init PROVE OneInstant
  OBVIOUS
<1>1. PICK ids \in SUBSET Tournament : state = SetState(FreshState, ids)
  BY DEF Init
<1>2. state.capturedClock = FreshState.capturedClock
  BY <1>1, FreshStateType, SetStateState
<1> QED BY <1>2 DEF Init, OneInstant, FreshState

\* A step that changes neither the stack's height nor an instant keeps OneInstant.
LEMMA InstantKept ==
  ASSUME TypeInv, OneInstant, depth' = depth,
         state'.capturedClock = state.capturedClock,
         \A d \in 1 .. depth : frame'[d].timeStamp = frame[d].timeStamp
  PROVE  OneInstant'
BY DEF OneInstant

\* A step that rewrites fields of the innermost frame other than its instant does.
LEMMA TopKeepsInstant ==
  ASSUME TypeInv, OneInstant, depth > 0, UNCHANGED depth,
         state'.capturedClock = state.capturedClock,
         NEW f, f.timeStamp = Top.timeStamp, frame' = [frame EXCEPT ![depth] = f]
  PROVE  OneInstant'
<1>1. depth \in 1 .. MaxDepth /\ frame \in [1 .. MaxDepth -> Frame]
  BY TopFrame DEF TypeInv, TypeOK
<1>2. \A d \in 1 .. depth : frame'[d].timeStamp = frame[d].timeStamp
  BY <1>1, DepthAssumption DEF Top
<1> QED BY <1>2, InstantKept

\* The call below a returning one, if any, has the same instant; there is none
\* exactly when the instant is released.
LEMMA ReturnKeepsInstant ==
  ASSUME TypeInv, OneInstant, depth > 0, NEW s \in State,
         s.capturedClock = state.capturedClock, Return(s)
  PROVE  OneInstant'
<1>1. /\ depth \in 1 .. MaxDepth /\ frame \in [1 .. MaxDepth -> Frame]
      /\ MaxDepth \in Nat
      /\ depth' = depth - 1
      /\ frame' = [frame EXCEPT ![depth] = NoFrame]
  BY TopFrame, DepthAssumption DEF TypeInv, TypeOK, Return
<1>2. CASE depth = 1
  <2>1. state'.capturedClock = 0
    BY <1>2 DEF Return, Release, State
  <2> QED BY <1>1, <1>2, <2>1 DEF OneInstant
<1>3. CASE depth # 1
  <2>1. state'.capturedClock = state.capturedClock /\ state.capturedClock # 0
    BY <1>1, <1>3 DEF Return, Release, OneInstant
  <2>2. \A d \in 1 .. depth' : d \in 1 .. depth /\ d # depth /\ d \in 1 .. MaxDepth
    BY <1>1
  <2>3. \A d \in 1 .. depth' : frame'[d] = frame[d]
    BY <1>1, <2>2
  <2>4. depth' # 0
    BY <1>1, <1>3
  <2> QED BY <2>1, <2>2, <2>3, <2>4 DEF OneInstant
<1> QED BY <1>2, <1>3

LEMMA EditKeepsInstant ==
  ASSUME TypeInv, OneInstant, NEW s \in State,
         s.capturedClock = state.capturedClock, Edit(s)
  PROVE  OneInstant'
BY InstantKept DEF Edit

LEMMA BeginKeepsInstant ==
  ASSUME TypeInv, OneInstant, NEW kind \in Kind, NEW mode \in Mode,
         NEW captures \in BOOLEAN, NEW directives \in Nat \ {0},
         Begin(kind, mode, captures, directives)
  PROVE  OneInstant'
<1>1. /\ depth \in 0 .. MaxDepth /\ frame \in [1 .. MaxDepth -> Frame]
      /\ depth < MaxDepth /\ MaxDepth \in Nat
      /\ clock \in Nat
      /\ state \in State
  BY DepthAssumption DEF TypeInv, TypeOK, Begin, Instant
<1>2. depth' = depth + 1 /\ depth + 1 \in 1 .. MaxDepth
  BY <1>1 DEF Begin
<1>3. CallInstant # 0 /\ (depth > 0 => CallInstant = state.capturedClock)
  BY <1>1 DEF CallInstant, OneInstant
<1>4. state'.capturedClock = CallInstant
  BY <1>1 DEF Begin, State
<1>5. frame'[depth + 1].timeStamp = CallInstant
  <2> DEFINE f == [NoFrame EXCEPT
          !.kind = kind, !.mode = mode, !.left = directives, !.timeStamp = CallInstant,
          !.captures = captures, !.since = IF captures THEN made ELSE 0,
          !.snapshot = IF captures THEN CaptureOperation(state) ELSE NoSnapshot]
  <2>1. frame' = [frame EXCEPT ![depth + 1] = f]
    BY DEF Begin
  <2>2. f.timeStamp = CallInstant
    BY DEF NoFrame
  <2> HIDE DEF f
  <2> QED BY <1>1, <1>2, <2>1, <2>2
<1>6. \A d \in 1 .. depth : frame'[d] = frame[d]
  BY <1>1, <1>2 DEF Begin
<1>7. \A d \in 1 .. depth' : d \in 1 .. depth \/ d = depth + 1
  BY <1>1, <1>2
<1>8. \A d \in 1 .. depth : frame'[d].timeStamp = CallInstant
  BY <1>1, <1>3, <1>6 DEF OneInstant
<1>9. depth' # 0
  BY <1>1, <1>2
<1> QED BY <1>3, <1>4, <1>5, <1>7, <1>8, <1>9 DEF OneInstant

LEMMA MethodWritesKeepsInstant ==
  ASSUME TypeInv, OneInstant, NEW t \in Tournament, NEW a \in Announcement,
         MethodWrites(t, a)
  PROVE  OneInstant'
<1> DEFINE w == made + 1
           id == IF a.named THEN t ELSE Unnamed
           written == Written(t, w)
           notice == [topic |-> a.topic, key |-> a.key, write |-> w]
<1>1. state \in State /\ w \in Write /\ id \in Tournament \cup {Unnamed}
  BY BoundAssumption DEF TypeInv, TypeOK, MethodWrites, Write
<1>2. written \in State /\ written.capturedClock = state.capturedClock
  BY <1>1, WrittenState
<1>3. state'.capturedClock = state.capturedClock
  <2>1. CASE a.topic \in Topic /\ state' = AddNotice(written, notice, id)
    <3>1. notice \in Notice
      BY <1>1, <2>1, AnnouncementAssumption DEF Notice
    <3> QED BY <1>1, <1>2, <2>1, <3>1, AddNoticeState
  <2>2. CASE state' = MarkModified(written, id)
    BY <1>1, <1>2, <2>2, MarkModifiedState
  <2> QED BY <2>1, <2>2 DEF MethodWrites
<1> QED BY <1>3, InstantKept DEF MethodWrites

LEMMA NextOneInstant == TypeInv /\ OneInstant /\ [Next]_vars => OneInstant'
<1> SUFFICES ASSUME TypeInv, OneInstant, [Next]_vars PROVE OneInstant'
  OBVIOUS
<1>0. state \in State /\ TypeOK /\ frame \in [1 .. MaxDepth -> Frame]
  BY DEF TypeInv, TypeOK
<1>a. ASSUME depth > 0
      PROVE  /\ Top \in Frame /\ Top.timeStamp \in Instant /\ Top.snapshot \in Snapshot
             /\ depth \in 1 .. MaxDepth
  BY <1>0, <1>a, TopFrame DEF Frame
<1>1. ASSUME NEW ids \in SUBSET Tournament, LoadState(ids) PROVE OneInstant'
  BY <1>0, <1>1, SetStateState, EditKeepsInstant DEF LoadState
<1>2. ASSUME NEW t \in Tournament \cup {NoTournament}, SelectTournament(t)
      PROVE  OneInstant'
  BY <1>0, <1>2, SetTournamentIdState, EditKeepsInstant DEF SelectTournament
<1>3. ASSUME NEW t \in Tournament, UnloadTournament(t) PROVE OneInstant'
  BY <1>0, <1>3, RemoveTournamentRecordState, EditKeepsInstant DEF UnloadTournament
<1>4. ASSUME NEW mode \in Mode, NEW rollback \in BOOLEAN, EngineInvoke(mode, rollback)
      PROVE  OneInstant'
  BY <1>4, BeginKeepsInstant DEF EngineInvoke, Kind
<1>5. ASSUME NEW n \in QueueLength, NEW rollback \in BOOLEAN, ExecutionQueue(n, rollback)
      PROVE  OneInstant'
  BY <1>5, BeginKeepsInstant, DepthAssumption DEF ExecutionQueue, Kind, Mode
<1>6. ASSUME NEW n \in QueueLength, DryRun(n) PROVE OneInstant'
  BY <1>6, BeginKeepsInstant, DepthAssumption DEF DryRun, Kind, Mode
<1>7. ASSUME NEW t \in Tournament, NEW a \in Announcement, MethodWrites(t, a)
      PROVE  OneInstant'
  BY <1>7, MethodWritesKeepsInstant
<1>8. CASE DirectiveSucceeds
  <2>1. frame' = [frame EXCEPT ![depth] = [Top EXCEPT !.left = @ - 1]]
    BY <1>0, <1>8, <1>a DEF DirectiveSucceeds, MethodRuns, Top
  <2>2. [Top EXCEPT !.left = @ - 1].timeStamp = Top.timeStamp
    BY <1>8, <1>a DEF DirectiveSucceeds, MethodRuns, Frame
  <2> QED BY <1>8, <2>1, <2>2, TopKeepsInstant DEF DirectiveSucceeds, MethodRuns
<1>9. CASE CallSucceeds
  <2> DEFINE f == [Top EXCEPT !.phase = "dispatch", !.modified = state.modified]
  <2>1. depth > 0
    BY <1>9 DEF CallSucceeds, MethodRuns
  <2>2. frame' = [frame EXCEPT ![depth] = f]
    BY <1>0, <1>9, <1>a, <2>1 DEF CallSucceeds, BeginDispatch, Top
  <2>3. f.timeStamp = Top.timeStamp
    BY <1>a, <2>1 DEF Frame
  <2>4. state'.capturedClock = state.capturedClock /\ UNCHANGED depth
    BY <1>0, <1>9, <1>a, <2>1, GetMutationStatusState DEF CallSucceeds, BeginDispatch
  <2> HIDE DEF f
  <2> QED BY <2>1, <2>2, <2>3, <2>4, TopKeepsInstant
<1>10. CASE DelayedCallSucceeds
  BY <1>0, <1>10, <1>a, GetMutationStatusState, ReturnKeepsInstant
     DEF DelayedCallSucceeds, MethodRuns
<1>11. CASE CallEndsUnannounced \/ CallRefused
  BY <1>0, <1>11, <1>a, KeepWritesState, ReturnKeepsInstant
     DEF CallEndsUnannounced, CallRefused, EndUnannounced, MethodRuns
<1>12. CASE CallRolledBack \/ PreviewEnds
  <2>1. depth > 0 /\ Restore
    BY <1>12 DEF CallRolledBack, PreviewEnds, MethodRuns
  <2>2. Return(RestoreOperation(state, Top.snapshot))
    BY <2>1 DEF Restore
  <2> QED BY <1>0, <1>a, <2>1, <2>2, RestoreOperationState, ReturnKeepsInstant
<1>13. ASSUME NEW topic \in Topic, CallListener(topic) PROVE OneInstant'
  <2> DEFINE f == [Top EXCEPT !.phase = "listener", !.reached = Rank[topic]]
  <2>1. depth > 0 /\ UNCHANGED <<state, depth>>
    BY <1>13 DEF CallListener, Dispatching
  <2>2. frame' = [frame EXCEPT ![depth] = f]
    BY <1>0, <1>13, <1>a, <2>1 DEF CallListener, Top
  <2>3. f.timeStamp = Top.timeStamp
    BY <1>a, <2>1 DEF Frame
  <2> HIDE DEF f
  <2> QED BY <2>1, <2>2, <2>3, TopKeepsInstant
<1>14. CASE CallMutationsListener
  <2> DEFINE f == [Top EXCEPT !.phase = "listener", !.reached = LastRank]
  <2>1. depth > 0 /\ UNCHANGED <<state, depth>>
    BY <1>14 DEF CallMutationsListener, Dispatching
  <2>2. frame' = [frame EXCEPT ![depth] = f]
    BY <1>0, <1>14, <1>a, <2>1 DEF CallMutationsListener, Top
  <2>3. f.timeStamp = Top.timeStamp
    BY <1>a, <2>1 DEF Frame
  <2> HIDE DEF f
  <2> QED BY <2>1, <2>2, <2>3, TopKeepsInstant
<1>15. CASE ListenerReturns
  <2> DEFINE f == [Top EXCEPT !.phase = "dispatch"]
  <2>1. depth > 0 /\ UNCHANGED <<state, depth>>
    BY <1>15 DEF ListenerReturns
  <2>2. frame' = [frame EXCEPT ![depth] = f]
    BY <1>0, <1>15, <1>a, <2>1 DEF ListenerReturns, Top
  <2>3. f.timeStamp = Top.timeStamp
    BY <1>a, <2>1 DEF Frame
  <2> HIDE DEF f
  <2> QED BY <2>1, <2>2, <2>3, TopKeepsInstant
<1>16. CASE DispatchEnds
  BY <1>0, <1>16, DeleteNoticesState, ReturnKeepsInstant DEF DispatchEnds, Dispatching
<1>17. CASE UNCHANGED vars
  BY <1>17 DEF OneInstant, vars, engineVars
<1> QED
  BY <1>1, <1>2, <1>3, <1>4, <1>5, <1>6, <1>7, <1>8, <1>9, <1>10, <1>11, <1>12, <1>13,
     <1>14, <1>15, <1>16, <1>17 DEF Next

\* Every call nested in another stamps with the instant of the outermost, however
\* deep the nesting and whichever way the calls before it ended.
THEOREM InstantOfOutermost == Spec => []OneInstant
<1>1. Init => TypeInv /\ OneInstant
  BY InitTypeInv, InitOneInstant
<1>2. (TypeInv /\ OneInstant) /\ [Next]_vars => (TypeInv /\ OneInstant)'
  BY NextTypeInv, NextOneInstant
<1> QED BY <1>1, <1>2, PTL DEF Spec

-----------------------------------------------------------------------------
(* Refused writes.                                                         *)

\* Records and notices carry no write outside ws.
Holds(records, notices, ws) ==
  /\ \A t \in Tournament : records.written[t] \subseteq ws
  /\ \A n \in notices : n.write \in ws

\* The provider holds writes that were made and not taken back ...
StateHolds == Holds(state.records, state.notices, (1 .. made) \ undone)

\* ... and so does every snapshot a call in progress may restore: none of them is
\* later than the capture, so a restore brings back nothing it or another took back.
SnapshotsHold ==
  \A d \in 1 .. depth :
    /\ frame[d].kind = "dryRun" => frame[d].captures
    /\ frame[d].captures =>
         /\ frame[d].since <= made
         /\ Holds(frame[d].snapshot.records, frame[d].snapshot.notices,
                  (1 .. frame[d].since) \ undone)

\* A nested call captures no earlier than the calls it is nested in: what it takes
\* back is in none of their snapshots.
SnapshotsNest ==
  \A d, e \in 1 .. depth :
    d < e /\ frame[d].captures /\ frame[e].captures => frame[d].since <= frame[e].since

\* What the outermost call delivered was made before any capture that may still be
\* restored.
DeliveredBeforeCaptures ==
  \A w \in Write : delivered[w] > 0 /\ w \notin nested =>
    /\ w \in (1 .. made) \ undone
    /\ \A d \in 1 .. depth :
         frame[d].captures /\ frame[d].phase = "method" => w <= frame[d].since

RefusedInv ==
  /\ undone \subseteq 1 .. made
  /\ StateHolds
  /\ SnapshotsHold
  /\ SnapshotsNest
  /\ DeliveredBeforeCaptures

\* The calls in progress have typed frames and a capture counted in Nat.
LEMMA FrameInProgress ==
  ASSUME TypeInv, NEW d \in 1 .. depth
  PROVE  frame[d] \in Frame /\ frame[d].since \in Nat
<1>1. /\ depth \in 0 .. MaxDepth /\ MaxDepth \in Nat /\ MaxWrites \in Nat
      /\ frame \in [1 .. MaxDepth -> Frame]
  BY DepthAssumption, BoundAssumption DEF TypeInv, TypeOK
<1>2. d \in 1 .. MaxDepth
  BY <1>1
<1>3. frame[d] \in Frame
  BY <1>1, <1>2
<1> QED BY <1>1, <1>3 DEF Frame

\* Two frames agree on what a restore would do.
SameCapture(f, g) ==
  /\ f.kind = g.kind /\ f.captures = g.captures
  /\ f.since = g.since /\ f.snapshot = g.snapshot
  /\ f.phase = "method" => g.phase = "method"

\* A step that delivers and takes back nothing, and adds no write.
QuietStep ==
  /\ depth' \in 0 .. depth
  /\ \A d \in 1 .. depth' : SameCapture(frame'[d], frame[d])
  /\ \A t \in Tournament : state'.records.written[t] \subseteq state.records.written[t]
  /\ state'.notices \subseteq state.notices
  /\ UNCHANGED <<made, undone, delivered, nested>>

LEMMA QuietStepRefusedInv ==
  ASSUME TypeInv, RefusedInv, QuietStep
  PROVE  RefusedInv'
<1>1. depth \in Nat /\ \A d \in 1 .. depth' : d \in 1 .. depth
  BY DepthAssumption DEF TypeInv, TypeOK, QuietStep
<1>2. undone' \subseteq 1 .. made'
  BY DEF RefusedInv, QuietStep
<1>3. StateHolds'
  BY DEF RefusedInv, QuietStep, StateHolds, Holds
<1>4. SnapshotsHold'
  <2> SUFFICES ASSUME NEW d \in 1 .. depth'
               PROVE  /\ frame'[d].kind = "dryRun" => frame'[d].captures
                      /\ frame'[d].captures =>
                           /\ frame'[d].since <= made'
                           /\ Holds(frame'[d].snapshot.records, frame'[d].snapshot.notices,
                                    (1 .. frame'[d].since) \ undone')
    BY DEF SnapshotsHold
  <2>1. SameCapture(frame'[d], frame[d]) /\ UNCHANGED <<made, undone>> /\ d \in 1 .. depth
    BY <1>1 DEF QuietStep
  <2> QED BY <2>1 DEF RefusedInv, SnapshotsHold, SameCapture
<1>5. SnapshotsNest'
  <2> SUFFICES ASSUME NEW d \in 1 .. depth', NEW e \in 1 .. depth', d < e,
                      frame'[d].captures, frame'[e].captures
               PROVE  frame'[d].since <= frame'[e].since
    BY DEF SnapshotsNest
  <2>1. /\ d \in 1 .. depth /\ e \in 1 .. depth
        /\ SameCapture(frame'[d], frame[d]) /\ SameCapture(frame'[e], frame[e])
    BY <1>1 DEF QuietStep
  <2> QED BY <2>1 DEF RefusedInv, SnapshotsNest, SameCapture
<1>6. DeliveredBeforeCaptures'
  <2> SUFFICES ASSUME NEW w \in Write, delivered'[w] > 0, w \notin nested'
               PROVE  /\ w \in (1 .. made') \ undone'
                      /\ \A d \in 1 .. depth' :
                           frame'[d].captures /\ frame'[d].phase = "method"
                             => w <= frame'[d].since
    BY DEF DeliveredBeforeCaptures
  <2>1. /\ w \in (1 .. made) \ undone
        /\ \A d \in 1 .. depth :
             frame[d].captures /\ frame[d].phase = "method" => w <= frame[d].since
    BY DEF RefusedInv, DeliveredBeforeCaptures, QuietStep
  <2>2. \A d \in 1 .. depth' : d \in 1 .. depth /\ SameCapture(frame'[d], frame[d])
    BY <1>1 DEF QuietStep
  <2> QED BY <2>1, <2>2 DEF QuietStep, SameCapture
<1> QED BY <1>2, <1>3, <1>4, <1>5, <1>6 DEF RefusedInv

\* The innermost call moves on without changing what it captured.
LEMMA TopCaptures ==
  ASSUME TypeInv, depth > 0, NEW f, SameCapture(f, Top),
         UNCHANGED depth, frame' = [frame EXCEPT ![depth] = f]
  PROVE  /\ depth' \in 0 .. depth
         /\ \A d \in 1 .. depth' : SameCapture(frame'[d], frame[d])
<1>1. depth \in 1 .. MaxDepth /\ MaxDepth \in Nat /\ frame \in [1 .. MaxDepth -> Frame]
  BY TopFrame, DepthAssumption DEF TypeInv, TypeOK
<1>2. \A d \in 1 .. depth : d \in 1 .. MaxDepth
  BY <1>1
<1>3. ASSUME NEW d \in 1 .. depth PROVE SameCapture(frame'[d], frame[d])
  BY <1>1, <1>2, <1>3 DEF Top, SameCapture
<1> QED BY <1>1, <1>3

\* The calls below a returning one keep what they captured.
LEMMA ReturnCaptures ==
  ASSUME TypeInv, depth > 0, NEW s \in State, Return(s)
  PROVE  /\ depth' \in 0 .. depth /\ depth' = depth - 1
         /\ \A d \in 1 .. depth' : frame'[d] = frame[d]
         /\ \A d \in 1 .. depth' : SameCapture(frame'[d], frame[d])
         /\ state'.records = s.records /\ state'.notices = s.notices
<1>1. /\ depth \in 1 .. MaxDepth /\ MaxDepth \in Nat
      /\ frame \in [1 .. MaxDepth -> Frame]
      /\ depth' = depth - 1 /\ frame' = [frame EXCEPT ![depth] = NoFrame]
  BY TopFrame, DepthAssumption DEF TypeInv, TypeOK, Return
<1>2. \A d \in 1 .. depth' : d \in 1 .. MaxDepth /\ d # depth
  BY <1>1
<1>3. \A d \in 1 .. depth' : frame'[d] = frame[d]
  BY <1>1, <1>2
<1>4. state'.records = s.records /\ state'.notices = s.notices
  BY DEF Return, Release, State
<1> QED BY <1>1, <1>3, <1>4 DEF SameCapture

LEMMA EditRefusedInv ==
  ASSUME TypeInv, RefusedInv, NEW s \in State, Edit(s),
         \A t \in Tournament : s.records.written[t] \subseteq state.records.written[t],
         s.notices = state.notices
  PROVE  RefusedInv'
<1>1. depth \in Nat /\ depth' = depth
  BY DepthAssumption DEF TypeInv, TypeOK, Edit
<1>2. QuietStep
  BY <1>1 DEF QuietStep, Edit, SameCapture, historyVars
<1> QED BY <1>2, QuietStepRefusedInv

\* A call captures what the provider holds now, later than any call around it did.
LEMMA BeginRefusedInv ==
  ASSUME TypeInv, RefusedInv, NEW kind \in Kind, NEW mode \in Mode,
         NEW captures \in BOOLEAN, kind = "dryRun" => captures,
         NEW directives \in Nat \ {0}, Begin(kind, mode, captures, directives)
  PROVE  RefusedInv'
<1> DEFINE f == [NoFrame EXCEPT
          !.kind = kind, !.mode = mode, !.left = directives, !.timeStamp = CallInstant,
          !.captures = captures, !.since = IF captures THEN made ELSE 0,
          !.snapshot = IF captures THEN CaptureOperation(state) ELSE NoSnapshot]
<1>1. /\ depth \in 0 .. MaxDepth /\ depth < MaxDepth /\ MaxDepth \in Nat
      /\ frame \in [1 .. MaxDepth -> Frame]
      /\ state \in State /\ made \in Nat
  BY DepthAssumption, BoundAssumption DEF TypeInv, TypeOK, Begin
<1>2. /\ depth' = depth + 1 /\ depth + 1 \in 1 .. MaxDepth
      /\ frame' = [frame EXCEPT ![depth + 1] = f]
      /\ UNCHANGED <<made, undone, delivered, nested>>
  BY <1>1 DEF Begin, historyVars
<1>3. /\ f.kind = kind /\ f.captures = captures
      /\ captures => f.since = made /\ f.snapshot = CaptureOperation(state)
  BY DEF NoFrame
<1> HIDE DEF f
<1>4. /\ frame'[depth + 1] = f
      /\ \A d \in 1 .. depth : frame'[d] = frame[d]
      /\ \A d \in 1 .. depth' : d \in 1 .. depth \/ d = depth + 1
  BY <1>1, <1>2
<1>5. StateHolds'
  BY <1>1 DEF RefusedInv, StateHolds, Holds, Begin, State, historyVars
<1>6. SnapshotsHold'
  <2>1. ASSUME captures
        PROVE  Holds(f.snapshot.records, f.snapshot.notices, (1 .. f.since) \ undone)
    BY <1>1, <1>3, <2>1, CaptureOperationSnapshot DEF RefusedInv, StateHolds
  <2>2. ASSUME NEW d \in 1 .. depth'
        PROVE  /\ frame'[d].kind = "dryRun" => frame'[d].captures
               /\ frame'[d].captures =>
                    /\ frame'[d].since <= made
                    /\ Holds(frame'[d].snapshot.records, frame'[d].snapshot.notices,
                             (1 .. frame'[d].since) \ undone)
    <3>1. CASE d \in 1 .. depth
      BY <1>4, <3>1 DEF RefusedInv, SnapshotsHold
    <3>2. CASE d = depth + 1
      <4>1. frame'[d] = f
        BY <1>4, <3>2
      <4>2. /\ f.kind = "dryRun" => f.captures
            /\ f.captures =>
                 /\ f.since <= made
                 /\ Holds(f.snapshot.records, f.snapshot.notices, (1 .. f.since) \ undone)
        BY <1>1, <1>3, <2>1
      <4> QED BY <4>1, <4>2
    <3> QED BY <1>4, <2>2, <3>1, <3>2
  <2> QED BY <1>2, <2>2 DEF SnapshotsHold
<1>7. SnapshotsNest'
  <2> SUFFICES ASSUME NEW d \in 1 .. depth', NEW e \in 1 .. depth', d < e,
                      frame'[d].captures, frame'[e].captures
               PROVE  frame'[d].since <= frame'[e].since
    BY DEF SnapshotsNest
  <2>1. d \in 1 .. depth
    BY <1>1, <1>2
  <2>2. CASE e \in 1 .. depth
    BY <1>4, <2>1, <2>2 DEF RefusedInv, SnapshotsNest
  <2>3. CASE e = depth + 1
    <3>1. frame[d].captures /\ frame[d].since <= made
      BY <1>4, <2>1 DEF RefusedInv, SnapshotsHold
    <3>2. frame'[e].since = made
      BY <1>3, <1>4, <2>3
    <3> QED BY <1>4, <2>1, <3>1, <3>2
  <2> QED BY <1>4, <2>2, <2>3
<1>8. DeliveredBeforeCaptures'
  <2> SUFFICES ASSUME NEW w \in Write, delivered'[w] > 0, w \notin nested',
                      NEW d \in 1 .. depth'
               PROVE  /\ w \in (1 .. made') \ undone'
                      /\ frame'[d].captures /\ frame'[d].phase = "method"
                           => w <= frame'[d].since
    BY <1>1, <1>2 DEF DeliveredBeforeCaptures
  <2>1. /\ w \in (1 .. made) \ undone
        /\ \A b \in 1 .. depth :
             frame[b].captures /\ frame[b].phase = "method" => w <= frame[b].since
    BY <1>2 DEF RefusedInv, DeliveredBeforeCaptures
  <2>2. CASE d \in 1 .. depth
    BY <1>2, <1>4, <2>1, <2>2
  <2>3. CASE d = depth + 1
    BY <1>1, <1>2, <1>3, <1>4, <2>1, <2>3
  <2> QED BY <1>4, <2>2, <2>3
<1> QED BY <1>2, <1>5, <1>6, <1>7, <1>8 DEF RefusedInv

\* A write is newer than every snapshot and than anything taken back.
LEMMA MethodWritesRefusedInv ==
  ASSUME TypeInv, RefusedInv, NEW t \in Tournament, NEW a \in Announcement,
         MethodWrites(t, a)
  PROVE  RefusedInv'
<1> DEFINE w == made + 1
           id == IF a.named THEN t ELSE Unnamed
           written == Written(t, w)
           notice == [topic |-> a.topic, key |-> a.key, write |-> w]
<1>1. /\ state \in State /\ w \in Write /\ id \in Tournament \cup {Unnamed}
      /\ made \in Nat
  BY BoundAssumption DEF TypeInv, TypeOK, MethodWrites, Write
<1>2. /\ written \in State /\ written.notices = state.notices
      /\ \A v \in Tournament :
           written.records.written[v] \subseteq state.records.written[v] \cup {w}
  BY <1>1, WrittenState
<1>3. /\ state'.records = written.records
      /\ \A n \in state'.notices : n \in state.notices \/ n.write = w
  <2>1. CASE a.topic \in Topic /\ state' = AddNotice(written, notice, id)
    <3>1. notice \in Notice
      BY <1>1, <2>1, AnnouncementAssumption DEF Notice
    <3>2. /\ state'.records = written.records
          /\ state'.notices \subseteq written.notices \cup {notice}
      BY <1>1, <1>2, <2>1, <3>1, AddNoticeState
    <3> QED BY <1>2, <3>2
  <2>2. CASE state' = MarkModified(written, id)
    BY <1>1, <1>2, <2>2, MarkModifiedState
  <2> QED BY <2>1, <2>2 DEF MethodWrites
<1>4. /\ made' = w
      /\ UNCHANGED <<depth, frame, undone, delivered, nested>>
  BY DEF MethodWrites
<1> HIDE DEF written
<1>5. undone' \subseteq 1 .. made'
  BY <1>1, <1>4 DEF RefusedInv
<1>6. StateHolds'
  <2>1. \A x \in (1 .. made) \ undone : x \in (1 .. made') \ undone'
    BY <1>1, <1>4
  <2>2. w \in (1 .. made') \ undone'
    BY <1>1, <1>4 DEF RefusedInv
  <2> HIDE DEF w, notice
  <2> QED BY <1>2, <1>3, <2>1, <2>2 DEF RefusedInv, StateHolds, Holds
<1>7. SnapshotsHold'
  <2>1. \A d \in 1 .. depth : frame[d].captures => frame[d].since <= made'
    <3>1. ASSUME NEW d \in 1 .. depth, frame[d].captures PROVE frame[d].since <= made'
      <4>1. frame[d].since <= made /\ frame[d].since \in Nat
        BY <3>1, FrameInProgress DEF RefusedInv, SnapshotsHold
      <4> QED BY <1>1, <1>4, <4>1
    <3> QED BY <3>1
  <2> QED BY <1>4, <2>1 DEF RefusedInv, SnapshotsHold
<1>8. SnapshotsNest'
  BY <1>4 DEF RefusedInv, SnapshotsNest
<1>9. DeliveredBeforeCaptures'
  BY <1>1, <1>4 DEF RefusedInv, DeliveredBeforeCaptures
<1> QED BY <1>5, <1>6, <1>7, <1>8, <1>9 DEF RefusedInv

\* A restore takes back the writes since the capture: the records it puts back, the
\* calls around it and the outermost call's deliveries all predate them.
LEMMA RestoreRefusedInv ==
  ASSUME TypeInv, RefusedInv, depth > 0, Top.phase = "method", Top.captures, Restore
  PROVE  RefusedInv'
<1> DEFINE restored == RestoreOperation(state, Top.snapshot)
<1>0. TypeOK /\ state \in State /\ MaxDepth \in Nat /\ made \in Nat
  BY DepthAssumption, BoundAssumption DEF TypeInv, TypeOK
<1>a. depth \in 1 .. MaxDepth /\ Top \in Frame
  BY <1>0, TopFrame
<1>1. /\ state \in State /\ depth \in 1 .. MaxDepth /\ MaxDepth \in Nat
      /\ made \in Nat /\ Top \in Frame
      /\ Top.snapshot \in Snapshot /\ Top.since \in Nat
  BY <1>0, <1>a, BoundAssumption DEF Frame
<1>2. /\ restored \in State
      /\ restored.records = Top.snapshot.records
      /\ restored.notices = Top.snapshot.notices
  BY <1>1, RestoreOperationState
<1>3. /\ Return(restored)
      /\ undone' = undone \cup (Top.since + 1 .. made)
      /\ UNCHANGED <<made, delivered, nested>>
  BY DEF Restore
<1> HIDE DEF restored
<1>4. /\ depth' = depth - 1
      /\ \A d \in 1 .. depth' : frame'[d] = frame[d]
      /\ state'.records = Top.snapshot.records
      /\ state'.notices = Top.snapshot.notices
  BY <1>2, <1>3, ReturnCaptures
<1>5. /\ Top.since <= made
      /\ Holds(Top.snapshot.records, Top.snapshot.notices, (1 .. Top.since) \ undone)
  BY <1>1 DEF RefusedInv, SnapshotsHold, Top
<1>6. \A d \in 1 .. depth' : d \in 1 .. depth /\ d < depth
  BY <1>1, <1>4
<1>7. undone' \subseteq 1 .. made'
  <2>1. Top.since + 1 .. made \subseteq 1 .. made
    BY <1>1
  <2>2. undone \subseteq 1 .. made
    BY DEF RefusedInv
  <2> QED BY <1>3, <2>1, <2>2
<1>8. StateHolds'
  <2>1. (1 .. Top.since) \ undone \subseteq (1 .. made') \ undone'
    BY <1>1, <1>3, <1>5
  <2> QED BY <1>4, <1>5, <2>1 DEF StateHolds, Holds
<1>9. \A d \in 1 .. depth' :
        frame[d].captures => frame[d].since <= Top.since /\ frame[d].since \in Nat
  <2> SUFFICES ASSUME NEW d \in 1 .. depth', frame[d].captures
               PROVE  frame[d].since <= Top.since /\ frame[d].since \in Nat
    OBVIOUS
  <2>1. frame[d].since <= Top.since
    BY <1>1, <1>6 DEF RefusedInv, SnapshotsNest, Top
  <2>2. frame[d] \in Frame
    BY <1>1, <1>6 DEF TypeInv, TypeOK
  <2> QED BY <2>1, <2>2, BoundAssumption DEF Frame
<1>10. SnapshotsHold'
  <2> SUFFICES ASSUME NEW d \in 1 .. depth'
               PROVE  /\ frame[d].kind = "dryRun" => frame[d].captures
                      /\ frame[d].captures =>
                           /\ frame[d].since <= made
                           /\ Holds(frame[d].snapshot.records, frame[d].snapshot.notices,
                                    (1 .. frame[d].since) \ undone')
    BY <1>3, <1>4 DEF SnapshotsHold
  <2>1. /\ frame[d].kind = "dryRun" => frame[d].captures
        /\ frame[d].captures =>
             /\ frame[d].since <= made
             /\ Holds(frame[d].snapshot.records, frame[d].snapshot.notices,
                      (1 .. frame[d].since) \ undone)
    BY <1>6 DEF RefusedInv, SnapshotsHold
  <2>2. ASSUME frame[d].captures
        PROVE  (1 .. frame[d].since) \ undone \subseteq (1 .. frame[d].since) \ undone'
    BY <1>1, <1>3, <1>9, <2>2
  <2> QED BY <2>1, <2>2 DEF Holds
<1>11. SnapshotsNest'
  BY <1>4, <1>6 DEF RefusedInv, SnapshotsNest
<1>12. DeliveredBeforeCaptures'
  <2> SUFFICES ASSUME NEW w \in Write, delivered[w] > 0, w \notin nested
               PROVE  /\ w \in (1 .. made) \ undone'
                      /\ \A d \in 1 .. depth' :
                           frame'[d].captures /\ frame'[d].phase = "method"
                             => w <= frame'[d].since
    BY <1>3 DEF DeliveredBeforeCaptures
  <2>1. /\ w \in (1 .. made) \ undone
        /\ \A d \in 1 .. depth :
             frame[d].captures /\ frame[d].phase = "method" => w <= frame[d].since
    BY DEF RefusedInv, DeliveredBeforeCaptures
  <2>2. w <= Top.since
    BY <1>1, <2>1 DEF Top
  <2>3. w \in (1 .. made) \ undone'
    BY <1>1, <1>3, <2>1, <2>2
  <2> QED BY <1>4, <1>6, <2>1, <2>3
<1> QED BY <1>7, <1>8, <1>10, <1>11, <1>12 DEF RefusedInv

LEMMA InitRefusedInv == Init => RefusedInv
<1> SUFFICES ASSUME Init PROVE RefusedInv
  OBVIOUS
<1>1. PICK ids \in SUBSET Tournament : state = SetState(FreshState, ids)
  BY DEF Init
<1>2. /\ \A t \in Tournament : state.records.written[t] = {}
      /\ state.notices = {}
  BY <1>1, FreshStateType, SetStateState DEF FreshState
<1>3. StateHolds
  BY <1>2 DEF StateHolds, Holds
<1>4. depth = 0 /\ undone = {} /\ \A w \in Write : delivered[w] = 0
  BY DEF Init
<1> QED BY <1>3, <1>4 DEF RefusedInv, SnapshotsHold, SnapshotsNest, DeliveredBeforeCaptures

\* Returning without adding a write or a notice.
LEMMA ReturningRefusedInv ==
  ASSUME TypeInv, RefusedInv, depth > 0, NEW s \in State, Return(s),
         s.records.written = state.records.written, s.notices \subseteq state.notices,
         UNCHANGED <<made, undone, delivered, nested>>
  PROVE  RefusedInv'
<1>1. QuietStep
  BY ReturnCaptures DEF QuietStep
<1> QED BY <1>1, QuietStepRefusedInv

\* The outermost call's listeners learn of writes no call can take back any more.
LEMMA CallListenerRefusedInv ==
  ASSUME TypeInv, RefusedInv, NEW topic \in Topic, CallListener(topic)
  PROVE  RefusedInv'
<1> DEFINE f == [Top EXCEPT !.phase = "listener", !.reached = Rank[topic]]
           payloads == {n.write : n \in GetNotices(state, topic)}
<1>1. /\ TypeOK /\ depth > 0 /\ depth \in 1 .. MaxDepth /\ MaxDepth \in Nat
      /\ frame \in [1 .. MaxDepth -> Frame] /\ Top \in Frame
      /\ delivered \in [Write -> 0 .. 2]
      /\ UNCHANGED <<state, depth, made, undone>>
  BY TopFrame, DepthAssumption DEF TypeInv, TypeOK, CallListener, Dispatching
<1>2. frame' = [frame EXCEPT ![depth] = f]
  BY <1>1 DEF CallListener, Top
<1>3. SameCapture(f, Top) /\ f.phase = "listener"
  BY <1>1 DEF SameCapture, Frame
<1> HIDE DEF f
<1>4. /\ \A d \in 1 .. depth : SameCapture(frame'[d], frame[d])
      /\ frame'[depth].phase = "listener"
  BY <1>1, <1>2, <1>3, TopCaptures
<1>5. payloads \subseteq (1 .. made) \ undone
  BY DEF RefusedInv, StateHolds, Holds, GetNotices
<1>6. \A w \in Write :
        delivered'[w] > 0 /\ w \notin nested' => (delivered[w] > 0 \/ w \in payloads)
  BY <1>1 DEF CallListener
<1>7. nested \subseteq nested' /\ (depth > 1 => payloads \subseteq nested')
  BY DEF CallListener
<1> HIDE DEF payloads
<1>8. undone' \subseteq 1 .. made' /\ StateHolds'
  BY <1>1 DEF RefusedInv, StateHolds
<1>9. SnapshotsHold'
  <2> SUFFICES ASSUME NEW d \in 1 .. depth
               PROVE  /\ frame'[d].kind = "dryRun" => frame'[d].captures
                      /\ frame'[d].captures =>
                           /\ frame'[d].since <= made
                           /\ Holds(frame'[d].snapshot.records, frame'[d].snapshot.notices,
                                    (1 .. frame'[d].since) \ undone)
    BY <1>1 DEF SnapshotsHold
  <2>1. SameCapture(frame'[d], frame[d])
    BY <1>4
  <2> QED BY <2>1 DEF RefusedInv, SnapshotsHold, SameCapture
<1>10. SnapshotsNest'
  <2> SUFFICES ASSUME NEW d \in 1 .. depth, NEW e \in 1 .. depth, d < e,
                      frame'[d].captures, frame'[e].captures
               PROVE  frame'[d].since <= frame'[e].since
    BY <1>1 DEF SnapshotsNest
  <2>1. SameCapture(frame'[d], frame[d]) /\ SameCapture(frame'[e], frame[e])
    BY <1>4
  <2> QED BY <2>1 DEF RefusedInv, SnapshotsNest, SameCapture
<1>11. DeliveredBeforeCaptures'
  <2> SUFFICES ASSUME NEW w \in Write, delivered'[w] > 0, w \notin nested'
               PROVE  /\ w \in (1 .. made) \ undone
                      /\ \A d \in 1 .. depth :
                           frame'[d].captures /\ frame'[d].phase = "method"
                             => w <= frame'[d].since
    BY <1>1 DEF DeliveredBeforeCaptures
  <2>1. CASE delivered[w] > 0
    <3>1. /\ w \in (1 .. made) \ undone
          /\ \A d \in 1 .. depth :
               frame[d].captures /\ frame[d].phase = "method" => w <= frame[d].since
      BY <1>7, <2>1 DEF RefusedInv, DeliveredBeforeCaptures
    <3> QED BY <1>4, <3>1 DEF SameCapture
  <2>2. CASE w \in payloads
    <3>1. depth = 1
      BY <1>1, <1>7, <2>2
    <3>2. \A d \in 1 .. depth : frame'[d].phase = "listener"
      BY <1>4, <3>1
    <3> QED BY <1>5, <2>2, <3>2
  <2> QED BY <1>6, <2>1, <2>2
<1> QED BY <1>8, <1>9, <1>10, <1>11 DEF RefusedInv

LEMMA NextRefusedInv == TypeInv /\ RefusedInv /\ [Next]_vars => RefusedInv'
<1> SUFFICES ASSUME TypeInv, RefusedInv, [Next]_vars PROVE RefusedInv'
  OBVIOUS
<1>0. state \in State /\ TypeOK /\ frame \in [1 .. MaxDepth -> Frame]
  BY DEF TypeInv, TypeOK
<1>a. ASSUME depth > 0
      PROVE  /\ Top \in Frame /\ Top.timeStamp \in Instant
             /\ depth \in 1 .. MaxDepth /\ depth \in 1 .. depth
  BY <1>0, <1>a, TopFrame, DepthAssumption DEF Frame
<1>1. ASSUME NEW ids \in SUBSET Tournament, LoadState(ids) PROVE RefusedInv'
  BY <1>0, <1>1, SetStateState, EditRefusedInv DEF LoadState
<1>2. ASSUME NEW t \in Tournament \cup {NoTournament}, SelectTournament(t)
      PROVE  RefusedInv'
  BY <1>0, <1>2, SetTournamentIdState, EditRefusedInv DEF SelectTournament
<1>3. ASSUME NEW t \in Tournament, UnloadTournament(t) PROVE RefusedInv'
  BY <1>0, <1>3, RemoveTournamentRecordState, EditRefusedInv DEF UnloadTournament
<1>4. ASSUME NEW mode \in Mode, NEW rollback \in BOOLEAN, EngineInvoke(mode, rollback)
      PROVE  RefusedInv'
  BY <1>4, BeginRefusedInv DEF EngineInvoke, Kind
<1>5. ASSUME NEW n \in QueueLength, NEW rollback \in BOOLEAN, ExecutionQueue(n, rollback)
      PROVE  RefusedInv'
  BY <1>5, BeginRefusedInv, DepthAssumption DEF ExecutionQueue, Kind, Mode
<1>6. ASSUME NEW n \in QueueLength, DryRun(n) PROVE RefusedInv'
  BY <1>6, BeginRefusedInv, DepthAssumption DEF DryRun, Kind, Mode
<1>7. ASSUME NEW t \in Tournament, NEW a \in Announcement, MethodWrites(t, a)
      PROVE  RefusedInv'
  BY <1>7, MethodWritesRefusedInv
<1>b. ASSUME depth > 0, UNCHANGED depth,
             state'.records.written = state.records.written, state'.notices = state.notices,
             NEW f, SameCapture(f, Top), frame' = [frame EXCEPT ![depth] = f],
             UNCHANGED historyVars
      PROVE  RefusedInv'
  <2>1. QuietStep
    BY <1>b, TopCaptures DEF QuietStep, historyVars
  <2> QED BY <2>1, QuietStepRefusedInv
<1>8. CASE DirectiveSucceeds
  <2> DEFINE f == [Top EXCEPT !.left = @ - 1]
  <2>1. depth > 0 /\ UNCHANGED <<state, depth, historyVars>>
    BY <1>8 DEF DirectiveSucceeds, MethodRuns
  <2>2. frame' = [frame EXCEPT ![depth] = f]
    BY <1>0, <1>8, <1>a, <2>1 DEF DirectiveSucceeds, Top
  <2>3. SameCapture(f, Top)
    BY <1>a, <2>1 DEF Frame, SameCapture
  <2> HIDE DEF f
  <2> QED BY <2>1, <2>2, <2>3, <1>b
<1>9. CASE CallSucceeds
  <2> DEFINE f == [Top EXCEPT !.phase = "dispatch", !.modified = state.modified]
  <2>1. depth > 0 /\ UNCHANGED <<depth, historyVars>>
    BY <1>9 DEF CallSucceeds, BeginDispatch, MethodRuns
  <2>2. frame' = [frame EXCEPT ![depth] = f]
    BY <1>0, <1>9, <1>a, <2>1 DEF CallSucceeds, BeginDispatch, Top
  <2>3. SameCapture(f, Top)
    BY <1>a, <2>1 DEF Frame, SameCapture
  <2>4. state'.records.written = state.records.written /\ state'.notices = state.notices
    BY <1>0, <1>9, <1>a, <2>1, GetMutationStatusState DEF CallSucceeds, BeginDispatch
  <2> HIDE DEF f
  <2> QED BY <2>1, <2>2, <2>3, <2>4, <1>b
<1>10. CASE DelayedCallSucceeds
  <2>1. /\ depth > 0
        /\ Return(GetMutationStatus(state, Top.timeStamp))
        /\ UNCHANGED <<made, undone, delivered, nested>>
    BY <1>10 DEF DelayedCallSucceeds, MethodRuns
  <2> QED BY <1>0, <1>a, <2>1, GetMutationStatusState, ReturningRefusedInv
<1>11. CASE CallEndsUnannounced \/ CallRefused
  <2>1. /\ depth > 0
        /\ Return(KeepWrites(state, Top.timeStamp))
        /\ UNCHANGED <<made, undone, delivered, nested>>
    BY <1>11 DEF CallEndsUnannounced, CallRefused, EndUnannounced, MethodRuns
  <2> QED BY <1>0, <1>a, <2>1, KeepWritesState, ReturningRefusedInv
<1>12. CASE CallRolledBack \/ PreviewEnds
  <2>1. depth > 0 /\ Restore /\ Top.phase = "method" /\ (Top.captures \/ Top.kind = "dryRun")
    BY <1>12 DEF CallRolledBack, PreviewEnds, MethodRuns
  <2>2. Top.captures
    BY <1>a, <2>1 DEF RefusedInv, SnapshotsHold, Top
  <2> QED BY <2>1, <2>2, RestoreRefusedInv
<1>13. ASSUME NEW topic \in Topic, CallListener(topic) PROVE RefusedInv'
  BY <1>13, CallListenerRefusedInv
<1>14. CASE CallMutationsListener
  <2> DEFINE f == [Top EXCEPT !.phase = "listener", !.reached = LastRank]
  <2>1. depth > 0 /\ UNCHANGED <<state, depth, historyVars>>
    BY <1>14 DEF CallMutationsListener, Dispatching
  <2>2. frame' = [frame EXCEPT ![depth] = f]
    BY <1>0, <1>14, <1>a, <2>1 DEF CallMutationsListener, Top
  <2>3. SameCapture(f, Top)
    BY <1>a, <2>1 DEF Frame, SameCapture
  <2> HIDE DEF f
  <2> QED BY <2>1, <2>2, <2>3, <1>b
<1>15. CASE ListenerReturns
  <2> DEFINE f == [Top EXCEPT !.phase = "dispatch"]
  <2>1. depth > 0 /\ UNCHANGED <<state, depth, historyVars>>
    BY <1>15 DEF ListenerReturns
  <2>2. frame' = [frame EXCEPT ![depth] = f]
    BY <1>0, <1>15, <1>a, <2>1 DEF ListenerReturns, Top
  <2>3. SameCapture(f, Top)
    BY <1>a, <2>1 DEF Frame, SameCapture
  <2> HIDE DEF f
  <2> QED BY <2>1, <2>2, <2>3, <1>b
<1>16. CASE DispatchEnds
  <2>1. /\ depth > 0
        /\ Return(DeleteNotices(state))
        /\ UNCHANGED <<made, undone, delivered, nested>>
    BY <1>16 DEF DispatchEnds, Dispatching
  <2> QED BY <1>0, <2>1, DeleteNoticesState, ReturningRefusedInv
<1>17. CASE UNCHANGED vars
  BY <1>17 DEF RefusedInv, StateHolds, SnapshotsHold, SnapshotsNest,
               DeliveredBeforeCaptures, vars, engineVars, historyVars
<1> QED
  BY <1>1, <1>2, <1>3, <1>4, <1>5, <1>6, <1>7, <1>8, <1>9, <1>10, <1>11, <1>12, <1>13,
     <1>14, <1>15, <1>16, <1>17 DEF Next

LEMMA SpecRefusedInv == Spec => []RefusedInv
<1>1. Init => TypeInv /\ RefusedInv
  BY InitTypeInv, InitRefusedInv
<1>2. (TypeInv /\ RefusedInv) /\ [Next]_vars => (TypeInv /\ RefusedInv)'
  BY NextTypeInv, NextRefusedInv
<1> QED BY <1>1, <1>2, PTL DEF Spec

\* A rollback or preview takes back every write made since its capture, and nothing
\* that happens later, however calls nest, brings one of them or its notice back.
THEOREM RollbackIsComplete == Spec => []RefusedLeavesNothing
<1>1. TypeInv /\ RefusedInv => RefusedLeavesNothing
  <2> SUFFICES ASSUME TypeInv, RefusedInv PROVE RefusedLeavesNothing
    OBVIOUS
  <2>1. \A t \in Tournament : state.records.written[t] \cap undone = {}
    BY DEF RefusedInv, StateHolds, Holds
  <2>2. \A n \in state.notices : n.write \notin undone
    BY DEF RefusedInv, StateHolds, Holds
  <2>3. state.records.loaded \subseteq Tournament
    BY DEF TypeInv, TypeOK, State, Records
  <2> QED BY <2>1, <2>2, <2>3 DEF RefusedLeavesNothing, KeptWrites
<1> QED BY <1>1, SpecTypeInv, SpecRefusedInv, PTL

\* The outermost call tells subscribers of no write that is taken back, before or after.
THEOREM OutermostDeliversKeptWrites == Spec => []RefusedDeliveredOnlyByNested
<1>1. TypeInv /\ RefusedInv => RefusedDeliveredOnlyByNested
  BY DEF RefusedInv, DeliveredBeforeCaptures, RefusedDeliveredOnlyByNested, TypeInv, TypeOK
<1> QED BY <1>1, SpecTypeInv, SpecRefusedInv, PTL

-----------------------------------------------------------------------------
(* Stamps.                                                                 *)

\* A step of a client between two states of the provider: every record is as it
\* was or as one just loaded, and marks, notices and instant stay.
ClientStep(s, u) ==
  /\ \A t \in Tournament :
       \/ /\ u.records.written[t] = s.records.written[t]
          /\ u.records.stamp[t] = s.records.stamp[t]
          /\ t \in u.records.loaded => t \in s.records.loaded
       \/ u.records.written[t] = {} /\ u.records.stamp[t] = 0
  /\ u.notices = s.notices /\ u.capturedClock = s.capturedClock
  /\ u.modified = s.modified /\ u.modifiedIds = s.modifiedIds

LEMMA SetTournamentIdIsClientStep ==
  ASSUME NEW s \in State, NEW t \in Tournament \cup {NoTournament}
  PROVE  ClientStep(s, SetTournamentId(s, t))
BY DEF SetTournamentId, State, ClientStep

LEMMA SetStateIsClientStep ==
  ASSUME NEW s \in State, NEW ids \in SUBSET Tournament
  PROVE  ClientStep(s, SetState(s, ids))
<1> DEFINE cleared == SetTournamentId(s, NoTournament)
           u == SetTournamentRecords(cleared, Unwritten(ids))
<1>1. /\ cleared \in State /\ cleared.notices = s.notices
      /\ cleared.capturedClock = s.capturedClock
      /\ cleared.modified = s.modified /\ cleared.modifiedIds = s.modifiedIds
  <2>1. cleared \in State /\ ClientStep(s, cleared)
    BY SetTournamentIdState, SetTournamentIdIsClientStep
  <2> QED BY <2>1 DEF ClientStep
<1>2. \A t \in Tournament :
        Unwritten(ids).written[t] = {} /\ Unwritten(ids).stamp[t] = 0
  BY DEF Unwritten, NoRecords
<1> HIDE DEF cleared
<1>3. /\ u.records = Unwritten(ids)
      /\ u.notices = cleared.notices /\ u.capturedClock = cleared.capturedClock
      /\ u.modified = cleared.modified /\ u.modifiedIds = cleared.modifiedIds
  BY <1>1 DEF SetTournamentRecords, State
<1>4. SetState(s, ids) = u
  BY DEF SetState, cleared
<1> QED BY <1>1, <1>2, <1>3, <1>4 DEF ClientStep

LEMMA RemoveTournamentRecordIsClientStep ==
  ASSUME NEW s \in State, NEW t \in Tournament
  PROVE  ClientStep(s, RemoveTournamentRecord(s, t))
<1> DEFINE u == RemoveTournamentRecord(s, t)
<1>1. /\ u.records.loaded = s.records.loaded \ {t}
      /\ u.records.written = [s.records.written EXCEPT ![t] = {}]
      /\ u.records.stamp = [s.records.stamp EXCEPT ![t] = 0]
      /\ u.notices = s.notices /\ u.capturedClock = s.capturedClock
      /\ u.modified = s.modified /\ u.modifiedIds = s.modifiedIds
  BY DEF RemoveTournamentRecord, State
<1>2. /\ s.records.written \in [Tournament -> SUBSET Write]
      /\ s.records.stamp \in [Tournament -> Instant]
  BY DEF State, Records
<1> HIDE DEF u
<1>3. \A v \in Tournament :
        \/ /\ u.records.written[v] = s.records.written[v]
           /\ u.records.stamp[v] = s.records.stamp[v]
           /\ v \in u.records.loaded => v \in s.records.loaded
        \/ u.records.written[v] = {} /\ u.records.stamp[v] = 0
  BY <1>1, <1>2
<1> QED BY <1>1, <1>3 DEF ClientStep, u

\* A write: the record gains it, if it is still in state, and the marks do.
LEMMA WritingMarks ==
  ASSUME TypeInv, NEW t \in Tournament, NEW a \in Announcement, MethodWrites(t, a)
  PROVE  /\ state'.records.loaded = state.records.loaded
         /\ state'.records.stamp = state.records.stamp
         /\ state'.records.written =
              IF depth \in detached THEN state.records.written
              ELSE [state.records.written EXCEPT ![t] = @ \cup {made + 1}]
         /\ state'.modified
         /\ state'.modifiedIds =
              state.modifiedIds \cup {IF a.named THEN t ELSE Unnamed}
         /\ state'.capturedClock = state.capturedClock
<1> DEFINE w == made + 1
           id == IF a.named THEN t ELSE Unnamed
           written == Written(t, w)
           notice == [topic |-> a.topic, key |-> a.key, write |-> w]
<1>1. state \in State /\ state.records \in Records
  BY DEF TypeInv, TypeOK, State
<1>2. /\ written.records.loaded = state.records.loaded
      /\ written.records.stamp = state.records.stamp
      /\ written.records.written = IF depth \in detached THEN state.records.written
                                   ELSE [state.records.written EXCEPT ![t] = @ \cup {w}]
      /\ written.modifiedIds = state.modifiedIds
      /\ written.capturedClock = state.capturedClock
  BY <1>1 DEF Written, WriteRecord, State, Records
<1>3. written \in State
  <2>1. w \in Write
    BY BoundAssumption DEF TypeInv, TypeOK, MethodWrites, Write
  <2> QED BY <1>1, <2>1, WrittenState
<1> HIDE DEF written, w
<1>4. CASE state' = AddNotice(written, notice, id)
  BY <1>2, <1>3, <1>4 DEF AddNotice, MarkModified, State, w
<1>5. CASE state' = MarkModified(written, id)
  BY <1>2, <1>3, <1>5 DEF MarkModified, State, w
<1> QED BY <1>4, <1>5 DEF MethodWrites, written, w

\* Stamping: the modified records bear the instant, and the marks are gone.
LEMMA Stamping ==
  ASSUME NEW s \in State, NEW instant \in Instant, NEW u,
         u = GetMutationStatus(s, instant) \/ u = KeepWrites(s, instant)
  PROVE  /\ u.records.loaded = s.records.loaded
         /\ u.records.written = s.records.written
         /\ \A t \in Tournament :
              u.records.stamp[t] = IF t \in Stamped(s) THEN instant ELSE s.records.stamp[t]
         /\ ~u.modified /\ u.modifiedIds = {}
<1> DEFINE g == GetMutationStatus(s, instant)
<1>1. /\ g.records.loaded = s.records.loaded
      /\ g.records.written = s.records.written
      /\ \A t \in Tournament :
           g.records.stamp[t] = IF t \in Stamped(s) THEN instant ELSE s.records.stamp[t]
      /\ ~g.modified /\ g.modifiedIds = {}
  <2>1. s.records \in Records
    BY DEF State
  <2>2. /\ ClearMutationStatus(s).records = s.records
        /\ ClearMutationStatus(s) = [s EXCEPT !.modified = FALSE, !.modifiedIds = {}]
    BY DEF ClearMutationStatus, State
  <2> QED BY <2>1, <2>2 DEF GetMutationStatus, State, Records
<1>2. g \in State
  BY GetMutationStatusState
<1> HIDE DEF g
<1>3. /\ DeleteNotices(g).records = g.records
      /\ DeleteNotices(g).modified = g.modified
      /\ DeleteNotices(g).modifiedIds = g.modifiedIds
  BY <1>2 DEF DeleteNotices, State
<1> QED BY <1>1, <1>3 DEF KeepWrites, g

\* A restore clears the marks.
LEMMA RestoringMarks ==
  ASSUME NEW s \in State, NEW captured \in Snapshot
  PROVE  LET u == RestoreOperation(s, captured)
         IN ~u.modified /\ u.modifiedIds = {}
<1> DEFINE installed == SetTournamentRecords(s, captured.records)
           reselected == SetTournamentId(installed, captured.selected)
           refilled == [reselected EXCEPT !.notices = captured.notices]
<1>1. reselected \in State
  <2>1. captured.records \in Records /\ captured.selected \in Tournament \cup {NoTournament}
    BY DEF Snapshot
  <2>2. installed \in State
    BY <2>1, SetTournamentRecordsState
  <2> HIDE DEF installed
  <2> QED BY <2>1, <2>2, SetTournamentIdState
<1>2. RestoreOperation(s, captured) = ClearMutationStatus(refilled)
  BY DEF RestoreOperation
<1> HIDE DEF reselected
<1>3. refilled \in State
  BY <1>1 DEF State, Snapshot
<1> HIDE DEF refilled
<1> QED BY <1>2, <1>3 DEF ClearMutationStatus, State

Clean(s) == ~s.modified /\ s.modifiedIds = {}

\* Every write of a loaded record, but those in excused, is covered by the record's
\* stamp or by a mark that will have the record stamped.
CoveredBut(s, excused) ==
  \A t \in s.records.loaded : \A w \in s.records.written[t] \ excused :
    \/ madeAt[w] <= s.records.stamp[t]
    \/ s.modified /\ s.modifiedIds \cap {t, Unnamed} # {}

\* Marks are set only while a method runs.
MarksOfMethods == depth = 0 \/ Top.phase # "method" => Clean(state)

\* The instant in force is the last one read, and no write is later.
InstantIsLatest ==
  /\ state.capturedClock \in {0, clock}
  /\ \A w \in Write : madeAt[w] <= clock

MarksInv == MarksOfMethods /\ InstantIsLatest /\ CoveredBut(state, unmarked)

LEMMA InitMarksInv == Init => MarksInv
<1> SUFFICES ASSUME Init PROVE MarksInv
  OBVIOUS
<1>1. PICK ids \in SUBSET Tournament : state = SetState(FreshState, ids)
  BY DEF Init
<1>2. /\ state \in State
      /\ \A t \in Tournament : state.records.written[t] = {}
      /\ ClientStep(FreshState, state)
  BY <1>1, FreshStateType, SetStateState, SetStateIsClientStep
<1>3. Clean(state) /\ state.capturedClock = 0
  BY <1>2 DEF ClientStep, FreshState, Clean
<1>4. clock = 0 /\ \A w \in Write : madeAt[w] = 0
  BY DEF Init
<1>5. state.records.loaded \subseteq Tournament
  BY <1>2 DEF State, Records
<1> QED
  BY <1>2, <1>3, <1>4, <1>5 DEF MarksInv, MarksOfMethods, InstantIsLatest, CoveredBut

LEMMA EditMarksInv ==
  ASSUME TypeInv, MarksInv, NEW s \in State, Edit(s), ClientStep(state, s)
  PROVE  MarksInv'
<1>1. s.records.loaded \subseteq Tournament
  BY DEF State, Records
<1>2. state' = s /\ UNCHANGED <<depth, frame, clock, madeAt, unmarked>>
  BY DEF Edit, historyVars
<1>3. CoveredBut(s, unmarked)
  BY <1>1 DEF MarksInv, CoveredBut, ClientStep
<1> QED
  BY <1>2, <1>3 DEF MarksInv, MarksOfMethods, InstantIsLatest, CoveredBut, ClientStep, Clean, Top

LEMMA BeginMarksInv ==
  ASSUME TypeInv, OneInstant, MarksInv, NEW kind, NEW mode, NEW captures, NEW directives,
         Begin(kind, mode, captures, directives)
  PROVE  MarksInv'
<1>1. /\ state \in State /\ depth \in Nat /\ depth + 1 \in 1 .. MaxDepth /\ clock \in Nat
      /\ frame \in [1 .. MaxDepth -> Frame] /\ madeAt \in [Write -> Nat]
  BY DepthAssumption, BoundAssumption DEF TypeInv, TypeOK, Begin, Instant
<1>2. depth' = depth + 1 /\ frame'[depth + 1].phase = "method"
  BY <1>1 DEF Begin, NoFrame
<1>3. MarksOfMethods'
  BY <1>1, <1>2 DEF MarksOfMethods, Top
<1>4. /\ state'.capturedClock = CallInstant /\ state'.records = state.records
      /\ state'.modified = state.modified /\ state'.modifiedIds = state.modifiedIds
      /\ UNCHANGED <<madeAt, unmarked>>
  BY <1>1 DEF Begin, State, historyVars
<1>5. state'.capturedClock \in {0, clock'} /\ clock <= clock' /\ clock' \in Nat
  BY <1>1, <1>4 DEF Begin, CallInstant, MarksInv, InstantIsLatest
<1>6. InstantIsLatest'
  BY <1>1, <1>4, <1>5 DEF MarksInv, InstantIsLatest
<1>7. CoveredBut(state, unmarked)'
  BY <1>4 DEF MarksInv, CoveredBut
<1> QED BY <1>3, <1>6, <1>7 DEF MarksInv

LEMMA MethodWritesMarksInv ==
  ASSUME TypeInv, OneInstant, RefusedInv, MarksInv, NEW t \in Tournament,
         NEW a \in Announcement, MethodWrites(t, a)
  PROVE  MarksInv'
<1> DEFINE w == made + 1
<1>1. /\ state \in State /\ state.records \in Records /\ clock \in Nat /\ made \in Nat
      /\ state.capturedClock \in Nat /\ madeAt \in [Write -> Nat]
  BY BoundAssumption DEF TypeInv, TypeOK, State, Instant
<1>2. /\ state'.records.loaded = state.records.loaded
      /\ state'.records.stamp = state.records.stamp
      /\ state'.records.written = IF depth \in detached THEN state.records.written
                                  ELSE [state.records.written EXCEPT ![t] = @ \cup {w}]
      /\ state'.modified
      /\ state'.modifiedIds = state.modifiedIds \cup {IF a.named THEN t ELSE Unnamed}
      /\ state'.capturedClock = state.capturedClock
  BY WritingMarks
<1>3. /\ Top.phase = "method" /\ depth > 0
      /\ madeAt' = [madeAt EXCEPT ![w] = state.capturedClock]
      /\ UNCHANGED <<depth, frame, clock, unmarked>>
  BY DEF MethodWrites, MethodRuns
<1>4. \A x \in Write : madeAt'[x] = madeAt[x] \/ madeAt'[x] = state.capturedClock
  BY <1>1, <1>3
<1>5. state.capturedClock <= clock
  BY <1>1 DEF MarksInv, InstantIsLatest
<1>6. \A x \in Write : x # w => madeAt'[x] = madeAt[x]
  BY <1>1, <1>3
<1> HIDE DEF w
<1>7. MarksOfMethods'
  BY <1>1, <1>3 DEF MarksOfMethods, Top, TypeInv, TypeOK
<1>8. InstantIsLatest'
  BY <1>1, <1>2, <1>3, <1>4, <1>5 DEF MarksInv, InstantIsLatest
<1>9. ASSUME NEW v \in state'.records.loaded, NEW x \in state'.records.written[v] \ unmarked'
      PROVE  \/ madeAt'[x] <= state'.records.stamp[v]
             \/ state'.modified /\ state'.modifiedIds \cap {v, Unnamed} # {}
  <2>1. v \in Tournament /\ v \in state.records.loaded
    BY <1>1, <1>2 DEF Records
  <2>2. CASE x = w /\ v = t
    BY <1>2, <2>2
  <2>3. CASE x # w \/ v # t
    <3>1. x \in state.records.written[v]
      BY <1>1, <1>2, <2>1, <2>3 DEF Records
    <3>2. x \in 1 .. made
      BY <2>1, <3>1 DEF RefusedInv, StateHolds, Holds
    <3>3. x # w /\ x \in Write
      BY <1>1, <2>1, <3>1, <3>2 DEF Records, w
    <3> QED BY <1>2, <1>3, <1>6, <2>1, <3>1, <3>3 DEF MarksInv, CoveredBut
  <2> QED BY <2>2, <2>3
<1>10. CoveredBut(state, unmarked)'
  BY <1>9 DEF CoveredBut
<1> QED BY <1>7, <1>8, <1>10 DEF MarksInv

\* The engine stamps with an instant no write is later than.
LEMMA StampingCovers ==
  ASSUME TypeInv, OneInstant, MarksInv, depth > 0, NEW u,
         u = GetMutationStatus(state, Top.timeStamp) \/ u = KeepWrites(state, Top.timeStamp)
  PROVE  Clean(u) /\ CoveredBut(u, unmarked)
<1>1. /\ state \in State /\ state.records \in Records /\ Top \in Frame /\ depth \in 1 .. depth
  BY TopFrame DEF TypeInv, TypeOK, State
<1>2. Top.timeStamp \in Instant
  BY <1>1 DEF Frame
<1>3. /\ u.records.loaded = state.records.loaded
      /\ u.records.written = state.records.written
      /\ \A t \in Tournament :
           u.records.stamp[t] =
             IF t \in Stamped(state) THEN Top.timeStamp ELSE state.records.stamp[t]
      /\ ~u.modified /\ u.modifiedIds = {}
  BY <1>1, <1>2, Stamping
<1>4. Top.timeStamp = clock
  BY <1>1 DEF OneInstant, MarksInv, InstantIsLatest, Top
<1>5. ASSUME NEW t \in u.records.loaded, NEW w \in u.records.written[t] \ unmarked
      PROVE  madeAt[w] <= u.records.stamp[t]
  <2>1. t \in Tournament /\ t \in state.records.loaded /\ w \in Write
    BY <1>1, <1>3 DEF Records
  <2>2. CASE t \in Stamped(state)
    BY <1>3, <1>4, <2>1, <2>2 DEF MarksInv, InstantIsLatest
  <2>3. CASE t \notin Stamped(state)
    BY <1>3, <2>1, <2>3 DEF MarksInv, CoveredBut, Stamped
  <2> QED BY <2>2, <2>3
<1> QED BY <1>3, <1>5 DEF Clean, CoveredBut

\* A call returns with clean marks and covered writes.
LEMMA ReturnMarksInv ==
  ASSUME TypeInv, MarksInv, depth > 0, NEW s \in State, Return(s), Clean(s),
         s.capturedClock = state.capturedClock, CoveredBut(s, unmarked'), UNCHANGED madeAt
  PROVE  MarksInv'
<1>1. /\ state'.records = s.records
      /\ state'.modified = s.modified /\ state'.modifiedIds = s.modifiedIds
      /\ state'.capturedClock \in {0, s.capturedClock}
      /\ UNCHANGED clock
  BY DEF Return, Release, State
<1> QED
  BY <1>1 DEF MarksInv, MarksOfMethods, InstantIsLatest, CoveredBut, Clean

\* A step that moves the innermost call, neither into a method nor out of one.
LEMMA MovingMarksInv ==
  ASSUME TypeInv, MarksInv, depth > 0, NEW f, (f.phase = "method") <=> (Top.phase = "method"),
         frame' = [frame EXCEPT ![depth] = f],
         UNCHANGED <<state, depth, clock, madeAt, unmarked>>
  PROVE  MarksInv'
<1>1. depth \in 1 .. MaxDepth /\ frame \in [1 .. MaxDepth -> Frame]
  BY TopFrame DEF TypeInv, TypeOK
<1>2. Top' = f
  BY <1>1 DEF Top
<1> QED BY <1>2 DEF MarksInv, MarksOfMethods, InstantIsLatest, CoveredBut, Clean

LEMMA CallSucceedsMarksInv ==
  ASSUME TypeInv, OneInstant, MarksInv, CallSucceeds
  PROVE  MarksInv'
<1>1. /\ depth > 0 /\ state' = GetMutationStatus(state, Top.timeStamp)
      /\ UNCHANGED <<clock, madeAt, unmarked>>
  BY DEF CallSucceeds, BeginDispatch, MethodRuns, historyVars
<1>2. Clean(state') /\ CoveredBut(state', unmarked)
  BY <1>1, StampingCovers
<1>3. state'.capturedClock = state.capturedClock
  <2>1. state \in State /\ Top.timeStamp \in Instant
    BY <1>1, TopFrame DEF TypeInv, TypeOK, Frame
  <2> QED BY <1>1, <2>1, GetMutationStatusState
<1> QED BY <1>1, <1>2, <1>3 DEF MarksInv, MarksOfMethods, InstantIsLatest, CoveredBut, Clean

LEMMA RestoreMarksInv ==
  ASSUME TypeInv, MarksInv, depth > 0, Restore
  PROVE  MarksInv'
<1> DEFINE restored == RestoreOperation(state, Top.snapshot)
<1>1. state \in State /\ Top.snapshot \in Snapshot /\ madeAt \in [Write -> Nat]
  BY TopFrame, BoundAssumption DEF TypeInv, TypeOK, Frame, Instant
<1>2. restored \in State /\ restored.capturedClock = state.capturedClock
  BY <1>1, RestoreOperationState
<1>3. Clean(restored)
  BY <1>1, RestoringMarks DEF Clean
<1>4. /\ Return(restored) /\ UNCHANGED madeAt
      /\ unmarked' = unmarked \cup
           {w \in Write : \E t \in restored.records.loaded :
              w \in restored.records.written[t] /\ restored.records.stamp[t] < madeAt[w]}
  BY DEF Restore
<1> HIDE DEF restored
<1>5. ASSUME NEW t \in restored.records.loaded, NEW w \in restored.records.written[t] \ unmarked'
      PROVE  madeAt[w] <= restored.records.stamp[t]
  <2>1. w \in Write /\ restored.records.stamp[t] \in Nat
    BY <1>2, BoundAssumption DEF State, Records, Instant
  <2> QED BY <1>1, <1>4, <2>1
<1>6. CoveredBut(restored, unmarked')
  BY <1>5 DEF CoveredBut
<1> QED BY <1>2, <1>3, <1>4, <1>6, ReturnMarksInv

\* A step that only moves the innermost call, neither into a method nor out of one.
Moves(f) ==
  /\ depth > 0
  /\ SameCapture(f, Top) /\ (f.phase = "method" <=> Top.phase = "method")
  /\ frame' = [frame EXCEPT ![depth] = f]
  /\ detached' \subseteq detached
  /\ UNCHANGED <<state, depth, clock, calls, historyVars>>

\* What a client does to the provider besides calling the engine.
ClientEdits ==
  \/ \E t \in Tournament : UnloadTournament(t)
  \/ \E t \in Tournament \cup {NoTournament} : SelectTournament(t)
  \/ \E ids \in SUBSET Tournament : LoadState(ids)

\* Every step is of one of these kinds.
LEMMA ActionKinds ==
  ASSUME TypeInv, RefusedInv, [Next]_vars
  PROVE  \/ ClientEdits
         \/ \E kind \in Kind, mode \in Mode, captures \in BOOLEAN, n \in Nat \ {0} :
              Begin(kind, mode, captures, n)
         \/ \E t \in Tournament, a \in Announcement : MethodWrites(t, a)
         \/ CallSucceeds
         \/ \E f : Moves(f)
         \/ \E topic \in Topic : CallListener(topic)
         \/ DelayedCallSucceeds
         \/ depth > 0 /\ EndUnannounced
         \/ MethodRuns /\ Top.captures /\ Restore
         \/ DispatchEnds
         \/ UNCHANGED vars
<1>0. state \in State /\ frame \in [1 .. MaxDepth -> Frame] /\ TypeOK
  BY DEF TypeInv, TypeOK
<1>a. ASSUME depth > 0 PROVE Top \in Frame /\ depth \in 1 .. MaxDepth /\ depth \in 1 .. depth
  BY <1>0, <1>a, TopFrame, DepthAssumption
<1>1. ASSUME \/ \E mode \in Mode, rollback \in BOOLEAN : EngineInvoke(mode, rollback)
             \/ \E n \in QueueLength, rollback \in BOOLEAN : ExecutionQueue(n, rollback)
             \/ \E n \in QueueLength : DryRun(n)
      PROVE  \E kind \in Kind, mode \in Mode, captures \in BOOLEAN, n \in Nat \ {0} :
               Begin(kind, mode, captures, n)
  <2>1. QueueLength \subseteq Nat \ {0} /\ 1 \in Nat \ {0}
    BY DepthAssumption
  <2>2. "invoke" \in Kind /\ "queue" \in Kind /\ "dryRun" \in Kind /\ "notify" \in Mode
    BY DEF Kind, Mode
  <2>3. ASSUME NEW mode \in Mode, NEW rollback \in BOOLEAN, EngineInvoke(mode, rollback)
        PROVE  \E k \in Kind, m \in Mode, c \in BOOLEAN, n \in Nat \ {0} : Begin(k, m, c, n)
    BY <2>1, <2>2, <2>3 DEF EngineInvoke
  <2>4. ASSUME NEW l \in QueueLength, NEW rollback \in BOOLEAN, ExecutionQueue(l, rollback)
        PROVE  \E k \in Kind, m \in Mode, c \in BOOLEAN, n \in Nat \ {0} : Begin(k, m, c, n)
    BY <2>1, <2>2, <2>4 DEF ExecutionQueue
  <2>5. ASSUME NEW l \in QueueLength, DryRun(l)
        PROVE  \E k \in Kind, m \in Mode, c \in BOOLEAN, n \in Nat \ {0} : Begin(k, m, c, n)
    BY <2>1, <2>2, <2>5 DEF DryRun
  <2> QED BY <1>1, <2>3, <2>4, <2>5
<1>2. ASSUME DirectiveSucceeds PROVE \E f : Moves(f)
  <2> DEFINE f == [Top EXCEPT !.left = @ - 1]
  <2>1. depth > 0 /\ detached' \subseteq detached /\ UNCHANGED <<state, depth, clock, calls, historyVars>>
    BY <1>2 DEF DirectiveSucceeds, MethodEnds, MethodRuns
  <2>2. frame' = [frame EXCEPT ![depth] = f]
    BY <1>0, <1>2, <1>a, <2>1 DEF DirectiveSucceeds, Top
  <2>3. SameCapture(f, Top) /\ f.phase = Top.phase
    BY <1>a, <2>1 DEF Frame, SameCapture
  <2> HIDE DEF f
  <2> QED BY <2>1, <2>2, <2>3 DEF Moves
<1>3. ASSUME CallMutationsListener PROVE \E f : Moves(f)
  <2> DEFINE f == [Top EXCEPT !.phase = "listener", !.reached = LastRank]
  <2>1. /\ depth > 0 /\ Top.phase = "dispatch"
        /\ UNCHANGED <<state, depth, detached, clock, calls, historyVars>>
    BY <1>3 DEF CallMutationsListener, Dispatching
  <2>2. frame' = [frame EXCEPT ![depth] = f]
    BY <1>0, <1>3, <1>a, <2>1 DEF CallMutationsListener, Top
  <2>3. SameCapture(f, Top) /\ f.phase = "listener"
    BY <1>a, <2>1 DEF Frame, SameCapture
  <2> HIDE DEF f
  <2> QED BY <2>1, <2>2, <2>3 DEF Moves
<1>4. ASSUME ListenerReturns PROVE \E f : Moves(f)
  <2> DEFINE f == [Top EXCEPT !.phase = "dispatch"]
  <2>1. /\ depth > 0 /\ Top.phase = "listener"
        /\ UNCHANGED <<state, depth, detached, clock, calls, historyVars>>
    BY <1>4 DEF ListenerReturns
  <2>2. frame' = [frame EXCEPT ![depth] = f]
    BY <1>0, <1>4, <1>a, <2>1 DEF ListenerReturns, Top
  <2>3. SameCapture(f, Top) /\ f.phase = "dispatch"
    BY <1>a, <2>1 DEF Frame, SameCapture
  <2> HIDE DEF f
  <2> QED BY <2>1, <2>2, <2>3 DEF Moves
<1>5. ASSUME CallEndsUnannounced \/ CallRefused PROVE depth > 0 /\ EndUnannounced
  BY <1>5 DEF CallEndsUnannounced, CallRefused, MethodRuns
<1>6. ASSUME CallRolledBack \/ PreviewEnds PROVE MethodRuns /\ Top.captures /\ Restore
  <2>1. MethodRuns /\ Restore /\ (Top.captures \/ Top.kind = "dryRun")
    BY <1>6 DEF CallRolledBack, PreviewEnds
  <2>2. Top.captures
    BY <1>a, <2>1 DEF RefusedInv, SnapshotsHold, Top, MethodRuns
  <2> QED BY <2>1, <2>2
<1> QED BY <1>1, <1>2, <1>3, <1>4, <1>5, <1>6 DEF Next, ClientEdits

\* A client's edit leaves every record as it was or as one just loaded.
LEMMA StepKinds ==
  ASSUME TypeInv, RefusedInv, [Next]_vars
  PROVE  \/ \E s \in State : Edit(s) /\ ClientStep(state, s)
         \/ \E kind \in Kind, mode \in Mode, captures \in BOOLEAN, n \in Nat \ {0} :
              Begin(kind, mode, captures, n)
         \/ \E t \in Tournament, a \in Announcement : MethodWrites(t, a)
         \/ CallSucceeds
         \/ \E f : Moves(f)
         \/ \E topic \in Topic : CallListener(topic)
         \/ DelayedCallSucceeds
         \/ depth > 0 /\ EndUnannounced
         \/ MethodRuns /\ Top.captures /\ Restore
         \/ DispatchEnds
         \/ UNCHANGED vars
<1>0. state \in State
  BY DEF TypeInv, TypeOK
<1>1. ASSUME NEW ids \in SUBSET Tournament, LoadState(ids)
      PROVE  \E s \in State : Edit(s) /\ ClientStep(state, s)
  BY <1>0, <1>1, SetStateState, SetStateIsClientStep DEF LoadState
<1>2. ASSUME NEW t \in Tournament \cup {NoTournament}, SelectTournament(t)
      PROVE  \E s \in State : Edit(s) /\ ClientStep(state, s)
  BY <1>0, <1>2, SetTournamentIdState, SetTournamentIdIsClientStep DEF SelectTournament
<1>3. ASSUME NEW t \in Tournament, UnloadTournament(t)
      PROVE  \E s \in State : Edit(s) /\ ClientStep(state, s)
  BY <1>0, <1>3, RemoveTournamentRecordState, RemoveTournamentRecordIsClientStep
     DEF UnloadTournament
<1>4. ClientEdits => \E s \in State : Edit(s) /\ ClientStep(state, s)
  BY <1>1, <1>2, <1>3 DEF ClientEdits
<1> QED BY <1>4, ActionKinds

LEMMA NextMarksInv ==
  TypeInv /\ OneInstant /\ RefusedInv /\ MarksInv /\ [Next]_vars => MarksInv'
<1> SUFFICES ASSUME TypeInv, OneInstant, RefusedInv, MarksInv, [Next]_vars PROVE MarksInv'
  OBVIOUS
<1>0. state \in State /\ TypeOK
  BY DEF TypeInv, TypeOK
<1>a. ASSUME depth > 0 PROVE Top \in Frame /\ Top.timeStamp \in Instant
  BY <1>0, <1>a, TopFrame DEF Frame
<1>1. ASSUME NEW s \in State, Edit(s), ClientStep(state, s) PROVE MarksInv'
  BY <1>1, EditMarksInv
<1>2. ASSUME NEW kind \in Kind, NEW mode \in Mode, NEW captures \in BOOLEAN, NEW n \in Nat \ {0},
             Begin(kind, mode, captures, n)
      PROVE  MarksInv'
  BY <1>2, BeginMarksInv
<1>3. ASSUME NEW t \in Tournament, NEW a \in Announcement, MethodWrites(t, a) PROVE MarksInv'
  BY <1>3, MethodWritesMarksInv
<1>4. ASSUME CallSucceeds PROVE MarksInv'
  BY <1>4, CallSucceedsMarksInv
<1>5. ASSUME NEW f, Moves(f) PROVE MarksInv'
  BY <1>5, MovingMarksInv DEF Moves, historyVars
<1>6. ASSUME NEW topic \in Topic, CallListener(topic) PROVE MarksInv'
  <2> DEFINE f == [Top EXCEPT !.phase = "listener", !.reached = Rank[topic]]
  <2>1. /\ depth > 0 /\ Top.phase = "dispatch"
        /\ UNCHANGED <<state, depth, clock, madeAt, unmarked>>
    BY <1>6 DEF CallListener, Dispatching
  <2>2. frame' = [frame EXCEPT ![depth] = f]
    BY <1>0, <1>6, <2>1, TopFrame DEF CallListener, Top, TypeOK
  <2>3. f.phase = "listener"
    BY <1>a, <2>1 DEF Frame
  <2> HIDE DEF f
  <2> QED BY <2>1, <2>2, <2>3, MovingMarksInv
<1>7. ASSUME DelayedCallSucceeds PROVE MarksInv'
  <2>1. /\ depth > 0 /\ Return(GetMutationStatus(state, Top.timeStamp))
        /\ UNCHANGED <<madeAt, unmarked>>
    BY <1>7 DEF DelayedCallSucceeds, MethodRuns
  <2> QED BY <1>0, <1>a, <2>1, GetMutationStatusState, StampingCovers, ReturnMarksInv
<1>8. ASSUME depth > 0, EndUnannounced PROVE MarksInv'
  <2>1. Return(KeepWrites(state, Top.timeStamp)) /\ UNCHANGED <<madeAt, unmarked>>
    BY <1>8 DEF EndUnannounced
  <2> QED BY <1>0, <1>8, <1>a, <2>1, KeepWritesState, StampingCovers, ReturnMarksInv
<1>9. ASSUME depth > 0, Restore PROVE MarksInv'
  BY <1>9, RestoreMarksInv
<1>10. ASSUME DispatchEnds PROVE MarksInv'
  <2>1. /\ depth > 0 /\ Top.phase = "dispatch"
        /\ Return(DeleteNotices(state)) /\ UNCHANGED <<madeAt, unmarked>>
    BY <1>10 DEF DispatchEnds, Dispatching
  <2>2. /\ DeleteNotices(state) \in State
        /\ DeleteNotices(state).records = state.records
        /\ DeleteNotices(state).capturedClock = state.capturedClock
    BY <1>0, DeleteNoticesState
  <2>3. Clean(state)
    BY <2>1 DEF MarksInv, MarksOfMethods
  <2>4. Clean(DeleteNotices(state)) /\ CoveredBut(DeleteNotices(state), unmarked)
    BY <1>0, <2>3 DEF DeleteNotices, State, Clean, MarksInv, CoveredBut
  <2> QED BY <2>1, <2>2, <2>4, ReturnMarksInv
<1>11. ASSUME UNCHANGED vars PROVE MarksInv'
  BY <1>11 DEF MarksInv, MarksOfMethods, InstantIsLatest, CoveredBut, Clean, Top,
               vars, engineVars, historyVars
<1> QED
  BY <1>1, <1>2, <1>3, <1>4, <1>5, <1>6, <1>7, <1>8, <1>9, <1>10, <1>11, StepKinds DEF MethodRuns

LEMMA SpecMarksInv == Spec => [](TypeInv /\ OneInstant /\ RefusedInv /\ MarksInv)
<1>1. Init => TypeInv /\ OneInstant /\ RefusedInv /\ MarksInv
  BY InitTypeInv, InitOneInstant, InitRefusedInv, InitMarksInv
<1>2. (TypeInv /\ OneInstant /\ RefusedInv /\ MarksInv) /\ [Next]_vars
        => (TypeInv /\ OneInstant /\ RefusedInv /\ MarksInv)'
  BY NextTypeInv, NextOneInstant, NextRefusedInv, NextMarksInv
<1> QED BY <1>1, <1>2, PTL DEF Spec

\* Once the outermost call has returned every write in a loaded record is covered by
\* the record's stamp, but those whose mark a restore inside their own call cleared.
THEOREM KeptWritesAreStamped == Spec => []KeptWritesStamped
<1>1. MarksInv => KeptWritesStamped
  BY DEF MarksInv, MarksOfMethods, CoveredBut, Clean, KeptWritesStamped
<1> QED BY <1>1, SpecMarksInv, PTL

\* A call that turns to its subscribers, or reaches the next, keeps what it captured.
LEMMA DispatchingMoves ==
  ASSUME TypeInv, CallSucceeds \/ \E topic \in Topic : CallListener(topic)
  PROVE  /\ depth > 0 /\ UNCHANGED depth
         /\ \E f : SameCapture(f, Top) /\ frame' = [frame EXCEPT ![depth] = f]
<1>1. /\ depth > 0 /\ UNCHANGED depth
      /\ frame \in [1 .. MaxDepth -> Frame] /\ depth \in 1 .. MaxDepth /\ Top \in Frame
  BY TopFrame
     DEF CallSucceeds, BeginDispatch, MethodRuns, CallListener, Dispatching, TypeInv, TypeOK
<1>2. CASE CallSucceeds
  <2> DEFINE f == [Top EXCEPT !.phase = "dispatch", !.modified = state.modified]
  <2>1. Top.phase = "method" /\ frame' = [frame EXCEPT ![depth] = f]
    BY <1>1, <1>2 DEF CallSucceeds, BeginDispatch, Top, MethodRuns
  <2>2. SameCapture(f, Top)
    BY <1>1, <2>1 DEF Frame, SameCapture
  <2> HIDE DEF f
  <2> QED BY <1>1, <2>1, <2>2
<1>3. ASSUME NEW topic \in Topic, CallListener(topic)
      PROVE  \E f : SameCapture(f, Top) /\ frame' = [frame EXCEPT ![depth] = f]
  <2> DEFINE f == [Top EXCEPT !.phase = "listener", !.reached = Rank[topic]]
  <2>1. Top.phase = "dispatch" /\ frame' = [frame EXCEPT ![depth] = f]
    BY <1>1, <1>3 DEF CallListener, Top, Dispatching
  <2>2. SameCapture(f, Top)
    BY <1>1, <2>1 DEF Frame, SameCapture
  <2> HIDE DEF f
  <2> QED BY <2>1, <2>2
<1> QED BY <1>1, <1>2, <1>3

\* What a call captures as it begins.
LEMMA BeginCaptures ==
  ASSUME TypeInv, NEW kind, NEW mode, NEW captures \in BOOLEAN, NEW directives,
         Begin(kind, mode, captures, directives)
  PROVE  /\ depth' = depth + 1 /\ depth + 1 \in 1 .. MaxDepth
         /\ \A d \in 1 .. MaxDepth : d # depth + 1 => frame'[d] = frame[d]
         /\ frame'[depth + 1].captures = captures /\ frame'[depth + 1].phase = "method"
         /\ captures => /\ frame'[depth + 1].since = made
                        /\ frame'[depth + 1].snapshot = CaptureOperation(state)
         /\ state'.records = state.records /\ state'.notices = state.notices
         /\ state'.modified = state.modified
         /\ UNCHANGED historyVars
<1>1. /\ depth \in 0 .. MaxDepth /\ depth < MaxDepth /\ MaxDepth \in Nat
      /\ frame \in [1 .. MaxDepth -> Frame] /\ state \in State
  BY DepthAssumption DEF TypeInv, TypeOK, Begin
<1>2. depth + 1 \in 1 .. MaxDepth
  BY <1>1
<1>3. /\ state'.records = state.records /\ state'.notices = state.notices
      /\ state'.modified = state.modified
  BY <1>1 DEF Begin, State
<1> QED BY <1>1, <1>2, <1>3 DEF Begin, NoFrame

-----------------------------------------------------------------------------
(* What outlives a call.                                                   *)

\* The buffer holds nothing but delayed notices between calls, nor when the outermost
\* call captured it; and no frame is left above the stack.
DelayedInv ==
  /\ depth = 0 => \A n \in state.notices : n.write \in delayed
  /\ depth > 0 /\ frame[1].captures =>
       \A n \in frame[1].snapshot.notices : n.write \in delayed
  /\ \A d \in 1 .. MaxDepth : d > depth => frame[d] = NoFrame

LEMMA MovingDelayedInv ==
  ASSUME TypeInv, DelayedInv, depth > 0, UNCHANGED <<depth, delayed>>,
         NEW f, SameCapture(f, Top), frame' = [frame EXCEPT ![depth] = f]
  PROVE  DelayedInv'
<1>1. depth \in 1 .. MaxDepth /\ frame \in [1 .. MaxDepth -> Frame] /\ MaxDepth \in Nat
  BY TopFrame, DepthAssumption DEF TypeInv, TypeOK
<1>2. SameCapture(frame'[1], frame[1])
  <2>1. \A d \in 1 .. depth' : SameCapture(frame'[d], frame[d])
    BY TopCaptures
  <2> QED BY <1>1, <2>1
<1>3. \A d \in 1 .. MaxDepth : d > depth => frame'[d] = frame[d]
  BY <1>1
<1> QED BY <1>1, <1>2, <1>3 DEF DelayedInv, SameCapture

LEMMA ReturnDelayedInv ==
  ASSUME TypeInv, DelayedInv, depth > 0, NEW s \in State, Return(s), delayed \subseteq delayed',
         depth = 1 => \A n \in s.notices : n.write \in delayed'
  PROVE  DelayedInv'
<1>1. depth \in 1 .. MaxDepth /\ frame \in [1 .. MaxDepth -> Frame] /\ MaxDepth \in Nat
  BY TopFrame, DepthAssumption DEF TypeInv, TypeOK
<1>2. /\ depth' = depth - 1 /\ state'.notices = s.notices
      /\ frame' = [frame EXCEPT ![depth] = NoFrame]
  BY ReturnCaptures DEF Return
<1>3. \A d \in 1 .. MaxDepth : d > depth' => frame'[d] = NoFrame
  BY <1>1, <1>2 DEF DelayedInv
<1>4. depth' > 0 => frame'[1] = frame[1]
  BY <1>1, <1>2
<1> QED BY <1>1, <1>2, <1>3, <1>4 DEF DelayedInv

LEMMA InitDelayedInv == Init => DelayedInv
<1> SUFFICES ASSUME Init PROVE DelayedInv
  OBVIOUS
<1>1. PICK ids \in SUBSET Tournament : state = SetState(FreshState, ids)
  BY DEF Init
<1>2. state.notices = {}
  BY <1>1, FreshStateType, SetStateState DEF FreshState
<1> QED BY <1>2 DEF Init, DelayedInv

LEMMA NextDelayedInv == TypeInv /\ RefusedInv /\ DelayedInv /\ [Next]_vars => DelayedInv'
<1> SUFFICES ASSUME TypeInv, RefusedInv, DelayedInv, [Next]_vars PROVE DelayedInv'
  OBVIOUS
<1>0. state \in State /\ TypeOK
  BY DEF TypeInv, TypeOK
<1>a. ASSUME depth > 0
      PROVE  /\ Top \in Frame /\ Top.timeStamp \in Instant /\ Top.snapshot \in Snapshot
             /\ depth \in 1 .. MaxDepth
  BY <1>0, <1>a, TopFrame DEF Frame
<1>1. ASSUME NEW s \in State, Edit(s), ClientStep(state, s) PROVE DelayedInv'
  BY <1>1 DEF Edit, ClientStep, DelayedInv, historyVars
<1>2. ASSUME NEW kind \in Kind, NEW mode \in Mode, NEW captures \in BOOLEAN, NEW n \in Nat \ {0},
             Begin(kind, mode, captures, n)
      PROVE  DelayedInv'
  <2>1. /\ depth' = depth + 1 /\ depth + 1 \in 1 .. MaxDepth
        /\ \A d \in 1 .. MaxDepth : d # depth + 1 => frame'[d] = frame[d]
        /\ frame'[depth + 1].captures = captures
        /\ captures => frame'[depth + 1].snapshot = CaptureOperation(state)
        /\ UNCHANGED delayed
    BY <1>2, BeginCaptures DEF historyVars
  <2>2. depth \in Nat /\ MaxDepth \in Nat /\ CaptureOperation(state).notices = state.notices
    BY <1>0, CaptureOperationSnapshot, DepthAssumption DEF TypeOK
  <2>3. CASE depth = 0
    BY <2>1, <2>2, <2>3 DEF DelayedInv
  <2>4. CASE depth > 0
    <3>1. frame'[1] = frame[1]
      BY <2>1, <2>2, <2>4
    <3> QED BY <2>1, <2>2, <2>4, <3>1 DEF DelayedInv
  <2> QED BY <2>2, <2>3, <2>4
<1>3. ASSUME NEW t \in Tournament, NEW a \in Announcement, MethodWrites(t, a)
      PROVE  DelayedInv'
  <2>1. depth > 0 /\ UNCHANGED <<depth, frame, delayed>>
    BY <1>3 DEF MethodWrites, MethodRuns
  <2> QED BY <1>a, <2>1 DEF DelayedInv
<1>4. ASSUME CallSucceeds \/ \E topic \in Topic : CallListener(topic) PROVE DelayedInv'
  <2>1. UNCHANGED delayed
    BY <1>4 DEF CallSucceeds, BeginDispatch, CallListener, historyVars
  <2> QED BY <1>4, <2>1, DispatchingMoves, MovingDelayedInv
<1>5. ASSUME NEW f, Moves(f) PROVE DelayedInv'
  BY <1>5, MovingDelayedInv DEF Moves, historyVars
<1>6. ASSUME DelayedCallSucceeds PROVE DelayedInv'
  <2> DEFINE s == GetMutationStatus(state, Top.timeStamp)
  <2>1. /\ depth > 0 /\ Return(s)
        /\ delayed' = delayed \cup {n.write : n \in state.notices}
    BY <1>6 DEF DelayedCallSucceeds, MethodRuns
  <2>2. s \in State /\ s.notices = state.notices
    BY <1>0, <1>a, <2>1, GetMutationStatusState
  <2> HIDE DEF s
  <2> QED BY <2>1, <2>2, ReturnDelayedInv
<1>7. ASSUME depth > 0, EndUnannounced PROVE DelayedInv'
  BY <1>0, <1>7, <1>a, KeepWritesState, ReturnDelayedInv DEF EndUnannounced
<1>8. ASSUME depth > 0, Top.captures, Restore PROVE DelayedInv'
  <2> DEFINE s == RestoreOperation(state, Top.snapshot)
  <2>1. Return(s) /\ UNCHANGED delayed
    BY <1>8 DEF Restore
  <2>2. s \in State /\ s.notices = Top.snapshot.notices
    BY <1>0, <1>8, <1>a, RestoreOperationState
  <2> HIDE DEF s
  <2>3. depth = 1 => \A n \in s.notices : n.write \in delayed
    BY <1>8, <2>2 DEF DelayedInv, Top
  <2> QED BY <1>8, <2>1, <2>2, <2>3, ReturnDelayedInv
<1>9. ASSUME DispatchEnds PROVE DelayedInv'
  BY <1>0, <1>9, DeleteNoticesState, ReturnDelayedInv DEF DispatchEnds, Dispatching
<1>10. ASSUME UNCHANGED vars PROVE DelayedInv'
  BY <1>10 DEF DelayedInv, vars, engineVars, historyVars
<1> QED BY <1>1, <1>2, <1>3, <1>4, <1>5, <1>6, <1>7, <1>8, <1>9, <1>10, StepKinds
     DEF MethodRuns

\* Between calls no mark is set, the buffer holds delayed notices only and the stack
\* is empty, however the calls before ended and whatever they restored.
THEOREM NothingOutlivesACall == Spec => []IdleIsClean
<1>1. Init => DelayedInv
  BY InitDelayedInv
<1>2. (TypeInv /\ OneInstant /\ RefusedInv /\ MarksInv) /\ DelayedInv /\ [Next]_vars
        => DelayedInv'
  BY NextDelayedInv
<1>3. TypeInv /\ MarksInv /\ DelayedInv => IdleIsClean
  <2> SUFFICES ASSUME TypeInv, MarksInv, DelayedInv, depth = 0 PROVE IdleIsClean
    BY DEF IdleIsClean
  <2>1. \A d \in 1 .. MaxDepth : frame[d] = NoFrame
    BY DepthAssumption DEF DelayedInv
  <2> QED BY <2>1 DEF MarksInv, MarksOfMethods, Clean, DelayedInv, IdleIsClean
<1> QED BY <1>1, <1>2, <1>3, SpecMarksInv, PTL DEF Spec

\* A restore selects what was selected at the capture, if its record was loaded then.
THEOREM RestoresSelect == Spec => SelectionRestored
<1>1. ASSUME TypeInv, CallRolledBack \/ PreviewEnds,
             Top.snapshot.selected \in Top.snapshot.records.loaded \cup {NoTournament}
      PROVE  state'.selected = Top.snapshot.selected
  <2> DEFINE captured == Top.snapshot
             installed == SetTournamentRecords(state, captured.records)
             reselected == SetTournamentId(installed, captured.selected)
             refilled == [reselected EXCEPT !.notices = captured.notices]
             u == RestoreOperation(state, captured)
  <2>1. depth > 0 /\ Return(u) /\ state \in State
    BY <1>1 DEF CallRolledBack, PreviewEnds, Restore, MethodRuns, TypeInv, TypeOK
  <2>2. captured \in Snapshot
    BY <1>1, <2>1, TopFrame DEF TypeInv, Frame
  <2> HIDE DEF captured
  <2>3. captured.records \in Records /\ captured.selected \in Tournament \cup {NoTournament}
    BY <2>2 DEF Snapshot
  <2>4. installed \in State /\ installed.records = captured.records
    BY <2>1, <2>3, SetTournamentRecordsState
  <2> HIDE DEF installed
  <2>5. reselected \in State /\ reselected.selected = captured.selected
    <3>1. reselected \in State
      BY <2>3, <2>4, SetTournamentIdState
    <3>2. captured.selected \in installed.records.loaded \cup {NoTournament}
      BY <1>1, <2>4 DEF captured
    <3> QED BY <2>4, <3>1, <3>2 DEF SetTournamentId, State
  <2>6. u = ClearMutationStatus(refilled)
    BY DEF RestoreOperation, installed
  <2> HIDE DEF reselected, u
  <2>7. refilled \in State /\ refilled.selected = captured.selected
    BY <2>2, <2>5 DEF State, Snapshot
  <2> HIDE DEF refilled
  <2>8. u \in State /\ u.selected = captured.selected
    BY <2>6, <2>7 DEF ClearMutationStatus, State
  <2> QED BY <2>1, <2>8 DEF Return, Release, State, captured
<1>2. TypeInv /\ [Next]_vars =>
        [(CallRolledBack \/ PreviewEnds)
           /\ Top.snapshot.selected \in Top.snapshot.records.loaded \cup {NoTournament}
         => state'.selected = Top.snapshot.selected]_vars
  BY <1>1
<1> QED BY <1>2, SpecTypeInv, PTL DEF Spec, SelectionRestored

-----------------------------------------------------------------------------
(* Whose stamps.                                                           *)

\* Every stamp is the instant of one of these writes.
Witnessed(stamp, ws) ==
  \A t \in Tournament : stamp[t] # 0 => \E w \in ws : madeAt[w] = stamp[t]

\* A stamp, and a mark that will become one, has a write of its instant that was not
\* taken back; a captured stamp has one made before the capture.
WitnessInv ==
  /\ Witnessed(state.records.stamp, (1 .. made) \ undone)
  /\ state.modified => \E w \in (1 .. made) \ undone : madeAt[w] = state.capturedClock
  /\ \A d \in 1 .. depth : frame[d].captures =>
       Witnessed(frame[d].snapshot.records.stamp, (1 .. frame[d].since) \ undone)

\* A step that makes and takes back no write, and captures none.
LEMMA QuietWitnessInv ==
  ASSUME TypeInv, WitnessInv, depth' \in 0 .. depth,
         \A d \in 1 .. depth' : SameCapture(frame'[d], frame[d]),
         UNCHANGED <<made, madeAt, undone>>,
         Witnessed(state'.records.stamp, (1 .. made) \ undone),
         state'.modified => state.modified /\ state'.capturedClock = state.capturedClock
  PROVE  WitnessInv'
<1>1. Witnessed(state.records.stamp, (1 .. made) \ undone)'
  BY DEF Witnessed
<1>2. \A d \in 1 .. depth' : d \in 1 .. depth
  BY DepthAssumption DEF TypeInv, TypeOK
<1>3. ASSUME NEW d \in 1 .. depth', frame'[d].captures
      PROVE  Witnessed(frame[d].snapshot.records.stamp, (1 .. frame[d].since) \ undone)'
  <2>1. SameCapture(frame'[d], frame[d])
    OBVIOUS
  <2>2. Witnessed(frame[d].snapshot.records.stamp, (1 .. frame[d].since) \ undone)
    BY <1>2, <1>3, <2>1 DEF WitnessInv, SameCapture
  <2> QED BY <2>1, <2>2 DEF Witnessed, SameCapture
<1> QED BY <1>1, <1>3 DEF WitnessInv

\* A stamp set while a call succeeds or is refused is of the marks' instant.
LEMMA StampingWitnessed ==
  ASSUME TypeInv, OneInstant, WitnessInv, depth > 0, NEW u,
         u = GetMutationStatus(state, Top.timeStamp) \/ u = KeepWrites(state, Top.timeStamp)
  PROVE  Witnessed(u.records.stamp, (1 .. made) \ undone)
<1>1. state \in State /\ Top.timeStamp \in Instant /\ depth \in 1 .. depth
  BY TopFrame DEF TypeInv, TypeOK, Frame
<1>2. \A t \in Tournament :
        u.records.stamp[t] =
          IF t \in Stamped(state) THEN Top.timeStamp ELSE state.records.stamp[t]
  BY <1>1, Stamping
<1>3. Top.timeStamp = state.capturedClock
  BY <1>1 DEF OneInstant, Top
<1> QED BY <1>2, <1>3 DEF WitnessInv, Witnessed, Stamped

LEMMA InitWitnessInv == Init => WitnessInv
<1> SUFFICES ASSUME Init PROVE WitnessInv
  OBVIOUS
<1>1. PICK ids \in SUBSET Tournament : state = SetState(FreshState, ids)
  BY DEF Init
<1>2. ClientStep(FreshState, state)
  BY <1>1, FreshStateType, SetStateIsClientStep
<1>3. FreshState.modified = FALSE /\ \A t \in Tournament : FreshState.records.stamp[t] = 0
  BY DEF FreshState, NoRecords
<1>4. state.modified = FALSE /\ \A t \in Tournament : state.records.stamp[t] = 0
  BY <1>2, <1>3 DEF ClientStep
<1> QED BY <1>4 DEF WitnessInv, Witnessed, Init

LEMMA BeginWitnessInv ==
  ASSUME TypeInv, OneInstant, MarksInv, RefusedInv, WitnessInv, NEW kind, NEW mode,
         NEW captures \in BOOLEAN, NEW directives, Begin(kind, mode, captures, directives)
  PROVE  WitnessInv'
<1>1. /\ depth' = depth + 1 /\ depth + 1 \in 1 .. MaxDepth
      /\ \A d \in 1 .. MaxDepth : d # depth + 1 => frame'[d] = frame[d]
      /\ frame'[depth + 1].captures = captures
      /\ captures => /\ frame'[depth + 1].since = made
                     /\ frame'[depth + 1].snapshot = CaptureOperation(state)
      /\ state'.records = state.records /\ state'.modified = state.modified
      /\ UNCHANGED <<made, madeAt, undone>>
  BY BeginCaptures DEF historyVars
<1>2. /\ depth \in Nat /\ MaxDepth \in Nat /\ state \in State
      /\ CaptureOperation(state).records = state.records
  BY CaptureOperationSnapshot, DepthAssumption DEF TypeInv, TypeOK
<1>3. state.modified => state'.capturedClock = state.capturedClock
  <2>1. state.modified => state.capturedClock # 0
    BY DEF MarksInv, MarksOfMethods, Clean, OneInstant
  <2> QED BY <1>2, <2>1 DEF Begin, CallInstant, State
<1>4. Witnessed(state.records.stamp, (1 .. made) \ undone)'
  BY <1>1 DEF WitnessInv, Witnessed
<1>5. ASSUME NEW d \in 1 .. depth', frame'[d].captures
      PROVE  Witnessed(frame[d].snapshot.records.stamp, (1 .. frame[d].since) \ undone)'
  <2>1. CASE d = depth + 1
    BY <1>1, <1>2, <1>5, <2>1 DEF WitnessInv, Witnessed
  <2>2. CASE d \in 1 .. depth
    <3>1. frame'[d] = frame[d]
      BY <1>1, <1>2, <2>2
    <3>2. Witnessed(frame[d].snapshot.records.stamp, (1 .. frame[d].since) \ undone)
      BY <1>5, <2>2, <3>1 DEF WitnessInv
    <3> QED BY <1>1, <3>1, <3>2 DEF Witnessed
  <2> QED BY <1>1, <1>2, <2>1, <2>2
<1> QED BY <1>1, <1>3, <1>4, <1>5 DEF WitnessInv

LEMMA MethodWritesWitnessInv ==
  ASSUME TypeInv, RefusedInv, WitnessInv, NEW t \in Tournament, NEW a \in Announcement,
         MethodWrites(t, a)
  PROVE  WitnessInv'
<1> DEFINE w == made + 1
<1>1. /\ made \in Nat /\ w \in Write /\ madeAt \in [Write -> Instant]
      /\ undone \subseteq 1 .. made /\ Write = 1 .. MaxWrites /\ MaxWrites \in Nat
  BY BoundAssumption DEF TypeInv, TypeOK, MethodWrites, RefusedInv, Write
<1>2. /\ made' = w /\ madeAt' = [madeAt EXCEPT ![w] = state.capturedClock]
      /\ UNCHANGED <<depth, frame, undone>>
  BY DEF MethodWrites
<1>3. /\ state'.records.stamp = state.records.stamp
      /\ state'.capturedClock = state.capturedClock
  BY WritingMarks
<1>4. w \in (1 .. made') \ undone' /\ madeAt'[w] = state'.capturedClock
  BY <1>1, <1>2, <1>3
<1>5. \A x \in 1 .. made : madeAt'[x] = madeAt[x]
  BY <1>1, <1>2
<1>6. (1 .. made) \ undone \subseteq (1 .. made') \ undone'
  BY <1>1, <1>2
<1> HIDE DEF w
<1>7. Witnessed(state.records.stamp, (1 .. made) \ undone)'
  BY <1>3, <1>5, <1>6 DEF WitnessInv, Witnessed
<1>8. ASSUME NEW d \in 1 .. depth, frame[d].captures
      PROVE  Witnessed(frame[d].snapshot.records.stamp, (1 .. frame[d].since) \ undone)'
  <2>1. frame[d].since <= made /\ frame[d].since \in Nat
    BY <1>8, FrameInProgress DEF RefusedInv, SnapshotsHold
  <2>2. (1 .. frame[d].since) \ undone \subseteq 1 .. made
    BY <1>1, <2>1
  <2>3. Witnessed(frame[d].snapshot.records.stamp, (1 .. frame[d].since) \ undone)
    BY <1>8 DEF WitnessInv
  <2> QED BY <1>2, <1>5, <2>2, <2>3 DEF Witnessed
<1> QED BY <1>2, <1>4, <1>7, <1>8 DEF WitnessInv

LEMMA RestoreWitnessInv ==
  ASSUME TypeInv, RefusedInv, WitnessInv, depth > 0, Top.captures, Restore
  PROVE  WitnessInv'
<1> DEFINE restored == RestoreOperation(state, Top.snapshot)
<1>1. state \in State /\ Top.snapshot \in Snapshot /\ depth \in 1 .. depth /\ made \in Nat
  BY TopFrame, BoundAssumption DEF TypeInv, TypeOK, Frame
<1>2. restored \in State /\ restored.records = Top.snapshot.records /\ ~restored.modified
  BY <1>1, RestoreOperationState, RestoringMarks
<1>3. /\ Return(restored) /\ UNCHANGED <<made, madeAt>>
      /\ undone' = undone \cup (Top.since + 1 .. made)
  BY DEF Restore
<1> HIDE DEF restored
<1>4. /\ depth' = depth - 1 /\ state'.records = restored.records
      /\ \A d \in 1 .. depth' : frame'[d] = frame[d]
  BY <1>2, <1>3, ReturnCaptures
<1>5. ~state'.modified
  BY <1>2, <1>3 DEF Return, Release, State
<1>6. Top.since \in Nat /\ Top.since <= made
  BY <1>1, FrameInProgress DEF RefusedInv, SnapshotsHold, Top
<1>7. Witnessed(state.records.stamp, (1 .. made) \ undone)'
  <2>1. Witnessed(Top.snapshot.records.stamp, (1 .. Top.since) \ undone)
    BY <1>1 DEF WitnessInv, Top
  <2>2. (1 .. Top.since) \ undone \subseteq (1 .. made') \ undone'
    BY <1>1, <1>3, <1>6
  <2> QED BY <1>2, <1>3, <1>4, <2>1, <2>2 DEF Witnessed
<1>8. ASSUME NEW d \in 1 .. depth', frame'[d].captures
      PROVE  Witnessed(frame[d].snapshot.records.stamp, (1 .. frame[d].since) \ undone)'
  <2>1. d \in 1 .. depth /\ d < depth /\ frame'[d] = frame[d]
    BY <1>1, <1>4
  <2>2. frame[d].since <= Top.since /\ frame[d].since \in Nat
    BY <1>1, <1>8, <2>1, FrameInProgress DEF RefusedInv, SnapshotsNest, Top
  <2>3. (1 .. frame[d].since) \ undone \subseteq (1 .. frame[d].since) \ undone'
    BY <1>3, <1>6, <2>2
  <2>4. Witnessed(frame[d].snapshot.records.stamp, (1 .. frame[d].since) \ undone)
    BY <1>8, <2>1 DEF WitnessInv
  <2> QED BY <1>3, <2>1, <2>3, <2>4 DEF Witnessed
<1> QED BY <1>5, <1>7, <1>8 DEF WitnessInv

LEMMA ReturnWitnessInv ==
  ASSUME TypeInv, WitnessInv, depth > 0, NEW s \in State, Return(s), ~s.modified,
         Witnessed(s.records.stamp, (1 .. made) \ undone), UNCHANGED <<made, madeAt, undone>>
  PROVE  WitnessInv'
<1>1. ~state'.modified
  BY DEF Return, Release, State
<1> QED BY <1>1, ReturnCaptures, QuietWitnessInv

LEMMA NextWitnessInv ==
  (TypeInv /\ OneInstant /\ RefusedInv /\ MarksInv) /\ WitnessInv /\ [Next]_vars => WitnessInv'
<1> SUFFICES ASSUME TypeInv, OneInstant, RefusedInv, MarksInv, WitnessInv, [Next]_vars
             PROVE  WitnessInv'
  OBVIOUS
<1>0. state \in State /\ TypeOK
  BY DEF TypeInv, TypeOK
<1>a. ASSUME depth > 0 PROVE Top.timeStamp \in Instant
  BY <1>0, <1>a, TopFrame DEF Frame
<1>b. depth \in 0 .. depth /\ Witnessed(state.records.stamp, (1 .. made) \ undone)
  BY <1>0, DepthAssumption DEF TypeOK, WitnessInv
<1>1. ASSUME NEW s \in State, Edit(s), ClientStep(state, s) PROVE WitnessInv'
  <2>1. state' = s /\ UNCHANGED <<depth, frame, made, madeAt, undone>>
    BY <1>1 DEF Edit, historyVars
  <2>2. Witnessed(s.records.stamp, (1 .. made) \ undone)
    BY <1>1, <1>b DEF Witnessed, ClientStep
  <2>3. s.modified = state.modified /\ s.capturedClock = state.capturedClock
    BY <1>1 DEF ClientStep
  <2>4. \A d \in 1 .. depth' : SameCapture(frame'[d], frame[d])
    BY <2>1 DEF SameCapture
  <2> QED BY <1>b, <2>1, <2>2, <2>3, <2>4, QuietWitnessInv
<1>2. ASSUME NEW kind \in Kind, NEW mode \in Mode, NEW captures \in BOOLEAN, NEW n \in Nat \ {0},
             Begin(kind, mode, captures, n)
      PROVE  WitnessInv'
  BY <1>2, BeginWitnessInv
<1>3. ASSUME NEW t \in Tournament, NEW a \in Announcement, MethodWrites(t, a)
      PROVE  WitnessInv'
  BY <1>3, MethodWritesWitnessInv
<1>4. ASSUME CallSucceeds PROVE WitnessInv'
  <2>1. /\ depth > 0 /\ state' = GetMutationStatus(state, Top.timeStamp)
        /\ UNCHANGED <<made, madeAt, undone>>
    BY <1>4 DEF CallSucceeds, BeginDispatch, MethodRuns, historyVars
  <2>2. Witnessed(state'.records.stamp, (1 .. made) \ undone) /\ ~state'.modified
    <3>1. ~state'.modified
      BY <1>0, <1>a, <2>1, Stamping
    <3> QED BY <2>1, <3>1, StampingWitnessed
  <2>3. depth' \in 0 .. depth /\ \A d \in 1 .. depth' : SameCapture(frame'[d], frame[d])
    BY <1>4, DispatchingMoves, TopCaptures
  <2> QED BY <2>1, <2>2, <2>3, QuietWitnessInv
<1>5. ASSUME NEW f, Moves(f) PROVE WitnessInv'
  <2>1. depth > 0 /\ UNCHANGED <<state, depth, made, madeAt, undone>>
    BY <1>5 DEF Moves, historyVars
  <2>2. depth' \in 0 .. depth /\ \A d \in 1 .. depth' : SameCapture(frame'[d], frame[d])
    BY <1>5, TopCaptures DEF Moves
  <2> QED BY <1>b, <2>1, <2>2, QuietWitnessInv
<1>6. ASSUME NEW topic \in Topic, CallListener(topic) PROVE WitnessInv'
  <2>1. UNCHANGED <<state, made, madeAt, undone>>
    BY <1>6 DEF CallListener
  <2>2. depth' \in 0 .. depth /\ \A d \in 1 .. depth' : SameCapture(frame'[d], frame[d])
    BY <1>6, DispatchingMoves, TopCaptures
  <2> QED BY <1>b, <2>1, <2>2, QuietWitnessInv
<1>7. ASSUME DelayedCallSucceeds PROVE WitnessInv'
  <2> DEFINE s == GetMutationStatus(state, Top.timeStamp)
  <2>1. depth > 0 /\ Return(s) /\ UNCHANGED <<made, madeAt, undone>>
    BY <1>7 DEF DelayedCallSucceeds, MethodRuns
  <2>2. s \in State /\ ~s.modified /\ Witnessed(s.records.stamp, (1 .. made) \ undone)
    BY <1>0, <1>a, <2>1, GetMutationStatusState, Stamping, StampingWitnessed
  <2> HIDE DEF s
  <2> QED BY <2>1, <2>2, ReturnWitnessInv
<1>8. ASSUME depth > 0, EndUnannounced PROVE WitnessInv'
  <2> DEFINE s == KeepWrites(state, Top.timeStamp)
  <2>1. Return(s) /\ UNCHANGED <<made, madeAt, undone>>
    BY <1>8 DEF EndUnannounced
  <2>2. s \in State /\ ~s.modified /\ Witnessed(s.records.stamp, (1 .. made) \ undone)
    BY <1>0, <1>8, <1>a, KeepWritesState, Stamping, StampingWitnessed
  <2> HIDE DEF s
  <2> QED BY <1>8, <2>1, <2>2, ReturnWitnessInv
<1>9. ASSUME depth > 0, Top.captures, Restore PROVE WitnessInv'
  BY <1>9, RestoreWitnessInv
<1>10. ASSUME DispatchEnds PROVE WitnessInv'
  <2> DEFINE s == DeleteNotices(state)
  <2>1. /\ depth > 0 /\ Top.phase = "dispatch"
        /\ Return(s) /\ UNCHANGED <<made, madeAt, undone>>
    BY <1>10 DEF DispatchEnds, Dispatching
  <2>2. s \in State /\ s.records = state.records /\ s.modified = state.modified
    BY <1>0, DeleteNoticesState DEF DeleteNotices, State
  <2>3. ~state.modified
    BY <2>1 DEF MarksInv, MarksOfMethods, Clean
  <2> HIDE DEF s
  <2> QED BY <1>b, <2>1, <2>2, <2>3, ReturnWitnessInv
<1>11. ASSUME UNCHANGED vars PROVE WitnessInv'
  BY <1>11 DEF WitnessInv, Witnessed, vars, engineVars, historyVars
<1> QED
  BY <1>1, <1>2, <1>3, <1>4, <1>5, <1>6, <1>7, <1>8, <1>9, <1>10, <1>11, StepKinds DEF MethodRuns

\* Once the outermost call has returned a record's stamp names a call that kept a write,
\* whichever calls were nested in it or taken back.
THEOREM StampsAreOfKeptWrites == Spec => []StampsNameTheirCall
<1>1. Init => WitnessInv
  BY InitWitnessInv
<1>2. (TypeInv /\ OneInstant /\ RefusedInv /\ MarksInv) /\ WitnessInv /\ [Next]_vars
        => WitnessInv'
  BY NextWitnessInv
<1>3. TypeInv /\ WitnessInv => StampsNameTheirCall
  BY DEF WitnessInv, Witnessed, StampsNameTheirCall, TypeInv, TypeOK, State, Records
<1> QED BY <1>1, <1>2, <1>3, SpecMarksInv, PTL DEF Spec

-----------------------------------------------------------------------------
(* What becomes of notices.                                                *)

\* These notices announce w.
Announces(notices, w) == \E n \in notices : n.write = w

\* A pending notice is in the buffer, or was delivered, or its write was taken back.
PendingAreBuffered ==
  \A w \in Write : fate[w] = "pending" =>
    w \in 1 .. made /\ (Announces(state.notices, w) \/ delivered[w] > 0 \/ w \in undone)

\* A capture holds every notice of an older write that is pending or buffered now ...
CapturesHoldPending ==
  \A d \in 1 .. depth : frame[d].captures =>
    \A w \in 1 .. frame[d].since :
      /\ Announces(state.notices, w) => Announces(frame[d].snapshot.notices, w)
      /\ fate[w] = "pending" =>
           Announces(frame[d].snapshot.notices, w) \/ delivered[w] > 0 \/ w \in undone

\* ... and every one that a call nested in it captured.
CapturesHoldLater ==
  \A d, e \in 1 .. depth : d < e /\ frame[d].captures /\ frame[e].captures =>
    \A w \in 1 .. frame[d].since :
      Announces(frame[e].snapshot.notices, w) => Announces(frame[d].snapshot.notices, w)

FateInv == PendingAreBuffered /\ CapturesHoldPending /\ CapturesHoldLater

\* A step that captures nothing, buffers nothing, and under which a notice leaves the
\* buffer only with its fate.
LEMMA QuietFateInv ==
  ASSUME TypeInv, RefusedInv, FateInv, depth' \in 0 .. depth,
         \A d \in 1 .. depth' : SameCapture(frame'[d], frame[d]),
         UNCHANGED made, undone \subseteq undone', state'.notices \subseteq state.notices,
         \A w \in Write : delivered[w] > 0 => delivered'[w] > 0,
         \A w \in Write : fate'[w] = "pending" =>
           fate[w] = "pending"
             /\ (Announces(state.notices, w) => Announces(state'.notices, w) \/ delivered'[w] > 0)
  PROVE  FateInv'
<1>1. depth \in Nat /\ \A d \in 1 .. depth' : d \in 1 .. depth
  BY DepthAssumption DEF TypeInv, TypeOK
<1>2. PendingAreBuffered'
  BY DEF FateInv, PendingAreBuffered
<1>3. ASSUME NEW d \in 1 .. depth', frame'[d].captures, NEW w \in 1 .. frame'[d].since
      PROVE  /\ Announces(state'.notices, w) => Announces(frame'[d].snapshot.notices, w)
             /\ fate'[w] = "pending" => \/ Announces(frame'[d].snapshot.notices, w)
                                        \/ delivered'[w] > 0 \/ w \in undone'
  <2>1. /\ d \in 1 .. depth /\ frame[d].captures /\ frame'[d].snapshot = frame[d].snapshot
        /\ w \in 1 .. frame[d].since
    BY <1>1, <1>3 DEF SameCapture
  <2>2. /\ Announces(state.notices, w) => Announces(frame[d].snapshot.notices, w)
        /\ fate[w] = "pending" =>
             Announces(frame[d].snapshot.notices, w) \/ delivered[w] > 0 \/ w \in undone
    BY <2>1 DEF FateInv, CapturesHoldPending
  <2>3. w \in Write
    <3>1. frame[d].since \in 0 .. MaxWrites
      BY <2>1, FrameInProgress DEF Frame
    <3> QED BY <2>1, <3>1, BoundAssumption DEF Write
  <2>4. Announces(state'.notices, w) => Announces(state.notices, w)
    BY DEF Announces
  <2> QED BY <2>1, <2>2, <2>3, <2>4
<1>4. CapturesHoldPending'
  BY <1>3 DEF CapturesHoldPending
<1>5. CapturesHoldLater'
  <2> SUFFICES ASSUME NEW d \in 1 .. depth', NEW e \in 1 .. depth', d < e,
                      frame'[d].captures, frame'[e].captures, NEW w \in 1 .. frame'[d].since,
                      Announces(frame'[e].snapshot.notices, w)
               PROVE  Announces(frame'[d].snapshot.notices, w)
    BY DEF CapturesHoldLater
  <2>1. /\ d \in 1 .. depth /\ e \in 1 .. depth
        /\ SameCapture(frame'[d], frame[d]) /\ SameCapture(frame'[e], frame[e])
    BY <1>1
  <2> QED BY <2>1 DEF FateInv, CapturesHoldLater, SameCapture
<1> QED BY <1>2, <1>4, <1>5 DEF FateInv

LEMMA InitFateInv == Init => FateInv
BY DEF Init, FateInv, PendingAreBuffered, CapturesHoldPending, CapturesHoldLater

LEMMA BeginFateInv ==
  ASSUME TypeInv, RefusedInv, FateInv, NEW kind, NEW mode, NEW captures \in BOOLEAN,
         NEW directives, Begin(kind, mode, captures, directives)
  PROVE  FateInv'
<1>1. /\ depth' = depth + 1 /\ depth + 1 \in 1 .. MaxDepth
      /\ \A d \in 1 .. MaxDepth : d # depth + 1 => frame'[d] = frame[d]
      /\ frame'[depth + 1].captures = captures
      /\ captures => /\ frame'[depth + 1].since = made
                     /\ frame'[depth + 1].snapshot = CaptureOperation(state)
      /\ state'.notices = state.notices
      /\ UNCHANGED <<made, undone, delivered, fate>>
  BY BeginCaptures DEF historyVars
<1>2. /\ depth \in Nat /\ MaxDepth \in Nat /\ MaxWrites \in Nat /\ made \in 0 .. MaxWrites
      /\ CaptureOperation(state).notices = state.notices
  BY CaptureOperationSnapshot, DepthAssumption, BoundAssumption DEF TypeInv, TypeOK
<1>3. \A d \in 1 .. depth' : d = depth + 1 \/ (d \in 1 .. depth /\ frame'[d] = frame[d])
  BY <1>1, <1>2
<1>4. PendingAreBuffered'
  BY <1>1 DEF FateInv, PendingAreBuffered
<1>5. ASSUME NEW d \in 1 .. depth', frame'[d].captures, NEW w \in 1 .. frame'[d].since
      PROVE  /\ Announces(state.notices, w) => Announces(frame'[d].snapshot.notices, w)
             /\ fate[w] = "pending" =>
                  Announces(frame'[d].snapshot.notices, w) \/ delivered[w] > 0 \/ w \in undone
  <2>1. CASE d = depth + 1
    <3>1. w \in Write /\ frame'[d].snapshot.notices = state.notices
      BY <1>1, <1>2, <1>5, <2>1 DEF Write
    <3> QED BY <3>1 DEF FateInv, PendingAreBuffered
  <2>2. CASE d \in 1 .. depth /\ frame'[d] = frame[d]
    BY <1>5, <2>2 DEF FateInv, CapturesHoldPending
  <2> QED BY <1>3, <2>1, <2>2
<1>6. CapturesHoldPending'
  BY <1>1, <1>5 DEF CapturesHoldPending
<1>7. CapturesHoldLater'
  <2> SUFFICES ASSUME NEW d \in 1 .. depth', NEW e \in 1 .. depth', d < e,
                      frame'[d].captures, frame'[e].captures, NEW w \in 1 .. frame'[d].since,
                      Announces(frame'[e].snapshot.notices, w)
               PROVE  Announces(frame'[d].snapshot.notices, w)
    BY DEF CapturesHoldLater
  <2>1. d \in 1 .. depth /\ frame'[d] = frame[d]
    BY <1>1, <1>2, <1>3
  <2>2. CASE e = depth + 1
    <3>1. Announces(state.notices, w)
      BY <1>1, <1>2, <2>2
    <3> QED BY <2>1, <3>1 DEF FateInv, CapturesHoldPending
  <2>3. CASE e \in 1 .. depth /\ frame'[e] = frame[e]
    BY <2>1, <2>3 DEF FateInv, CapturesHoldLater
  <2> QED BY <1>3, <2>2, <2>3
<1> QED BY <1>4, <1>6, <1>7 DEF FateInv

\* What a write does to the buffer and to the fates of older notices.
LEMMA WritingFates ==
  ASSUME TypeInv, RefusedInv, NEW t \in Tournament, NEW a \in Announcement, MethodWrites(t, a)
  PROVE  /\ \A x \in Write : x # made + 1 =>
              /\ Announces(state'.notices, x) => Announces(state.notices, x)
              /\ fate'[x] = "pending" =>
                   fate[x] = "pending"
                     /\ (Announces(state.notices, x) => Announces(state'.notices, x))
         /\ fate'[made + 1] = "pending" =>
              fate[made + 1] = "pending" \/ Announces(state'.notices, made + 1)
<1> DEFINE w == made + 1
           id == IF a.named THEN t ELSE Unnamed
           written == Written(t, w)
           notice == [topic |-> a.topic, key |-> a.key, write |-> w]
           gone == Superseded(state, notice.topic, notice.key)
<1>1. /\ state \in State /\ w \in Write /\ fate \in [Write -> Fate]
      /\ id \in Tournament \cup {Unnamed} /\ made \in Nat
  BY BoundAssumption DEF TypeInv, TypeOK, MethodWrites, Write
<1>2. written \in State /\ written.notices = state.notices
  BY <1>1, WrittenState
<1>3. \A n \in state.notices : n.write # w
  BY <1>1 DEF RefusedInv, StateHolds, Holds
<1>4. CASE state' = AddNotice(written, notice, id)
           /\ fate' = Fated([fate EXCEPT ![w] = "pending"], gone, "superseded")
  <2>1. state'.notices = (state.notices \ gone) \cup {notice}
    <3> HIDE DEF written
    <3>1. MarkModified(written, id) \in State /\ MarkModified(written, id).notices = written.notices
      BY <1>1, <1>2, MarkModifiedState
    <3>2. Superseded(written, notice.topic, notice.key) = gone
      BY <1>2 DEF Superseded
    <3> QED BY <1>2, <1>4, <3>1, <3>2 DEF AddNotice, State
  <2>2. notice.write = w
    OBVIOUS
  <2>3. \A x \in Write : x # w =>
          fate'[x] = IF \E n \in gone : n.write = x THEN "superseded" ELSE fate[x]
    BY <1>1, <1>4 DEF Fated
  <2> HIDE DEF w, notice, gone
  <2>4. ASSUME NEW x \in Write, x # w
        PROVE  /\ Announces(state'.notices, x) => Announces(state.notices, x)
               /\ fate'[x] = "pending" =>
                    fate[x] = "pending"
                      /\ (Announces(state.notices, x) => Announces(state'.notices, x))
    BY <2>1, <2>2, <2>3, <2>4 DEF Announces
  <2>5. Announces(state'.notices, w)
    BY <2>1, <2>2 DEF Announces
  <2> QED BY <2>4, <2>5 DEF w
<1>5. CASE state' = MarkModified(written, id) /\ UNCHANGED fate
  <2>1. state'.notices = state.notices
    <3> HIDE DEF written
    <3> QED BY <1>1, <1>2, <1>5, MarkModifiedState
  <2> QED BY <1>5, <2>1
<1> QED BY <1>4, <1>5 DEF MethodWrites

LEMMA MethodWritesFateInv ==
  ASSUME TypeInv, RefusedInv, FateInv, NEW t \in Tournament, NEW a \in Announcement,
         MethodWrites(t, a)
  PROVE  FateInv'
<1> DEFINE w == made + 1
<1>1. /\ made \in Nat /\ w \in Write /\ Write = 1 .. MaxWrites /\ MaxWrites \in Nat
  BY BoundAssumption DEF TypeInv, TypeOK, MethodWrites, Write
<1>2. made' = w /\ UNCHANGED <<depth, frame, undone, delivered>>
  BY DEF MethodWrites
<1>3. /\ \A x \in Write : x # w =>
           /\ Announces(state'.notices, x) => Announces(state.notices, x)
           /\ fate'[x] = "pending" =>
                fate[x] = "pending"
                  /\ (Announces(state.notices, x) => Announces(state'.notices, x))
      /\ fate'[w] = "pending" => fate[w] = "pending" \/ Announces(state'.notices, w)
  BY WritingFates
<1>4. fate[w] # "pending"
  BY <1>1 DEF FateInv, PendingAreBuffered
<1>5. w \in 1 .. made' /\ \A x \in 1 .. made : x \in 1 .. made'
  BY <1>1, <1>2
<1> HIDE DEF w
<1>6. PendingAreBuffered'
  <2> SUFFICES ASSUME NEW x \in Write, fate'[x] = "pending"
               PROVE  /\ x \in 1 .. made'
                      /\ Announces(state'.notices, x) \/ delivered[x] > 0 \/ x \in undone
    BY <1>2 DEF PendingAreBuffered
  <2>1. CASE x = w
    BY <1>3, <1>4, <1>5, <2>1
  <2>2. CASE x # w
    BY <1>3, <1>5, <2>2 DEF FateInv, PendingAreBuffered
  <2> QED BY <2>1, <2>2
<1>7. ASSUME NEW d \in 1 .. depth, frame[d].captures, NEW x \in 1 .. frame[d].since
      PROVE  /\ Announces(state'.notices, x) => Announces(frame[d].snapshot.notices, x)
             /\ fate'[x] = "pending" =>
                  Announces(frame[d].snapshot.notices, x) \/ delivered[x] > 0 \/ x \in undone
  <2>1. frame[d].since <= made /\ frame[d].since \in Nat
    BY <1>7, FrameInProgress DEF RefusedInv, SnapshotsHold
  <2>2. x \in Write /\ x # w
    BY <1>1, <1>7, <2>1 DEF w
  <2>3. /\ Announces(state.notices, x) => Announces(frame[d].snapshot.notices, x)
        /\ fate[x] = "pending" =>
             Announces(frame[d].snapshot.notices, x) \/ delivered[x] > 0 \/ x \in undone
    BY <1>7 DEF FateInv, CapturesHoldPending
  <2> QED BY <1>3, <2>2, <2>3
<1>8. CapturesHoldPending'
  BY <1>2, <1>7 DEF CapturesHoldPending
<1>9. CapturesHoldLater'
  BY <1>2 DEF FateInv, CapturesHoldLater
<1> QED BY <1>6, <1>8, <1>9 DEF FateInv

\* A restore puts back the notices captured: those pending now and not among them are
\* of writes it takes back.
LEMMA RestoreFateInv ==
  ASSUME TypeInv, RefusedInv, FateInv, depth > 0, Top.captures, Restore
  PROVE  FateInv'
<1> DEFINE restored == RestoreOperation(state, Top.snapshot)
<1>1. /\ state \in State /\ Top.snapshot \in Snapshot /\ depth \in 1 .. depth /\ made \in Nat
      /\ fate \in [Write -> Fate]
  BY TopFrame, BoundAssumption DEF TypeInv, TypeOK, Frame
<1>2. restored \in State /\ restored.notices = Top.snapshot.notices
  BY <1>1, RestoreOperationState
<1>3. /\ Return(restored) /\ UNCHANGED <<made, delivered>>
      /\ undone' = undone \cup (Top.since + 1 .. made)
      /\ fate' = Fated(fate, restored.notices, "pending")
  BY DEF Restore
<1> HIDE DEF restored
<1>4. /\ depth' = depth - 1 /\ state'.notices = Top.snapshot.notices
      /\ \A d \in 1 .. depth' : frame'[d] = frame[d]
  BY <1>2, <1>3, ReturnCaptures
<1>5. Top.since \in Nat /\ Top.since <= made
  BY <1>1, FrameInProgress DEF RefusedInv, SnapshotsHold, Top
<1>6. \A w \in Write :
        fate'[w] = "pending" => fate[w] = "pending" \/ Announces(Top.snapshot.notices, w)
  BY <1>2, <1>3 DEF Fated, Announces
<1>7. \A w \in Write : Announces(Top.snapshot.notices, w) => w \in 1 .. Top.since
  BY <1>1 DEF RefusedInv, SnapshotsHold, Holds, Announces, Top
<1>8. PendingAreBuffered'
  <2> SUFFICES ASSUME NEW w \in Write, fate'[w] = "pending"
               PROVE  /\ w \in 1 .. made
                      /\ Announces(Top.snapshot.notices, w) \/ delivered[w] > 0 \/ w \in undone'
    BY <1>3, <1>4 DEF PendingAreBuffered
  <2>1. CASE Announces(Top.snapshot.notices, w)
    BY <1>1, <1>5, <1>7, <2>1
  <2>2. CASE fate[w] = "pending" /\ w \in 1 .. Top.since
    <3>1. Announces(Top.snapshot.notices, w) \/ delivered[w] > 0 \/ w \in undone
      BY <1>1, <2>2 DEF FateInv, CapturesHoldPending, Top
    <3> QED BY <1>1, <1>3, <1>5, <2>2, <3>1
  <2>3. CASE fate[w] = "pending" /\ w \notin 1 .. Top.since
    <3>1. w \in 1 .. made
      BY <2>3 DEF FateInv, PendingAreBuffered
    <3> QED BY <1>3, <1>5, <2>3, <3>1
  <2> QED BY <1>6, <2>1, <2>2, <2>3
<1>9. ASSUME NEW d \in 1 .. depth', frame'[d].captures
      PROVE  /\ d \in 1 .. depth /\ d < depth /\ frame'[d] = frame[d] /\ frame[d].captures
             /\ frame[d].since \in Nat /\ frame[d].since <= made
  <2>1. d \in 1 .. depth /\ d < depth /\ frame'[d] = frame[d]
    BY <1>1, <1>4
  <2> QED BY <1>9, <2>1, FrameInProgress DEF RefusedInv, SnapshotsHold
<1>10. ASSUME NEW d \in 1 .. depth', frame'[d].captures, NEW w \in 1 .. frame[d].since
       PROVE  /\ Announces(Top.snapshot.notices, w) => Announces(frame[d].snapshot.notices, w)
              /\ fate'[w] = "pending" => \/ Announces(frame[d].snapshot.notices, w)
                                         \/ delivered[w] > 0 \/ w \in undone'
  <2>1. /\ d \in 1 .. depth /\ d < depth /\ frame[d].captures
        /\ frame[d].since \in Nat /\ frame[d].since <= made
    BY <1>9, <1>10
  <2>2. Announces(Top.snapshot.notices, w) => Announces(frame[d].snapshot.notices, w)
    BY <1>1, <2>1 DEF FateInv, CapturesHoldLater, Top
  <2>3. w \in Write
    BY <2>1, BoundAssumption DEF Write, TypeInv, TypeOK
  <2>4. fate[w] = "pending" =>
          Announces(frame[d].snapshot.notices, w) \/ delivered[w] > 0 \/ w \in undone
    BY <2>1 DEF FateInv, CapturesHoldPending
  <2> QED BY <1>3, <1>6, <2>2, <2>3, <2>4
<1>11. CapturesHoldPending'
  BY <1>3, <1>4, <1>10 DEF CapturesHoldPending
<1>12. CapturesHoldLater'
  <2> SUFFICES ASSUME NEW d \in 1 .. depth', NEW e \in 1 .. depth', d < e,
                      frame'[d].captures, frame'[e].captures
               PROVE  \A w \in 1 .. frame'[d].since :
                        Announces(frame'[e].snapshot.notices, w)
                          => Announces(frame'[d].snapshot.notices, w)
    BY DEF CapturesHoldLater
  <2> QED BY <1>9 DEF FateInv, CapturesHoldLater
<1> QED BY <1>8, <1>11, <1>12 DEF FateInv

LEMMA NextFateInv == TypeInv /\ RefusedInv /\ FateInv /\ [Next]_vars => FateInv'
<1> SUFFICES ASSUME TypeInv, RefusedInv, FateInv, [Next]_vars PROVE FateInv'
  OBVIOUS
<1>0. /\ state \in State /\ TypeOK /\ depth \in 0 .. depth
      /\ fate \in [Write -> Fate] /\ delivered \in [Write -> 0 .. 2]
  BY DepthAssumption DEF TypeInv, TypeOK
<1>a. ASSUME depth > 0 PROVE Top \in Frame /\ Top.timeStamp \in Instant
  BY <1>0, <1>a, TopFrame DEF Frame
<1>1. ASSUME NEW s \in State, Edit(s), ClientStep(state, s) PROVE FateInv'
  <2>1. /\ UNCHANGED <<depth, frame, made, undone, delivered, fate>>
        /\ state'.notices = state.notices
    BY <1>1 DEF Edit, ClientStep, historyVars
  <2>2. \A d \in 1 .. depth' : SameCapture(frame'[d], frame[d])
    BY <2>1 DEF SameCapture
  <2> QED BY <1>0, <2>1, <2>2, QuietFateInv
<1>2. ASSUME NEW kind \in Kind, NEW mode \in Mode, NEW captures \in BOOLEAN, NEW n \in Nat \ {0},
             Begin(kind, mode, captures, n)
      PROVE  FateInv'
  BY <1>2, BeginFateInv
<1>3. ASSUME NEW t \in Tournament, NEW a \in Announcement, MethodWrites(t, a) PROVE FateInv'
  BY <1>3, MethodWritesFateInv
<1>4. ASSUME CallSucceeds PROVE FateInv'
  <2>1. /\ depth > 0 /\ state' = GetMutationStatus(state, Top.timeStamp)
        /\ UNCHANGED <<made, undone, delivered, fate>>
    BY <1>4 DEF CallSucceeds, BeginDispatch, MethodRuns, historyVars
  <2>2. state'.notices = state.notices
    BY <1>0, <1>a, <2>1, GetMutationStatusState
  <2>3. depth' \in 0 .. depth /\ \A d \in 1 .. depth' : SameCapture(frame'[d], frame[d])
    BY <1>4, DispatchingMoves, TopCaptures
  <2> QED BY <2>1, <2>2, <2>3, QuietFateInv
<1>5. ASSUME NEW f, Moves(f) PROVE FateInv'
  <2>1. UNCHANGED <<state, made, undone, delivered, fate>>
    BY <1>5 DEF Moves, historyVars
  <2>2. depth' \in 0 .. depth /\ \A d \in 1 .. depth' : SameCapture(frame'[d], frame[d])
    BY <1>5, TopCaptures DEF Moves
  <2> QED BY <2>1, <2>2, QuietFateInv
<1>6. ASSUME NEW topic \in Topic, CallListener(topic) PROVE FateInv'
  <2>1. UNCHANGED <<state, made, undone, fate>>
    BY <1>6 DEF CallListener
  <2>2. \A w \in Write : delivered[w] > 0 => delivered'[w] > 0
    BY <1>0, <1>6 DEF CallListener
  <2>3. depth' \in 0 .. depth /\ \A d \in 1 .. depth' : SameCapture(frame'[d], frame[d])
    BY <1>6, DispatchingMoves, TopCaptures
  <2> QED BY <2>1, <2>2, <2>3, QuietFateInv
<1>7. ASSUME DelayedCallSucceeds PROVE FateInv'
  <2> DEFINE s == GetMutationStatus(state, Top.timeStamp)
  <2>1. depth > 0 /\ Return(s) /\ UNCHANGED <<made, undone, delivered, fate>>
    BY <1>7 DEF DelayedCallSucceeds, MethodRuns
  <2>2. s \in State /\ s.notices = state.notices
    BY <1>0, <1>a, <2>1, GetMutationStatusState
  <2> HIDE DEF s
  <2>3. state'.notices = state.notices
    BY <2>1, <2>2, ReturnCaptures
  <2> QED BY <2>1, <2>2, <2>3, ReturnCaptures, QuietFateInv
<1>8. ASSUME depth > 0, EndUnannounced PROVE FateInv'
  <2> DEFINE s == KeepWrites(state, Top.timeStamp)
  <2>1. /\ Return(s) /\ UNCHANGED <<made, undone, delivered>>
        /\ fate' = Fated(fate, Undelivered, "dropped")
    BY <1>8 DEF EndUnannounced
  <2>2. s \in State /\ s.notices = {}
    BY <1>0, <1>8, <1>a, KeepWritesState
  <2> HIDE DEF s
  <2>3. state'.notices = {}
    BY <1>8, <2>1, <2>2, ReturnCaptures
  <2>4. ASSUME NEW w \in Write, fate'[w] = "pending"
        PROVE  fate[w] = "pending" /\ (Announces(state.notices, w) => delivered[w] > 0)
    BY <1>0, <2>1, <2>4 DEF Fated, Undelivered, Announces
  <2> QED BY <1>8, <2>1, <2>2, <2>3, <2>4, ReturnCaptures, QuietFateInv
<1>9. ASSUME depth > 0, Top.captures, Restore PROVE FateInv'
  BY <1>9, RestoreFateInv
<1>10. ASSUME DispatchEnds PROVE FateInv'
  <2> DEFINE s == DeleteNotices(state)
             passed == {n \in Undelivered : Rank[n.topic] <= Top.reached}
  <2>1. /\ depth > 0 /\ Pending = {}
        /\ Return(s) /\ UNCHANGED <<made, undone, delivered>>
        /\ fate' = Fated(fate, passed, "overtaken")
    BY <1>10 DEF DispatchEnds, Dispatching
  <2>2. s \in State /\ s.notices = {}
    BY <1>0, DeleteNoticesState
  <2> HIDE DEF s
  <2>3. state'.notices = {}
    BY <2>1, <2>2, ReturnCaptures
  <2>4. \A n \in state.notices : Rank[n.topic] <= Top.reached
    <3> SUFFICES ASSUME NEW n \in state.notices PROVE Rank[n.topic] <= Top.reached
      OBVIOUS
    <3>1. n.topic \in Topic /\ Rank[n.topic] \in Nat /\ Top.reached \in Nat
      BY <1>0, <1>a, <2>1, RankAssumption DEF State, Notice, Frame
    <3>2. ~(Rank[n.topic] > Top.reached)
      BY <2>1, <3>1 DEF Pending, GetNotices
    <3> QED BY <3>1, <3>2
  <2>5. ASSUME NEW w \in Write, fate'[w] = "pending"
        PROVE  fate[w] = "pending" /\ (Announces(state.notices, w) => delivered[w] > 0)
    <3>1. fate[w] = "pending" /\ \A n \in passed : n.write # w
      BY <2>1, <2>5 DEF Fated
    <3> QED BY <1>0, <2>4, <3>1 DEF Undelivered, Announces
  <2> QED BY <2>1, <2>2, <2>3, <2>5, ReturnCaptures, QuietFateInv
<1>11. ASSUME UNCHANGED vars PROVE FateInv'
  BY <1>11 DEF FateInv, PendingAreBuffered, CapturesHoldPending, CapturesHoldLater,
               vars, engineVars, historyVars
<1> QED
  BY <1>1, <1>2, <1>3, <1>4, <1>5, <1>6, <1>7, <1>8, <1>9, <1>10, <1>11, StepKinds DEF MethodRuns

\* No notice leaves the buffer without being delivered, superseded, dropped by a call
\* that said so or taken back with its write, whatever calls restore in between.
THEOREM NoNoticeIsLost == Spec => []NoSilentLoss
<1>1. Init => FateInv
  BY InitFateInv
<1>2. (TypeInv /\ OneInstant /\ RefusedInv /\ MarksInv) /\ FateInv /\ [Next]_vars => FateInv'
  BY NextFateInv
<1>3. FateInv => NoSilentLoss
  BY DEF FateInv, PendingAreBuffered, Announces, NoSilentLoss
<1> QED BY <1>1, <1>2, <1>3, SpecMarksInv, PTL DEF Spec

-----------------------------------------------------------------------------
(* When every kept write is stamped.                                       *)

\* Records whose stamps cover their writes.
Covered(records) ==
  \A t \in records.loaded : \A w \in records.written[t] : madeAt[w] <= records.stamp[t]

\* No mark was cleared, and what the outermost call may restore is covered: it was
\* captured between calls.
OutermostInv ==
  /\ unmarked = {}
  /\ depth > 0 /\ frame[1].captures => Covered(frame[1].snapshot.records)

\* A call made inside another is taken back: refused with rollback, or a preview.
NestedTakenBack == depth > 1 /\ (CallRolledBack \/ PreviewEnds)

\* A step that captures nothing, and neither makes a write nor clears a mark.
LEMMA QuietOutermostInv ==
  ASSUME TypeInv, OutermostInv, depth' \in 0 .. depth,
         \A d \in 1 .. depth' : SameCapture(frame'[d], frame[d]),
         UNCHANGED <<madeAt, unmarked>>
  PROVE  OutermostInv'
<1>1. depth \in Nat
  BY DepthAssumption DEF TypeInv, TypeOK
<1>2. ASSUME depth' > 0, frame'[1].captures
      PROVE  Covered(frame[1].snapshot.records)'
  <2>1. 1 \in 1 .. depth' /\ depth > 0
    BY <1>1, <1>2
  <2>2. SameCapture(frame'[1], frame[1])
    BY <2>1
  <2>3. Covered(frame[1].snapshot.records)
    BY <1>2, <2>1, <2>2 DEF OutermostInv, SameCapture
  <2> QED BY <2>2, <2>3 DEF Covered, SameCapture
<1> QED BY <1>2 DEF OutermostInv

LEMMA BeginOutermostInv ==
  ASSUME TypeInv, MarksInv, OutermostInv, NEW kind, NEW mode, NEW captures \in BOOLEAN,
         NEW directives, Begin(kind, mode, captures, directives)
  PROVE  OutermostInv'
<1>1. /\ depth' = depth + 1 /\ depth + 1 \in 1 .. MaxDepth
      /\ \A d \in 1 .. MaxDepth : d # depth + 1 => frame'[d] = frame[d]
      /\ frame'[depth + 1].captures = captures
      /\ captures => frame'[depth + 1].snapshot = CaptureOperation(state)
      /\ UNCHANGED <<madeAt, unmarked>>
  BY BeginCaptures DEF historyVars
<1>2. depth \in Nat /\ MaxDepth \in Nat /\ CaptureOperation(state).records = state.records
  BY CaptureOperationSnapshot, DepthAssumption DEF TypeInv, TypeOK
<1>3. CASE depth = 0
  <2>1. Covered(state.records)
    BY <1>3 DEF MarksInv, MarksOfMethods, CoveredBut, Clean, OutermostInv, Covered
  <2>2. captures => Covered(frame[1].snapshot.records)'
    BY <1>1, <1>2, <1>3, <2>1 DEF Covered
  <2> QED BY <1>1, <1>3, <2>2 DEF OutermostInv
<1>4. CASE depth > 0
  <2>1. frame'[1] = frame[1]
    BY <1>1, <1>2, <1>4
  <2> QED BY <1>1, <1>4, <2>1 DEF OutermostInv, Covered
<1> QED BY <1>2, <1>3, <1>4

\* A snapshot holds no write made after it.
LEMMA MethodWritesOutermostInv ==
  ASSUME TypeInv, RefusedInv, OutermostInv, NEW t \in Tournament, NEW a \in Announcement,
         MethodWrites(t, a)
  PROVE  OutermostInv'
<1> DEFINE w == made + 1
<1>1. /\ depth \in Nat /\ made \in Nat /\ madeAt \in [Write -> Instant]
      /\ Write = 1 .. MaxWrites /\ MaxWrites \in Nat
  BY BoundAssumption, DepthAssumption DEF TypeInv, TypeOK, Write
<1>2. madeAt' = [madeAt EXCEPT ![w] = state.capturedClock] /\ UNCHANGED <<depth, frame, unmarked>>
  BY DEF MethodWrites
<1> HIDE DEF w
<1>3. ASSUME depth > 0, frame[1].captures, NEW u \in frame[1].snapshot.records.loaded,
             NEW x \in frame[1].snapshot.records.written[u]
      PROVE  madeAt'[x] <= frame[1].snapshot.records.stamp[u]
  <2>1. 1 \in 1 .. depth /\ u \in Tournament
    <3>1. 1 \in 1 .. depth
      BY <1>1, <1>3
    <3>2. frame[1] \in Frame
      BY <3>1, FrameInProgress
    <3> QED BY <1>3, <3>1, <3>2 DEF Frame, Snapshot, Records
  <2>2. x \in 1 .. frame[1].since /\ frame[1].since <= made /\ frame[1].since \in Nat
    BY <1>3, <2>1, FrameInProgress DEF RefusedInv, SnapshotsHold, Holds
  <2>3. x # w /\ madeAt'[x] = madeAt[x]
    BY <1>1, <1>2, <2>2 DEF w
  <2> QED BY <1>3, <2>3 DEF OutermostInv, Covered
<1> QED BY <1>2, <1>3 DEF OutermostInv, Covered

\* The outermost call puts back covered records, so its restore clears no mark of a kept write.
LEMMA RestoreOutermostInv ==
  ASSUME TypeInv, OutermostInv, depth = 1, Top.captures, Restore
  PROVE  OutermostInv'
<1> DEFINE restored == RestoreOperation(state, Top.snapshot)
<1>1. state \in State /\ Top.snapshot \in Snapshot
  BY TopFrame DEF TypeInv, TypeOK, Frame
<1>2. restored \in State /\ restored.records = Top.snapshot.records
  BY <1>1, RestoreOperationState
<1>3. /\ depth' = 0
      /\ unmarked' = unmarked \cup
           {w \in Write : \E t \in restored.records.loaded :
              w \in restored.records.written[t] /\ restored.records.stamp[t] < madeAt[w]}
  BY DEF Restore, Return
<1> HIDE DEF restored
<1>4. Covered(restored.records)
  BY <1>2 DEF OutermostInv, Top
<1>5. \A t \in restored.records.loaded : \A w \in Write :
        w \in restored.records.written[t] => ~ (restored.records.stamp[t] < madeAt[w])
  <2>1. \A t \in restored.records.loaded : restored.records.stamp[t] \in Nat
    BY <1>2, BoundAssumption DEF State, Records, Instant
  <2>2. \A w \in Write : madeAt[w] \in Nat
    BY BoundAssumption DEF TypeInv, TypeOK, Instant
  <2> QED BY <1>4, <2>1, <2>2 DEF Covered
<1> QED BY <1>3, <1>5 DEF OutermostInv

LEMMA NextOutermostInv ==
  ASSUME TypeInv, RefusedInv, MarksInv, OutermostInv, [Next]_vars, [~ NestedTakenBack]_vars
  PROVE  OutermostInv'
<1>0. depth \in Nat /\ depth \in 0 .. depth
  BY DepthAssumption DEF TypeInv, TypeOK
<1>1. ASSUME NEW s \in State, Edit(s) PROVE OutermostInv'
  <2>1. UNCHANGED <<depth, frame, madeAt, unmarked>>
    BY <1>1 DEF Edit, historyVars
  <2> QED BY <1>0, <2>1, QuietOutermostInv DEF SameCapture
<1>2. ASSUME NEW kind \in Kind, NEW mode \in Mode, NEW captures \in BOOLEAN, NEW n \in Nat \ {0},
             Begin(kind, mode, captures, n)
      PROVE  OutermostInv'
  BY <1>2, BeginOutermostInv
<1>3. ASSUME NEW t \in Tournament, NEW a \in Announcement, MethodWrites(t, a)
      PROVE  OutermostInv'
  BY <1>3, MethodWritesOutermostInv
<1>4. ASSUME CallSucceeds PROVE OutermostInv'
  <2>1. UNCHANGED <<madeAt, unmarked>>
    BY <1>4 DEF CallSucceeds, BeginDispatch, historyVars
  <2>2. depth' \in 0 .. depth /\ \A d \in 1 .. depth' : SameCapture(frame'[d], frame[d])
    BY <1>4, DispatchingMoves, TopCaptures
  <2> QED BY <2>1, <2>2, QuietOutermostInv
<1>5. ASSUME NEW f, Moves(f) PROVE OutermostInv'
  <2>1. UNCHANGED <<madeAt, unmarked>>
    BY <1>5 DEF Moves, historyVars
  <2>2. depth' \in 0 .. depth /\ \A d \in 1 .. depth' : SameCapture(frame'[d], frame[d])
    BY <1>5, TopCaptures DEF Moves
  <2> QED BY <2>1, <2>2, QuietOutermostInv
<1>6. ASSUME NEW topic \in Topic, CallListener(topic) PROVE OutermostInv'
  <2>1. UNCHANGED <<madeAt, unmarked>>
    BY <1>6 DEF CallListener
  <2>2. depth' \in 0 .. depth /\ \A d \in 1 .. depth' : SameCapture(frame'[d], frame[d])
    BY <1>6, DispatchingMoves, TopCaptures
  <2> QED BY <2>1, <2>2, QuietOutermostInv
<1>7. ASSUME DelayedCallSucceeds \/ (depth > 0 /\ EndUnannounced) \/ DispatchEnds
      PROVE  OutermostInv'
  <2>1. depth > 0 /\ (\E s : Return(s)) /\ UNCHANGED <<madeAt, unmarked>>
    BY <1>7 DEF DelayedCallSucceeds, EndUnannounced, DispatchEnds, MethodRuns, Dispatching
  <2>2. /\ depth \in 1 .. MaxDepth /\ MaxDepth \in Nat /\ frame \in [1 .. MaxDepth -> Frame]
        /\ depth' = depth - 1 /\ frame' = [frame EXCEPT ![depth] = NoFrame]
    BY <2>1, TopFrame, DepthAssumption DEF TypeInv, TypeOK, Return
  <2>3. depth' \in 0 .. depth /\ \A d \in 1 .. depth' : SameCapture(frame'[d], frame[d])
    BY <2>2 DEF SameCapture
  <2> QED BY <2>1, <2>3, QuietOutermostInv
<1>8. ASSUME MethodRuns, Top.captures, Restore PROVE OutermostInv'
  <2>1. vars' # vars
    BY <1>0, <1>8 DEF vars, engineVars, Restore, Return, MethodRuns
  <2>2. CallRolledBack
    BY <1>8 DEF CallRolledBack
  <2>3. depth = 1
    BY <1>0, <1>8, <2>1, <2>2 DEF NestedTakenBack, MethodRuns
  <2> QED BY <1>8, <2>3, RestoreOutermostInv
<1>9. ASSUME UNCHANGED vars PROVE OutermostInv'
  BY <1>9 DEF OutermostInv, Covered, vars, engineVars, historyVars
<1> QED BY <1>1, <1>2, <1>3, <1>4, <1>5, <1>6, <1>7, <1>8, <1>9, StepKinds

\* What the documentation says of every behaviour, that once the outermost call has returned
\* every write in a loaded record is covered by the record's stamp, is true of those in which no
\* nested call is taken back: a restore clears marks that are not its own only inside another call.
THEOREM UnnestedRollbacksStampAll ==
  Spec /\ [][~ NestedTakenBack]_vars => []EveryKeptWriteStamped
<1>1. Init => OutermostInv
  BY DEF Init, OutermostInv
<1>2. (TypeInv /\ OneInstant /\ RefusedInv /\ MarksInv) /\ OutermostInv
        /\ [Next]_vars /\ [~ NestedTakenBack]_vars => OutermostInv'
  BY NextOutermostInv
<1>3. MarksInv /\ OutermostInv => EveryKeptWriteStamped
  BY DEF MarksInv, MarksOfMethods, CoveredBut, Clean, OutermostInv, EveryKeptWriteStamped
<1> QED BY <1>1, <1>2, <1>3, SpecMarksInv, PTL DEF Spec

-----------------------------------------------------------------------------
(* What is seen from outside a call.                                       *)

View == [records : Records, notices : SUBSET Notice, since : Nat]

\* From a to b records gained writes made in between or went, no stamp fell, and every write made in
\* between is there, but for those in ws, those of records that went, and the lost ones, which are
\* in none.
Grown(a, b, ws, gone) ==
  /\ a.since <= b.since
  /\ b.records.loaded \subseteq a.records.loaded
  /\ \A t \in b.records.loaded :
       /\ a.records.written[t] \subseteq b.records.written[t]
       /\ b.records.written[t] \subseteq a.records.written[t] \cup ((a.since + 1 .. b.since) \ gone)
       /\ a.records.stamp[t] <= b.records.stamp[t]
  /\ a.records.loaded \subseteq b.records.loaded =>
       (a.since + 1 .. b.since) \ (ws \cup gone) \subseteq KeptWrites(b.records)
  /\ \A n \in b.notices :
       n.write \in a.since + 1 .. b.since \/ \E o \in a.notices : o.write = n.write

LEMMA GrownSelf ==
  ASSUME NEW a \in View, NEW ws, NEW gone
  PROVE  Grown(a, a, ws, gone)
<1>1. a.since \in Nat /\ \A t \in a.records.loaded : a.records.stamp[t] \in Nat
  BY BoundAssumption DEF View, Records, Instant
<1>2. a.since + 1 .. a.since = {}
  BY <1>1
<1> QED BY <1>1, <1>2 DEF Grown

LEMMA GrownTwice ==
  ASSUME NEW a \in View, NEW b \in View, NEW c \in View, NEW ws, NEW gone,
         Grown(a, b, ws, gone), Grown(b, c, ws, gone)
  PROVE  Grown(a, c, ws, gone)
<1>1. /\ a.since \in Nat /\ b.since \in Nat /\ c.since \in Nat
      /\ a.since <= b.since /\ b.since <= c.since
  BY DEF View, Grown
<1>2. /\ a.since + 1 .. b.since \subseteq a.since + 1 .. c.since
      /\ b.since + 1 .. c.since \subseteq a.since + 1 .. c.since
      /\ \A w \in a.since + 1 .. c.since : w \in a.since + 1 .. b.since \/ w \in b.since + 1 .. c.since
  BY <1>1
<1>3. c.records.loaded \subseteq b.records.loaded /\ b.records.loaded \subseteq a.records.loaded
  BY DEF Grown
<1>4. ASSUME NEW t \in c.records.loaded
      PROVE  /\ a.records.written[t] \subseteq c.records.written[t]
             /\ c.records.written[t] \subseteq a.records.written[t] \cup ((a.since + 1 .. c.since) \ gone)
             /\ a.records.stamp[t] <= c.records.stamp[t]
  <2>1. /\ a.records.written[t] \subseteq b.records.written[t]
        /\ b.records.written[t] \subseteq a.records.written[t] \cup ((a.since + 1 .. b.since) \ gone)
        /\ a.records.stamp[t] <= b.records.stamp[t]
    BY <1>3 DEF Grown
  <2>2. /\ b.records.written[t] \subseteq c.records.written[t]
        /\ c.records.written[t] \subseteq b.records.written[t] \cup ((b.since + 1 .. c.since) \ gone)
        /\ b.records.stamp[t] <= c.records.stamp[t]
    BY DEF Grown
  <2>3. /\ a.records.stamp[t] \in Nat /\ b.records.stamp[t] \in Nat /\ c.records.stamp[t] \in Nat
    BY <1>3, BoundAssumption DEF View, Records, Instant
  <2> QED BY <1>2, <2>1, <2>2, <2>3
<1>5. ASSUME a.records.loaded \subseteq c.records.loaded, NEW w \in (a.since + 1 .. c.since) \ (ws \cup gone)
      PROVE  w \in KeptWrites(c.records)
  <2>1. a.records.loaded \subseteq b.records.loaded /\ b.records.loaded \subseteq c.records.loaded
    BY <1>3, <1>5
  <2>2. CASE w \in b.since + 1 .. c.since
    BY <1>5, <2>1, <2>2 DEF Grown
  <2>3. CASE w \in a.since + 1 .. b.since
    <3>1. PICK t \in b.records.loaded : w \in b.records.written[t]
      BY <1>5, <2>1, <2>3 DEF Grown, KeptWrites
    <3>2. t \in c.records.loaded /\ w \in c.records.written[t]
      BY <2>1, <3>1 DEF Grown
    <3> QED BY <3>2 DEF KeptWrites
  <2> QED BY <1>2, <1>5, <2>2, <2>3
<1>6. ASSUME NEW n \in c.notices
      PROVE  n.write \in a.since + 1 .. c.since \/ \E o \in a.notices : o.write = n.write
  <2>1. CASE n.write \in b.since + 1 .. c.since
    BY <1>2, <2>1
  <2>2. CASE \E m \in b.notices : m.write = n.write
    <3>1. PICK m \in b.notices : m.write = n.write
      BY <2>2
    <3>2. m.write \in a.since + 1 .. b.since \/ \E o \in a.notices : o.write = m.write
      BY DEF Grown
    <3> QED BY <1>2, <3>1, <3>2
  <2> QED BY <2>1, <2>2 DEF Grown
<1>7. a.since <= c.since /\ c.records.loaded \subseteq a.records.loaded
  BY <1>1, <1>3
<1> QED BY <1>4, <1>5, <1>6, <1>7 DEF Grown

LEMMA GrownLess ==
  ASSUME NEW a, NEW b \in View, NEW ws, NEW more, NEW gone, NEW later, Grown(a, b, ws, gone),
         ws \subseteq more, gone \subseteq later, \A w \in later \ gone : w > b.since
  PROVE  Grown(a, b, more, later)
<1>1. \A w \in a.since + 1 .. b.since : w \in later => w \in gone
  BY DEF View
<1> QED BY <1>1 DEF Grown

\* Seen from outside, what has grown has grown in one step.
LEMMA GrownIsSeen ==
  ASSUME NEW a \in View, NEW b \in View, NEW ws, NEW gone, Grown(a, b, ws, gone),
         Holds(b.records, b.notices, (1 .. b.since) \ ws)
  PROVE  LET standing == (a.since + 1 .. b.since) \ ws
         IN /\ Atomic!Grows(Seen(a.records), Seen(b.records), standing \ gone)
            /\ {n.write : n \in b.notices} \subseteq {n.write : n \in a.notices} \cup standing
<1> DEFINE standing == (a.since + 1 .. b.since) \ ws
           kept == standing \ gone
<1>0. /\ DOMAIN Seen(a.records) = a.records.loaded /\ DOMAIN Seen(b.records) = b.records.loaded
      /\ b.records.loaded \subseteq Tournament
  BY DEF Seen, View, Records
<1>1. ASSUME NEW t \in b.records.loaded
      PROVE  /\ Seen(a.records)[t].writes \subseteq Seen(b.records)[t].writes
             /\ Seen(b.records)[t].writes \subseteq Seen(a.records)[t].writes \cup kept
             /\ Seen(a.records)[t].stamp <= Seen(b.records)[t].stamp
  <2>1. /\ t \in a.records.loaded
        /\ a.records.written[t] \subseteq b.records.written[t]
        /\ b.records.written[t] \subseteq a.records.written[t] \cup ((a.since + 1 .. b.since) \ gone)
        /\ a.records.stamp[t] <= b.records.stamp[t]
    BY DEF Grown
  <2>2. b.records.written[t] \cap ws = {}
    BY <1>0 DEF Holds
  <2> QED BY <2>1, <2>2 DEF Seen
<1>2. ASSUME b.records.loaded = a.records.loaded
      PROVE  kept \subseteq Atomic!Held(Seen(b.records))
  <2>1. KeptWrites(b.records) = Atomic!Held(Seen(b.records))
    BY <1>0 DEF KeptWrites, Atomic!Held, Seen
  <2>2. kept = (a.since + 1 .. b.since) \ (ws \cup gone)
    OBVIOUS
  <2> QED BY <1>2, <2>1, <2>2 DEF Grown
<1>3. {n.write : n \in b.notices} \subseteq {n.write : n \in a.notices} \cup standing
  BY DEF Grown, Holds
<1>4. b.records.loaded \subseteq a.records.loaded
  BY DEF Grown
<1> HIDE DEF kept
<1>5. Atomic!Grows(Seen(a.records), Seen(b.records), kept)
  BY <1>0, <1>1, <1>2, <1>4 DEF Atomic!Grows
<1> QED BY <1>3, <1>5 DEF kept, standing

\* What a call captured was grown from what the calls around it captured, and the provider's state
\* from either: whatever a restore puts back, it loses nothing an enclosing call would keep.  And of
\* the unsettled calls there is a first.
GrowthInv ==
  /\ lost \subseteq 1 .. made
  /\ \A d \in 1 .. depth : frame[d].captures => Grown(Captured(frame[d]), Current, undone, lost)
  /\ \A d, e \in 1 .. depth : d < e /\ frame[d].captures /\ frame[e].captures =>
       Grown(Captured(frame[d]), Captured(frame[e]), undone, lost)
  /\ Unsettled # {} => \E d \in Unsettled : \A e \in Unsettled : d <= e

LEMMA Views ==
  ASSUME TypeInv
  PROVE  Current \in View /\ \A d \in 1 .. depth : Captured(frame[d]) \in View
<1>1. Current \in View
  BY BoundAssumption DEF TypeInv, TypeOK, State, Current, View
<1>2. ASSUME NEW d \in 1 .. depth PROVE Captured(frame[d]) \in View
  BY FrameInProgress DEF Frame, Snapshot, Captured, View
<1> QED BY <1>1, <1>2

\* Facts of TypeInv' are stated apart: a lemma that assumes TypeInv says nothing of the next state.
LEMMA ViewsNext ==
  ASSUME TypeInv'
  PROVE  Current' \in View
BY BoundAssumption DEF TypeInv, TypeOK, State, Current, View

\* The outside is the state while no call is unsettled, and the first unsettled call's capture else.
LEMMA OutsideIs ==
  ASSUME TypeInv, GrowthInv
  PROVE  \/ Unsettled = {} /\ Outside = Current
         \/ \E d \in Unsettled : /\ \A e \in Unsettled : d <= e
                                 /\ Outside = Captured(frame[d])
<1>1. CASE Unsettled = {}
  BY <1>1 DEF Outside
<1>2. CASE Unsettled # {}
  <2>1. PICK d \in Unsettled : \A e \in Unsettled : d <= e
    BY <1>2 DEF GrowthInv
  <2>2. FirstUnsettled \in Unsettled /\ \A e \in Unsettled : FirstUnsettled <= e
    BY <2>1 DEF FirstUnsettled
  <2> QED BY <1>2, <2>2 DEF Outside
<1> QED BY <1>1, <1>2

\* After a step, too, the first unsettled call is the one that is before the others.
LEMMA FirstIsOne ==
  ASSUME TypeInv', NEW d \in Unsettled', \A e \in Unsettled' : d <= e
  PROVE  Outside' = Captured(frame'[d])
<1>1. \A e \in Unsettled' : e \in Nat
  BY DepthAssumption DEF Unsettled, TypeInv, TypeOK
<1>2. FirstUnsettled' \in Unsettled' /\ \A e \in Unsettled' : FirstUnsettled' <= e
  BY DEF FirstUnsettled
<1>3. FirstUnsettled' = d
  BY <1>1, <1>2
<1> QED BY <1>3 DEF Outside, Captured

\* No call captures anything or is settled, but that the innermost may be.
SteadyStack ==
  /\ depth' \in 0 .. depth
  /\ \A d \in 1 .. depth' : SameCapture(frame'[d], frame[d])
  /\ \A d \in 1 .. depth : d # depth => d \in 1 .. depth' /\ frame'[d] = frame[d]

\* A step disturbs no method, and loses a write only as it makes it in one that was disturbed.
LosesNew ==
  /\ lost \subseteq lost' /\ \A w \in lost' \ lost : w > made /\ w <= made'
  /\ lost' # lost => detached # {}
  /\ detached' # {} => detached # {}

\* A step that takes nothing back, under which the state grows.
GrowingStep == Grown(Current, Current', undone, lost') /\ SteadyStack /\ UNCHANGED undone /\ LosesNew

LEMMA GrowingKeeps ==
  ASSUME TypeInv, GrowthInv, TypeInv', GrowingStep
  PROVE  GrowthInv'
<1>1. depth \in Nat /\ \A d \in 1 .. depth' : d \in 1 .. depth
  BY DepthAssumption DEF TypeInv, TypeOK, GrowingStep, SteadyStack
<1>2. ASSUME NEW d \in 1 .. depth'
      PROVE  Captured(frame'[d]) = Captured(frame[d]) /\ frame'[d].captures = frame[d].captures
  BY DEF GrowingStep, SteadyStack, SameCapture, Captured
<1>6. /\ lost \subseteq lost' /\ \A w \in lost' \ lost : w \in Nat /\ w > Current.since
      /\ lost' \subseteq 1 .. made'
  <2>1. /\ made \in Nat /\ made' \in Nat /\ lost' \subseteq Nat /\ lost \subseteq 1 .. made
        /\ \A w \in lost' : w \in Write
    BY BoundAssumption DEF TypeInv, TypeOK, Write, GrowthInv
  <2>2. made <= made'
    BY DEF GrowingStep, Grown, Current
  <2> QED BY <2>1, <2>2 DEF GrowingStep, LosesNew, Current, Write
<1>3. ASSUME NEW d \in 1 .. depth', frame'[d].captures
      PROVE  Grown(Captured(frame[d]), Current, undone, lost)'
  <2>1. Grown(Captured(frame[d]), Current, undone, lost) /\ d \in 1 .. depth
    BY <1>1, <1>2, <1>3 DEF GrowthInv
  <2>2. Captured(frame[d]) \in View /\ Current \in View /\ Current' \in View
    BY <1>1, Views, ViewsNext
  <2>3. Grown(Captured(frame[d]), Current, undone, lost')
    BY <1>6, <2>1, <2>2, GrownLess
  <2>4. Grown(Captured(frame[d]), Current', undone, lost')
    BY <2>2, <2>3, GrownTwice DEF GrowingStep
  <2> QED BY <1>2, <2>4 DEF GrowingStep
<1>4. ASSUME NEW d \in 1 .. depth', NEW e \in 1 .. depth', d < e, frame'[d].captures, frame'[e].captures
      PROVE  Grown(Captured(frame'[d]), Captured(frame'[e]), undone', lost')
  <2>1. /\ Grown(Captured(frame[d]), Captured(frame[e]), undone, lost)
        /\ Grown(Captured(frame[e]), Current, undone, lost)
    BY <1>1, <1>2, <1>4 DEF GrowthInv
  <2>2. Captured(frame[e]) \in View /\ Current \in View
    BY <1>1, Views
  <2>3. \A w \in lost' \ lost : w > Captured(frame[e]).since
    BY <1>6, <2>1, <2>2 DEF Grown, View
  <2>4. Grown(Captured(frame[d]), Captured(frame[e]), undone, lost')
    BY <1>6, <2>1, <2>2, <2>3, GrownLess
  <2> QED BY <1>2, <2>4 DEF GrowingStep
<1>5. ASSUME Unsettled' # {}
      PROVE  \E d \in Unsettled' : \A e \in Unsettled' : d <= e
  <2>1. Unsettled' \subseteq Unsettled
    BY <1>1 DEF Unsettled, GrowingStep, SteadyStack, SameCapture
  <2>2. PICK d \in Unsettled : \A e \in Unsettled : d <= e
    BY <1>5, <2>1 DEF GrowthInv
  <2>3. CASE d \in Unsettled'
    BY <2>1, <2>2, <2>3
  <2>4. CASE d \notin Unsettled'
    <3>1. d = depth
      BY <2>2, <2>4 DEF Unsettled, GrowingStep, SteadyStack
    <3>2. \A e \in Unsettled : e = depth
      BY <1>1, <2>2, <3>1 DEF Unsettled
    <3> QED BY <1>5, <2>1, <2>4, <3>1, <3>2
  <2> QED BY <2>3, <2>4
<1> QED BY <1>3, <1>4, <1>5, <1>6 DEF GrowthInv

\* What a step promises to who looks from outside.
Promised == [Atomic!Next]_(Atomic!vars)

LEMMA NothingSeen ==
  ASSUME Outside' = Outside, UNCHANGED <<undone, lost, detached>>, Unsettled' # {} <=> Unsettled # {}
  PROVE  Promised
BY DEF Promised, Atomic!vars

\* Seen from outside, a growing step keeps what was written since the capture, or shows nothing.
LEMMA GrowingPromised ==
  ASSUME TypeInv, RefusedInv, GrowthInv, TypeInv', RefusedInv', GrowingStep
  PROVE  Promised
<1>1. depth \in Nat /\ \A d \in 1 .. depth' : d \in 1 .. depth
  BY DepthAssumption DEF TypeInv, TypeOK, GrowingStep, SteadyStack
<1>2. Unsettled' \subseteq Unsettled /\ \A d \in Unsettled : d # depth => d \in Unsettled'
  BY <1>1 DEF Unsettled, GrowingStep, SteadyStack, SameCapture
<1>5. Outside \in View /\ Grown(Outside, Current', undone, lost') /\ Outside.since <= made
  <2>1. Current \in View /\ Current' \in View
    BY Views, ViewsNext
  <2>2. /\ lost \subseteq lost' /\ \A w \in lost' \ lost : w > Current.since
    BY DEF GrowingStep, LosesNew, Current
  <2>3. CASE Outside = Current
    BY <2>1, <2>3 DEF GrowingStep, Current, View
  <2>4. ASSUME NEW d \in Unsettled, Outside = Captured(frame[d])
        PROVE  Outside \in View /\ Grown(Outside, Current', undone, lost') /\ Outside.since <= made
    <3>1. Grown(Outside, Current, undone, lost) /\ Outside \in View
      BY <2>4, Views DEF GrowthInv, Unsettled
    <3>2. Grown(Outside, Current, undone, lost')
      BY <2>1, <2>2, <3>1, GrownLess
    <3>3. Grown(Outside, Current', undone, lost')
      BY <2>1, <3>1, <3>2, GrownTwice DEF GrowingStep
    <3> QED BY <3>1, <3>3 DEF Grown, Current
  <2> QED BY <2>3, <2>4, OutsideIs
<1>6. /\ lost \subseteq lost'
      /\ lost' # lost => detached # {}
      /\ detached' # {} => detached # {}
      /\ \A w \in lost' \ lost : w > Outside.since /\ w \in (Outside.since + 1 .. made') \ undone
  <2>1. /\ lost \subseteq lost' /\ \A w \in lost' \ lost : w > made /\ w <= made'
        /\ lost' # lost => detached # {}
        /\ detached' # {} => detached # {}
    BY DEF GrowingStep, LosesNew
  <2>2. /\ undone \subseteq 1 .. made /\ lost' \subseteq Nat /\ made \in Nat /\ made' \in Nat
        /\ Outside.since \in Nat
    BY <1>5, BoundAssumption DEF RefusedInv, TypeInv, TypeOK, Write, View
  <2> QED BY <1>5, <2>1, <2>2
<1>3. CASE Unsettled' # {}
  <2>1. PICK d \in Unsettled : /\ \A e \in Unsettled : d <= e
                               /\ Outside = Captured(frame[d])
    BY <1>2, <1>3, OutsideIs
  <2>2. d \in Unsettled'
    <3>1. PICK e \in Unsettled' : TRUE
      BY <1>3
    <3>2. CASE d = depth
      BY <1>1, <1>2, <2>1, <3>1, <3>2 DEF Unsettled
    <3> QED BY <1>2, <3>2
  <2>3. Outside' = Captured(frame'[d])
    <3>1. \A e \in Unsettled' : d <= e
      BY <1>2, <2>1
    <3> QED BY <2>2, <3>1, FirstIsOne
  <2>4. Captured(frame'[d]) = Captured(frame[d])
    BY <2>2 DEF Unsettled, GrowingStep, SteadyStack, SameCapture, Captured
  <2>5. Atomic!GoOnInside
    BY <1>2, <1>3, <1>6, <2>1, <2>3, <2>4 DEF Atomic!GoOnInside, Atomic!Loses, Atomic!Undisturbed, GrowingStep
  <2> QED BY <2>5 DEF Promised, Atomic!Next
<1>4. CASE Unsettled' = {}
  <2>1. Outside' = Current' /\ Current' \in View
    BY <1>4, ViewsNext DEF Outside
  <2>3. Holds(Current'.records, Current'.notices, (1 .. Current'.since) \ undone)
    BY DEF RefusedInv, StateHolds, Current, GrowingStep
  <2> DEFINE standing == (Outside.since + 1 .. Outside'.since) \ undone
  <2>4. /\ Atomic!Grows(Seen(Outside.records), Seen(Outside'.records), standing \ lost')
        /\ {n.write : n \in Outside'.notices} \subseteq {n.write : n \in Outside.notices} \cup standing
    BY <1>5, <2>1, <2>3, GrownIsSeen
  <2>5. Outside.since <= Outside'.since /\ Outside'.since = made'
    BY <1>5, <2>1 DEF Grown, Current
  <2>6. Atomic!Keep
    <3>1. Atomic!Loses /\ lost' \ lost \subseteq standing /\ Atomic!Undisturbed
      BY <1>6, <2>5 DEF Atomic!Loses, Atomic!Undisturbed
    <3> QED BY <1>4, <2>4, <2>5, <3>1 DEF Atomic!Keep, GrowingStep
  <2> QED BY <2>6 DEF Promised, Atomic!Next
<1> QED BY <1>3, <1>4

LEMMA SteadyMoves ==
  ASSUME TypeInv, depth > 0, NEW f, SameCapture(f, Top),
         UNCHANGED depth, frame' = [frame EXCEPT ![depth] = f]
  PROVE  SteadyStack
<1>1. depth \in 1 .. MaxDepth /\ MaxDepth \in Nat /\ frame \in [1 .. MaxDepth -> Frame]
  BY TopFrame, DepthAssumption DEF TypeInv, TypeOK
<1>2. \A d \in 1 .. depth : d \in 1 .. MaxDepth
  BY <1>1
<1>3. \A d \in 1 .. depth : d # depth => frame'[d] = frame[d]
  BY <1>1, <1>2
<1> QED BY <1>3, TopCaptures DEF SteadyStack

LEMMA SteadyReturns ==
  ASSUME TypeInv, depth > 0, NEW s \in State, Return(s)
  PROVE  SteadyStack
<1>1. depth \in Nat
  BY DepthAssumption DEF TypeInv, TypeOK
<1>2. /\ depth' \in 0 .. depth /\ depth' = depth - 1
      /\ \A d \in 1 .. depth' : frame'[d] = frame[d]
      /\ \A d \in 1 .. depth' : SameCapture(frame'[d], frame[d])
  BY ReturnCaptures
<1>3. \A d \in 1 .. depth : d # depth => d \in 1 .. depth'
  BY <1>1, <1>2
<1> QED BY <1>2, <1>3 DEF SteadyStack

\* No stamp is ahead of the clock ...
LEMMA StampsArePast ==
  ASSUME TypeInv, RefusedInv, MarksInv, WitnessInv, NEW t \in Tournament
  PROVE  state.records.stamp[t] <= clock
<1>1. CASE state.records.stamp[t] = 0
  BY <1>1, BoundAssumption DEF TypeInv, TypeOK, Instant
<1>2. CASE state.records.stamp[t] # 0
  <2>1. PICK w \in (1 .. made) \ undone : madeAt[w] = state.records.stamp[t]
    BY <1>2 DEF WitnessInv, Witnessed
  <2>2. w \in Write
    BY BoundAssumption DEF TypeInv, TypeOK, Write
  <2> QED BY <2>1, <2>2 DEF MarksInv, InstantIsLatest
<1> QED BY <1>1, <1>2

\* ... so stamping lowers none: the instant of a call in progress is the clock's.
LEMMA StampingRaises ==
  ASSUME TypeInv, OneInstant, RefusedInv, MarksInv, WitnessInv, depth > 0, NEW u,
         u = GetMutationStatus(state, Top.timeStamp) \/ u = KeepWrites(state, Top.timeStamp)
  PROVE  /\ u \in State
         /\ u.records.loaded = state.records.loaded
         /\ u.records.written = state.records.written
         /\ \A t \in Tournament : state.records.stamp[t] <= u.records.stamp[t]
         /\ u.notices \subseteq state.notices
<1>1. state \in State /\ Top.timeStamp \in Instant /\ depth \in 1 .. depth
  BY TopFrame DEF TypeInv, TypeOK, Frame
<1>2. Top.timeStamp = clock
  BY <1>1 DEF OneInstant, Top, MarksInv, InstantIsLatest
<1>3. /\ u.records.loaded = state.records.loaded
      /\ u.records.written = state.records.written
      /\ \A t \in Tournament :
           u.records.stamp[t] =
             IF t \in Stamped(state) THEN Top.timeStamp ELSE state.records.stamp[t]
  BY <1>1, Stamping
<1>4. u \in State /\ u.notices \subseteq state.notices
  BY <1>1, GetMutationStatusState, KeepWritesState
<1>5. \A t \in Tournament : state.records.stamp[t] \in Nat
  BY <1>1, BoundAssumption DEF State, Records, Instant
<1>6. ASSUME NEW t \in Tournament PROVE state.records.stamp[t] <= u.records.stamp[t]
  <2>1. state.records.stamp[t] <= Top.timeStamp
    BY <1>2, StampsArePast
  <2> QED BY <1>3, <1>5, <2>1
<1> QED BY <1>3, <1>4, <1>6

\* Without a write, what stays as it was, or is stamped later, has grown.
LEMMA QuietGrows ==
  ASSUME TypeInv, UNCHANGED made,
         state'.records.loaded \subseteq state.records.loaded,
         \A t \in state'.records.loaded :
           /\ state'.records.written[t] = state.records.written[t]
           /\ state.records.stamp[t] <= state'.records.stamp[t],
         state'.notices \subseteq state.notices
  PROVE  Grown(Current, Current', undone, lost')
<1>1. made \in Nat
  BY BoundAssumption DEF TypeInv, TypeOK
<1>2. made + 1 .. made = {}
  BY <1>1
<1> QED BY <1>1, <1>2 DEF Grown, Current

LEMMA MethodWritesGrows ==
  ASSUME TypeInv, lost \subseteq 1 .. made, NEW t \in Tournament, NEW a \in Announcement,
         MethodWrites(t, a)
  PROVE  Grown(Current, Current', undone, lost') /\ LosesNew
<1> DEFINE w == made + 1
           id == IF a.named THEN t ELSE Unnamed
           written == Written(t, w)
           notice == [topic |-> a.topic, key |-> a.key, write |-> w]
<1>1. /\ state \in State /\ w \in Write /\ id \in Tournament \cup {Unnamed}
      /\ made \in Nat /\ made' = w /\ t \in state.records.loaded
  BY BoundAssumption DEF TypeInv, TypeOK, MethodWrites, Write
<1>2. written \in State /\ written.notices = state.notices
  BY <1>1, WrittenState
<1>3. \A n \in state'.notices : n \in state.notices \/ n.write = w
  <2>1. CASE a.topic \in Topic /\ state' = AddNotice(written, notice, id)
    <3>1. notice \in Notice
      BY <1>1, <2>1, AnnouncementAssumption DEF Notice
    <3>2. state'.notices \subseteq written.notices \cup {notice}
      BY <1>1, <1>2, <2>1, <3>1, AddNoticeState
    <3> QED BY <1>2, <3>2
  <2>2. CASE state' = MarkModified(written, id)
    BY <1>1, <1>2, <2>2, MarkModifiedState
  <2> QED BY <2>1, <2>2 DEF MethodWrites
<1> HIDE DEF written, notice
<1>4. /\ state'.records.loaded = state.records.loaded
      /\ state'.records.stamp = state.records.stamp
      /\ state'.records.written = IF depth \in detached THEN state.records.written
                                  ELSE [state.records.written EXCEPT ![t] = @ \cup {w}]
  BY WritingMarks
<1>5. /\ state.records.loaded \subseteq Tournament
      /\ state.records.written \in [Tournament -> SUBSET Write]
      /\ \A v \in Tournament : state.records.stamp[v] \in Nat
  BY <1>1, BoundAssumption DEF State, Records, Instant
<1>6. made + 1 .. made' = {w} /\ w > made /\ w \notin lost
  BY <1>1
<1>a. /\ lost' = IF depth \in detached THEN lost \cup {w} ELSE lost
      /\ UNCHANGED detached
  BY DEF MethodWrites
<1>9. made <= made' /\ w <= made'
  BY <1>1
<1> HIDE DEF w
<1>7. ASSUME NEW v \in state'.records.loaded
      PROVE  /\ state.records.written[v] \subseteq state'.records.written[v]
             /\ state'.records.written[v] \subseteq state.records.written[v] \cup ({w} \ lost')
             /\ state.records.stamp[v] <= state'.records.stamp[v]
  BY <1>4, <1>5, <1>6, <1>a
<1>8. w \in KeptWrites(state'.records) \cup lost'
  BY <1>1, <1>4, <1>5, <1>a DEF KeptWrites
<1>10. LosesNew
  BY <1>6, <1>9, <1>a DEF LosesNew
<1> QED BY <1>3, <1>4, <1>6, <1>7, <1>8, <1>9, <1>10 DEF Grown, Current

\* Every step grows the state but those that begin a call, take writes back or load records.
LEMMA GrowingSteps ==
  ASSUME TypeInv, OneInstant, RefusedInv, MarksInv, WitnessInv, lost \subseteq 1 .. made,
         \/ \E t \in Tournament : UnloadTournament(t)
         \/ \E t \in Tournament \cup {NoTournament} : SelectTournament(t)
         \/ \E t \in Tournament, a \in Announcement : MethodWrites(t, a)
         \/ CallSucceeds
         \/ \E f : Moves(f)
         \/ \E topic \in Topic : CallListener(topic)
         \/ DelayedCallSucceeds
         \/ depth > 0 /\ EndUnannounced
         \/ DispatchEnds
         \/ UNCHANGED vars
  PROVE  GrowingStep
<1>0. /\ state \in State /\ depth \in 0 .. depth
      /\ state.records.loaded \subseteq Tournament
      /\ \A t \in Tournament : state.records.stamp[t] \in Nat
  BY DepthAssumption, BoundAssumption DEF TypeInv, TypeOK, State, Records, Instant
<1>1. ASSUME state'.records = state.records, state'.notices \subseteq state.notices, UNCHANGED made
      PROVE  Grown(Current, Current', undone, lost')
  BY <1>0, <1>1, QuietGrows
<1>2. ASSUME UNCHANGED <<depth, frame>> PROVE SteadyStack
  BY <1>0, <1>2 DEF SteadyStack, SameCapture
<1>b. ASSUME UNCHANGED lost, detached' \subseteq detached PROVE LosesNew
  BY <1>b DEF LosesNew
<1>3. ASSUME NEW t \in Tournament, UnloadTournament(t) PROVE GrowingStep
  <2>1. state' = RemoveTournamentRecord(state, t) /\ UNCHANGED <<depth, frame, detached, made, undone, lost>>
    BY <1>3 DEF UnloadTournament, Edit, historyVars
  <2>2. /\ state'.records.loaded = state.records.loaded \ {t}
        /\ state'.records.written = [state.records.written EXCEPT ![t] = {}]
        /\ state'.records.stamp = [state.records.stamp EXCEPT ![t] = 0]
        /\ state'.notices = state.notices
    BY <1>0, <2>1 DEF RemoveTournamentRecord, State
  <2>3. /\ state.records.written \in [Tournament -> SUBSET Write]
        /\ state.records.stamp \in [Tournament -> Instant]
    BY <1>0 DEF State, Records
  <2>4. ASSUME NEW v \in state'.records.loaded
        PROVE  /\ state'.records.written[v] = state.records.written[v]
               /\ state.records.stamp[v] <= state'.records.stamp[v]
    BY <1>0, <2>2, <2>3
  <2>5. Grown(Current, Current', undone, lost')
    BY <2>1, <2>2, <2>4, QuietGrows
  <2> QED BY <1>2, <1>b, <2>1, <2>5 DEF GrowingStep
<1>4. ASSUME NEW t \in Tournament \cup {NoTournament}, SelectTournament(t) PROVE GrowingStep
  <2>1. state' = SetTournamentId(state, t) /\ UNCHANGED <<depth, frame, detached, made, undone, lost>>
    BY <1>4 DEF SelectTournament, Edit, historyVars
  <2>2. state'.records = state.records /\ state'.notices = state.notices
    BY <1>0, <2>1, SetTournamentIdState
  <2> QED BY <1>1, <1>2, <1>b, <2>1, <2>2 DEF GrowingStep
<1>5. ASSUME NEW t \in Tournament, NEW a \in Announcement, MethodWrites(t, a) PROVE GrowingStep
  <2>1. UNCHANGED <<depth, frame, undone>>
    BY <1>5 DEF MethodWrites
  <2> QED BY <1>2, <1>5, <2>1, MethodWritesGrows DEF GrowingStep
<1>6. ASSUME CallSucceeds PROVE GrowingStep
  <2>1. /\ depth > 0 /\ state' = GetMutationStatus(state, Top.timeStamp)
        /\ detached' \subseteq detached /\ UNCHANGED <<made, undone, lost>>
    BY <1>6 DEF CallSucceeds, BeginDispatch, MethodEnds, MethodRuns, historyVars
  <2>2. Grown(Current, Current', undone, lost')
    BY <1>0, <2>1, StampingRaises, QuietGrows
  <2>3. SteadyStack
    BY <1>6, DispatchingMoves, SteadyMoves
  <2> QED BY <1>b, <2>1, <2>2, <2>3 DEF GrowingStep
<1>7. ASSUME NEW f, Moves(f) PROVE GrowingStep
  <2>1. detached' \subseteq detached /\ UNCHANGED <<state, made, undone, lost>>
    BY <1>7 DEF Moves, historyVars
  <2>2. SteadyStack
    BY <1>7, SteadyMoves DEF Moves
  <2> QED BY <1>1, <1>b, <2>1, <2>2 DEF GrowingStep
<1>8. ASSUME NEW topic \in Topic, CallListener(topic) PROVE GrowingStep
  <2>1. UNCHANGED <<state, detached, made, undone, lost>>
    BY <1>8 DEF CallListener
  <2>2. SteadyStack
    BY <1>8, DispatchingMoves, SteadyMoves
  <2> QED BY <1>1, <1>b, <2>1, <2>2 DEF GrowingStep
<1>9. ASSUME depth > 0, NEW s \in State, Return(s), detached' \subseteq detached, UNCHANGED <<made, undone, lost>>,
             s.records.loaded = state.records.loaded, s.records.written = state.records.written,
             \A t \in Tournament : state.records.stamp[t] <= s.records.stamp[t],
             s.notices \subseteq state.notices
      PROVE  GrowingStep
  <2>1. state'.records = s.records /\ state'.notices = s.notices
    BY <1>9, ReturnCaptures
  <2>2. Grown(Current, Current', undone, lost')
    BY <1>0, <1>9, <2>1, QuietGrows
  <2> QED BY <1>9, <1>b, <2>2, SteadyReturns DEF GrowingStep
<1>10. ASSUME DelayedCallSucceeds PROVE GrowingStep
  <2> DEFINE s == GetMutationStatus(state, Top.timeStamp)
  <2>1. depth > 0 /\ Return(s) /\ detached' \subseteq detached /\ UNCHANGED <<made, undone, lost>>
    BY <1>10 DEF DelayedCallSucceeds, MethodEnds, MethodRuns
  <2>2. /\ s \in State
        /\ s.records.loaded = state.records.loaded
        /\ s.records.written = state.records.written
        /\ \A t \in Tournament : state.records.stamp[t] <= s.records.stamp[t]
        /\ s.notices \subseteq state.notices
    BY <2>1, StampingRaises
  <2> HIDE DEF s
  <2> QED BY <1>9, <2>1, <2>2
<1>11. ASSUME depth > 0, EndUnannounced PROVE GrowingStep
  <2> DEFINE s == KeepWrites(state, Top.timeStamp)
  <2>1. Return(s) /\ detached' \subseteq detached /\ UNCHANGED <<made, undone, lost>>
    BY <1>11 DEF EndUnannounced, MethodEnds
  <2>2. /\ s \in State
        /\ s.records.loaded = state.records.loaded
        /\ s.records.written = state.records.written
        /\ \A t \in Tournament : state.records.stamp[t] <= s.records.stamp[t]
        /\ s.notices \subseteq state.notices
    BY <1>11, StampingRaises
  <2> HIDE DEF s
  <2> QED BY <1>9, <1>11, <2>1, <2>2
<1>12. ASSUME DispatchEnds PROVE GrowingStep
  <2> DEFINE s == DeleteNotices(state)
  <2>1. depth > 0 /\ Return(s) /\ detached' \subseteq detached /\ UNCHANGED <<made, undone, lost>>
    BY <1>12 DEF DispatchEnds, Dispatching
  <2>2. s \in State /\ s.records = state.records /\ s.notices = {}
    BY <1>0, DeleteNoticesState
  <2> HIDE DEF s
  <2>3. \A t \in Tournament : state.records.stamp[t] <= s.records.stamp[t]
    BY <1>0, <2>2
  <2> QED BY <1>9, <2>1, <2>2, <2>3
<1>13. ASSUME UNCHANGED vars PROVE GrowingStep
  BY <1>1, <1>2, <1>b, <1>13 DEF GrowingStep, vars, engineVars, historyVars
<1> QED BY <1>3, <1>4, <1>5, <1>6, <1>7, <1>8, <1>10, <1>11, <1>12, <1>13

\* A capture is the current state, so what others captured has grown to it, too.
LEMMA BeginGrowth ==
  ASSUME TypeInv, GrowthInv, TypeInv', NEW kind, NEW mode, NEW captures \in BOOLEAN,
         NEW directives, Begin(kind, mode, captures, directives)
  PROVE  GrowthInv' /\ Promised
<1>1. /\ depth' = depth + 1 /\ depth + 1 \in 1 .. MaxDepth
      /\ \A d \in 1 .. MaxDepth : d # depth + 1 => frame'[d] = frame[d]
      /\ frame'[depth + 1].captures = captures /\ frame'[depth + 1].phase = "method"
      /\ captures => /\ frame'[depth + 1].since = made
                     /\ frame'[depth + 1].snapshot = CaptureOperation(state)
      /\ state'.records = state.records /\ state'.notices = state.notices
      /\ UNCHANGED <<made, undone, lost, detached>>
  BY BeginCaptures DEF Begin, historyVars
<1>2. depth \in Nat /\ MaxDepth \in Nat /\ state \in State
  BY DepthAssumption DEF TypeInv, TypeOK
<1>3. /\ \A d \in 1 .. depth : d \in 1 .. depth' /\ frame'[d] = frame[d]
      /\ \A d \in 1 .. depth' : d \in 1 .. depth \/ d = depth + 1
      /\ depth + 1 \in 1 .. depth' /\ \A d \in 1 .. depth : d <= depth + 1
  BY <1>1, <1>2
<1>4. Current' = Current /\ Current \in View
  BY <1>1, Views DEF Current
<1>5. captures => Captured(frame'[depth + 1]) = Current
  BY <1>1, <1>2, CaptureOperationSnapshot DEF Captured, Current
<1>6. \A d \in 1 .. depth : Captured(frame'[d]) = Captured(frame[d])
  BY <1>3
<1>7. /\ Unsettled \subseteq Unsettled' /\ \A d \in Unsettled' : d \in Unsettled \/ d = depth + 1
      /\ captures => depth + 1 \in Unsettled'
      /\ ~captures => Unsettled' = Unsettled
      /\ \A d \in Unsettled : d <= depth + 1
  BY <1>1, <1>3 DEF Unsettled
<1>8. ASSUME NEW d \in 1 .. depth', frame'[d].captures
      PROVE  Grown(Captured(frame'[d]), Current', undone', lost')
  <2>1. CASE d \in 1 .. depth
    BY <1>1, <1>3, <1>4, <1>6, <1>8, <2>1 DEF GrowthInv
  <2>2. CASE d = depth + 1
    BY <1>1, <1>4, <1>5, <1>8, <2>2, GrownSelf
  <2> QED BY <1>3, <2>1, <2>2
<1>9. ASSUME NEW d \in 1 .. depth', NEW e \in 1 .. depth', d < e, frame'[d].captures, frame'[e].captures
      PROVE  Grown(Captured(frame'[d]), Captured(frame'[e]), undone', lost')
  <2>1. d \in 1 .. depth
    BY <1>1, <1>2, <1>9
  <2>2. CASE e \in 1 .. depth
    BY <1>1, <1>3, <1>6, <1>9, <2>1, <2>2 DEF GrowthInv
  <2>3. CASE e = depth + 1
    BY <1>1, <1>4, <1>5, <1>8, <1>9, <2>3
  <2> QED BY <1>3, <2>2, <2>3
<1>10. CASE Unsettled = {}
  <2>1. Outside = Current
    BY <1>10 DEF Outside
  <2>2. CASE captures
    <3>1. \A e \in Unsettled' : depth + 1 <= e
      BY <1>2, <1>7, <1>10
    <3>2. Outside' = Outside /\ Unsettled' # {}
      BY <1>5, <1>7, <2>1, <2>2, <3>1, FirstIsOne
    <3>3. Atomic!Begin
      BY <1>1, <1>10, <3>2 DEF Atomic!Begin, Atomic!Undisturbed
    <3>4. GrowthInv'
      BY <1>1, <1>7, <1>8, <1>9, <2>2, <3>1 DEF GrowthInv
    <3> QED BY <3>3, <3>4 DEF Promised, Atomic!Next
  <2>3. CASE ~captures
    <3>1. Unsettled' = {} /\ Outside' = Outside
      BY <1>4, <1>7, <1>10, <2>1, <2>3 DEF Outside
    <3>2. GrowthInv'
      BY <1>1, <1>8, <1>9, <3>1 DEF GrowthInv
    <3> QED BY <1>1, <1>10, <3>1, <3>2, NothingSeen
  <2> QED BY <2>2, <2>3
<1>11. CASE Unsettled # {}
  <2>1. PICK d \in Unsettled : /\ \A e \in Unsettled : d <= e
                               /\ Outside = Captured(frame[d])
    BY <1>11, OutsideIs
  <2>2. d \in Unsettled' /\ \A e \in Unsettled' : d <= e
    BY <1>7, <2>1
  <2>3. Outside' = Outside
    BY <1>6, <2>1, <2>2, FirstIsOne DEF Unsettled
  <2>4. GrowthInv'
    BY <1>1, <1>8, <1>9, <2>2 DEF GrowthInv
  <2> QED BY <1>1, <1>11, <2>2, <2>3, <2>4, NothingSeen
<1> QED BY <1>10, <1>11

\* What a restore puts back had grown from the captures around it; the writes since are taken back.
LEMMA GrownRestored ==
  ASSUME NEW a \in View, NEW b \in View, NEW c, NEW ws, NEW gone, Grown(a, b, ws, gone),
         c.records = b.records, c.notices = b.notices, c.since \in Nat, b.since <= c.since
  PROVE  Grown(a, c, ws \cup (b.since + 1 .. c.since), gone)
<1>1. a.since \in Nat /\ b.since \in Nat /\ a.since <= b.since
  BY DEF View, Grown
<1>2. /\ a.since + 1 .. b.since \subseteq a.since + 1 .. c.since
      /\ \A w \in a.since + 1 .. c.since : w \in a.since + 1 .. b.since \/ w \in b.since + 1 .. c.since
      /\ a.since <= c.since
  BY <1>1
<1>3. ASSUME NEW t \in b.records.loaded
      PROVE  /\ a.records.written[t] \subseteq b.records.written[t]
             /\ b.records.written[t] \subseteq a.records.written[t] \cup ((a.since + 1 .. c.since) \ gone)
             /\ a.records.stamp[t] <= b.records.stamp[t]
  BY <1>2 DEF Grown
<1>4. ASSUME a.records.loaded \subseteq b.records.loaded,
             NEW w \in (a.since + 1 .. c.since) \ ((ws \cup (b.since + 1 .. c.since)) \cup gone)
      PROVE  w \in KeptWrites(b.records)
  BY <1>2, <1>4 DEF Grown
<1>5. ASSUME NEW n \in b.notices
      PROVE  n.write \in a.since + 1 .. c.since \/ \E o \in a.notices : o.write = n.write
  BY <1>2 DEF Grown
<1>6. b.records.loaded \subseteq a.records.loaded
  BY DEF Grown
<1> QED BY <1>2, <1>3, <1>4, <1>5, <1>6 DEF Grown

LEMMA RestoreGrowth ==
  ASSUME TypeInv, RefusedInv, GrowthInv, TypeInv', MethodRuns, Top.captures, Restore
  PROVE  GrowthInv' /\ Promised
<1> DEFINE restored == RestoreOperation(state, Top.snapshot)
<1>1. /\ state \in State /\ depth \in 1 .. depth /\ depth > 0 /\ depth \in Nat /\ made \in Nat
      /\ Top.snapshot \in Snapshot /\ Top.since \in Nat /\ Top.since <= made
  <2>1. /\ state \in State /\ depth \in 1 .. depth /\ depth > 0 /\ depth \in Nat /\ made \in Nat
        /\ Top \in Frame
    BY TopFrame, BoundAssumption, DepthAssumption DEF TypeInv, TypeOK, MethodRuns
  <2> QED BY <2>1, FrameInProgress DEF Frame, Top, RefusedInv, SnapshotsHold
<1>2. /\ restored \in State
      /\ restored.records = Top.snapshot.records /\ restored.notices = Top.snapshot.notices
  BY <1>1, RestoreOperationState
<1>3. /\ Return(restored) /\ UNCHANGED <<made, lost>>
      /\ undone' = undone \cup (Top.since + 1 .. made)
  BY DEF Restore
<1> HIDE DEF restored
<1>4. /\ depth' = depth - 1
      /\ \A d \in 1 .. depth' : frame'[d] = frame[d]
      /\ Current'.records = Captured(Top).records /\ Current'.notices = Captured(Top).notices
      /\ Current'.since = made /\ Captured(Top).since = Top.since
  BY <1>1, <1>2, <1>3, ReturnCaptures DEF Current, Captured
<1>5. /\ \A d \in 1 .. depth' : d \in 1 .. depth /\ d < depth
      /\ \A d \in 1 .. depth : d # depth => d \in 1 .. depth'
  BY <1>1, <1>4
<1>6. \A d \in 1 .. depth' : Captured(frame'[d]) = Captured(frame[d]) /\ frame'[d] = frame[d]
  BY <1>4
<1>7. /\ depth \in Unsettled
      /\ Unsettled' \subseteq Unsettled /\ \A d \in Unsettled : d # depth => d \in Unsettled'
      /\ \A d \in Unsettled' : d < depth
  BY <1>1, <1>5, <1>6 DEF Unsettled, Top, MethodRuns
<1>8. ASSUME NEW d \in 1 .. depth', frame'[d].captures
      PROVE  Grown(Captured(frame'[d]), Current', undone', lost')
  <2>1. Grown(Captured(frame[d]), Captured(Top), undone, lost)
    BY <1>1, <1>5, <1>6, <1>8 DEF GrowthInv, Top
  <2>2. Captured(frame[d]) \in View /\ Captured(Top) \in View
    BY <1>1, <1>5, Views DEF Top
  <2>3. Grown(Captured(frame[d]), Current', undone \cup (Captured(Top).since + 1 .. Current'.since), lost)
    BY <1>1, <1>4, <2>1, <2>2, GrownRestored
  <2> QED BY <1>3, <1>4, <1>6, <2>3
<1>9. ASSUME NEW d \in 1 .. depth', NEW e \in 1 .. depth', d < e, frame'[d].captures, frame'[e].captures
      PROVE  Grown(Captured(frame'[d]), Captured(frame'[e]), undone', lost')
  <2>1. Grown(Captured(frame[d]), Captured(frame[e]), undone, lost) /\ Captured(frame[e]) \in View
    BY <1>5, <1>6, <1>9, Views DEF GrowthInv
  <2> QED BY <1>3, <1>6, <2>1, GrownLess
<1>b. lost' \subseteq 1 .. made'
  BY <1>3 DEF GrowthInv
<1>10. PICK d \in Unsettled : /\ \A e \in Unsettled : d <= e
                             /\ Outside = Captured(frame[d])
  BY <1>7, OutsideIs
<1>11. CASE d = depth
  <2>1. Unsettled' = {}
    BY <1>1, <1>7, <1>10, <1>11 DEF Unsettled
  <2>2. Outside = Captured(Top) /\ Outside' = Current'
    BY <1>10, <1>11, <2>1 DEF Outside, Top
  <2>3. Atomic!Refuse
    <3>1. Outside'.records = Outside.records /\ Outside'.notices = Outside.notices
      BY <1>4, <2>2
    <3>2. Outside.since = Top.since /\ Outside'.since = made
      BY <1>4, <2>2
    <3> QED BY <1>1, <1>3, <1>7, <2>1, <3>1, <3>2 DEF Atomic!Refuse
  <2>4. GrowthInv'
    BY <1>8, <1>9, <2>1, <1>b DEF GrowthInv
  <2> QED BY <2>3, <2>4 DEF Promised, Atomic!Next
<1>12. CASE d # depth
  <2>1. d \in Unsettled' /\ \A e \in Unsettled' : d <= e
    BY <1>7, <1>10, <1>12
  <2>2. Outside' = Outside
    BY <1>6, <1>10, <2>1, FirstIsOne DEF Unsettled
  <2>3. \A w \in undone' \ undone : w > Outside.since
    <3>1. Outside.since = frame[d].since /\ frame[d].since \in Nat /\ frame[d].since <= Top.since
      BY <1>1, <1>7, <1>10, <2>1, FrameInProgress
         DEF Captured, RefusedInv, SnapshotsNest, Top, Unsettled
    <3> QED BY <1>1, <1>3, <3>1
  <2>4. Atomic!RefuseInside
    BY <1>3, <1>7, <2>1, <2>2, <2>3 DEF Atomic!RefuseInside
  <2>5. GrowthInv'
    BY <1>8, <1>9, <2>1, <1>b DEF GrowthInv
  <2> QED BY <2>4, <2>5 DEF Promised, Atomic!Next
<1> QED BY <1>11, <1>12

\* Records just loaded hold no write.
LEMMA LoadedIsSeen ==
  ASSUME NEW s \in State, NEW ids \in SUBSET Tournament
  PROVE  /\ Seen(SetState(s, ids).records) = Atomic!Loaded(ids)
         /\ SetState(s, ids).notices = s.notices
<1> DEFINE cleared == SetTournamentId(s, NoTournament)
<1>1. cleared \in State
  BY SetTournamentIdState
<1> HIDE DEF cleared
<1>2. SetState(s, ids).records = Unwritten(ids)
  BY <1>1, UnwrittenRecords, SetTournamentRecordsState DEF SetState, cleared
<1>3. /\ Unwritten(ids).loaded = ids
      /\ \A t \in ids : Unwritten(ids).written[t] = {} /\ Unwritten(ids).stamp[t] = 0
  BY DEF Unwritten, NoRecords
<1>4. SetState(s, ids).notices = s.notices
  BY SetStateState
<1> QED BY <1>2, <1>3, <1>4 DEF Seen, Atomic!Loaded

LEMMA LoadStateGrowth ==
  ASSUME TypeInv, GrowthInv, NEW ids \in SUBSET Tournament, LoadState(ids)
  PROVE  GrowthInv' /\ Promised
<1>1. /\ depth = 0 /\ state \in State /\ state' = SetState(state, ids)
      /\ UNCHANGED <<depth, detached, made, undone, lost>>
  BY DEF LoadState, Edit, historyVars, TypeInv, TypeOK
<1>2. Unsettled = {} /\ Unsettled' = {}
  BY <1>1 DEF Unsettled
<1>3. Outside = Current /\ Outside' = Current'
  BY <1>2 DEF Outside
<1>4. Atomic!Load(ids)
  BY <1>1, <1>2, <1>3, LoadedIsSeen DEF Atomic!Load, Atomic!Undisturbed, Current
<1>5. GrowthInv'
  BY <1>1, <1>2 DEF GrowthInv
<1> QED BY <1>4, <1>5 DEF Promised, Atomic!Next

LEMMA InitIsAtomic == Init => GrowthInv /\ Atomic!Init
<1> SUFFICES ASSUME Init PROVE GrowthInv /\ Atomic!Init
  OBVIOUS
<1>1. PICK ids \in SUBSET Tournament : state = SetState(FreshState, ids)
  BY DEF Init
<1>2. depth = 0 /\ made = 0 /\ undone = {} /\ lost = {} /\ detached = {}
  BY DEF Init
<1>3. Unsettled = {} /\ Outside = Current
  BY <1>2 DEF Unsettled, Outside
<1>4. Seen(state.records) = Atomic!Loaded(ids) /\ state.notices = {}
  BY <1>1, FreshStateType, LoadedIsSeen DEF FreshState
<1>5. GrowthInv
  BY <1>2, <1>3 DEF GrowthInv
<1>6. Atomic!Init
  BY <1>2, <1>3, <1>4 DEF Atomic!Init, Current
<1> QED BY <1>5, <1>6

LEMMA NextIsAtomic ==
  ASSUME TypeInv, OneInstant, RefusedInv, MarksInv, WitnessInv, GrowthInv,
         TypeInv', RefusedInv', [Next]_vars
  PROVE  GrowthInv' /\ Promised
<1>1. GrowingStep => GrowthInv' /\ Promised
  BY GrowingKeeps, GrowingPromised
<1>2. ASSUME NEW ids \in SUBSET Tournament, LoadState(ids) PROVE GrowthInv' /\ Promised
  BY <1>2, LoadStateGrowth
<1>3. ASSUME NEW kind \in Kind, NEW mode \in Mode, NEW captures \in BOOLEAN, NEW n \in Nat \ {0},
             Begin(kind, mode, captures, n)
      PROVE  GrowthInv' /\ Promised
  BY <1>3, BeginGrowth
<1>4. ASSUME MethodRuns, Top.captures, Restore PROVE GrowthInv' /\ Promised
  BY <1>4, RestoreGrowth
<1>5. CASE \/ \E ids \in SUBSET Tournament : LoadState(ids)
           \/ \E kind \in Kind, mode \in Mode, captures \in BOOLEAN, n \in Nat \ {0} :
                Begin(kind, mode, captures, n)
           \/ MethodRuns /\ Top.captures /\ Restore
  BY <1>2, <1>3, <1>4, <1>5
<1>6. CASE \/ \E t \in Tournament : UnloadTournament(t)
           \/ \E t \in Tournament \cup {NoTournament} : SelectTournament(t)
           \/ \E t \in Tournament, a \in Announcement : MethodWrites(t, a)
           \/ CallSucceeds
           \/ \E f : Moves(f)
           \/ \E topic \in Topic : CallListener(topic)
           \/ DelayedCallSucceeds
           \/ depth > 0 /\ EndUnannounced
           \/ DispatchEnds
           \/ UNCHANGED vars
  <2>1. GrowingStep
    BY <1>6, GrowingSteps DEF GrowthInv
  <2> QED BY <1>1, <2>1
<1> QED BY <1>5, <1>6, ActionKinds DEF ClientEdits

\* For every nesting of calls and every way they end: seen from outside, a call that may be taken
\* back changes nothing until its method has ended, and then all it kept shows at once, or nothing.
THEOREM SyncImplementsAtomic == Spec => ImplementsAtomic
<1> DEFINE Inv == TypeInv /\ OneInstant /\ RefusedInv /\ MarksInv
<1>1. Init => WitnessInv
  BY InitWitnessInv
<1>2. Inv /\ WitnessInv /\ [Next]_vars => WitnessInv'
  BY NextWitnessInv
<1>3. Init => GrowthInv /\ Atomic!Init
  BY InitIsAtomic
<1>4. Inv /\ Inv' /\ WitnessInv /\ GrowthInv /\ [Next]_vars => GrowthInv' /\ [Atomic!Next]_(Atomic!vars)
  BY NextIsAtomic DEF Promised
<1>5. Spec => []Inv
  BY SpecMarksInv
<1> QED BY <1>1, <1>2, <1>3, <1>4, <1>5, PTL DEF Spec, ImplementsAtomic, Atomic!Spec
=============================================================================
