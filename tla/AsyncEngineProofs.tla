-------------------------- MODULE AsyncEngineProofs --------------------------
(***************************************************************************)
(* Theorems about AsyncEngine, for every set of tournaments and topics and *)
(* every bound: types (TypeInv), the owner of the captured instant, what   *)
(* becomes of the writes of a call (KeptInv) and of their notices          *)
(* (BufferInv, DeliveryInv).                                               *)
(***************************************************************************)
EXTENDS AsyncEngine, EngineStateLemmas, WellFoundedInduction

-----------------------------------------------------------------------------
(* Types.                                                                  *)

\* No more instants were read than calls begun: this keeps clock within Instant.
TypeInv == TypeOK /\ clock <= begun

LEMMA ZeroInstant == 0 \in Instant
BY BoundAssumption DEF Instant

LEMMA FreshStateType == FreshState \in State
<1>1. NoRecords \in Records
  BY ZeroInstant DEF NoRecords, Records
<1> QED BY <1>1, ZeroInstant DEF FreshState, State

LEMMA NoCallType == NoCall \in CallRecord
<1>1. NoSnapshot \in Snapshot
  BY FreshStateType, CaptureOperationSnapshot DEF NoSnapshot
<1>2. 0 \in 0 .. LastRank
  BY RankAssumption
<1> QED BY <1>1, <1>2, ZeroInstant DEF NoCall, CallRecord, Kind, Phase, Outcome

LEMMA InitTypeInv == Init => TypeInv
<1> SUFFICES ASSUME Init PROVE TypeInv
  OBVIOUS
<1>1. state \in State
  <2>1. PICK ids \in SUBSET Tournament \ {{}} : state = SetState(FreshState, ids)
    BY DEF Init
  <2> QED BY <2>1, FreshStateType, SetStateState
<1>2. /\ begun \in 0 .. MaxCalls /\ clock \in Instant /\ clock <= begun
      /\ made \in 0 .. MaxWrites /\ 0 \in 0 .. MaxCalls
  BY ZeroInstant, BoundAssumption DEF Init
<1>3. call \in [Call -> CallRecord]
  BY NoCallType DEF Init
<1>4. by \in [Write -> 0 .. MaxCalls] /\ deliveredBy \in [Write -> SUBSET Call] /\ overlap \subseteq Call \X Call
  BY <1>2 DEF Init
<1> QED BY <1>1, <1>2, <1>3, <1>4 DEF TypeInv, TypeOK

LEMMA BeginType ==
  ASSUME TypeInv, NEW kind \in Kind, NEW captures \in BOOLEAN, NEW directives \in Nat,
         Begin(kind, captures, directives)
  PROVE  TypeInv'
<1> DEFINE c == begun + 1
           owns == state.capturedClock = 0
           instant == IF owns THEN clock + 1 ELSE state.capturedClock
           snapshot == IF captures THEN CaptureOperation(state) ELSE NoSnapshot
           record == [NoCall EXCEPT
             !.kind = kind, !.captures = captures, !.snapshot = snapshot,
             !.owns = owns, !.timeStamp = instant, !.left = directives, !.attached = TRUE,
             !.phase = "method"]
<1>1. /\ state \in State /\ call \in [Call -> CallRecord]
      /\ begun \in 0 .. MaxCalls /\ begun < MaxCalls /\ MaxCalls \in Nat
      /\ clock \in 0 .. MaxCalls /\ clock <= begun
  BY BoundAssumption DEF TypeInv, TypeOK, Begin, Instant
<1>2. state.capturedClock \in Instant
  BY <1>1 DEF State
<1>3. instant \in Instant
  BY <1>1, <1>2 DEF Instant
<1>4. c \in Call /\ begun' = c /\ c \in 0 .. MaxCalls
  BY <1>1 DEF Begin, Call
<1>5. state' = [state EXCEPT !.capturedClock = instant] /\ state' \in State
  BY <1>1, <1>3 DEF Begin, State
<1>6. clock' = IF owns THEN instant ELSE clock
  BY DEF Begin
<1>7. clock' \in Instant /\ clock' <= begun'
  BY <1>1, <1>4, <1>6 DEF Instant
<1>8. snapshot \in Snapshot
  BY <1>1, CaptureOperationSnapshot, FreshStateType DEF NoSnapshot
<1>9. record \in CallRecord
  <2> HIDE DEF snapshot, instant
  <2> QED BY <1>3, <1>8, NoCallType DEF CallRecord, Phase
<1>10. call' = [call EXCEPT ![c] = record]
  BY DEF Begin
<1>11. call' \in [Call -> CallRecord]
  <2> HIDE DEF record
  <2> QED BY <1>1, <1>4, <1>9, <1>10
<1>12. overlap' \subseteq Call \X Call
  <2>1. overlap \subseteq Call \X Call /\ InProgress \subseteq Call
    BY DEF TypeInv, TypeOK, InProgress
  <2>2. overlap' = overlap \cup (InProgress \X {c}) \cup ({c} \X InProgress)
    BY DEF Begin
  <2> HIDE DEF c
  <2> QED BY <1>4, <2>1, <2>2
<1> QED BY <1>4, <1>5, <1>7, <1>11, <1>12 DEF TypeInv, TypeOK, Begin

\* A step that moves one call keeps the types.
LEMMA MoveType ==
  ASSUME TypeInv, NEW c \in Call, NEW r \in CallRecord,
         state' \in State, call' = [call EXCEPT ![c] = r], deliveredBy' \in [Write -> SUBSET Call],
         UNCHANGED <<begun, clock, made, by, overlap>>
  PROVE  TypeInv'
BY DEF TypeInv, TypeOK

LEMMA MethodWritesType ==
  ASSUME TypeInv, NEW c \in Call, NEW t \in Tournament, NEW topic \in Topic, MethodWrites(c, t, topic)
  PROVE  TypeInv'
<1> DEFINE w == made + 1
           written == IF call[c].attached THEN WriteRecord(state, t, w) ELSE state
           notice == [topic |-> topic, key |-> NoKey, write |-> w]
<1>1. w \in Write /\ w \in 0 .. MaxWrites /\ state \in State
  BY BoundAssumption DEF TypeInv, TypeOK, MethodWrites, Write
<1>2. written \in State
  BY <1>1, WriteRecordState
<1>3. notice \in Notice
  BY <1>1 DEF Notice
<1>4. state' = AddNotice(written, notice, t)
  BY DEF MethodWrites
<1>5. state' \in State
  BY <1>2, <1>3, <1>4, AddNoticeState
<1>6. made' = w /\ by' = [by EXCEPT ![w] = c]
  BY DEF MethodWrites
<1>7. c \in 0 .. MaxCalls /\ by \in [Write -> 0 .. MaxCalls]
  BY BoundAssumption DEF TypeInv, TypeOK, Call
<1> HIDE DEF w, written, notice
<1>8. by' \in [Write -> 0 .. MaxCalls]
  BY <1>6, <1>7
<1> QED BY <1>1, <1>5, <1>6, <1>8 DEF TypeInv, TypeOK, MethodWrites

LEMMA EndedType ==
  ASSUME TypeInv, NEW c \in Call, NEW outcome \in Outcome
  PROVE  Ended(c, outcome) \in CallRecord
<1>1. call[c] \in CallRecord
  BY DEF TypeInv, TypeOK
<1> QED BY <1>1, NoCallType DEF Ended, CallRecord, Phase

LEMMA EndType ==
  ASSUME TypeInv, NEW c \in Call, NEW outcome \in Outcome, NEW s \in State, End(c, s, outcome)
  PROVE  TypeInv'
<1>1. deliveredBy' \in [Write -> SUBSET Call]
  BY DEF End, historyVars, TypeInv, TypeOK
<1> QED BY <1>1, EndedType, MoveType DEF End, historyVars

LEMMA RollBackType ==
  ASSUME TypeInv, NEW c \in Call, RollBack(c)
  PROVE  TypeInv'
<1>1. state \in State /\ call \in [Call -> CallRecord]
  BY DEF TypeInv, TypeOK
<1>2. call[c].snapshot \in Snapshot
  BY <1>1 DEF CallRecord
<1>3. state' \in State
  BY <1>1, <1>2, RestoreOperationState DEF RollBack
<1>4. Ended(c, "rolledBack") \in CallRecord
  BY EndedType DEF Outcome
<1>5. \A d \in Call : [call[d] EXCEPT !.attached = FALSE] \in CallRecord
  BY <1>1 DEF CallRecord
<1>6. call' \in [Call -> CallRecord]
  BY <1>4, <1>5 DEF RollBack
<1> QED BY <1>3, <1>6 DEF RollBack, historyVars, TypeInv, TypeOK

LEMMA DeliverType ==
  ASSUME TypeInv, NEW c \in Call, NEW s \in State, NEW reached, Deliver(c, s, reached)
  PROVE  TypeInv'
<1>1. call \in [Call -> CallRecord] /\ call[c] \in CallRecord /\ deliveredBy \in [Write -> SUBSET Call]
  BY DEF TypeInv, TypeOK
<1>2. CASE \E topic \in NextTopic(s, reached) :
          /\ call' = [call EXCEPT ![c].phase = "listener", ![c].reached = Rank[topic]]
          /\ deliveredBy' = [w \in Write |->
               IF \E n \in GetNotices(s, topic) : n.write = w
               THEN deliveredBy[w] \cup {c} ELSE deliveredBy[w]]
  <2>1. PICK topic \in NextTopic(s, reached) :
          /\ call' = [call EXCEPT ![c].phase = "listener", ![c].reached = Rank[topic]]
          /\ deliveredBy' = [w \in Write |->
               IF \E n \in GetNotices(s, topic) : n.write = w
               THEN deliveredBy[w] \cup {c} ELSE deliveredBy[w]]
    BY <1>2
  <2>2. deliveredBy' \in [Write -> SUBSET Call]
    BY <1>1, <2>1
  <2>3. Rank[topic] \in 0 .. LastRank
    BY RankAssumption DEF NextTopic
  <2>4. [[call[c] EXCEPT !.phase = "listener"] EXCEPT !.reached = Rank[topic]] \in CallRecord
    BY <1>1, <2>3 DEF CallRecord, Phase
  <2>5. call' = [call EXCEPT ![c] = [[call[c] EXCEPT !.phase = "listener"] EXCEPT !.reached = Rank[topic]]]
    BY <1>1, <2>1
  <2> QED BY <2>2, <2>4, <2>5, MoveType DEF Deliver
<1>3. CASE call' = [call EXCEPT ![c].phase = "notified"] /\ UNCHANGED deliveredBy
  <2>1. [call[c] EXCEPT !.phase = "notified"] \in CallRecord
    BY <1>1 DEF CallRecord, Phase
  <2> QED BY <1>1, <1>3, <2>1, MoveType DEF Deliver
<1> QED BY <1>2, <1>3 DEF Deliver

LEMMA StepType ==
  ASSUME TypeInv, NEW c \in Call, Step(c)
  PROVE  TypeInv'
<1>1. /\ state \in State /\ call[c] \in CallRecord /\ call[c].timeStamp \in Instant
      /\ deliveredBy \in [Write -> SUBSET Call]
  BY DEF TypeInv, TypeOK, CallRecord
<1>2. CASE \E t \in Tournament, topic \in Topic : MethodWrites(c, t, topic)
  BY <1>2, MethodWritesType
<1>3. CASE DirectiveSucceeds(c)
  <2>0. call[c].left - 1 \in Nat
    BY <1>1, <1>3 DEF DirectiveSucceeds, CallRecord
  <2>1. [call[c] EXCEPT !.left = @ - 1, !.attached = TRUE] \in CallRecord
    <3> DEFINE left == call[c].left - 1
    <3> HIDE DEF left
    <3>1. [call[c] EXCEPT !.left = left, !.attached = TRUE] \in CallRecord
      BY <1>1, <2>0 DEF left, CallRecord
    <3> QED BY <3>1 DEF left
  <2>2. call' = [call EXCEPT ![c] = [call[c] EXCEPT !.left = @ - 1, !.attached = TRUE]]
    BY <1>3 DEF DirectiveSucceeds, TypeInv, TypeOK
  <2> QED BY <1>1, <1>3, <2>1, <2>2, MoveType DEF DirectiveSucceeds, historyVars
<1>4. CASE CallSucceeds(c)
  BY <1>1, <1>4, GetMutationStatusState, DeliverType DEF CallSucceeds
<1>5. CASE DelayedCallSucceeds(c)
  BY <1>1, <1>5, GetMutationStatusState, EndType DEF DelayedCallSucceeds, Outcome
<1>6. CASE CallEndsUnannounced(c)
  BY <1>1, <1>6, KeepWritesState, EndType DEF CallEndsUnannounced, EndUnannounced, Outcome
<1>7. CASE CallRolledBack(c)
  BY <1>7, RollBackType DEF CallRolledBack
<1>8. CASE CallRejected(c)
  BY <1>1, <1>8, EndType DEF CallRejected, Outcome
<1>9. CASE ListenerSettles(c)
  BY <1>1, <1>9, DeliverType DEF ListenerSettles
<1>10. CASE CallNotified(c)
  BY <1>1, <1>10, DeleteNoticesState, EndType DEF CallNotified, Outcome
<1>12. CASE ListenerRejects(c)
  BY <1>1, <1>12, EndType DEF ListenerRejects, Outcome
<1>11. CASE Release(c)
  <2>1. [call[c] EXCEPT !.phase = "done"] \in CallRecord
    BY <1>1 DEF CallRecord, Phase
  <2>2. state' \in State
    BY <1>1, <1>11, ZeroInstant DEF Release, State
  <2> QED BY <1>1, <1>11, <2>1, <2>2, MoveType DEF Release, historyVars
<1> QED BY <1>2, <1>3, <1>4, <1>5, <1>6, <1>7, <1>8, <1>9, <1>10, <1>11, <1>12 DEF Step, Next

LEMMA NextTypeInv == TypeInv /\ [Next]_vars => TypeInv'
<1> SUFFICES ASSUME TypeInv, [Next]_vars PROVE TypeInv'
  OBVIOUS
<1>1. CASE Begins
  <2>1. 1 \in Nat /\ QueueLength \subseteq Nat
    BY QueueAssumption
  <2> QED BY <1>1, <2>1, BeginType DEF Begins, AsyncEngineInvoke, AsyncExecutionQueue, Kind
<1>2. CASE \E c \in Call : Step(c)
  BY <1>2, StepType
<1>3. CASE UNCHANGED vars
  BY <1>3 DEF vars, engineVars, historyVars, TypeInv, TypeOK
<1> QED BY <1>1, <1>2, <1>3 DEF Next

LEMMA SpecTypeInv == Spec => []TypeInv
BY InitTypeInv, NextTypeInv, PTL DEF Spec

\* The context's state, the calls and every history variable have their types.
THEOREM TypeCorrect == Spec => []TypeOK
<1>1. TypeInv => TypeOK
  BY DEF TypeInv
<1> QED BY <1>1, SpecTypeInv, PTL

-----------------------------------------------------------------------------
(* What a step does to the calls.                                          *)

Kept == KeptWrites(state.records)

\* A call that was not made has nothing, and one that goes on has no outcome yet.
CallsInOrder ==
  \A c \in Call :
    /\ c > begun => call[c].phase = "none"
    /\ call[c].phase \notin {"releasing", "done"} => call[c].outcome = "none"
    /\ call[c].phase = "releasing" => call[c].owns

\* A step that moves the call c, and neither begins it nor writes nor restores.
Moves(c) ==
  /\ c \in InProgress
  /\ \A d \in Call \ {c} : call'[d] = call[d]
  /\ call'[c].owns = call[c].owns /\ call'[c].timeStamp = call[c].timeStamp
  /\ call'[c].outcome # call[c].outcome =>
       call[c].outcome = "none" /\ call'[c].outcome # "rolledBack" /\ call'[c].phase \in {"releasing", "done"}
  /\ \/ /\ call[c].phase # "releasing" /\ call'[c].phase \in {"method", "listener", "notified", "releasing", "done"}
        /\ call'[c].phase = "releasing" => call[c].owns
        /\ call'[c].phase = "done" => ~ call[c].owns
        /\ state'.capturedClock = state.capturedClock
     \/ call[c].phase = "releasing" /\ call'[c].phase = "done" /\ state'.capturedClock = 0
  /\ call'[c].phase = "method" =>
       /\ call[c].phase = "method" /\ call'[c].captures = call[c].captures
       /\ call'[c].snapshot = call[c].snapshot /\ call'[c].attached
  /\ Kept' = Kept
  /\ UNCHANGED <<begun, made, by, overlap>>

\* Stamping and emptying the buffer keep the writes.
LEMMA StampingKeeps ==
  ASSUME NEW s \in State, NEW instant \in Instant
  PROVE  /\ KeptWrites(GetMutationStatus(s, instant).records) = KeptWrites(s.records)
         /\ KeptWrites(KeepWrites(s, instant).records) = KeptWrites(s.records)
         /\ KeptWrites(DeleteNotices(s).records) = KeptWrites(s.records)
<1>1. s.records \in Records
  BY DEF State
<1>2. /\ GetMutationStatus(s, instant).records.written = s.records.written
      /\ GetMutationStatus(s, instant).records.loaded = s.records.loaded
  BY <1>1 DEF GetMutationStatus, ClearMutationStatus, State, Records
<1>3. KeepWrites(s, instant).records = GetMutationStatus(s, instant).records
  BY GetMutationStatusState, DeleteNoticesState DEF KeepWrites
<1>4. DeleteNotices(s).records = s.records
  BY DeleteNoticesState
<1> QED BY <1>2, <1>3, <1>4 DEF KeptWrites

LEMMA EndMoves ==
  ASSUME TypeInv, CallsInOrder, NEW c \in InProgress, NEW outcome \in Outcome \ {"rolledBack"}, NEW s \in State,
         End(c, s, outcome), call[c].phase # "releasing",
         s.capturedClock = state.capturedClock, KeptWrites(s.records) = Kept
  PROVE  Moves(c)
<1>1. c \in Call /\ call \in [Call -> CallRecord] /\ call[c] \in CallRecord
  BY DEF TypeInv, TypeOK, InProgress
<1>2. call' = [call EXCEPT ![c] = Ended(c, outcome)] /\ state' = s
  BY DEF End
<1>3. /\ Ended(c, outcome).owns = call[c].owns /\ Ended(c, outcome).timeStamp = call[c].timeStamp
      /\ Ended(c, outcome).outcome = outcome
      /\ Ended(c, outcome).phase = IF call[c].owns THEN "releasing" ELSE "done"
  BY DEF Ended, NoCall
<1>4. call'[c] = Ended(c, outcome) /\ \A d \in Call \ {c} : call'[d] = call[d]
  BY <1>1, <1>2
<1>5. call[c].phase \notin {"none", "done", "releasing"} /\ call[c].outcome = "none"
  BY <1>1 DEF CallsInOrder, InProgress
<1>6. Kept' = Kept
  BY <1>2 DEF Kept
<1> QED BY <1>1, <1>2, <1>3, <1>4, <1>5, <1>6 DEF Moves, End, historyVars

LEMMA DeliverMoves ==
  ASSUME TypeInv, CallsInOrder, NEW c \in InProgress, NEW s \in State, NEW reached, Deliver(c, s, reached),
         call[c].phase # "releasing",
         s.capturedClock = state.capturedClock, KeptWrites(s.records) = Kept
  PROVE  Moves(c)
<1>1. c \in Call /\ call \in [Call -> CallRecord] /\ call[c] \in CallRecord
  BY DEF TypeInv, TypeOK, InProgress
<1>2. /\ \A d \in Call \ {c} : call'[d] = call[d]
      /\ call'[c].owns = call[c].owns /\ call'[c].timeStamp = call[c].timeStamp
      /\ call'[c].outcome = call[c].outcome /\ call'[c].phase \in {"listener", "notified"}
  <2>1. CASE \E topic \in Topic : call' = [call EXCEPT ![c].phase = "listener", ![c].reached = Rank[topic]]
    BY <1>1, <2>1 DEF CallRecord
  <2>2. CASE call' = [call EXCEPT ![c].phase = "notified"]
    BY <1>1, <2>2 DEF CallRecord
  <2> QED BY <2>1, <2>2 DEF Deliver, NextTopic
<1>3. Kept' = Kept /\ state'.capturedClock = state.capturedClock
  BY DEF Kept, Deliver
<1> QED BY <1>1, <1>2, <1>3 DEF Moves, Deliver

\* The steps of a call but for writes and rollbacks.
Moving(c) ==
  \/ DirectiveSucceeds(c)
  \/ CallSucceeds(c)
  \/ DelayedCallSucceeds(c)
  \/ CallEndsUnannounced(c)
  \/ CallRejected(c)
  \/ ListenerSettles(c)
  \/ ListenerRejects(c)
  \/ CallNotified(c)
  \/ Release(c)

LEMMA MovingMoves ==
  ASSUME TypeInv, CallsInOrder, NEW c \in Call, Moving(c)
  PROVE  Moves(c)
<1>1. /\ state \in State /\ call \in [Call -> CallRecord] /\ call[c] \in CallRecord
      /\ call[c].timeStamp \in Instant
  BY DEF TypeInv, TypeOK, CallRecord
<1>2. CASE DirectiveSucceeds(c)
  <2>1. /\ call'[c] = [call[c] EXCEPT !.left = @ - 1, !.attached = TRUE]
        /\ \A d \in Call \ {c} : call'[d] = call[d]
    BY <1>1, <1>2 DEF DirectiveSucceeds
  <2>2. c \in InProgress /\ call[c].phase = "method"
    BY <1>2 DEF DirectiveSucceeds, MethodRuns, InProgress
  <2>3. Kept' = Kept /\ state' = state /\ UNCHANGED <<begun, made, by, overlap>>
    BY <1>2 DEF DirectiveSucceeds, Kept, historyVars
  <2> QED BY <1>1, <2>1, <2>2, <2>3 DEF Moves, CallRecord
<1>3. CASE CallSucceeds(c)
  BY <1>1, <1>3, GetMutationStatusState, StampingKeeps, DeliverMoves DEF CallSucceeds, MethodRuns, InProgress, Kept
<1>4. CASE DelayedCallSucceeds(c)
  BY <1>1, <1>4, GetMutationStatusState, StampingKeeps, EndMoves DEF DelayedCallSucceeds, MethodRuns, InProgress, Kept, Outcome
<1>5. CASE CallEndsUnannounced(c)
  BY <1>1, <1>5, KeepWritesState, StampingKeeps, EndMoves
  DEF CallEndsUnannounced, EndUnannounced, MethodRuns, InProgress, Kept, Outcome
<1>6. CASE CallRejected(c)
  BY <1>1, <1>6, EndMoves DEF CallRejected, MethodRuns, InProgress, Kept, Outcome
<1>7. CASE ListenerSettles(c)
  BY <1>1, <1>7, DeliverMoves DEF ListenerSettles, InProgress, Kept
<1>8. CASE CallNotified(c)
  BY <1>1, <1>8, DeleteNoticesState, EndMoves DEF CallNotified, InProgress, Kept, Outcome
<1>9. CASE Release(c)
  <2>1. call'[c] = [call[c] EXCEPT !.phase = "done"] /\ \A d \in Call \ {c} : call'[d] = call[d]
    BY <1>1, <1>9 DEF Release
  <2>2. state'.records = state.records /\ state'.capturedClock = 0
    BY <1>1, <1>9 DEF Release, State
  <2>3. c \in InProgress /\ call[c].phase = "releasing"
    BY <1>9 DEF Release, InProgress
  <2>4. Kept' = Kept /\ UNCHANGED <<begun, made, by, overlap>>
    BY <1>9, <2>2 DEF Release, Kept, historyVars
  <2> QED BY <1>1, <2>1, <2>2, <2>3, <2>4 DEF Moves, CallRecord
<1>10. CASE ListenerRejects(c)
  BY <1>1, <1>10, EndMoves DEF ListenerRejects, InProgress, Kept, Outcome
<1> QED BY <1>2, <1>3, <1>4, <1>5, <1>6, <1>7, <1>8, <1>9, <1>10 DEF Moving

\* The steps of a call: a write, a rollback, or a move.
LEMMA StepMoves ==
  ASSUME TypeInv, CallsInOrder, NEW c \in Call, Step(c)
  PROVE  \/ \E t \in Tournament, topic \in Topic : MethodWrites(c, t, topic)
         \/ CallRolledBack(c)
         \/ Moves(c)
<1>1. \/ \E t \in Tournament, topic \in Topic : MethodWrites(c, t, topic)
      \/ CallRolledBack(c)
      \/ Moving(c)
  BY DEF Step, Moving
<1> QED BY <1>1, MovingMoves

\* What a new call is, and what it leaves alone.
LEMMA BeginFacts ==
  ASSUME TypeInv, NEW kind \in Kind, NEW captures \in BOOLEAN, NEW directives \in Nat,
         Begin(kind, captures, directives)
  PROVE  /\ begun + 1 \in Call /\ begun' = begun + 1
         /\ \A d \in Call \ {begun + 1} : call'[d] = call[d]
         /\ call'[begun + 1].phase = "method" /\ call'[begun + 1].outcome = "none"
         /\ call'[begun + 1].attached
         /\ call'[begun + 1].owns <=> state.capturedClock = 0
         /\ call'[begun + 1].timeStamp = state'.capturedClock /\ state'.capturedClock # 0
         /\ state.capturedClock # 0 => state'.capturedClock = state.capturedClock
         /\ call'[begun + 1].captures => call'[begun + 1].snapshot.records = state.records
         /\ Kept' = Kept /\ UNCHANGED <<made, by>>
         /\ overlap' = overlap \cup (InProgress \X {begun + 1}) \cup ({begun + 1} \X InProgress)
<1> DEFINE c == begun + 1
           owns == state.capturedClock = 0
           instant == IF owns THEN clock + 1 ELSE state.capturedClock
           record == [NoCall EXCEPT
             !.kind = kind, !.captures = captures,
             !.snapshot = IF captures THEN CaptureOperation(state) ELSE NoSnapshot,
             !.owns = owns, !.timeStamp = instant, !.left = directives, !.attached = TRUE,
             !.phase = "method"]
<1>1. /\ state \in State /\ call \in [Call -> CallRecord]
      /\ begun \in Nat /\ begun < MaxCalls /\ MaxCalls \in Nat /\ clock \in Nat
  BY BoundAssumption DEF TypeInv, TypeOK, Begin, Instant
<1>2. c \in Call /\ begun' = c
  BY <1>1 DEF Begin, Call
<1>3. state' = [state EXCEPT !.capturedClock = instant]
  BY DEF Begin
<1>4. state'.capturedClock = instant /\ state'.records = state.records
  BY <1>1, <1>3 DEF State
<1>5. instant # 0 /\ (state.capturedClock # 0 => instant = state.capturedClock)
  BY <1>1
<1>6. call' = [call EXCEPT ![c] = record]
  BY DEF Begin
<1>7. /\ record.phase = "method" /\ record.outcome = "none" /\ record.attached
      /\ record.owns = owns /\ record.timeStamp = instant
      /\ record.captures = captures
      /\ captures => record.snapshot = CaptureOperation(state)
  BY DEF NoCall
<1>8. CaptureOperation(state).records = state.records
  BY <1>1, CaptureOperationSnapshot
<1>9. call'[c] = record /\ \A d \in Call \ {c} : call'[d] = call[d]
  <2> HIDE DEF record, c
  <2> QED BY <1>1, <1>2, <1>6
<1>10. Kept' = Kept
  BY <1>4 DEF Kept
<1> HIDE DEF record, instant
<1> QED BY <1>2, <1>4, <1>5, <1>7, <1>8, <1>9, <1>10 DEF Begin

\* A rollback ends its call and moves no other.
LEMMA RollBackFacts ==
  ASSUME TypeInv, NEW c \in Call, CallRolledBack(c)
  PROVE  /\ call[c].phase = "method" /\ call[c].captures
         /\ Kept' = KeptWrites(call[c].snapshot.records)
         /\ state'.capturedClock = state.capturedClock
         /\ call'[c].outcome = "rolledBack" /\ call'[c].owns = call[c].owns
         /\ call'[c].timeStamp = call[c].timeStamp
         /\ call'[c].phase = IF call[c].owns THEN "releasing" ELSE "done"
         /\ \A d \in Call \ {c} :
              /\ call'[d].phase = call[d].phase /\ call'[d].outcome = call[d].outcome
              /\ call'[d].owns = call[d].owns /\ call'[d].timeStamp = call[d].timeStamp
              /\ call'[d].captures = call[d].captures /\ call'[d].snapshot = call[d].snapshot
         /\ UNCHANGED <<begun, made, by, overlap>>
<1>1. state \in State /\ call \in [Call -> CallRecord] /\ call[c].snapshot \in Snapshot
  BY DEF TypeInv, TypeOK, CallRecord
<1>2. state' = RestoreOperation(state, call[c].snapshot)
  BY DEF CallRolledBack, RollBack
<1>3. Kept' = KeptWrites(call[c].snapshot.records) /\ state'.capturedClock = state.capturedClock
  BY <1>1, <1>2, RestoreOperationState DEF Kept
<1>4. call'[c] = Ended(c, "rolledBack") /\ \A d \in Call \ {c} : call'[d] = [call[d] EXCEPT !.attached = FALSE]
  BY DEF CallRolledBack, RollBack
<1>5. ASSUME NEW d \in Call \ {c}
      PROVE  /\ call'[d].phase = call[d].phase /\ call'[d].outcome = call[d].outcome
             /\ call'[d].owns = call[d].owns /\ call'[d].timeStamp = call[d].timeStamp
             /\ call'[d].captures = call[d].captures /\ call'[d].snapshot = call[d].snapshot
  <2>1. call[d] \in CallRecord /\ call'[d] = [call[d] EXCEPT !.attached = FALSE]
    BY <1>1, <1>4
  <2> QED BY <2>1 DEF CallRecord
<1>6. /\ call'[c].outcome = "rolledBack" /\ call'[c].owns = call[c].owns
      /\ call'[c].timeStamp = call[c].timeStamp
      /\ call'[c].phase = IF call[c].owns THEN "releasing" ELSE "done"
  BY <1>4 DEF Ended, NoCall
<1> QED BY <1>3, <1>5, <1>6 DEF CallRolledBack, RollBack, MethodRuns, historyVars

\* A write is kept when the method still has the record it was given.
LEMMA MethodWritesFacts ==
  ASSUME TypeInv, NEW c \in Call, NEW t \in Tournament, NEW topic \in Topic, MethodWrites(c, t, topic)
  PROVE  /\ made + 1 \in Write /\ made' = made + 1 /\ made \in Nat
         /\ call[c].phase = "method"
         /\ by' = [by EXCEPT ![made + 1] = c]
         /\ Kept' = IF call[c].attached THEN Kept \cup {made + 1} ELSE Kept
         /\ state'.capturedClock = state.capturedClock
         /\ UNCHANGED <<call, begun, overlap>>
<1> DEFINE w == made + 1
           written == IF call[c].attached THEN WriteRecord(state, t, w) ELSE state
           notice == [topic |-> topic, key |-> NoKey, write |-> w]
<1>1. w \in Write /\ made \in Nat /\ state \in State /\ t \in state.records.loaded
  BY BoundAssumption DEF TypeInv, TypeOK, MethodWrites, Write
<1>2. /\ written \in State /\ written.capturedClock = state.capturedClock
      /\ notice \in Notice
  BY <1>1, WriteRecordState DEF Notice
<1>3. state' = AddNotice(written, notice, t)
  BY DEF MethodWrites
<1>4. state'.records = written.records /\ state'.capturedClock = state.capturedClock
  BY <1>2, <1>3, AddNoticeState
<1>5. ASSUME call[c].attached PROVE Kept' = Kept \cup {w}
  <2>1. state'.records = WriteRecord(state, t, w).records
    BY <1>4, <1>5
  <2>2. state.records \in Records
    BY <1>1 DEF State
  <2>3. /\ state'.records.loaded = state.records.loaded
        /\ state'.records.written = [state.records.written EXCEPT ![t] = @ \cup {w}]
    BY <1>1, <2>1, <2>2 DEF WriteRecord, State, Records
  <2>4. \A v \in state.records.loaded :
          state'.records.written[v] = state.records.written[v] \cup IF v = t THEN {w} ELSE {}
    BY <2>2, <2>3 DEF Records
  <2> HIDE DEF w
  <2> QED BY <1>1, <2>3, <2>4 DEF Kept, KeptWrites
<1>6. ASSUME ~ call[c].attached PROVE Kept' = Kept
  BY <1>4, <1>6 DEF Kept
<1> QED BY <1>1, <1>4, <1>5, <1>6 DEF MethodWrites, MethodRuns

\* Calls are made in order, and only their own steps end them.
LEMMA InitCallsInOrder == Init => CallsInOrder
BY DEF Init, CallsInOrder, NoCall

LEMMA NextCallsInOrder == TypeInv /\ CallsInOrder /\ [Next]_vars => CallsInOrder'
<1> SUFFICES ASSUME TypeInv, CallsInOrder, [Next]_vars PROVE CallsInOrder'
  OBVIOUS
<1>1. begun \in Nat /\ Call \subseteq Nat
  BY BoundAssumption DEF TypeInv, TypeOK, Call
<1>2. ASSUME NEW kind \in Kind, NEW captures \in BOOLEAN, NEW directives \in Nat, Begin(kind, captures, directives)
      PROVE  CallsInOrder'
  <2>1. /\ begun' = begun + 1 /\ \A d \in Call \ {begun + 1} : call'[d] = call[d]
        /\ call'[begun + 1].phase = "method" /\ call'[begun + 1].outcome = "none"
    BY <1>2, BeginFacts
  <2>2. \A d \in Call \ {begun + 1} : d > begun' => d > begun
    BY <1>1, <2>1
  <2>3. ~ (begun + 1 > begun')
    BY <1>1, <2>1
  <2> QED BY <2>1, <2>2, <2>3 DEF CallsInOrder
<1>3. ASSUME NEW c \in Call, Step(c) PROVE CallsInOrder'
  <2>1. CASE \E t \in Tournament, topic \in Topic : MethodWrites(c, t, topic)
    BY <2>1, MethodWritesFacts DEF CallsInOrder
  <2>2. CASE CallRolledBack(c)
    BY <2>2, RollBackFacts DEF CallsInOrder
  <2>3. CASE Moves(c)
    BY <2>3 DEF CallsInOrder, Moves, InProgress
  <2> QED BY <1>3, <2>1, <2>2, <2>3, StepMoves
<1>4. CASE UNCHANGED vars
  BY <1>4 DEF vars, engineVars, CallsInOrder
<1>5. 1 \in Nat /\ QueueLength \subseteq Nat
  BY QueueAssumption
<1> QED BY <1>2, <1>3, <1>4, <1>5 DEF Next, Begins, AsyncEngineInvoke, AsyncExecutionQueue, Kind

-----------------------------------------------------------------------------
(* The captured instant.                                                   *)

LEMMA InitOneOwner == Init => InstantHasOneOwner
<1> SUFFICES ASSUME Init PROVE InstantHasOneOwner
  OBVIOUS
<1>1. InProgress = {}
  BY DEF Init, InProgress, NoCall
<1>2. PICK ids \in SUBSET Tournament \ {{}} : state = SetState(FreshState, ids)
  BY DEF Init
<1>3. state.capturedClock = 0
  BY <1>2, FreshStateType, SetStateState DEF FreshState
<1> QED BY <1>1, <1>3 DEF InstantHasOneOwner

\* A step that moves the call c but not its ownership keeps the owner.
LEMMA OwnerStays ==
  ASSUME InstantHasOneOwner, state'.capturedClock = state.capturedClock,
         \A d \in Call :
           /\ call'[d].owns = call[d].owns /\ call'[d].timeStamp = call[d].timeStamp
           /\ call[d].owns => (d \in InProgress' <=> d \in InProgress)
  PROVE  InstantHasOneOwner'
BY DEF InstantHasOneOwner, InProgress

LEMMA BeginOwner ==
  ASSUME TypeInv, CallsInOrder, InstantHasOneOwner,
         NEW kind \in Kind, NEW captures \in BOOLEAN, NEW directives \in Nat, Begin(kind, captures, directives)
  PROVE  InstantHasOneOwner'
<1>1. begun \in Nat
  BY DEF TypeInv, TypeOK
<1>2. begun + 1 \notin InProgress /\ InProgress' = InProgress \cup {begun + 1}
  BY <1>1, BeginFacts DEF CallsInOrder, InProgress
<1>3. \A d \in InProgress : call'[d] = call[d]
  BY <1>2, BeginFacts DEF InProgress
<1> QED BY <1>2, <1>3, BeginFacts DEF InstantHasOneOwner

LEMMA NextOneOwner == TypeInv /\ CallsInOrder /\ InstantHasOneOwner /\ [Next]_vars => InstantHasOneOwner'
<1> SUFFICES ASSUME TypeInv, CallsInOrder, InstantHasOneOwner, [Next]_vars PROVE InstantHasOneOwner'
  OBVIOUS
<1>1. ASSUME NEW c \in Call, Step(c) PROVE InstantHasOneOwner'
  <2>1. CASE \E t \in Tournament, topic \in Topic : MethodWrites(c, t, topic)
    BY <2>1, MethodWritesFacts, OwnerStays DEF InProgress
  <2>2. CASE CallRolledBack(c)
    BY <2>2, RollBackFacts, OwnerStays DEF InProgress
  <2>3. CASE Moves(c) /\ call[c].phase # "releasing"
    <3>1. /\ \A d \in Call \ {c} : call'[d] = call[d]
          /\ call'[c].owns = call[c].owns /\ call'[c].timeStamp = call[c].timeStamp
          /\ c \in InProgress /\ state'.capturedClock = state.capturedClock
          /\ call[c].owns => c \in InProgress'
      BY <2>3 DEF Moves, InProgress
    <3>2. \A d \in Call \ {c} : d \in InProgress' <=> d \in InProgress
      BY <3>1 DEF InProgress
    <3> QED BY <3>1, <3>2, OwnerStays
  <2>4. CASE Moves(c) /\ call[c].phase = "releasing"
    <3>1. /\ \A d \in Call \ {c} : call'[d] = call[d]
          /\ c \in InProgress /\ c \notin InProgress' /\ state'.capturedClock = 0
      BY <2>4 DEF Moves, InProgress
    <3>2. call[c].owns
      BY <2>4 DEF CallsInOrder
    <3>3. \A d \in InProgress' : d \in InProgress /\ d # c /\ call'[d] = call[d]
      BY <3>1 DEF InProgress
    <3> QED BY <3>1, <3>2, <3>3 DEF InstantHasOneOwner
  <2> QED BY <1>1, <2>1, <2>2, <2>3, <2>4, StepMoves
<1>2. CASE UNCHANGED vars
  BY <1>2 DEF vars, engineVars, InstantHasOneOwner, InProgress
<1>3. 1 \in Nat /\ QueueLength \subseteq Nat
  BY QueueAssumption
<1> QED BY <1>1, <1>2, <1>3, BeginOwner DEF Next, Begins, AsyncEngineInvoke, AsyncExecutionQueue, Kind

\* However calls overlap, exactly one call will release the instant that is captured
\* (withCapturedClockAsync).
THEOREM InstantIsReleasedByItsOwner == Spec => []InstantHasOneOwner
BY InitTypeInv, NextTypeInv, InitCallsInOrder, NextCallsInOrder, InitOneOwner, NextOneOwner, PTL DEF Spec

-----------------------------------------------------------------------------
(* What becomes of the writes.                                             *)

\* Calls in progress together overlap, and overlapping is mutual.
OverlapInv ==
  /\ \A c, d \in InProgress : c # d => <<c, d>> \in overlap
  /\ \A c, d \in Call : <<c, d>> \in overlap => <<d, c>> \in overlap
  /\ \A c, d \in Call : <<c, d>> \in overlap => c <= begun /\ d <= begun

\* Whether the records r hold the writes of d as its outcome says.
AsAnswered(r, d) ==
  \A w \in Writes(d) : w \in KeptWrites(r) <=> call[d].outcome # "rolledBack"

\* No record and no snapshot holds a write that is not made yet, and a snapshot
\* holds none of its own call's.
KeptWereMade ==
  /\ \A w \in Write : by[w] <= begun /\ (w > made => by[w] = 0)
  /\ \A w \in Kept : w \in 1 .. made
  /\ \A c \in Call : call[c].phase = "method" /\ call[c].captures =>
       \A w \in KeptWrites(call[c].snapshot.records) : w \in 1 .. made /\ by[w] # c

\* The records agree with every answer that no overlapping rollback undid, those
\* of the calls in progress included, and so does every snapshot with the calls
\* its own call did not overlap; a method has lost its records to such a rollback only.
AnswersHold ==
  /\ \A d \in Call : ~ RolledBackDuring(d) => AsAnswered(state.records, d)
  /\ \A c \in Call : call[c].phase = "method" /\ call[c].captures =>
       \A d \in Call \ {c} : <<d, c>> \notin overlap /\ ~ RolledBackDuring(d) =>
         AsAnswered(call[c].snapshot.records, d)
  /\ \A c \in Call : call[c].phase = "method" => call[c].attached \/ RolledBackDuring(c)

KeptInv == OverlapInv /\ KeptWereMade /\ AnswersHold

LEMMA InitKeptInv == Init => KeptInv
<1> SUFFICES ASSUME Init PROVE KeptInv
  OBVIOUS
<1>1. /\ \A c \in Call : call[c].phase = "none" /\ call[c].outcome = "none"
      /\ InProgress = {} /\ overlap = {} /\ begun = 0
      /\ \A w \in Write : by[w] = 0
  BY DEF Init, InProgress, NoCall
<1>2. PICK ids \in SUBSET Tournament \ {{}} : state = SetState(FreshState, ids)
  BY DEF Init
<1>3. state \in State /\ \A t \in Tournament : state.records.written[t] = {}
  BY <1>2, FreshStateType, SetStateState
<1>4. Kept = {}
  BY <1>3 DEF Kept, KeptWrites, State, Records
<1>5. \A c \in Call : Writes(c) = {}
  BY <1>1, BoundAssumption DEF Writes, Call
<1> QED BY <1>1, <1>4, <1>5 DEF KeptInv, OverlapInv, KeptWereMade, AnswersHold, AsAnswered

LEMMA NextOverlapInv == TypeInv /\ CallsInOrder /\ OverlapInv /\ [Next]_vars => OverlapInv'
<1> SUFFICES ASSUME TypeInv, CallsInOrder, OverlapInv, [Next]_vars PROVE OverlapInv'
  OBVIOUS
<1>1. begun \in Nat /\ Call \subseteq Nat
  BY BoundAssumption DEF TypeInv, TypeOK, Call
<1>2. ASSUME NEW kind \in Kind, NEW captures \in BOOLEAN, NEW directives \in Nat, Begin(kind, captures, directives)
      PROVE  OverlapInv'
  <2> DEFINE c == begun + 1
  <2>1. /\ c \in Call /\ begun' = c
        /\ \A d \in Call \ {c} : call'[d] = call[d]
        /\ overlap' = overlap \cup (InProgress \X {c}) \cup ({c} \X InProgress)
    BY <1>2, BeginFacts
  <2>2. \A d \in InProgress' : d \in InProgress \/ d = c
    <3> HIDE DEF c
    <3> QED BY <2>1 DEF InProgress
  <2>3. ASSUME NEW d \in InProgress PROVE d <= begun
    <3> HIDE DEF c
    <3>1. d \in Nat /\ ~(d > begun)
      BY <1>1, <2>3 DEF CallsInOrder, InProgress
    <3> QED BY <1>1, <3>1
  <2>4. \A d \in Call : d <= begun => d <= begun'
    BY <1>1, <2>1
  <2> HIDE DEF c
  <2>5. \A a, b \in InProgress' : a # b => <<a, b>> \in overlap'
    BY <2>1, <2>2 DEF OverlapInv
  <2>6. \A a, b \in Call : <<a, b>> \in overlap' => <<b, a>> \in overlap'
    BY <2>1 DEF OverlapInv
  <2>7. \A a, b \in Call : <<a, b>> \in overlap' => a <= begun' /\ b <= begun'
    BY <1>1, <2>1, <2>3, <2>4 DEF OverlapInv
  <2> QED BY <2>5, <2>6, <2>7 DEF OverlapInv
<1>3. ASSUME NEW c \in Call, Step(c) PROVE OverlapInv'
  <2>1. InProgress' \subseteq InProgress /\ UNCHANGED <<begun, overlap>>
    <3>1. CASE \E t \in Tournament, topic \in Topic : MethodWrites(c, t, topic)
      BY <3>1, MethodWritesFacts DEF InProgress
    <3>2. CASE CallRolledBack(c)
      BY <3>2, RollBackFacts DEF InProgress
    <3>3. CASE Moves(c)
      BY <3>3 DEF InProgress, Moves
    <3> QED BY <1>3, <3>1, <3>2, <3>3, StepMoves
  <2> QED BY <2>1 DEF OverlapInv
<1>4. CASE UNCHANGED vars
  BY <1>4 DEF vars, engineVars, historyVars, OverlapInv, InProgress
<1>5. 1 \in Nat /\ QueueLength \subseteq Nat
  BY QueueAssumption
<1> QED BY <1>2, <1>3, <1>4, <1>5 DEF Next, Begins, AsyncEngineInvoke, AsyncExecutionQueue, Kind

\* Who was rolled back stays rolled back, and who overlapped it.
LEMMA RolledBackStays ==
  ASSUME overlap \subseteq overlap',
         \A d \in Call : call[d].outcome = "rolledBack" => call'[d].outcome = "rolledBack"
  PROVE  \A d \in Call : RolledBackDuring(d) => RolledBackDuring(d)'
BY DEF RolledBackDuring

LEMMA BeginKeptInv ==
  ASSUME TypeInv, CallsInOrder, KeptInv,
         NEW kind \in Kind, NEW captures \in BOOLEAN, NEW directives \in Nat, Begin(kind, captures, directives)
  PROVE  KeptWereMade' /\ AnswersHold'
<1> DEFINE c == begun + 1
<1>1. /\ c \in Call /\ begun' = c
      /\ \A d \in Call \ {c} : call'[d] = call[d]
      /\ call'[c].phase = "method" /\ call'[c].outcome = "none" /\ call'[c].attached
      /\ call'[c].captures => call'[c].snapshot.records = state.records
      /\ Kept' = Kept /\ UNCHANGED <<made, by>>
      /\ overlap \subseteq overlap'
  BY BeginFacts
<1>2. begun \in Nat /\ made \in 0 .. MaxWrites /\ MaxWrites \in Nat /\ by \in [Write -> Nat]
  BY BoundAssumption DEF TypeInv, TypeOK
<1>3. \A w \in Write : by[w] < c
  BY <1>2 DEF KeptInv, KeptWereMade
<1>4. 1 .. made \subseteq Write
  BY <1>2 DEF Write
<1>5. \A w \in Write : by[w] <= begun'
  BY <1>1, <1>2, <1>3
<1>6. call[c].outcome = "none"
  BY <1>1, <1>2 DEF CallsInOrder
<1>7. \A w \in Write : by[w] # c
  BY <1>2, <1>3
<1> HIDE DEF c
<1>8. KeptWereMade'
  BY <1>1, <1>4, <1>5, <1>7 DEF KeptInv, KeptWereMade, Kept
<1>9. \A d \in Call : RolledBackDuring(d) => RolledBackDuring(d)'
  BY <1>1, <1>6, RolledBackStays
<1>10. /\ \A d \in Call : Writes(d)' = Writes(d)
       /\ Writes(c) = {}
  BY <1>1, <1>7 DEF Writes
<1>11. \A d \in Call : ~ RolledBackDuring(d)' => AsAnswered(state.records, d)'
  BY <1>1, <1>9, <1>10 DEF KeptInv, AnswersHold, AsAnswered, Kept
<1>12. \A e \in Call : (call[e].phase = "method" /\ call[e].captures)' =>
         \A d \in Call \ {e} : <<d, e>> \notin overlap' /\ ~ RolledBackDuring(d)' =>
           AsAnswered(call[e].snapshot.records, d)'
  BY <1>1, <1>9, <1>10 DEF KeptInv, AnswersHold, AsAnswered, Kept
<1>13. \A e \in Call : call'[e].phase = "method" => call'[e].attached \/ RolledBackDuring(e)'
  BY <1>1, <1>9 DEF KeptInv, AnswersHold
<1> QED BY <1>8, <1>11, <1>12, <1>13 DEF AnswersHold

LEMMA MethodWritesKeptInv ==
  ASSUME TypeInv, CallsInOrder, KeptInv,
         NEW c \in Call, NEW t \in Tournament, NEW topic \in Topic, MethodWrites(c, t, topic)
  PROVE  KeptWereMade' /\ AnswersHold'
<1> DEFINE w == made + 1
<1>1. /\ w \in Write /\ made' = w /\ call[c].phase = "method"
      /\ by' = [by EXCEPT ![w] = c]
      /\ Kept' = IF call[c].attached THEN Kept \cup {w} ELSE Kept
      /\ UNCHANGED <<call, begun, overlap>>
  BY MethodWritesFacts
<1>2. /\ made \in Nat /\ begun \in Nat /\ by \in [Write -> 0 .. MaxCalls] /\ Call \subseteq Nat /\ 0 \notin Call
      /\ 1 .. made' \subseteq Write
  BY <1>1, BoundAssumption, MethodWritesFacts DEF TypeInv, TypeOK, Call, Write
<1>3. w \notin 1 .. made /\ 1 .. made' = (1 .. made) \cup {w}
  BY <1>1, <1>2
<1>4. by[w] = 0 /\ \A v \in Write : v > made' => v > made
  BY <1>1, <1>2 DEF KeptInv, KeptWereMade, Write
<1>5. c <= begun /\ c \in InProgress /\ call[c].outcome = "none"
  BY <1>1, <1>2 DEF CallsInOrder, InProgress
<1>6. ~ (w > made')
  BY <1>1, <1>2
<1> HIDE DEF w
<1>7. \A v \in Write : by'[v] = IF v = w THEN c ELSE by[v]
  BY <1>1, <1>2
<1>8. KeptWereMade'
  <2>1. \A v \in Write : by'[v] <= begun' /\ (v > made' => by'[v] = 0)
    BY <1>1, <1>4, <1>5, <1>6, <1>7 DEF KeptInv, KeptWereMade
  <2>2. \A v \in Kept' : v \in 1 .. made'
    BY <1>1, <1>3 DEF KeptInv, KeptWereMade
  <2>3. \A e \in Call : call'[e].phase = "method" /\ call'[e].captures =>
          \A v \in KeptWrites(call'[e].snapshot.records) : v \in 1 .. made' /\ by'[v] # e
    BY <1>1, <1>2, <1>3, <1>7 DEF KeptInv, KeptWereMade
  <2> QED BY <2>1, <2>2, <2>3 DEF KeptWereMade
<1>9. /\ \A d \in Call \ {c} : Writes(d)' = Writes(d) /\ w \notin Writes(d)
      /\ Writes(c)' = Writes(c) \cup {w}
  BY <1>1, <1>2, <1>4, <1>7 DEF Writes
<1>10. \A d \in Call : RolledBackDuring(d)' <=> RolledBackDuring(d)
  BY <1>1 DEF RolledBackDuring
<1>11. \A d \in Call : ~ RolledBackDuring(d)' => AsAnswered(state.records, d)'
  <2> SUFFICES ASSUME NEW d \in Call, ~ RolledBackDuring(d) PROVE AsAnswered(state.records, d)'
    BY <1>10
  <2>1. AsAnswered(state.records, d)
    BY DEF KeptInv, AnswersHold
  <2>2. CASE d = c
    <3>1. call[c].attached
      BY <1>1, <2>2 DEF KeptInv, AnswersHold
    <3> QED BY <1>1, <1>5, <1>9, <2>1, <2>2, <3>1 DEF AsAnswered, Kept
  <2>3. CASE d # c
    BY <1>1, <1>9, <2>1, <2>3 DEF AsAnswered, Kept
  <2> QED BY <2>2, <2>3
<1>12. \A e \in Call : (call[e].phase = "method" /\ call[e].captures)' =>
         \A d \in Call \ {e} : <<d, e>> \notin overlap' /\ ~ RolledBackDuring(d)' =>
           AsAnswered(call[e].snapshot.records, d)'
  <2> SUFFICES ASSUME NEW e \in Call, call[e].phase = "method", call[e].captures,
                      NEW d \in Call \ {e}, <<d, e>> \notin overlap, ~ RolledBackDuring(d)
               PROVE  AsAnswered(call[e].snapshot.records, d)'
    BY <1>1, <1>10
  <2>1. d # c
    BY <1>5 DEF KeptInv, OverlapInv, InProgress
  <2>2. AsAnswered(call[e].snapshot.records, d)
    BY DEF KeptInv, AnswersHold
  <2> QED BY <1>1, <1>9, <2>1, <2>2 DEF AsAnswered
<1>13. \A e \in Call : call'[e].phase = "method" => call'[e].attached \/ RolledBackDuring(e)'
  BY <1>1, <1>10 DEF KeptInv, AnswersHold
<1> QED BY <1>8, <1>11, <1>12, <1>13 DEF AnswersHold

LEMMA RollBackKeptInv ==
  ASSUME TypeInv, CallsInOrder, KeptInv, NEW c \in Call, CallRolledBack(c)
  PROVE  KeptWereMade' /\ AnswersHold'
<1>1. /\ call[c].phase = "method" /\ call[c].captures
      /\ Kept' = KeptWrites(call[c].snapshot.records)
      /\ call'[c].outcome = "rolledBack" /\ call'[c].phase # "method"
      /\ \A d \in Call \ {c} :
           /\ call'[d].phase = call[d].phase /\ call'[d].outcome = call[d].outcome
           /\ call'[d].captures = call[d].captures /\ call'[d].snapshot = call[d].snapshot
      /\ UNCHANGED <<begun, made, by, overlap>>
  BY RollBackFacts
<1>2. KeptWereMade'
  BY <1>1 DEF KeptInv, KeptWereMade
<1>3. c \in InProgress
  BY <1>1 DEF InProgress
<1>4. \A d \in Call : RolledBackDuring(d) => RolledBackDuring(d)'
  BY <1>1, RolledBackStays
<1>5. \A d \in Call : Writes(d)' = Writes(d)
  BY <1>1 DEF Writes
<1>6. \A d \in Call : <<d, c>> \in overlap => RolledBackDuring(d)'
  BY <1>1 DEF RolledBackDuring
<1>7. \A d \in Call : ~ RolledBackDuring(d)' => AsAnswered(state.records, d)'
  <2> SUFFICES ASSUME NEW d \in Call, ~ RolledBackDuring(d)' PROVE AsAnswered(state.records, d)'
    OBVIOUS
  <2>1. CASE d = c
    BY <1>1, <1>5, <2>1 DEF AsAnswered, Kept, Writes, KeptInv, KeptWereMade
  <2>2. CASE d # c
    <3>1. AsAnswered(call[c].snapshot.records, d)
      BY <1>1, <1>4, <1>6, <2>2 DEF KeptInv, AnswersHold
    <3> QED BY <1>1, <1>5, <2>2, <3>1 DEF AsAnswered, Kept
  <2> QED BY <2>1, <2>2
<1>8. \A e \in Call : (call[e].phase = "method" /\ call[e].captures)' =>
         \A d \in Call \ {e} : <<d, e>> \notin overlap' /\ ~ RolledBackDuring(d)' =>
           AsAnswered(call[e].snapshot.records, d)'
  <2> SUFFICES ASSUME NEW e \in Call, call'[e].phase = "method", call'[e].captures,
                      NEW d \in Call \ {e}, <<d, e>> \notin overlap, ~ RolledBackDuring(d)'
               PROVE  AsAnswered(call[e].snapshot.records, d)'
    BY <1>1
  <2>1. e # c /\ call[e].phase = "method" /\ call[e].captures /\ e \in InProgress
    BY <1>1 DEF InProgress
  <2>2. d # c
    BY <1>3, <2>1 DEF KeptInv, OverlapInv
  <2>3. AsAnswered(call[e].snapshot.records, d)
    BY <1>4, <2>1 DEF KeptInv, AnswersHold
  <2> QED BY <1>1, <1>5, <2>1, <2>2, <2>3 DEF AsAnswered
<1>9. \A e \in Call : call'[e].phase = "method" => call'[e].attached \/ RolledBackDuring(e)'
  <2> SUFFICES ASSUME NEW e \in Call, call'[e].phase = "method" PROVE RolledBackDuring(e)'
    OBVIOUS
  <2>1. e # c /\ e \in InProgress
    BY <1>1 DEF InProgress
  <2> QED BY <1>3, <1>6, <2>1 DEF KeptInv, OverlapInv
<1> QED BY <1>2, <1>7, <1>8, <1>9 DEF AnswersHold

LEMMA MovesKeptInv ==
  ASSUME KeptInv, NEW c \in Call, Moves(c)
  PROVE  KeptWereMade' /\ AnswersHold'
<1>1. /\ \A d \in Call : call'[d].outcome = "rolledBack" <=> call[d].outcome = "rolledBack"
      /\ \A d \in Call : call'[d].phase = "method" =>
           /\ call[d].phase = "method" /\ call'[d].captures = call[d].captures
           /\ call'[d].snapshot = call[d].snapshot
           /\ call[d].attached => call'[d].attached
      /\ Kept' = Kept /\ UNCHANGED <<begun, made, by, overlap>>
  BY DEF Moves
<1>2. \A d \in Call : (RolledBackDuring(d)' <=> RolledBackDuring(d)) /\ Writes(d)' = Writes(d)
  BY <1>1 DEF RolledBackDuring, Writes
<1>3. KeptWereMade'
  BY <1>1 DEF KeptInv, KeptWereMade
<1>4. AnswersHold'
  BY <1>1, <1>2 DEF KeptInv, AnswersHold, AsAnswered, Kept
<1> QED BY <1>3, <1>4

LEMMA NextKeptInv == TypeInv /\ CallsInOrder /\ KeptInv /\ [Next]_vars => KeptInv'
<1> SUFFICES ASSUME TypeInv, CallsInOrder, KeptInv, [Next]_vars PROVE KeptInv'
  OBVIOUS
<1>1. OverlapInv'
  BY NextOverlapInv DEF KeptInv
<1>2. ASSUME NEW c \in Call, Step(c) PROVE KeptWereMade' /\ AnswersHold'
  BY <1>2, StepMoves, MethodWritesKeptInv, RollBackKeptInv, MovesKeptInv
<1>3. ASSUME UNCHANGED vars PROVE KeptWereMade' /\ AnswersHold'
  <2>1. UNCHANGED <<state, call, begun, made, by, overlap>>
    BY <1>3 DEF vars, engineVars, historyVars
  <2>2. \A d \in Call : (RolledBackDuring(d)' <=> RolledBackDuring(d)) /\ Writes(d)' = Writes(d)
    BY <2>1 DEF RolledBackDuring, Writes
  <2> QED BY <2>1, <2>2 DEF KeptInv, KeptWereMade, AnswersHold, AsAnswered, Kept
<1>4. 1 \in Nat /\ QueueLength \subseteq Nat
  BY QueueAssumption
<1>5. ASSUME Begins PROVE KeptWereMade' /\ AnswersHold'
  BY <1>4, <1>5, BeginKeptInv DEF Begins, AsyncEngineInvoke, AsyncExecutionQueue, Kind
<1> QED BY <1>1, <1>2, <1>3, <1>5 DEF KeptInv, Next

\* A call's answer tells what became of its writes, unless a call that overlapped it was rolled
\* back (asyncEngineInvoke, asyncExecutionQueue).
THEOREM AnswersTellWhatIsKept == Spec => []KeptAsAnswered
<1>1. KeptInv => KeptAsAnswered
  BY DEF KeptInv, AnswersHold, AsAnswered, KeptAsAnswered
<1> QED BY <1>1, InitTypeInv, NextTypeInv, InitCallsInOrder, NextCallsInOrder, InitKeptInv, NextKeptInv, PTL DEF Spec

-----------------------------------------------------------------------------
(* What a step does to the buffer.                                         *)

\* A call goes on, or releases the instant.
Continues(c) ==
  /\ call'[c].phase = call[c].phase \/ call[c].phase = "releasing"
  /\ call[c].phase \in {"method", "releasing"}
  /\ call'[c].outcome = call[c].outcome
  /\ state'.notices = state.notices /\ state'.modified = state.modified
  /\ UNCHANGED deliveredBy

\* A call ends otherwise than by a rollback.
Ends(c) ==
  /\ call'[c].phase \in {"releasing", "done"}
  /\ \/ /\ call[c].phase = "notified" /\ call'[c].outcome = "announced"
        /\ state'.notices = {} /\ state'.modified = state.modified
     \/ /\ call[c].phase = "method" /\ call'[c].outcome = "unannounced"
        /\ state'.notices = {} /\ ~ state'.modified
     \/ /\ call[c].phase = "method" /\ call'[c].outcome = "delayed"
        /\ state'.notices = state.notices /\ ~ state'.modified
     \/ /\ call[c].phase = "method" /\ call'[c].outcome = "rejected"
        /\ state'.notices = state.notices /\ state'.modified = state.modified
     \/ /\ call[c].phase = "listener" /\ call'[c].outcome = "unheard"
        /\ state'.notices = state.notices /\ state'.modified = state.modified
  /\ UNCHANGED deliveredBy

\* A call that has reached a rank dispatches its next topic, or has dispatched them all.
Notifies(c, reached) ==
  /\ call'[c].outcome = call[c].outcome
  /\ state'.notices = state.notices
  /\ \/ call[c].phase = "method" /\ reached = 0 /\ ~ state'.modified
     \/ call[c].phase = "listener" /\ reached = call[c].reached /\ state'.modified = state.modified
  /\ \/ \E topic \in NextTopic(state', reached) :
          /\ call'[c].phase = "listener" /\ call'[c].reached = Rank[topic]
          /\ deliveredBy' = [w \in Write |->
               IF \E n \in GetNotices(state', topic) : n.write = w
               THEN deliveredBy[w] \cup {c} ELSE deliveredBy[w]]
     \/ NextTopic(state', reached) = {} /\ call'[c].phase = "notified" /\ UNCHANGED deliveredBy

LEMMA EndedCall ==
  ASSUME TypeInv, NEW c \in Call, NEW outcome, NEW s, End(c, s, outcome)
  PROVE  /\ call'[c].outcome = outcome /\ call'[c].phase \in {"releasing", "done"}
         /\ state' = s /\ UNCHANGED deliveredBy
<1>1. call \in [Call -> CallRecord]
  BY DEF TypeInv, TypeOK
<1>2. call'[c] = Ended(c, outcome)
  BY <1>1 DEF End
<1>3. Ended(c, outcome).outcome = outcome /\ Ended(c, outcome).phase \in {"releasing", "done"}
  BY DEF Ended, NoCall
<1>4. state' = s /\ UNCHANGED deliveredBy
  BY DEF End, historyVars
<1> QED BY <1>2, <1>3, <1>4

LEMMA DeliverNotifies ==
  ASSUME TypeInv, NEW c \in Call, NEW s \in State, NEW reached, Deliver(c, s, reached),
         s.notices = state.notices,
         \/ call[c].phase = "method" /\ reached = 0 /\ ~ s.modified
         \/ call[c].phase = "listener" /\ reached = call[c].reached /\ s.modified = state.modified
  PROVE  Notifies(c, reached)
<1>1. call \in [Call -> CallRecord] /\ call[c] \in CallRecord
  BY DEF TypeInv, TypeOK
<1>2. state' = s
  BY DEF Deliver
<1>3. CASE \E topic \in NextTopic(s, reached) :
          /\ call' = [call EXCEPT ![c].phase = "listener", ![c].reached = Rank[topic]]
          /\ deliveredBy' = [w \in Write |->
               IF \E n \in GetNotices(s, topic) : n.write = w
               THEN deliveredBy[w] \cup {c} ELSE deliveredBy[w]]
  <2>1. PICK topic \in NextTopic(s, reached) :
          /\ call' = [call EXCEPT ![c].phase = "listener", ![c].reached = Rank[topic]]
          /\ deliveredBy' = [w \in Write |->
               IF \E n \in GetNotices(s, topic) : n.write = w
               THEN deliveredBy[w] \cup {c} ELSE deliveredBy[w]]
    BY <1>3
  <2>2. /\ call'[c].phase = "listener" /\ call'[c].reached = Rank[topic]
        /\ call'[c].outcome = call[c].outcome
    BY <1>1, <2>1 DEF CallRecord
  <2> QED BY <1>2, <2>1, <2>2 DEF Notifies
<1>4. CASE /\ NextTopic(s, reached) = {} /\ call' = [call EXCEPT ![c].phase = "notified"] /\ UNCHANGED deliveredBy
  <2>1. call'[c].phase = "notified" /\ call'[c].outcome = call[c].outcome
    BY <1>1, <1>4 DEF CallRecord
  <2> QED BY <1>2, <1>4, <2>1 DEF Notifies
<1> QED BY <1>3, <1>4 DEF Deliver

\* Stamping clears the mutation flag, whatever becomes of the notices.
LEMMA StampingClears ==
  ASSUME NEW s \in State, NEW instant \in Instant
  PROVE  ~ GetMutationStatus(s, instant).modified /\ ~ KeepWrites(s, instant).modified
         /\ DeleteNotices(s).modified = s.modified
<1>1. ~ ClearMutationStatus(s).modified /\ ClearMutationStatus(s) \in State
  BY ClearMutationStatusState DEF ClearMutationStatus, State
<1>2. ~ GetMutationStatus(s, instant).modified /\ GetMutationStatus(s, instant) \in State
  BY <1>1, GetMutationStatusState DEF GetMutationStatus, State
<1> QED BY <1>2 DEF KeepWrites, DeleteNotices, State

\* The steps of a call, as they change the buffer.
LEMMA MovingBuffer ==
  ASSUME TypeInv, CallsInOrder, NEW c \in Call, Moving(c)
  PROVE  Continues(c) \/ Ends(c) \/ \E reached \in 0 .. LastRank : Notifies(c, reached)
<1>1. /\ state \in State /\ call \in [Call -> CallRecord] /\ call[c] \in CallRecord
      /\ call[c].timeStamp \in Instant /\ call[c].reached \in 0 .. LastRank /\ 0 \in 0 .. LastRank
  BY RankAssumption DEF TypeInv, TypeOK, CallRecord
<1>2. CASE DirectiveSucceeds(c)
  <2>1. call'[c] = [call[c] EXCEPT !.left = @ - 1, !.attached = TRUE]
    BY <1>1, <1>2 DEF DirectiveSucceeds
  <2> QED BY <1>1, <1>2, <2>1 DEF DirectiveSucceeds, MethodRuns, historyVars, Continues, CallRecord
<1>3. CASE CallSucceeds(c)
  BY <1>1, <1>3, GetMutationStatusState, StampingClears, DeliverNotifies DEF CallSucceeds, MethodRuns
<1>4. CASE DelayedCallSucceeds(c)
  BY <1>1, <1>4, GetMutationStatusState, StampingClears, EndedCall DEF DelayedCallSucceeds, MethodRuns, Ends
<1>5. CASE CallEndsUnannounced(c)
  BY <1>1, <1>5, KeepWritesState, StampingClears, EndedCall DEF CallEndsUnannounced, EndUnannounced, MethodRuns, Ends
<1>6. CASE CallRejected(c)
  BY <1>1, <1>6, EndedCall DEF CallRejected, MethodRuns, Ends
<1>7. CASE ListenerSettles(c)
  BY <1>1, <1>7, DeliverNotifies DEF ListenerSettles
<1>8. CASE CallNotified(c)
  BY <1>1, <1>8, DeleteNoticesState, StampingClears, EndedCall DEF CallNotified, Ends
<1>9. CASE Release(c)
  <2>1. call'[c] = [call[c] EXCEPT !.phase = "done"]
    BY <1>1, <1>9 DEF Release
  <2>2. state'.notices = state.notices /\ state'.modified = state.modified
    BY <1>1, <1>9 DEF Release, State
  <2> QED BY <1>1, <1>9, <2>1, <2>2 DEF Release, Continues, historyVars, CallRecord
<1>10. CASE ListenerRejects(c)
  BY <1>1, <1>10, EndedCall DEF ListenerRejects, Ends
<1> QED BY <1>2, <1>3, <1>4, <1>5, <1>6, <1>7, <1>8, <1>9, <1>10 DEF Moving

\* A new call captures the buffer as it is.
LEMMA BeginBuffer ==
  ASSUME TypeInv, NEW kind \in Kind, NEW captures \in BOOLEAN, NEW directives \in Nat,
         Begin(kind, captures, directives)
  PROVE  /\ state'.notices = state.notices /\ state'.modified = state.modified
         /\ call'[begun + 1].captures => call'[begun + 1].snapshot.notices = state.notices
         /\ UNCHANGED deliveredBy
<1> DEFINE snapshot == IF captures THEN CaptureOperation(state) ELSE NoSnapshot
<1>1. begun + 1 \in Call /\ call \in [Call -> CallRecord] /\ state \in State
  BY BeginFacts DEF TypeInv, TypeOK
<1>2. call'[begun + 1].captures = captures /\ call'[begun + 1].snapshot = snapshot
  BY <1>1 DEF Begin, NoCall
<1>3. captures => snapshot.notices = state.notices
  BY <1>1, CaptureOperationSnapshot
<1>4. state'.notices = state.notices /\ state'.modified = state.modified
  BY <1>1 DEF Begin, State
<1> QED BY <1>2, <1>3, <1>4 DEF Begin

\* A rollback puts back the buffer that was captured.
LEMMA RollBackBuffer ==
  ASSUME TypeInv, NEW c \in Call, CallRolledBack(c)
  PROVE  /\ state'.notices = call[c].snapshot.notices /\ ~ state'.modified
         /\ UNCHANGED deliveredBy
<1>1. state \in State /\ call[c].snapshot \in Snapshot
  BY DEF TypeInv, TypeOK, CallRecord
<1>2. state' = RestoreOperation(state, call[c].snapshot)
  BY DEF CallRolledBack, RollBack
<1>3. state'.notices = call[c].snapshot.notices
  BY <1>1, <1>2, RestoreOperationState
<1>4. \A s : ~ ClearMutationStatus(s).modified \/ ClearMutationStatus(s) \notin State
  BY DEF ClearMutationStatus, State
<1>5. state' \in State
  BY <1>1, <1>2, RestoreOperationState
<1>6. ~ state'.modified
  BY <1>2, <1>4, <1>5 DEF RestoreOperation
<1> QED BY <1>3, <1>6 DEF CallRolledBack, RollBack, historyVars

\* A write adds its notice.
LEMMA MethodWritesBuffer ==
  ASSUME TypeInv, NEW c \in Call, NEW t \in Tournament, NEW topic \in Topic, MethodWrites(c, t, topic)
  PROVE  /\ state'.notices = state.notices \cup {[topic |-> topic, key |-> NoKey, write |-> made + 1]}
         /\ UNCHANGED deliveredBy
<1> DEFINE w == made + 1
           written == IF call[c].attached THEN WriteRecord(state, t, w) ELSE state
           notice == [topic |-> topic, key |-> NoKey, write |-> w]
<1>1. w \in Write /\ state \in State
  BY MethodWritesFacts DEF TypeInv, TypeOK
<1>2. written \in State /\ written.notices = state.notices
  BY <1>1, WriteRecordState
<1>3. state' = AddNotice(written, notice, t)
  BY DEF MethodWrites
<1> HIDE DEF written, w
<1>4. Superseded(written, notice.topic, notice.key) = {}
  BY DEF Superseded
<1>5. MarkModified(written, t) \in State /\ MarkModified(written, t).notices = written.notices
  BY <1>2, MarkModifiedState
<1>6. Superseded(MarkModified(written, t), notice.topic, notice.key) = {}
  BY DEF Superseded
<1>7. AddNotice(written, notice, t).notices = written.notices \cup {notice}
  BY <1>4, <1>5, <1>6 DEF AddNotice, State
<1> QED BY <1>2, <1>3, <1>7 DEF MethodWrites, w

-----------------------------------------------------------------------------
(* What is left in the buffer.                                             *)

\* Notices announce writes that were made, and a snapshot holds none of its own call's.
NoticesWereMade ==
  /\ \A n \in state.notices : n.write \in Write /\ by[n.write] \in Call
  /\ \A c \in Call : call[c].phase = "method" /\ call[c].captures =>
       \A n \in call[c].snapshot.notices : n.write \in Write /\ by[n.write] \in Call \ {c}

\* A call that has no answer yet.
Unanswered(d) == call[d].phase \in {"method", "listener", "notified"}

Left(d) == call[d].outcome \in {"delayed", "rejected", "unheard"} \/ RolledBackDuring(d)

\* Every notice in the buffer is of a call that goes on or whose answer lets it be there, and
\* every notice in a snapshot of such a call or one that overlapped the snapshot's.
LeftoversInv ==
  /\ \A n \in state.notices : Unanswered(by[n.write]) \/ Left(by[n.write])
  /\ \A c \in Call : call[c].phase = "method" /\ call[c].captures =>
       \A n \in call[c].snapshot.notices : <<by[n.write], c>> \in overlap \/ Left(by[n.write])
  /\ state.modified => \E c \in Call : call[c].outcome = "rejected" \/ call[c].phase = "method"

BufferInv == NoticesWereMade /\ LeftoversInv

LEMMA InitBufferInv == Init => BufferInv
<1> SUFFICES ASSUME Init PROVE BufferInv
  OBVIOUS
<1>1. \A c \in Call : call[c].phase = "none"
  BY DEF Init, NoCall
<1>2. PICK ids \in SUBSET Tournament \ {{}} : state = SetState(FreshState, ids)
  BY DEF Init
<1>3. state.notices = {}
  BY <1>2, FreshStateType, SetStateState DEF FreshState
<1>4. ~ state.modified
  BY <1>2 DEF SetState, SetTournamentRecords, SetTournamentId, FreshState
<1> QED BY <1>1, <1>3, <1>4 DEF BufferInv, NoticesWereMade, LeftoversInv

LEMMA BeginBufferInv ==
  ASSUME TypeInv, CallsInOrder, KeptInv, BufferInv,
         NEW kind \in Kind, NEW captures \in BOOLEAN, NEW directives \in Nat, Begin(kind, captures, directives)
  PROVE  BufferInv'
<1> DEFINE c == begun + 1
<1>1. /\ c \in Call /\ begun \in Nat
      /\ \A d \in Call \ {c} : call'[d] = call[d]
      /\ call'[c].phase = "method" /\ call'[c].outcome = "none"
      /\ call'[c].captures => call'[c].snapshot.notices = state.notices
      /\ UNCHANGED by
      /\ overlap' = overlap \cup (InProgress \X {c}) \cup ({c} \X InProgress)
      /\ state'.notices = state.notices
  BY BeginFacts, BeginBuffer DEF TypeInv, TypeOK
<1>2. call[c].phase = "none" /\ call[c].outcome = "none"
  BY <1>1 DEF CallsInOrder
<1> HIDE DEF c
<1>3. ~ Unanswered(c)
  BY <1>2 DEF Unanswered
<1>4. \A d \in Call : RolledBackDuring(d) => RolledBackDuring(d)'
  BY <1>1, <1>2, RolledBackStays
<1>5. \A d \in Call : (Unanswered(d) => Unanswered(d)') /\ (Left(d) => Left(d)')
  BY <1>1, <1>2, <1>3, <1>4 DEF Unanswered, Left
<1>6. \A n \in state.notices : n.write \in Write /\ by[n.write] \in Call
                              /\ (Unanswered(by[n.write]) \/ Left(by[n.write]))
  BY DEF BufferInv, NoticesWereMade, LeftoversInv
<1>7. \A w \in Write : by[w] # begun + 1
  <2>1. \A w \in Write : by[w] <= begun /\ by[w] \in Nat
    BY BoundAssumption DEF KeptInv, KeptWereMade, TypeInv, TypeOK
  <2> QED BY <1>1, <2>1
<1>8. NoticesWereMade'
  BY <1>1, <1>6, <1>7 DEF BufferInv, NoticesWereMade, c
<1>9. \A n \in state'.notices :
        (Unanswered(by[n.write]) \/ Left(by[n.write]))'
  BY <1>1, <1>5, <1>6
<1>10. \A e \in Call : (call[e].phase = "method" /\ call[e].captures)' =>
        \A n \in call'[e].snapshot.notices : (<<by[n.write], e>> \in overlap \/ Left(by[n.write]))'
  <2> SUFFICES ASSUME NEW e \in Call, call'[e].phase = "method", call'[e].captures,
                      NEW n \in call'[e].snapshot.notices
               PROVE  (<<by[n.write], e>> \in overlap \/ Left(by[n.write]))'
    OBVIOUS
  <2>1. CASE e = c
    <3>1. n \in state.notices
      BY <1>1, <2>1
    <3>2. PICK d \in Call : d = by[n.write] /\ by' = by /\ (Unanswered(d) \/ Left(d))
      BY <1>1, <1>6, <3>1
    <3>3. Unanswered(d) => <<d, c>> \in overlap'
      BY <1>1 DEF Unanswered, InProgress
    <3>4. <<d, e>> \in overlap' \/ Left(d)'
      BY <1>5, <2>1, <3>2, <3>3
    <3> QED BY <3>2, <3>4 DEF Left, RolledBackDuring
  <2>2. CASE e # c
    <3>1. call[e].phase = "method" /\ call[e].captures /\ n \in call[e].snapshot.notices
      BY <1>1, <2>2
    <3>2. PICK d \in Call : d = by[n.write] /\ by' = by /\ (<<d, e>> \in overlap \/ Left(d))
      BY <1>1, <3>1 DEF BufferInv, NoticesWereMade, LeftoversInv
    <3>3. <<d, e>> \in overlap' \/ Left(d)'
      BY <1>1, <1>5, <3>2
    <3> QED BY <3>2, <3>3 DEF Left, RolledBackDuring
  <2> QED BY <2>1, <2>2
<1>11. LeftoversInv'
  BY <1>1, <1>9, <1>10 DEF LeftoversInv
<1> QED BY <1>8, <1>11 DEF BufferInv

LEMMA MethodWritesBufferInv ==
  ASSUME TypeInv, CallsInOrder, KeptInv, BufferInv,
         NEW c \in Call, NEW t \in Tournament, NEW topic \in Topic, MethodWrites(c, t, topic)
  PROVE  BufferInv'
<1> DEFINE w == made + 1
           notice == [topic |-> topic, key |-> NoKey, write |-> w]
<1>1. /\ w \in Write /\ call[c].phase = "method" /\ by' = [by EXCEPT ![w] = c]
      /\ state'.notices = state.notices \cup {notice}
      /\ notice.write = w
      /\ UNCHANGED <<call, begun, overlap>>
  BY MethodWritesFacts, MethodWritesBuffer
<1>2. by \in [Write -> 0 .. MaxCalls] /\ by[w] \notin Call
  <2>1. by[w] = 0
    BY <1>1, MethodWritesFacts DEF KeptInv, KeptWereMade
  <2> QED BY <2>1 DEF TypeInv, TypeOK, Call
<1>3. Unanswered(c)
  BY <1>1 DEF Unanswered
<1> HIDE DEF w, notice
<1>4. \A v \in Write : by'[v] = IF v = w THEN c ELSE by[v]
  BY <1>1, <1>2
<1>5. \A d \in Call : (Unanswered(d) <=> Unanswered(d)') /\ (Left(d) <=> Left(d)')
  BY <1>1 DEF Unanswered, Left, RolledBackDuring
<1>6. \A n \in state.notices : n.write \in Write /\ n.write # w /\ by'[n.write] = by[n.write] /\ by[n.write] \in Call
  BY <1>2, <1>4 DEF BufferInv, NoticesWereMade
<1>7. \A e \in Call : call[e].phase = "method" /\ call[e].captures =>
        \A n \in call[e].snapshot.notices : n.write \in Write /\ by'[n.write] = by[n.write] /\ by[n.write] \in Call \ {e}
  BY <1>2, <1>4 DEF BufferInv, NoticesWereMade
<1>8. NoticesWereMade'
  BY <1>1, <1>4, <1>6, <1>7 DEF NoticesWereMade
<1>9. \A n \in state'.notices :
        (Unanswered(by[n.write]) \/ Left(by[n.write]))'
  <2>1. CASE state'.notices = state.notices \cup {notice}
    <3>1. Unanswered(c)'
      BY <1>1, <1>3 DEF Unanswered
    <3>2. by'[notice.write] = c
      BY <1>1, <1>4
    <3>3. \A n \in state.notices : (Unanswered(by[n.write]) \/ Left(by[n.write]))'
      BY <1>5, <1>6 DEF BufferInv, LeftoversInv
    <3> QED BY <2>1, <3>1, <3>2, <3>3
  <2> QED BY <1>1, <2>1
<1>10. \A e \in Call : (call[e].phase = "method" /\ call[e].captures)' =>
        \A n \in call'[e].snapshot.notices : (<<by[n.write], e>> \in overlap \/ Left(by[n.write]))'
  <2> SUFFICES ASSUME NEW e \in Call, call'[e].phase = "method", call'[e].captures,
                      NEW n \in call'[e].snapshot.notices
               PROVE  (<<by[n.write], e>> \in overlap \/ Left(by[n.write]))'
    OBVIOUS
  <2>1. /\ call[e].phase = "method" /\ call[e].captures /\ n \in call[e].snapshot.notices
        /\ overlap' = overlap
    BY <1>1
  <2>2. /\ by'[n.write] = by[n.write] /\ by[n.write] \in Call
        /\ <<by[n.write], e>> \in overlap \/ Left(by[n.write])
    BY <1>7, <2>1 DEF BufferInv, LeftoversInv
  <2>3. Left(by[n.write]) => Left(by[n.write])'
    BY <1>5, <2>2
  <2> QED BY <2>1, <2>2, <2>3
<1>11. LeftoversInv'
  BY <1>1, <1>9, <1>10 DEF LeftoversInv
<1> QED BY <1>8, <1>11 DEF BufferInv

LEMMA RollBackBufferInv ==
  ASSUME TypeInv, CallsInOrder, KeptInv, BufferInv, NEW c \in Call, CallRolledBack(c)
  PROVE  BufferInv'
<1>1. /\ call[c].phase = "method" /\ call[c].captures
      /\ state'.notices = call[c].snapshot.notices /\ ~ state'.modified
      /\ call'[c].outcome = "rolledBack" /\ call'[c].phase # "method"
      /\ \A d \in Call \ {c} :
           /\ call'[d].phase = call[d].phase /\ call'[d].outcome = call[d].outcome
           /\ call'[d].captures = call[d].captures /\ call'[d].snapshot = call[d].snapshot
      /\ UNCHANGED <<by, overlap>>
  BY RollBackFacts, RollBackBuffer
<1>2. \A d \in Call : RolledBackDuring(d) => RolledBackDuring(d)'
  BY <1>1, RolledBackStays
<1>3. call[c].outcome = "none"
  BY <1>1 DEF CallsInOrder
<1>4. \A d \in Call : /\ Left(d) => Left(d)'
                      /\ <<d, c>> \in overlap => Left(d)'
  BY <1>1, <1>2, <1>3 DEF Left, RolledBackDuring
<1>5. NoticesWereMade'
  BY <1>1 DEF BufferInv, NoticesWereMade
<1>6. \A n \in state'.notices : Left(by[n.write])'
  <2> SUFFICES ASSUME NEW n \in state'.notices
               PROVE  Left(by[n.write])'
    OBVIOUS
  <2>1. PICK d \in Call : d = by[n.write] /\ by' = by /\ (<<d, c>> \in overlap \/ Left(d))
    BY <1>1 DEF BufferInv, NoticesWereMade, LeftoversInv
  <2>2. Left(d)'
    BY <1>4, <2>1
  <2> QED BY <2>1, <2>2 DEF Left, RolledBackDuring
<1>7. \A e \in Call : (call[e].phase = "method" /\ call[e].captures)' =>
        \A n \in call'[e].snapshot.notices : (<<by[n.write], e>> \in overlap \/ Left(by[n.write]))'
  <2> SUFFICES ASSUME NEW e \in Call, call'[e].phase = "method", call'[e].captures,
                      NEW n \in call'[e].snapshot.notices
               PROVE  (<<by[n.write], e>> \in overlap \/ Left(by[n.write]))'
    OBVIOUS
  <2>1. /\ call[e].phase = "method" /\ call[e].captures /\ n \in call[e].snapshot.notices
        /\ UNCHANGED <<by, overlap>>
    BY <1>1
  <2>2. PICK d \in Call : d = by[n.write] /\ (<<d, e>> \in overlap \/ Left(d))
    BY <2>1 DEF BufferInv, NoticesWereMade, LeftoversInv
  <2>3. <<d, e>> \in overlap' \/ Left(d)'
    BY <1>4, <2>1, <2>2
  <2> QED BY <2>1, <2>2, <2>3 DEF Left, RolledBackDuring
<1>8. LeftoversInv'
  BY <1>1, <1>6, <1>7 DEF LeftoversInv
<1> QED BY <1>5, <1>8 DEF BufferInv

LEMMA MovesBufferInv ==
  ASSUME TypeInv, CallsInOrder, BufferInv, NEW c \in Call, Moves(c),
         Continues(c) \/ Ends(c) \/ \E reached \in 0 .. LastRank : Notifies(c, reached)
  PROVE  BufferInv'
<1>1. /\ \A d \in Call \ {c} : call'[d] = call[d]
      /\ call'[c].phase = "method" =>
           /\ call[c].phase = "method" /\ call'[c].captures = call[c].captures
           /\ call'[c].snapshot = call[c].snapshot
      /\ call'[c].outcome = "rolledBack" <=> call[c].outcome = "rolledBack"
      /\ call'[c].outcome # call[c].outcome => call[c].outcome = "none"
      /\ UNCHANGED <<by, overlap>>
  BY DEF Moves
<1>2. \A d \in Call : (RolledBackDuring(d) <=> RolledBackDuring(d)') /\ (Left(d) => Left(d)')
  BY <1>1 DEF RolledBackDuring, Left
<1>3. state'.notices = state.notices \/ state'.notices = {}
  BY DEF Continues, Ends, Notifies
<1>4. NoticesWereMade'
  BY <1>1, <1>3 DEF BufferInv, NoticesWereMade
<1>5. \A e \in Call : (call[e].phase = "method" /\ call[e].captures)' =>
        \A n \in call'[e].snapshot.notices : (<<by[n.write], e>> \in overlap \/ Left(by[n.write]))'
  BY <1>1, <1>2 DEF BufferInv, NoticesWereMade, LeftoversInv
<1>6. \A d \in Call \ {c} : Unanswered(d) <=> Unanswered(d)'
  BY <1>1 DEF Unanswered
<1>7. state'.notices # {} /\ Unanswered(c) => Unanswered(c)' \/ Left(c)'
  BY DEF Continues, Ends, Notifies, Unanswered, Left
<1>8. \A n \in state'.notices :
        (Unanswered(by[n.write]) \/ Left(by[n.write]))'
  <2> SUFFICES ASSUME NEW n \in state'.notices
               PROVE  (Unanswered(by[n.write]) \/ Left(by[n.write]))'
    OBVIOUS
  <2>1. /\ n \in state.notices /\ by[n.write] \in Call /\ by' = by
        /\ Unanswered(by[n.write]) \/ Left(by[n.write])
    BY <1>1, <1>3 DEF BufferInv, NoticesWereMade, LeftoversInv
  <2> QED BY <1>2, <1>6, <1>7, <2>1
<1>9. state'.modified => \E d \in Call : call'[d].outcome = "rejected" \/ call'[d].phase = "method"
  <2>1. ASSUME state'.modified, state'.modified = state.modified
        PROVE  \E d \in Call : call'[d].outcome = "rejected" \/ call'[d].phase = "method"
    <3>1. PICK d \in Call : call[d].outcome = "rejected" \/ call[d].phase = "method"
      BY <2>1 DEF BufferInv, LeftoversInv
    <3>2. CASE d # c
      BY <1>1, <3>1, <3>2
    <3>3. CASE d = c
      BY <1>1, <2>1, <3>1, <3>3 DEF Continues, Ends, Notifies
    <3> QED BY <3>2, <3>3
  <2> QED BY <2>1 DEF Continues, Ends, Notifies
<1>10. LeftoversInv'
  BY <1>5, <1>8, <1>9 DEF LeftoversInv
<1> QED BY <1>4, <1>10 DEF BufferInv

LEMMA NextBufferInv == TypeInv /\ CallsInOrder /\ KeptInv /\ BufferInv /\ [Next]_vars => BufferInv'
<1> SUFFICES ASSUME TypeInv, CallsInOrder, KeptInv, BufferInv, [Next]_vars PROVE BufferInv'
  OBVIOUS
<1>1. ASSUME NEW c \in Call, Step(c) PROVE BufferInv'
  <2>1. CASE \E t \in Tournament, topic \in Topic : MethodWrites(c, t, topic)
    BY <2>1, MethodWritesBufferInv
  <2>2. CASE CallRolledBack(c)
    BY <2>2, RollBackBufferInv
  <2>3. CASE Moving(c)
    BY <2>3, MovingMoves, MovingBuffer, MovesBufferInv
  <2> QED BY <1>1, <2>1, <2>2, <2>3 DEF Step, Moving
<1>2. ASSUME UNCHANGED vars PROVE BufferInv'
  <2>1. UNCHANGED <<state, call, by, overlap>>
    BY <1>2 DEF vars, engineVars, historyVars
  <2>2. NoticesWereMade'
    BY <2>1 DEF BufferInv, NoticesWereMade
  <2>3. LeftoversInv'
    BY <2>1 DEF BufferInv, LeftoversInv, Unanswered, Left, RolledBackDuring
  <2> QED BY <2>2, <2>3 DEF BufferInv
<1>3. 1 \in Nat /\ QueueLength \subseteq Nat
  BY QueueAssumption
<1>4. ASSUME Begins PROVE BufferInv'
  BY <1>3, <1>4, BeginBufferInv DEF Begins, AsyncEngineInvoke, AsyncExecutionQueue, Kind
<1> QED BY <1>1, <1>2, <1>4 DEF Next

\* When no call is in progress, what is left in the buffer and the mark are explained by the
\* answers that were given (asyncEngineInvoke, asyncExecutionQueue).
THEOREM LeftoversAreAccountedFor == Spec => []LeftoversAreExplained
<1>1. BufferInv => LeftoversAreExplained
  <2> SUFFICES ASSUME BufferInv, InProgress = {} PROVE LeftoversAreExplained
    BY DEF LeftoversAreExplained
  <2>1. \A c \in Call : ~ Unanswered(c) /\ call[c].phase # "method"
    BY DEF InProgress, Unanswered
  <2> QED BY <2>1 DEF BufferInv, NoticesWereMade, LeftoversInv, LeftoversAreExplained, Left
<1> QED BY <1>1, InitTypeInv, NextTypeInv, InitCallsInOrder, NextCallsInOrder, InitKeptInv, NextKeptInv,
           InitBufferInv, NextBufferInv, PTL DEF Spec

-----------------------------------------------------------------------------
(* Who delivered the notices.                                              *)

Announced(notices, w) == \E n \in notices : n.write = w

\* How far the call d, which no other overlaps, has come with the notice of its write w.
Pending(d, w) ==
  /\ call[d].phase = "method" => deliveredBy[w] = {} /\ Announced(state.notices, w)
  /\ call[d].phase = "listener" =>
       /\ deliveredBy[w] \subseteq {d}
       /\ \E n \in state.notices :
            n.write = w /\ (Rank[n.topic] <= call[d].reached => d \in deliveredBy[w])
  /\ call[d].phase = "notified" => deliveredBy[w] = {d}

\* What was answered of the write w stays so: no buffer, present or captured, still announces it.
Final(d, w) ==
  call[d].outcome \in {"announced", "unannounced", "rolledBack"} =>
    /\ deliveredBy[w] = IF call[d].outcome = "announced" THEN {d} ELSE {}
    /\ ~ Announced(state.notices, w)
    /\ \A e \in Call : call[e].phase = "method" /\ call[e].captures =>
         ~ Announced(call[e].snapshot.notices, w)

DeliveryInv ==
  /\ \A w \in Write : by[w] = 0 => deliveredBy[w] = {}
  /\ \A d \in Call : Alone(d) => \A w \in Writes(d) : Pending(d, w) /\ Final(d, w)

\* When the loop finds no further topic, all the notices were reached.
LEMMA AllReached ==
  ASSUME NEW s \in State, NEW reached \in Nat, NextTopic(s, reached) = {}, NEW n \in s.notices
  PROVE  Rank[n.topic] <= reached
<1> DEFINE Waiting == {topic \in Topic : Rank[topic] > reached /\ GetNotices(s, topic) # {}}
           Ranks == {Rank[topic] : topic \in Waiting}
<1>1. n.topic \in Topic /\ n \in GetNotices(s, n.topic)
  BY DEF State, Notice, GetNotices
<1>2. Rank \in [Topic -> Nat] /\ Ranks \subseteq Nat
  BY RankAssumption
<1>3. Rank[n.topic] \in Nat
  BY <1>1, <1>2
<1> SUFFICES ASSUME Rank[n.topic] > reached PROVE FALSE
  BY <1>3
<1>4. n.topic \in Waiting /\ Ranks # {}
  BY <1>1
<1>5. IsWellFoundedOn(OpToRel(<, Nat), Nat)
  BY NatLessThanWellFounded
<1>6. PICK least \in Ranks : \A r \in Ranks : ~ (<<r, least>> \in OpToRel(<, Nat))
  BY <1>2, <1>4, <1>5, WFMin
<1>7. \A r \in Ranks : ~ (r < least)
  BY <1>2, <1>6 DEF OpToRel
<1>8. PICK topic \in Waiting : least = Rank[topic]
  OBVIOUS
<1>9. ASSUME NEW other \in Topic, Rank[other] > reached, GetNotices(s, other) # {}
      PROVE  Rank[topic] <= Rank[other]
  <2>1. Rank[other] \in Ranks
    BY <1>9
  <2> QED BY <1>2, <1>7, <1>8, <2>1
<1>10. topic \in NextTopic(s, reached)
  BY <1>8, <1>9 DEF NextTopic
<1> QED BY <1>10

\* A call that no other overlaps is the only one in progress.
LEMMA AloneInProgress ==
  ASSUME OverlapInv, NEW c \in InProgress, NEW d \in InProgress, Alone(d)
  PROVE  c = d
BY DEF OverlapInv, Alone, InProgress

\* What was answered before a step of the call c stands.
LEMMA FinalStands ==
  ASSUME OverlapInv, DeliveryInv, NEW c \in InProgress, NEW d \in Call \ {c}, Alone(d), NEW w \in Writes(d),
         call'[d].phase = call[d].phase, call'[d].outcome = call[d].outcome,
         Final(d, w) /\ ~ Announced(state.notices, w) => deliveredBy'[w] = deliveredBy[w],
         \A n \in state'.notices : n.write = w =>
           \/ n \in state.notices
           \/ \E e \in Call : call[e].phase = "method" /\ call[e].captures /\ n \in call[e].snapshot.notices,
         \A e \in Call : call'[e].phase = "method" /\ call'[e].captures =>
           call[e].phase = "method" /\ call[e].captures /\ call'[e].snapshot = call[e].snapshot
  PROVE  Pending(d, w)' /\ Final(d, w)'
<1>1. d \notin InProgress
  BY AloneInProgress
<1>2. Pending(d, w)'
  BY <1>1 DEF InProgress, Pending
<1>3. Final(d, w)
  BY DEF DeliveryInv
<1>4. Final(d, w)'
  BY <1>3 DEF Final, Announced
<1> QED BY <1>2, <1>4

LEMMA InitDeliveryInv == Init => DeliveryInv
BY BoundAssumption DEF Init, DeliveryInv, Writes, Call

LEMMA BeginDeliveryInv ==
  ASSUME TypeInv, CallsInOrder, OverlapInv, KeptInv, DeliveryInv,
         NEW kind \in Kind, NEW captures \in BOOLEAN, NEW directives \in Nat, Begin(kind, captures, directives)
  PROVE  DeliveryInv'
<1> DEFINE c == begun + 1
<1>1. /\ c \in Call /\ begun \in Nat
      /\ \A d \in Call \ {c} : call'[d] = call[d]
      /\ call'[c].phase = "method"
      /\ call'[c].captures => call'[c].snapshot.notices = state.notices
      /\ overlap' = overlap \cup (InProgress \X {c}) \cup ({c} \X InProgress)
      /\ state'.notices = state.notices
      /\ UNCHANGED <<by, deliveredBy>>
  BY BeginFacts, BeginBuffer DEF TypeInv, TypeOK
<1>2. \A w \in Write : by[w] # c
  <2>1. \A w \in Write : by[w] <= begun /\ by[w] \in Nat
    BY BoundAssumption DEF KeptInv, KeptWereMade, TypeInv, TypeOK
  <2> QED BY <1>1, <2>1
<1> HIDE DEF c
<1>3. ASSUME NEW d \in Call, Alone(d)', NEW w \in Write, by'[w] = d
      PROVE  Pending(d, w)' /\ Final(d, w)'
  <2>1. d # c /\ call'[d] = call[d] /\ w \in Writes(d)
    BY <1>1, <1>2, <1>3 DEF Writes
  <2>2. Alone(d) /\ d \notin InProgress
    BY <1>1, <1>3 DEF Alone
  <2>3. Pending(d, w)'
    BY <2>1, <2>2 DEF InProgress, Pending
  <2>4. Final(d, w)
    BY <2>1, <2>2 DEF DeliveryInv
  <2>5. Final(d, w)'
    BY <1>1, <2>1, <2>4 DEF Final, Announced
  <2> QED BY <2>3, <2>5
<1> QED BY <1>1, <1>3 DEF DeliveryInv, Writes

LEMMA MethodWritesDeliveryInv ==
  ASSUME TypeInv, CallsInOrder, OverlapInv, KeptInv, NoticesWereMade, DeliveryInv,
         NEW c \in Call, NEW t \in Tournament, NEW topic \in Topic, MethodWrites(c, t, topic)
  PROVE  DeliveryInv'
<1> DEFINE w == made + 1
           notice == [topic |-> topic, key |-> NoKey, write |-> w]
<1>1. /\ w \in Write /\ call[c].phase = "method" /\ by' = [by EXCEPT ![w] = c]
      /\ state'.notices = state.notices \cup {notice}
      /\ notice.write = w
      /\ UNCHANGED <<call, overlap, deliveredBy>>
  BY MethodWritesFacts, MethodWritesBuffer
<1>2. by \in [Write -> 0 .. MaxCalls] /\ by[w] = 0 /\ c # 0
  BY <1>1, MethodWritesFacts DEF KeptInv, KeptWereMade, TypeInv, TypeOK, Call
<1>3. call[c].outcome = "none" /\ c \in InProgress
  BY <1>1 DEF CallsInOrder, InProgress
<1> HIDE DEF w, notice
<1>4. \A v \in Write : by'[v] = IF v = w THEN c ELSE by[v]
  BY <1>1, <1>2
<1>5. \A v \in Write : by'[v] = 0 => deliveredBy'[v] = {}
  BY <1>1, <1>2, <1>4 DEF DeliveryInv
<1>6. ASSUME NEW d \in Call, Alone(d)', NEW v \in Write, by'[v] = d
      PROVE  Pending(d, v)' /\ Final(d, v)'
  <2>1. Alone(d)
    BY <1>1, <1>6 DEF Alone
  <2>2. CASE v = w
    <3>1. d = c /\ deliveredBy'[v] = {}
      BY <1>1, <1>2, <1>4, <1>6, <2>2 DEF DeliveryInv
    <3>2. Announced(state.notices, v)'
      BY <1>1, <2>2 DEF Announced
    <3> QED BY <1>1, <1>3, <3>1, <3>2 DEF Pending, Final
  <2>3. CASE v # w /\ d = c
    <3>1. v \in Writes(c) /\ Pending(c, v)
      BY <1>4, <1>6, <2>1, <2>3 DEF Writes, DeliveryInv
    <3>2. Pending(c, v)'
      BY <1>1, <3>1 DEF Pending, Announced
    <3> QED BY <1>1, <1>3, <2>3, <3>2 DEF Final
  <2>4. CASE v # w /\ d # c
    <3>1. v \in Writes(d) /\ d \in Call \ {c}
      BY <1>4, <1>6, <2>4 DEF Writes
    <3>2. \A n \in state'.notices : n.write = v => n \in state.notices
      BY <1>1, <2>4
    <3> QED BY <1>1, <1>3, <2>1, <3>1, <3>2, FinalStands
  <2> QED BY <2>2, <2>3, <2>4
<1> QED BY <1>5, <1>6 DEF DeliveryInv, Writes

LEMMA RollBackDeliveryInv ==
  ASSUME TypeInv, OverlapInv, NoticesWereMade, DeliveryInv, NEW c \in Call, CallRolledBack(c)
  PROVE  DeliveryInv'
<1>1. /\ call[c].phase = "method" /\ call[c].captures
      /\ state'.notices = call[c].snapshot.notices
      /\ call'[c].outcome = "rolledBack" /\ call'[c].phase \in {"releasing", "done"}
      /\ \A d \in Call \ {c} :
           /\ call'[d].phase = call[d].phase /\ call'[d].outcome = call[d].outcome
           /\ call'[d].captures = call[d].captures /\ call'[d].snapshot = call[d].snapshot
      /\ UNCHANGED <<by, overlap, deliveredBy>>
  BY RollBackFacts, RollBackBuffer
<1>2. c \in InProgress
  BY <1>1 DEF InProgress
<1>3. ASSUME NEW d \in Call, Alone(d)', NEW w \in Write, by'[w] = d
      PROVE  Pending(d, w)' /\ Final(d, w)'
  <2>1. Alone(d) /\ w \in Writes(d) /\ by[w] = d
    BY <1>1, <1>3 DEF Alone, Writes
  <2>2. CASE d = c
    <3>1. deliveredBy'[w] = {}
      BY <1>1, <2>1, <2>2 DEF DeliveryInv, Pending
    <3>2. ~ Announced(state.notices, w)'
      BY <1>1, <2>1, <2>2 DEF NoticesWereMade, Announced
    <3>3. \A e \in Call : call'[e].phase # "method"
      <4>1. \A e \in Call \ {c} : e \notin InProgress
        BY <1>2, <2>1, <2>2, AloneInProgress
      <4> QED BY <1>1, <4>1 DEF InProgress
    <3> QED BY <1>1, <2>2, <3>1, <3>2, <3>3 DEF Pending, Final
  <2>3. CASE d # c
    BY <1>1, <1>2, <2>1, <2>3, FinalStands
  <2> QED BY <2>2, <2>3
<1> QED BY <1>1, <1>3 DEF DeliveryInv, Writes

\* The dispatch of a topic brings the call that no other overlaps one rank further.
LEMMA NotifiesPending ==
  ASSUME TypeInv, CallsInOrder, DeliveryInv, NEW c \in Call, Alone(c), NEW w \in Writes(c),
         state' \in State, NEW reached \in 0 .. LastRank, Notifies(c, reached)
  PROVE  Pending(c, w)'
<1>1. Pending(c, w) /\ w \in Write /\ LastRank \in Nat /\ reached \in Nat
  BY RankAssumption DEF DeliveryInv, Writes
<1>2. \A n \in state'.notices : n.topic \in Topic /\ Rank[n.topic] \in Nat /\ Rank[n.topic] > 0
  BY RankAssumption DEF State, Notice
<1>3. /\ deliveredBy[w] \subseteq {c}
      /\ \E n \in state'.notices : n.write = w /\ (Rank[n.topic] <= reached => c \in deliveredBy[w])
  BY <1>1, <1>2 DEF Notifies, Pending, Announced
<1>4. PICK n \in state'.notices : n.write = w /\ (Rank[n.topic] <= reached => c \in deliveredBy[w])
  BY <1>3
<1>5. CASE \E topic \in NextTopic(state', reached) :
          /\ call'[c].phase = "listener" /\ call'[c].reached = Rank[topic]
          /\ deliveredBy' = [v \in Write |->
               IF \E m \in GetNotices(state', topic) : m.write = v
               THEN deliveredBy[v] \cup {c} ELSE deliveredBy[v]]
  <2>1. PICK topic \in NextTopic(state', reached) :
          /\ call'[c].phase = "listener" /\ call'[c].reached = Rank[topic]
          /\ deliveredBy' = [v \in Write |->
               IF \E m \in GetNotices(state', topic) : m.write = v
               THEN deliveredBy[v] \cup {c} ELSE deliveredBy[v]]
    BY <1>5
  <2>2. deliveredBy'[w] = IF \E m \in GetNotices(state', topic) : m.write = w
                          THEN deliveredBy[w] \cup {c} ELSE deliveredBy[w]
    BY <1>1, <2>1
  <2>3. deliveredBy'[w] \subseteq {c} /\ deliveredBy[w] \subseteq deliveredBy'[w]
    BY <1>3, <2>2
  <2>4. ASSUME Rank[n.topic] <= Rank[topic], Rank[n.topic] > reached PROVE c \in deliveredBy'[w]
    <3>1. n \in GetNotices(state', n.topic)
      BY DEF GetNotices
    <3>2. Rank[topic] <= Rank[n.topic] /\ topic \in Topic
      BY <1>2, <2>4, <3>1 DEF NextTopic
    <3>3. Rank[topic] \in Nat
      BY <3>2, RankAssumption
    <3>4. n.topic = topic
      BY <1>2, <2>4, <3>2, <3>3, RankAssumption
    <3> QED BY <1>4, <2>2, <3>1, <3>4
  <2>5. Rank[n.topic] <= Rank[topic] => c \in deliveredBy'[w]
    BY <1>1, <1>2, <1>4, <2>3, <2>4
  <2> QED BY <1>4, <2>1, <2>3, <2>5 DEF Pending
<1>6. CASE NextTopic(state', reached) = {} /\ call'[c].phase = "notified" /\ UNCHANGED deliveredBy
  <2>1. Rank[n.topic] <= reached
    BY <1>1, <1>6, AllReached
  <2> QED BY <1>3, <1>4, <1>6, <2>1 DEF Pending
<1> QED BY <1>5, <1>6 DEF Notifies

LEMMA MovesDeliveryInv ==
  ASSUME TypeInv, TypeInv', CallsInOrder, OverlapInv, NoticesWereMade, DeliveryInv,
         NEW c \in Call, Moves(c),
         Continues(c) \/ Ends(c) \/ \E reached \in 0 .. LastRank : Notifies(c, reached)
  PROVE  DeliveryInv'
<1>1. /\ c \in InProgress
      /\ \A d \in Call \ {c} : call'[d] = call[d]
      /\ call'[c].phase = "method" =>
           /\ call[c].phase = "method" /\ call'[c].captures = call[c].captures
           /\ call'[c].snapshot = call[c].snapshot
      /\ UNCHANGED <<by, overlap>>
  BY DEF Moves
<1>2. state'.notices = state.notices \/ state'.notices = {}
  BY DEF Continues, Ends, Notifies
<1>3. \A v \in Write : deliveredBy'[v] # deliveredBy[v] => Announced(state.notices, v)
  BY DEF Continues, Ends, Notifies, GetNotices, Announced
<1>4. state' \in State
  BY DEF TypeInv, TypeOK
<1>5. \A v \in Write : by'[v] = 0 => deliveredBy'[v] = {}
  <2>1. \A v \in Write : Announced(state.notices, v) => by[v] \in Call
    BY DEF NoticesWereMade, Announced
  <2> QED BY <1>1, <1>3, <2>1 DEF DeliveryInv, Call
<1>6. ASSUME NEW d \in Call, Alone(d)', NEW v \in Write, by'[v] = d
      PROVE  Pending(d, v)' /\ Final(d, v)'
  <2>1. Alone(d) /\ v \in Writes(d)
    BY <1>1, <1>6 DEF Alone, Writes
  <2>2. CASE d # c
    BY <1>1, <1>2, <1>3, <2>1, <2>2, FinalStands
  <2>3. CASE d = c
    <3>1. Pending(c, v) /\ Final(c, v) /\ Alone(c) /\ v \in Writes(c)
      BY <2>1, <2>3 DEF DeliveryInv
    <3>2. \A e \in Call \ {c} : call'[e].phase # "method"
      <4>1. \A e \in Call \ {c} : e \notin InProgress
        BY <1>1, <3>1, AloneInProgress
      <4> QED BY <1>1, <4>1 DEF InProgress
    <3>3. CASE Continues(c)
      <4>1. CASE call[c].phase = "method"
        <5>1. call'[c].phase = "method" /\ call'[c].outcome = "none"
          BY <3>3, <4>1 DEF Continues, CallsInOrder
        <5>2. deliveredBy'[v] = deliveredBy[v] /\ state'.notices = state.notices
          BY <3>3 DEF Continues
        <5> QED BY <2>3, <3>1, <4>1, <5>1, <5>2 DEF Pending, Final, Announced
      <4>2. CASE call[c].phase = "releasing"
        <5>1. call'[c].phase = "done" /\ call'[c].outcome = call[c].outcome
          BY <3>3, <4>2 DEF Moves, Continues
        <5>2. deliveredBy'[v] = deliveredBy[v] /\ state'.notices = state.notices
          BY <3>3 DEF Continues
        <5>3. \A e \in Call : call'[e].phase # "method"
          BY <3>2, <5>1
        <5> QED BY <2>3, <3>1, <5>1, <5>2, <5>3 DEF Pending, Final, Announced
      <4> QED BY <3>3, <4>1, <4>2 DEF Continues
    <3>4. CASE Ends(c)
      <4>1. /\ call'[c].phase \in {"releasing", "done"}
            /\ deliveredBy'[v] = deliveredBy[v]
            /\ \/ call[c].phase = "notified" /\ call'[c].outcome = "announced" /\ state'.notices = {}
               \/ call[c].phase = "method" /\ call'[c].outcome = "unannounced" /\ state'.notices = {}
               \/ call'[c].outcome \in {"delayed", "rejected", "unheard"}
        BY <3>4 DEF Ends
      <4>2. \A e \in Call : call'[e].phase # "method"
        BY <3>2, <4>1
      <4>3. Pending(c, v)'
        BY <4>1 DEF Pending
      <4>4. Final(c, v)'
        BY <3>1, <4>1, <4>2 DEF Pending, Final, Announced
      <4> QED BY <2>3, <4>3, <4>4
    <3>5. CASE \E reached \in 0 .. LastRank : Notifies(c, reached)
      <4>1. Pending(c, v)'
        BY <1>4, <3>1, <3>5, NotifiesPending
      <4>2. call[c].outcome = "none" /\ call'[c].outcome = "none"
        BY <3>5 DEF Notifies, CallsInOrder
      <4> QED BY <4>1, <4>2, <2>3 DEF Final
    <3> QED BY <2>3, <3>3, <3>4, <3>5
  <2> QED BY <2>2, <2>3
<1> QED BY <1>5, <1>6 DEF DeliveryInv, Writes

LEMMA NextDeliveryInv ==
  TypeInv /\ TypeInv' /\ CallsInOrder /\ KeptInv /\ BufferInv /\ DeliveryInv /\ [Next]_vars => DeliveryInv'
<1> SUFFICES ASSUME TypeInv, TypeInv', CallsInOrder, KeptInv, BufferInv, DeliveryInv, [Next]_vars
             PROVE  DeliveryInv'
  OBVIOUS
<1>1. OverlapInv /\ NoticesWereMade
  BY DEF KeptInv, BufferInv
<1>2. ASSUME NEW c \in Call, Step(c) PROVE DeliveryInv'
  <2>1. CASE \E t \in Tournament, topic \in Topic : MethodWrites(c, t, topic)
    BY <1>1, <2>1, MethodWritesDeliveryInv
  <2>2. CASE CallRolledBack(c)
    BY <1>1, <2>2, RollBackDeliveryInv
  <2>3. CASE Moving(c)
    BY <1>1, <2>3, MovingMoves, MovingBuffer, MovesDeliveryInv
  <2> QED BY <1>2, <2>1, <2>2, <2>3 DEF Step, Moving
<1>3. ASSUME UNCHANGED vars PROVE DeliveryInv'
  <2>1. UNCHANGED <<state, call, by, deliveredBy, overlap>>
    BY <1>3 DEF vars, engineVars, historyVars
  <2> QED BY <2>1 DEF DeliveryInv, Writes, Alone, Pending, Final
<1>4. 1 \in Nat /\ QueueLength \subseteq Nat
  BY QueueAssumption
<1>5. ASSUME Begins PROVE DeliveryInv'
  BY <1>1, <1>4, <1>5, BeginDeliveryInv DEF Begins, AsyncEngineInvoke, AsyncExecutionQueue, Kind
<1> QED BY <1>2, <1>3, <1>5 DEF Next

\* A call that overlapped no other delivers its notices itself if it announces them, and nobody
\* delivers them if it was rolled back or ended unannounced (notifySubscribersAsync).
THEOREM AnswersTellWhoIsTold == Spec => []DeliveredAsAnswered
<1>1. DeliveryInv => DeliveredAsAnswered
  BY DEF DeliveryInv, Final, DeliveredAsAnswered
<1> QED BY <1>1, InitTypeInv, NextTypeInv, InitCallsInOrder, NextCallsInOrder, InitKeptInv, NextKeptInv,
           InitBufferInv, NextBufferInv, InitDeliveryInv, NextDeliveryInv, PTL DEF Spec
=============================================================================
