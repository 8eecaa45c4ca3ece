----------------------------- MODULE AsyncEngine -----------------------------
(***************************************************************************)
(* The asynchronous engine shell: asyncEngineInvoke and                    *)
(* asyncExecutionQueue in one async context, which has its own state.      *)
(*                                                                         *)
(* Calls of one context that are not awaited one after the other overlap:  *)
(* between two awaits a call runs alone, at an await any other call in     *)
(* progress may go on.  The awaits are the method's own, the one after     *)
(* each directive, the one of each listener, the one after the last        *)
(* listener and, for the call that captured the instant, the one before it *)
(* releases it.                                                            *)
(*                                                                         *)
(* The records stay loaded (SyncEngine has the state methods) and are the  *)
(* engine's own copies, devContext is off, nobody subscribes to MUTATIONS. *)
(* A listener reads its payloads only.                                     *)
(***************************************************************************)
EXTENDS EngineState

CONSTANTS
  Rank,           \* the order in which topics are dispatched
  LastRank,       \* above every rank
  QueueLength     \* bound: the numbers of directives of a queue

ASSUME RankAssumption ==
  /\ LastRank \in Nat \ {0}
  /\ Rank \in [Topic -> 1 .. (LastRank - 1)]
  /\ \A a, b \in Topic : Rank[a] = Rank[b] => a = b
ASSUME QueueAssumption == QueueLength \subseteq Nat \ {0}

Call == 1 .. MaxCalls

VARIABLES
  state,    \* the context's state
  call,     \* the calls, in the order they were made
  begun,    \* how many calls were made
  clock     \* the last instant read from the clock source

\* History, read by no action.
VARIABLES
  made,         \* how many writes were made: 1 .. made
  by,           \* the call that made each write, 0 before
  deliveredBy,  \* the calls that delivered each write's notice
  overlap       \* pairs of calls that were in progress together

engineVars == <<state, call, begun, clock>>
historyVars == <<made, by, deliveredBy, overlap>>
vars == <<engineVars, historyVars>>

-----------------------------------------------------------------------------

Kind == {"invoke", "queue"}
Phase == {"none", "method", "listener", "notified", "releasing", "done"}
Outcome == {"none", "announced", "delayed", "unannounced", "rejected", "unheard", "rolledBack"}

NoSnapshot == CaptureOperation(FreshState)

CallRecord == [kind : Kind,
               captures : BOOLEAN,
               snapshot : Snapshot,
               owns : BOOLEAN,
               timeStamp : Instant,
               left : Nat,
               attached : BOOLEAN,
               reached : 0 .. LastRank,
               phase : Phase,
               outcome : Outcome]

NoCall == [kind |-> "invoke", captures |-> FALSE, snapshot |-> NoSnapshot,
           owns |-> FALSE, timeStamp |-> 0, left |-> 0, attached |-> FALSE, reached |-> 0,
           phase |-> "none", outcome |-> "none"]

InProgress == {c \in Call : call[c].phase \notin {"none", "done"}}
Settled(c) == call[c].outcome # "none"
Writes(c) == {w \in Write : by[w] = c}

Init ==
  /\ \E ids \in SUBSET Tournament \ {{}} : state = SetState(FreshState, ids)
  /\ call = [c \in Call |-> NoCall]
  /\ begun = 0 /\ clock = 0
  /\ made = 0
  /\ by = [w \in Write |-> 0]
  /\ deliveredBy = [w \in Write |-> {}]
  /\ overlap = {}

-----------------------------------------------------------------------------
(* A call begins and its method runs.                                      *)

\* withCapturedClockAsync: the call that finds no instant captured reads one and owns it.
Begin(kind, captures, directives) ==
  LET c == begun + 1
      owns == state.capturedClock = 0
      instant == IF owns THEN clock + 1 ELSE state.capturedClock
  IN /\ begun < MaxCalls
     /\ begun' = c
     /\ clock' = IF owns THEN instant ELSE clock
     /\ state' = [state EXCEPT !.capturedClock = instant]
     /\ call' = [call EXCEPT ![c] =
          [NoCall EXCEPT
             !.kind = kind, !.captures = captures,
             !.snapshot = IF captures THEN CaptureOperation(state) ELSE NoSnapshot,
             !.owns = owns, !.timeStamp = instant, !.left = directives, !.attached = TRUE,
             !.phase = "method"]]
     /\ overlap' = overlap \cup (InProgress \X {c}) \cup ({c} \X InProgress)
     /\ UNCHANGED <<made, by, deliveredBy>>

AsyncEngineInvoke(rollbackOnError) == Begin("invoke", rollbackOnError, 1)

AsyncExecutionQueue(directives, rollbackOnError) == Begin("queue", rollbackOnError, directives)

MethodRuns(c) == call[c].phase = "method"

\* A method writes to the record it was given when its directive began: once a
\* restore has replaced the records, to an object that is no longer in state.
MethodWrites(c, t, topic) ==
  LET w == made + 1
      notice == [topic |-> topic, key |-> NoKey, write |-> w]
  IN /\ MethodRuns(c)
     /\ made < MaxWrites
     /\ t \in state.records.loaded
     /\ made' = w
     /\ by' = [by EXCEPT ![w] = c]
     /\ state' = AddNotice(IF call[c].attached THEN WriteRecord(state, t, w) ELSE state, notice, t)
     /\ UNCHANGED <<call, begun, clock, deliveredBy, overlap>>

\* Faulty: a queue goes on after its last directive.
DirectiveSucceedsUnbounded(c) ==
  /\ MethodRuns(c)
  /\ call' = [call EXCEPT ![c].left = @ - 1, ![c].attached = TRUE]
  /\ UNCHANGED <<state, begun, clock, historyVars>>

\* A directive that is not the last returns no error; the next one resolves the records anew.
DirectiveSucceeds(c) ==
  /\ MethodRuns(c)
  /\ call[c].left > 1
  /\ call' = [call EXCEPT ![c].left = @ - 1, ![c].attached = TRUE]
  /\ UNCHANGED <<state, begun, clock, historyVars>>

-----------------------------------------------------------------------------
(* A call ends.                                                            *)

\* Faulty: a call that joined another's instant releases it as well.
EndedReleasing(c, outcome) ==
  [NoCall EXCEPT !.owns = call[c].owns, !.timeStamp = call[c].timeStamp, !.outcome = outcome,
                 !.phase = "releasing"]

\* What is left of a call that has its result: the owner of the instant still has to release it.
Ended(c, outcome) ==
  [NoCall EXCEPT !.owns = call[c].owns, !.timeStamp = call[c].timeStamp, !.outcome = outcome,
                 !.phase = IF call[c].owns THEN "releasing" ELSE "done"]

End(c, next, outcome) ==
  /\ state' = next
  /\ call' = [call EXCEPT ![c] = Ended(c, outcome)]
  /\ UNCHANGED <<begun, clock, historyVars>>

\* Faulty: a call whose method returned an error leaves its marks and notices.
EndCarryingOver(c) == End(c, state, "unannounced")

\* Stamped, and the buffer emptied without a delivery.
EndUnannounced(c) == End(c, KeepWrites(state, call[c].timeStamp), "unannounced")

\* An error without rollback, and of an invoke also a success with doNotNotify or
\* neither success nor error (the two options are read when the method has returned).
CallEndsUnannounced(c) ==
  /\ MethodRuns(c)
  /\ ~call[c].captures \/ call[c].kind = "invoke"
  /\ EndUnannounced(c)

\* A success with delayNotify: stamped, its notices left in the buffer.
DelayedCallSucceeds(c) ==
  /\ MethodRuns(c)
  /\ call[c].kind = "invoke"
  /\ End(c, GetMutationStatus(state, call[c].timeStamp), "delayed")

\* Faulty: a rejection is answered as a refusal, and nothing is restored.
RejectionKeepsWrites(c) ==
  /\ MethodRuns(c)
  /\ call[c].captures
  /\ End(c, state, "rolledBack")

\* restoreOperation: every method in progress loses the records it works on.
RollBack(c) ==
  /\ state' = RestoreOperation(state, call[c].snapshot)
  /\ call' = [d \in Call |->
       IF d = c THEN Ended(c, "rolledBack") ELSE [call[d] EXCEPT !.attached = FALSE]]
  /\ UNCHANGED <<begun, clock, historyVars>>

\* A method returns an error or rejects, and the call took a snapshot.
CallRolledBack(c) ==
  /\ MethodRuns(c)
  /\ call[c].captures
  /\ RollBack(c)

\* A method rejects, and the call took none: a queue keeps its writes, an invoke
\* returns at once, neither stamping the records nor emptying the buffer.
CallRejected(c) ==
  /\ MethodRuns(c)
  /\ ~call[c].captures
  /\ call[c].kind = "invoke"
  /\ End(c, state, "rejected")

\* The call that captured the instant releases it, whoever still uses it.
Release(c) ==
  /\ call[c].phase = "releasing"
  /\ state' = [state EXCEPT !.capturedClock = 0]
  /\ call' = [call EXCEPT ![c].phase = "done"]
  /\ UNCHANGED <<begun, clock, historyVars>>

-----------------------------------------------------------------------------
(* notifySubscribersAsync.                                                 *)

\* The next topic with something to deliver, after those of rank reached.
NextTopic(s, reached) ==
  {topic \in Topic :
     /\ Rank[topic] > reached
     /\ GetNotices(s, topic) # {}
     /\ \A other \in Topic :
          Rank[other] > reached /\ GetNotices(s, other) # {} => Rank[topic] <= Rank[other]}

\* The loop goes on to its next listener, or ends.
Deliver(c, s, reached) ==
  /\ state' = s
  /\ \/ \E topic \in NextTopic(s, reached) :
          /\ call' = [call EXCEPT ![c].phase = "listener", ![c].reached = Rank[topic]]
          /\ deliveredBy' = [w \in Write |->
               IF \E n \in GetNotices(s, topic) : n.write = w
               THEN deliveredBy[w] \cup {c} ELSE deliveredBy[w]]
     \/ /\ NextTopic(s, reached) = {}
        /\ call' = [call EXCEPT ![c].phase = "notified"]
        /\ UNCHANGED deliveredBy
  /\ UNCHANGED <<begun, clock, made, by, overlap>>

\* Success: the records are stamped and the first listener is called.
CallSucceeds(c) ==
  /\ MethodRuns(c)
  /\ call[c].left = 1
  /\ Deliver(c, GetMutationStatus(state, call[c].timeStamp), 0)

ListenerSettles(c) ==
  /\ call[c].phase = "listener"
  /\ Deliver(c, state, call[c].reached)

\* A listener throws or rejects, which nothing catches: the call's promise rejects, its
\* writes kept and stamped, and whatever is in the buffer stays there.
ListenerRejects(c) ==
  /\ call[c].phase = "listener"
  /\ End(c, state, "unheard")

\* After the last listener the buffer is emptied, of other calls' notices too.
CallNotified(c) ==
  /\ call[c].phase = "notified"
  /\ End(c, DeleteNotices(state), "announced")

-----------------------------------------------------------------------------

Begins ==
  \/ \E rollback \in BOOLEAN : AsyncEngineInvoke(rollback)
  \/ \E n \in QueueLength, rollback \in BOOLEAN : AsyncExecutionQueue(n, rollback)

Step(c) ==
  \/ \E t \in Tournament, topic \in Topic : MethodWrites(c, t, topic)
  \/ DirectiveSucceeds(c)
  \/ CallSucceeds(c)
  \/ DelayedCallSucceeds(c)
  \/ CallEndsUnannounced(c)
  \/ CallRolledBack(c)
  \/ CallRejected(c)
  \/ ListenerSettles(c)
  \/ ListenerRejects(c)
  \/ CallNotified(c)
  \/ Release(c)

Next == Begins \/ \E c \in Call : Step(c)

Spec == Init /\ [][Next]_vars

-----------------------------------------------------------------------------
(* Properties.                                                             *)

TypeOK ==
  /\ state \in State
  /\ call \in [Call -> CallRecord]
  /\ begun \in 0 .. MaxCalls /\ clock \in Instant
  /\ made \in 0 .. MaxWrites
  /\ by \in [Write -> 0 .. MaxCalls]
  /\ deliveredBy \in [Write -> SUBSET Call]
  /\ overlap \subseteq Call \X Call

\* However calls overlap, one of those in progress holds the instant that is
\* captured and will release it, and no other will; when none is in progress
\* none is captured, so the next call reads the source (withCapturedClockAsync).
InstantHasOneOwner ==
  LET owners == {c \in InProgress : call[c].owns}
  IN /\ state.capturedClock = 0 <=> owners = {}
     /\ \A c \in owners : owners = {c} /\ state.capturedClock = call[c].timeStamp

RolledBackDuring(c) == \E d \in Call : <<c, d>> \in overlap /\ call[d].outcome = "rolledBack"

\* A call's answer tells what became of its writes, all of them: gone if it was
\* rolled back, else in the records, unless a call that overlapped it was rolled
\* back (its snapshot holds, or lacks, the other's writes).
KeptAsAnswered ==
  \A c \in Call : Settled(c) /\ ~RolledBackDuring(c) =>
    \A w \in Writes(c) : w \in KeptWrites(state.records) <=> call[c].outcome # "rolledBack"

Alone(c) == \A d \in Call : <<c, d>> \notin overlap

\* A call that overlapped no other delivers its notices itself if it announces
\* them, and nobody ever delivers them if it was rolled back or ended unannounced,
\* whatever calls were made before and after it.
DeliveredAsAnswered ==
  \A c \in Call : Settled(c) /\ Alone(c) => \A w \in Writes(c) :
    /\ call[c].outcome = "announced" => deliveredBy[w] = {c}
    /\ call[c].outcome \in {"unannounced", "rolledBack"} => deliveredBy[w] = {}

\* When no call is in progress, what is left in the buffer was delayed, or belongs to a call
\* whose method or listener rejected or that overlapped a rollback, and a mark is left only by
\* a call whose method rejected: every other end of a call takes its notices and marks with it.
LeftoversAreExplained ==
  InProgress = {} =>
    /\ \A n \in state.notices :
         call[by[n.write]].outcome \in {"delayed", "rejected", "unheard"} \/ RolledBackDuring(by[n.write])
    /\ state.modified => \E c \in Call : call[c].outcome = "rejected"
=============================================================================
