----------------------------- MODULE SyncEngine ------------------------------
(***************************************************************************)
(* The synchronous engine shell: engineInvoke, executionQueue and dryRun   *)
(* around the methods they dispatch, and the notification of subscribers.  *)
(*                                                                         *)
(* JavaScript runs one thing at a time, but calls nest: a method may call  *)
(* the engine again, and so may a subscriber while it is being notified.   *)
(* The calls in progress form a stack, frame[1] .. frame[depth].  Code the *)
(* engine does not control (between calls, in a method, in a listener)     *)
(* runs at the top of the stack; the engine's own code runs in one step    *)
(* from one such point to the next.                                        *)
(*                                                                         *)
(* devContext, under which a throw escapes, is off: a method that throws   *)
(* is a method that returns an error.  A listener is called through an     *)
(* async function that is not awaited: one that throws has returned.  A    *)
(* call refused before its method runs (invalid arguments, no such method, *)
(* an invalid clock, a state that cannot be copied) changes nothing and is *)
(* not a step.  The records are the engine's own copies (deepCopy is on),  *)
(* and a method writes to loaded tournaments.                              *)
(***************************************************************************)
EXTENDS EngineState

CONSTANTS
  Rank,           \* the order in which topics are dispatched, 1 .. LastRank - 1
  LastRank,       \* the MUTATIONS topic, dispatched last
  Silent,         \* a write marked modified without a notice (markModified)
  Announcement,   \* the ways methods announce their writes
  MaxDepth,       \* bound: calls in progress at once
  QueueLength     \* bound: the numbers of directives of a queue or preview

ASSUME RankAssumption ==
  /\ LastRank \in Nat \ {0}
  /\ Rank \in [Topic -> 1 .. (LastRank - 1)]
  /\ \A a, b \in Topic : Rank[a] = Rank[b] => a = b
ASSUME AnnouncementAssumption ==
  /\ Silent \notin Topic
  /\ Announcement \subseteq
       [topic : Topic \cup {Silent}, key : Key \cup {NoKey}, named : BOOLEAN]
ASSUME DepthAssumption == MaxDepth \in Nat \ {0} /\ QueueLength \subseteq Nat \ {0}

VARIABLES
  state,     \* the provider's state
  depth,     \* how many calls are in progress
  frame,     \* the calls in progress, innermost last
  detached,  \* the calls whose method holds records that a restore has replaced
  clock,     \* the last instant read from the clock source
  calls      \* engine calls begun and state methods called

\* History, read by no action: what the properties are about.
VARIABLES
  made,         \* how many writes were made: 1 .. made
  madeAt,       \* the instant of the call that made each write, 0 before
  delivered,    \* how many times each write's notice was delivered: 0, 1 or more
  nested,       \* writes delivered by a call made inside another
  undone,       \* writes made between a capture and the restore that undid them
  lost,         \* writes to records that a restore had replaced
  unmarked,     \* unstamped writes whose modification mark a restore cleared
  fate,         \* what became of each write's notice (see Fate)
  delayed       \* writes buffered when a call with delayNotify returned

engineVars == <<state, depth, frame, detached, clock, calls>>
historyVars ==
  <<made, madeAt, delivered, nested, undone, lost, unmarked, fate, delayed>>
vars == <<engineVars, historyVars>>

-----------------------------------------------------------------------------

Kind == {"invoke", "queue", "dryRun"}
Mode == {"notify", "delayNotify", "doNotNotify"}
Phase == {"method", "dispatch", "listener"}

NoSnapshot == CaptureOperation(FreshState)

Frame == [kind : Kind \cup {"none"},
          mode : Mode,
          captures : BOOLEAN,
          snapshot : Snapshot,
          since : 0 .. MaxWrites,
          left : Nat,
          phase : Phase,
          timeStamp : Instant,
          modified : BOOLEAN,
          reached : 0 .. LastRank]

NoFrame == [kind |-> "none", mode |-> "notify", captures |-> FALSE, snapshot |-> NoSnapshot,
            since |-> 0, left |-> 0, phase |-> "method", timeStamp |-> 0, modified |-> FALSE, reached |-> 0]

Top == frame[depth]

\* Between calls, inside a method or inside a listener: code that may call the engine.
ClientRuns == depth > 0 => Top.phase \in {"method", "listener"}

\* A write's notice: not buffered yet (or never), buffered, replaced by a later one
\* with its key, emptied by a call that failed, returned no success or was muted, or
\* buffered by a listener for a topic the dispatch under way had already passed.
Fate == {"none", "pending", "superseded", "dropped", "overtaken"}

Fated(f, buffered, becomes) ==
  [w \in Write |-> IF \E n \in buffered : n.write = w THEN becomes ELSE f[w]]

MethodRuns == depth > 0 /\ Top.phase = "method"

-----------------------------------------------------------------------------

Init ==
  /\ \E ids \in SUBSET Tournament : state = SetState(FreshState, ids)
  /\ depth = 0
  /\ frame = [d \in 1 .. MaxDepth |-> NoFrame]
  /\ detached = {}
  /\ clock = 0 /\ calls = 0
  /\ made = 0
  /\ madeAt = [w \in Write |-> 0]
  /\ delivered = [w \in Write |-> 0]
  /\ nested = {} /\ undone = {} /\ lost = {} /\ unmarked = {} /\ delayed = {}
  /\ fate = [w \in Write |-> "none"]

(* State methods, called between calls, by a method or by a listener.      *)

Edit(next) ==
  /\ ClientRuns
  /\ calls < MaxCalls
  /\ calls' = calls + 1
  /\ state' = next
  /\ UNCHANGED <<depth, frame, detached, clock, historyVars>>

\* setState and reset, between calls only: the writes of the replaced records go with them.
LoadState(ids) == depth = 0 /\ Edit(SetState(state, ids))

SelectTournament(t) == Edit(SetTournamentId(state, t))

UnloadTournament(t) == t \in state.records.loaded /\ Edit(RemoveTournamentRecord(state, t))

-----------------------------------------------------------------------------
(* A call begins.                                                          *)

\* Faulty: every call reads the source, a nested one too.
CallInstantAlwaysRead == clock + 1

\* withCapturedClock: the outermost call reads the source, a nested one reuses its instant.
CallInstant == IF state.capturedClock # 0 THEN state.capturedClock ELSE clock + 1

Begin(kind, mode, captures, directives) ==
  /\ ClientRuns
  /\ depth < MaxDepth
  /\ calls < MaxCalls
  /\ calls' = calls + 1
  /\ clock' = IF state.capturedClock # 0 THEN clock ELSE CallInstant
  /\ state' = [state EXCEPT !.capturedClock = CallInstant]
  /\ depth' = depth + 1
  /\ frame' = [frame EXCEPT ![depth + 1] =
       [NoFrame EXCEPT
          !.kind = kind, !.mode = mode, !.left = directives, !.timeStamp = CallInstant,
          !.captures = captures, !.since = IF captures THEN made ELSE 0,
          !.snapshot = IF captures THEN CaptureOperation(state) ELSE NoSnapshot]]
  /\ UNCHANGED <<detached, historyVars>>

EngineInvoke(mode, rollbackOnError) == Begin("invoke", mode, rollbackOnError, 1)

ExecutionQueue(directives, rollbackOnError) ==
  Begin("queue", "notify", rollbackOnError, directives)

DryRun(directives) == Begin("dryRun", "notify", TRUE, directives)

(* What a method does while it runs.                                       *)

\* A method writes to the records it was given when it began: once a restore has replaced
\* them, to objects that are no longer in state.
Written(t, w) == IF depth \in detached THEN state ELSE WriteRecord(state, t, w)

\* A write, announced on a topic (naming its tournament or not) or only marked.
MethodWrites(t, announcement) ==
  LET w == made + 1
      id == IF announcement.named THEN t ELSE Unnamed
      written == Written(t, w)
      notice == [topic |-> announcement.topic, key |-> announcement.key, write |-> w]
  IN /\ MethodRuns
     /\ made < MaxWrites
     /\ t \in state.records.loaded
     /\ made' = w
     /\ madeAt' = [madeAt EXCEPT ![w] = state.capturedClock]
     /\ lost' = IF depth \in detached THEN lost \cup {w} ELSE lost
     /\ \/ /\ announcement.topic \in Topic
           /\ state' = AddNotice(written, notice, id)
           /\ fate' = Fated([fate EXCEPT ![w] = "pending"],
                            Superseded(state, notice.topic, notice.key), "superseded")
        \/ /\ announcement.topic = Silent
           /\ state' = MarkModified(written, id)
           /\ UNCHANGED fate
     /\ UNCHANGED <<depth, frame, detached, clock, calls,
                    delivered, nested, undone, unmarked, delayed>>

-----------------------------------------------------------------------------
(* A call ends.                                                            *)

\* The frame goes; the outermost call releases the captured instant.
Release(s) == IF depth = 1 THEN [s EXCEPT !.capturedClock = 0] ELSE s

Return(s) ==
  /\ state' = Release(s)
  /\ depth' = depth - 1
  /\ frame' = [frame EXCEPT ![depth] = NoFrame]
  /\ UNCHANGED <<clock, calls>>

\* The call's method no longer runs on the records it was given.
MethodEnds == detached' = detached \ {depth}

Undelivered == {n \in state.notices : delivered[n.write] = 0}

\* The engine continues with the notification of the subscribers.
BeginDispatch ==
  /\ state' = GetMutationStatus(state, Top.timeStamp)
  /\ frame' = [frame EXCEPT ![depth].phase = "dispatch", ![depth].modified = state.modified]
  /\ MethodEnds
  /\ UNCHANGED <<depth, clock, calls, historyVars>>

\* Faulty: subscribers are told of each directive as it succeeds.
DirectiveNotifies ==
  /\ MethodRuns
  /\ Top.left > 1
  /\ frame' = [frame EXCEPT ![depth].left = @ - 1]
  /\ MethodEnds
  /\ delivered' = [w \in Write |-> IF \E n \in state.notices : n.write = w THEN 1 ELSE delivered[w]]
  /\ UNCHANGED <<state, depth, clock, calls, made, madeAt, nested, undone, lost, unmarked, fate, delayed>>

\* Faulty: a queue goes on after its last directive.
DirectiveSucceedsUnbounded ==
  /\ MethodRuns
  /\ frame' = [frame EXCEPT ![depth].left = @ - 1]
  /\ MethodEnds
  /\ UNCHANGED <<state, depth, clock, calls, historyVars>>

\* Faulty: the copy to restore is taken anew after each directive.
DirectiveCaptures ==
  /\ MethodRuns
  /\ Top.left > 1
  /\ frame' = [frame EXCEPT
       ![depth].left = @ - 1,
       ![depth].since = IF Top.captures THEN made ELSE 0,
       ![depth].snapshot = IF Top.captures THEN CaptureOperation(state) ELSE NoSnapshot]
  /\ MethodEnds
  /\ UNCHANGED <<state, depth, clock, calls, historyVars>>

\* A directive that is not the last, of a queue or a preview, returns no error; the next one
\* resolves the records anew.
DirectiveSucceeds ==
  /\ MethodRuns
  /\ Top.left > 1
  /\ frame' = [frame EXCEPT ![depth].left = @ - 1]
  /\ MethodEnds
  /\ UNCHANGED <<state, depth, clock, calls, historyVars>>

\* The call returns success (a queue does when its last directive returns no error).
CallSucceeds ==
  /\ MethodRuns
  /\ Top.left = 1
  /\ Top.kind \in {"invoke", "queue"}
  /\ Top.mode = "notify"
  /\ BeginDispatch

\* A successful call with delayNotify: stamped, its notices left in the buffer.
DelayedCallSucceeds ==
  /\ MethodRuns
  /\ Top.kind = "invoke" /\ Top.mode = "delayNotify"
  /\ Return(GetMutationStatus(state, Top.timeStamp)) /\ MethodEnds
  /\ delayed' = delayed \cup {n.write : n \in state.notices}
  /\ UNCHANGED <<made, madeAt, delivered, nested, undone, lost, unmarked, fate>>

\* Faulty: neither stamped nor emptied, so both carry over to the next call.
EndCarryingOver ==
  /\ Return(state) /\ MethodEnds
  /\ UNCHANGED historyVars

\* Stamped, and the buffer emptied without a delivery.
EndUnannounced ==
  /\ Return(KeepWrites(state, Top.timeStamp)) /\ MethodEnds
  /\ fate' = Fated(fate, Undelivered, "dropped")
  /\ UNCHANGED <<made, madeAt, delivered, nested, undone, lost, unmarked, delayed>>

\* A successful call with doNotNotify, or a call that returns neither success nor an error.
CallEndsUnannounced ==
  /\ MethodRuns
  /\ Top.kind = "invoke"
  /\ EndUnannounced

\* restoreOperation, with what it undoes and which marks it clears: the copy it installs
\* takes the place of the records that the methods the call was made in hold.
Restore ==
  LET restored == RestoreOperation(state, Top.snapshot)
  IN /\ Return(restored)
     /\ detached' = {d \in 1 .. (depth - 1) : frame[d].phase = "method"}
     /\ undone' = undone \cup (Top.since + 1 .. made)
     /\ unmarked' = unmarked \cup
          {w \in Write : \E t \in restored.records.loaded :
             w \in restored.records.written[t] /\ restored.records.stamp[t] < madeAt[w]}
     /\ fate' = Fated(fate, restored.notices, "pending")
     /\ UNCHANGED <<made, madeAt, delivered, nested, lost, delayed>>

\* A method or directive returns an error and the call took no snapshot.
CallRefused ==
  /\ MethodRuns
  /\ ~Top.captures
  /\ EndUnannounced

\* A method or directive returns an error and the call rolls back.
CallRolledBack ==
  /\ MethodRuns
  /\ Top.captures
  /\ Restore

\* A preview restores what it captured, also when every directive succeeds.
PreviewEnds ==
  /\ MethodRuns
  /\ Top.kind = "dryRun"
  /\ Top.left = 1
  /\ Restore

-----------------------------------------------------------------------------
(* notifySubscribers.                                                      *)

Dispatching == depth > 0 /\ Top.phase = "dispatch"

\* The subscribed topics not yet reached that have something to deliver.
Pending == {topic \in Topic : Rank[topic] > Top.reached /\ GetNotices(state, topic) # {}}

\* The listener of the next topic is called with the payloads buffered now.
CallListener(topic) ==
  LET payloads == {n.write : n \in GetNotices(state, topic)}
  IN /\ Dispatching
     /\ topic \in Pending
     /\ \A other \in Pending : Rank[topic] <= Rank[other]
     /\ frame' = [frame EXCEPT ![depth].phase = "listener", ![depth].reached = Rank[topic]]
     /\ delivered' = [w \in Write |->
          IF w \in payloads /\ delivered[w] < 2 THEN delivered[w] + 1 ELSE delivered[w]]
     /\ nested' = IF depth > 1 THEN nested \cup payloads ELSE nested
     /\ UNCHANGED <<state, depth, detached, clock, calls,
                    made, madeAt, undone, lost, unmarked, fate, delayed>>

\* MUTATIONS, last, when the call modified something.
CallMutationsListener ==
  /\ Dispatching
  /\ Pending = {}
  /\ Top.modified
  /\ Top.reached < LastRank
  /\ frame' = [frame EXCEPT ![depth].phase = "listener", ![depth].reached = LastRank]
  /\ UNCHANGED <<state, depth, detached, clock, calls, historyVars>>

ListenerReturns ==
  /\ depth > 0
  /\ Top.phase = "listener"
  /\ frame' = [frame EXCEPT ![depth].phase = "dispatch"]
  /\ UNCHANGED <<state, depth, detached, clock, calls, historyVars>>

\* Every topic was dispatched: the buffer is emptied and the call returns.
DispatchEnds ==
  /\ Dispatching
  /\ Pending = {}
  /\ Top.modified => Top.reached = LastRank
  /\ Return(DeleteNotices(state)) /\ UNCHANGED detached
  /\ fate' = Fated(fate, {n \in Undelivered : Rank[n.topic] <= Top.reached}, "overtaken")
  /\ UNCHANGED <<made, madeAt, delivered, nested, undone, lost, unmarked, delayed>>

-----------------------------------------------------------------------------

Next ==
  \/ \E t \in Tournament : UnloadTournament(t)
  \/ \E t \in Tournament \cup {NoTournament} : SelectTournament(t)
  \/ \E ids \in SUBSET Tournament : LoadState(ids)
  \/ \E mode \in Mode, rollback \in BOOLEAN : EngineInvoke(mode, rollback)
  \/ \E n \in QueueLength, rollback \in BOOLEAN : ExecutionQueue(n, rollback)
  \/ \E n \in QueueLength : DryRun(n)
  \/ \E t \in Tournament, a \in Announcement : MethodWrites(t, a)
  \/ DirectiveSucceeds
  \/ CallSucceeds
  \/ DelayedCallSucceeds
  \/ CallEndsUnannounced
  \/ CallRefused
  \/ CallRolledBack
  \/ PreviewEnds
  \/ \E topic \in Topic : CallListener(topic)
  \/ CallMutationsListener
  \/ ListenerReturns
  \/ DispatchEnds

Spec == Init /\ [][Next]_vars

-----------------------------------------------------------------------------
(* Properties.                                                             *)

\* Every variable has its type, and the frames above the stack are empty.
TypeOK ==
  /\ state \in State
  /\ depth \in 0 .. MaxDepth
  /\ frame \in [1 .. MaxDepth -> Frame]
  /\ detached \subseteq 1 .. MaxDepth
  /\ clock \in Instant /\ calls \in 0 .. MaxCalls
  /\ made \in 0 .. MaxWrites
  /\ madeAt \in [Write -> Instant]
  /\ delivered \in [Write -> 0 .. 2]
  /\ nested \subseteq Write /\ undone \subseteq Write /\ lost \subseteq Write
  /\ unmarked \subseteq Write /\ delayed \subseteq Write
  /\ fate \in [Write -> Fate]

\* One instant per engine call: an instant is captured exactly while a call is
\* in progress, and every nested call, whichever way the calls before it ended,
\* stamps with that of the outermost (withCapturedClock).
OneInstant ==
  /\ depth = 0 <=> state.capturedClock = 0
  /\ \A d \in 1 .. depth : frame[d].timeStamp = state.capturedClock

\* A write that a rollback or preview took back is in no loaded record, and its
\* notice is not in the buffer, whatever calls were nested between the write and
\* the restore, and whatever they restored themselves.
RefusedLeavesNothing ==
  /\ KeptWrites(state.records) \cap undone = {}
  /\ \A n \in state.notices : n.write \notin undone

\* As documented, the notices of a refused write are never delivered.
RefusedNeverDelivered == \A w \in undone : delivered[w] = 0

\* A notice of a write that was taken back reached a subscriber only if a call
\* nested in the refused one delivered it, against what is documented; the outermost
\* call delivers nothing it may still take back (restoreOperation before notifySubscribers).
RefusedDeliveredOnlyByNested ==
  \A w \in undone : delivered[w] > 0 => w \in nested

\* Between calls every write in a loaded record is covered by the record's
\* stamp, unless a rollback or preview inside the call that made the write
\* cleared the mark of it (restoreOperation clears the flag instead of
\* restoring it).
KeptWritesStamped ==
  depth = 0 =>
    \A t \in state.records.loaded : \A w \in state.records.written[t] \ unmarked :
      madeAt[w] <= state.records.stamp[t]

\* As documented, a rollback restores the modification flag, so every write in a
\* loaded record is covered by the record's stamp once the call has returned.
EveryKeptWriteStamped ==
  depth = 0 =>
    \A t \in state.records.loaded : \A w \in state.records.written[t] :
      madeAt[w] <= state.records.stamp[t]

\* A rollback or preview gives back the selected tournament, whatever the refused
\* method loaded, removed or selected, unless the record selected when the call
\* began was no longer loaded then.
SelectionRestored ==
  [][(CallRolledBack \/ PreviewEnds) /\ Top.snapshot.selected \in Top.snapshot.records.loaded \cup {NoTournament}
       => state'.selected = Top.snapshot.selected]_vars

\* A stamp names the instant of a call that made a write and did not take it back: no call
\* is credited with the writes of another, or with writes that were taken back (one that a
\* method made to a record a nested restore had replaced is credited, though it is lost).
StampsNameTheirCall ==
  depth = 0 =>
    \A t \in state.records.loaded :
      state.records.stamp[t] # 0 =>
        \E w \in 1 .. made : w \notin undone /\ madeAt[w] = state.records.stamp[t]

\* A buffered notice is not lost without cause: it stays in the buffer until it is
\* delivered, unless its write is taken back or the notice meets one of the other
\* fates.  In particular a restore keeps the notices an enclosing or earlier call
\* buffered, and a successful call empties only what it dispatched.
NoSilentLoss ==
  \A w \in Write : fate[w] = "pending" =>
    \/ \E n \in state.notices : n.write = w
    \/ delivered[w] > 0
    \/ w \in undone

\* Nothing of a call outlives it but the notices it was told to delay: between
\* calls no mark is set, and the buffer holds delayed notices only.
IdleIsClean ==
  depth = 0 =>
    /\ ~state.modified /\ state.modifiedIds = {}
    /\ \A n \in state.notices : n.write \in delayed
    /\ \A d \in 1 .. MaxDepth : frame[d] = NoFrame

-----------------------------------------------------------------------------
(* What is seen from outside the calls that may be taken back.             *)

\* What the provider holds, and what a call captured of it.
Current == [records |-> state.records, notices |-> state.notices, since |-> made]
Captured(f) == [records |-> f.snapshot.records, notices |-> f.snapshot.notices, since |-> f.since]

\* The calls in progress that may yet restore what they captured.
Unsettled == {d \in 1 .. depth : frame[d].captures /\ frame[d].phase = "method"}
FirstUnsettled == CHOOSE d \in Unsettled : \A e \in Unsettled : d <= e

Outside == IF Unsettled = {} THEN Current ELSE Captured(frame[FirstUnsettled])

Seen(r) == [t \in r.loaded |-> [writes |-> r.written[t], stamp |-> r.stamp[t]]]

Atomic == INSTANCE AtomicEngine WITH
  records <- Seen(Outside.records),
  announced <- {n.write : n \in Outside.notices},
  settled <- Outside.since,
  refused <- undone,
  open <- Unsettled # {},
  disturbed <- detached # {}

\* However calls nest, one that captures changes nothing outside it until its method has ended,
\* and then nothing has changed or all it wrote is kept, but for what it took back itself and
\* what a method in it wrote after a call made inside that method had been taken back.
ImplementsAtomic == Atomic!Spec
=============================================================================
