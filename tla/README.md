# A TLA+ model of competition-factory

competition-factory is a TypeScript library that holds tournament records in memory and changes
them through engines: a client installs records (`setState`), calls methods (`engine.setMatchUpStatus(…)`,
`engine.executionQueue([…])`), and is told of the changes through subscriptions. This directory
holds TLA+ modules of its parts, the instances TLC checks, and theorems that TLAPS proves of them.
Paths below are relative to `src/src/`, unless they begin with `documentation/`, which is under `src/`.

## Inventory

### The engine shell

| component | state | operations | correct when |
| --- | --- | --- | --- |
| State provider (`global/state/syncGlobalState.ts`) | the loaded records, the selected tournament, the notice buffer, the modification flag and the ids it names, the captured instant, subscriptions, methods | set / remove records and selection, `addNotice`, `markModified`, `cycle…`, the buffer as a whole | selection names a loaded record or none; a keyed notice replaces its predecessor; what is captured can be put back |
| Sync engine (`assemblies/engines/sync`) | none of its own: a call's locals | `execute` (`engineInvoke`), `executionQueue` | a refused call leaves nothing; a kept write is stamped and announced once |
| Dry run (`forge/dryRun.ts`), explain | a snapshot | run directives on the live state, then restore | a preview leaves nothing |
| Subscribers (`global/state/notifySubscribers.ts`, `forge/bus.ts`) | subscriptions; the bus's handler sets | dispatch by topic order, MUTATIONS last | every notice of a kept write reaches its topic, once |
| Clock (`tools/clock.ts`) | the configured sources, the captured instants | `withCapturedClock` around a call | one instant per outermost call, released when it ends |
| Mutation locks (`mutate/tournaments/mutationLocks`) | an extension with a lock table on tournament, events, draws, venues | add / renew, remove, clean, and the check before every method | a lock keeps every other token out until it is released or expires, and no longer |
| Partial-record guard (`parts/loadedFootprintGuard.ts`) | a mark on a record | refuse methods whose declared footprint is not loaded | the refusal comes before anything runs |
| Async engine (`assemblies/engines/async`, `examples/asyncEngine`) | the same state, one per async context | the same calls, with an `await` at every directive and listener | as above, with calls of one context interleaving |
| Request server (`server`) | record files | load, mutate, save | no update is lost, a failed mutation saves nothing |

### The tournament domain

| component | state | operations | correct when |
| --- | --- | --- | --- |
| Ladder (`mutate/ladder`, `query/ladder`) | a standing (positions of participants), challenges as matchUps with time items | issue, accept, decline, submit, confirm, dispute, apply movement, lapse consequences, add, remove | positions stay a permutation; only an attested result or a lapse moves them; nobody attests to their own score |
| Draw advancement (`mutate/matchUps`, `mutate/drawDefinitions/positionGovernor`; `mutate/matchUps/outcome` is its second implementation) | matchUps with drawPositions, statuses, winners; position assignments; links between structures | set a status or score, remove it, assign a position or BYE, clear one | a participant stands in a later round only because it won, or got a BYE, before; removing a result takes back what followed from it |
| Sanctioning, officiating (`mutate/sanctioning`, `mutate/officiating`) | an application or assignment with a status, conditions, reviews | transitions, amendments, endorsements | terminal states stay; conditions are met before approval |
| Entries, participants, events, venues, scales, publishing, tie formats, practice, draft | parts of the record | edits with referential checks | references point to what exists, one place per participant |
| Scheduling, availability engine | dates, courts, rules | assign, clone, compute free intervals | one matchUp per court and time |
| Scoring engine (`assemblies/engines/scoring`, `scoring`) | a matchUp's points, games, sets; undo history | add a point, undo, redo | state after undo is the state before |
| Generators, queries, reports, validators, codecs | none | pure functions | – |

### How they interact and what is hard

A client calls the engine; the engine opens the clock capture, optionally snapshots the provider,
lets the lock check and the method run on the live records, and stamps, notifies and empties the
buffer, or restores the snapshot. JavaScript runs one thing at a time, yet calls are not atomic: a
method may call the engine, and so may a subscriber that is being notified, so that operations nest
on one shared buffer, flag, selection and instant. In the async engine they interleave at every
`await` as well. The hard behaviours are what a nested or overlapping call does to the state its
neighbour still needs: what a restore puts back, whose flag is cleared, who delivers whose notices.
Locks add time: expiry, lazy removal by calls that are themselves refused, two levels of tables.
In the domain, the hard part is undoing: a result that moved a ladder or a draw and is then disputed,
removed or applied again. `PROJECT.json` lists each hazard at its line, with the properties that
would catch it.

## What is modelled

### EngineState, SyncEngine, AtomicEngine

`EngineState` has the provider's state as one record and every operation on it as an operator from
state to state: `SetTournamentRecords`, `SetTournamentId`, `AddNotice`, `MarkModified`,
`GetMutationStatus`, `KeepWrites`, `CaptureOperation`, `RestoreOperation`. A tournament record is
reduced to the set of writes it holds and its factory stamp; a notice carries the write it
announces, so that "the refused write's notice" is a statement about sets of numbers.

`SyncEngine` is the call stack around it. `frame[1] .. frame[depth]` are the calls in progress with
their locals (snapshot, instant, directives left, the topic a dispatch reached). A step runs from one
point where foreign code may run (between calls, in a method, in a listener) to the next:

- a call begins: `EngineInvoke`, `ExecutionQueue`, `DryRun`, from any of those points;
- a method writes: `MethodWrites`, announced on a topic, with or without a key, with or without the
  tournament's id, or silently marked (`markModified`);
- a directive ends, a call ends: `DirectiveSucceeds`, `CallSucceeds`, `DelayedCallSucceeds`,
  `CallEndsUnannounced`, `CallRefused`, `CallRolledBack`, `PreviewEnds`;
- subscribers are notified: `CallListener`, `CallMutationsListener`, `ListenerReturns`, `DispatchEnds`; a listener is called
  through an async function that nobody awaits, so one that throws has returned;
- the client edits the state: `LoadState`, `SelectTournament`, `UnloadTournament`.

A restore installs copies, and a method in which the restored call was made goes on with the objects it was given: it
is in `detached` until it ends (the next directive of a queue is given records anew), and what it writes meanwhile
reaches no loaded record (`Written`), while its notices and its mark do.

History variables (`made`, `madeAt`, `delivered`, `nested`, `undone`, `lost`, `unmarked`, `fate`, `delayed`)
record what happened for the properties; no guard reads them, except that `made` is the bound on writes.
`SelectionRestored` is about a step: a rollback or a preview that ends puts the selection back, although
the records it reinstalls may select one of their own accord.

`AtomicEngine` is what `documentation/docs/engines/mutation-engines.md` promises of calls with rollback, queues with
rollback and previews: of the records, the notices that wait and the writes, nothing changes outside such a call while it is in progress,
and then all it wrote is kept or nothing is (`Keep`, `Refuse`). The code falls short of that in one way, which the
module states instead of hiding: a write made in a method in which a call was taken back may be lost (`lost`,
and `disturbed`, without which nothing is). `SyncEngine` maps to it through `Outside`, which is what the first
unsettled call captured, and the provider's state when there is none; `ImplementsAtomic` is the refinement. A nested call
that is refused inside an unsettled one is not seen (`RefuseInside`). What listeners hear is not part of it: a nested call may
deliver what is later taken back (`RefusedDeliveredOnlyByNested`).

Left out: devContext (under which a throw escapes), disableNotifications, notices that only report,
`stampScope('modified')`, borrowed records (`deepCopy` false, where a restore writes back into the caller's objects), calls refused before their method runs
(they change nothing), the order of payloads within a topic, subscriptions that change, random
sources and the competition clock, replacing records while a call is in progress.

### AsyncEngine

`asyncEngineInvoke` and `asyncExecutionQueue` in one async context, on the same `EngineState`. `call[c]` is a
call with its locals and the await it is at (`phase`); any call in progress may take the next step, so
calls overlap in every order the awaits allow. `Begin` takes the instant of whoever captured one, or
reads the source and owns it; `Release` is the await after which the owner lets go of it. `RollBack`
restores the caller's snapshot, whatever others wrote since, and detaches every method in progress from
the records it was given (`attached`). `CallRejected` is the path of a method that rejects: an invoke without
`rollbackOnError` returns from its `catch` with neither a stamp nor an emptied buffer. `Deliver` awaits one
listener after the other on the live buffer; `ListenerRejects` is a listener that throws or rejects, which no
`catch` is around: the call's own promise rejects, with its writes kept and stamped, the topics after it not told
and the buffer full.

Left out: state methods (in `SyncEngine`), previews, keyed notices, MUTATIONS listeners, listeners that call
the engine, devContext, borrowed records.

### RequestServer

The reference server: `codes` and `legacy` are the files of a tournament under the current and the former suffix
(`Missing`, `Torn`, or the set of writes the record holds), `request[r]` a request to run a queue with the
records its own engine holds. `FetchRecord`, `FetchEnds`, `DirectiveWrites`, `QueueRefused` and `QueueSaved` are
the steps between its awaits; `SaveFails`, `Crash`, `CrashWhileSaving` and `RemovalStops` stop a save or
a removal between two files or within one; `SaveTournamentRecord` and `RemoveTournamentRecord` are the other
endpoints. A crash loses the requests in progress and keeps the files.

Left out: other storage providers, the socket gateway and its messages, authorisation, the cache of
public queries, requests that only read.

### MutationLocks

`locks[e]` is the table of element `e`, as a set: locks are appended with a new id and renewed in place, so the
order of the code's array is that of the ids, "the first" is `Oldest` and the end from which the check walks is
`Newest`. `enabled` is the gate on the
tournament's extension. `GrantLock`, `RenewLock` and `RefuseLock` are the three ends of
`addMutationLock`; `RemoveLockById` and `RemoveLockByScope` those of `removeMutationLock`;
`CleanExpired` and `CheckMutationLock` sweep expired locks, the latter only those it walks past, on
the elements it reaches. Ghosts: `claims`, what each client was told it holds, and `widened`, the
locks a renewal extended. A client's call is one step: locks matter between calls.

Left out: removal of the gate's extension or of an element with its locks, unmapped methods, the
comparison of dates as strings, the notices of lock writes, and the checks methods make on their own
account when they call the governor directly.

### LadderStanding, Ladder

`LadderStanding` is what `documentation/docs/concepts/draw-types/ladder.md` promises of a standing: a list of
members, best first, that changes when one joins, leaves, takes a better place by exchange or by
insertion, or falls. `Ladder` is the code: `drawPosition` per member (`positionAssignments`), the
last RANKING scale value of each (`rankScale`), the structure's removal time items (`removed`), and
the challenges with their dated time items. Each governor call is an action: `IssueChallenge`,
`AcceptChallenge`, `DeclineChallenge` with the lapse count and the consequence it brings,
`SubmitResult`, `ConfirmResult`, `DisputeResult`, `ApplyResult` and `ApplyForfeit`
(`applyLadderMovement` with its two triggers), `AddLadderParticipant`, `RemoveLadderParticipant`.
`Ranking` maps the positions to the list, and `ImplementsStanding` says that every call is a step of
`LadderStanding` or leaves its list alone.

Nothing in the code reads a clock: every instant is an argument. So an action takes an instant, not
after `today` and at most `MaxLag` before it: `MaxLag = 0` is a ladder whose callers agree on the
time, `MaxLag = 1` one where a device or a delayed request is behind. Time items are ordered by those
instants, ties by the order of writing, as the code's stable sorts do. A dispute dated after a
confirmation suspends it, as tests and documentation have it; the comment above `disputeStands` in
`query/ladder/getResultAttestation.ts` says the opposite.

Left out: RATING ordering with `refreshLadderRatings`, challenge range `ANY`, policies replaced while the
ladder runs, matchUps and scale items that other governors write, notices. A policy is given with
its defaults filled in.

### DrawProgression

The results of a single elimination draw with a play-off for third place, which a LOSER link from the semifinals
feeds: `draw.matchUps[m]` has the positions on a matchUp, its status, its winning side and its score (none, partial, or
one that decides for a side), `draw.seats` says who is assigned to the two positions of the play-off. `SetMatchUpStatus` is the whole of
`setMatchUpStatus` down to the writers: what is refused before anything is written (`Refused`, a disjunct for
each check), the choice between `NoDownstreamDependencies`, `ApplyMatchUpValues` and refusal, the placement
of a winner (`DirectWinner`) and of a loser (`DirectLoser`), the removal from every later round and from the
play-off (`RemoveDirected`, `Unseated`), and `Written`, the one
writer of a matchUp. `CorrectWinner` is the call with `allowChangePropagation`, which exchanges the two sides
in the later rounds and in the play-off. A refused call may have written: `Refuse` carries the draw as it is then.

Left out: team matchUps, double exits, exits entered before the second participant has arrived, BYE as an
entered status, `propagateExitStatus`, the policies that waive a check, blank score objects, links with a
condition, feed-in rounds and BYEs in a fed structure, round robin groups, the second implementation in `mutate/matchUps/outcome`.

### Sanctioning

One application of `mutate/sanctioning`, from `createSanctioningRecord` to the tournament made of it. `status` moves
along `Transition` by `TransitionStatus`, which evaluates the guards of the policy the application was last
submitted with; the calls that do nothing else are one line each. `proposal` has a value for each field that has no
parts, those of the events and of the registration profile included; a change names paths, and `Under` says which
fields a value written at a path replaces. `events` has the id, if any, of each event proposed, which a change of the
whole event or of its `eventId` writes too (`ids`), `endorsements` the list of entries.
The record's second way to the first entry, `endorsement`, is one object with it until a copy of the record
is installed, by a queue that is rolled back or by a client (`InstallCopy`): `detached` says which.
`ProposeAmendment` judges severity and window under the policy of the call or else of the submission and
applies a minor change at once; a change is substantial when the policy lists one of its paths, not a path above or
below one. `ReviewAmendment` applies or rejects what is left. `OpenProposalRegistration` merges its profile into the
proposal and hands out the ids, the caller's before the proposal's, that `ActivateFromSanctioning` gives the
tournament; `ActivationRefused` is the return after the
transition when the caller supplies fewer uuids than there are requirements. Histories: `agreed`, the value of each
field as submitted or reviewed, or as set by a call with a policy of its own; `promised`, the ids handed out and not replaced by a client
since; `answered`, what a call about an endorser said it did.

Left out: the compliance checklist (`mutate/sanctioning/compliance.ts` but for its transitions, and the guard
`COMPLIANCE_COMPLETE`), review notes, tiers, `CUSTOM` guards, records with a single legacy endorsement, several records
and the active id, the gate on earlier records, amendments that add or remove events, what fields an event has that is
not proposed, and what activation copies to venues and publishes.

## The runs

| run | shows |
| --- | --- |
| `sync` (MCSyncEngine.cfg) | seven invariants, an action property and the refinement of `AtomicEngine` by the engine shell over 2 tournaments, 2 topics, 2 writes, 3 calls, 2 of them nested (1,076,876 states) |
| `sync_flag` | a documented claim that fails: a nested rollback clears the enclosing call's modification flag, whose write is then never stamped |
| `sync_delivered` | a documented claim that fails: a nested call that succeeds delivers what the call around it takes back |
| `async` (MCAsyncEngine.cfg) | five invariants of calls that overlap in one async context: 3 calls, 2 writes, 2 topics (3,116,750 states) |
| `server` (MCRequestServer.cfg) | four invariants, an action property and a liveness property of requests, failures and crashes: 2 records, 2 requests, 2 writes (269,755 states) |
| `locks` (MCMutationLocks.cfg) | four invariants and a liveness property of the lock tables of a draw and its tournament, 2 tokens, 3 methods, 2 scopes, 2 locks, 3 instants (46,217 states) |
| `locks_one_holder` | a documented claim that fails: a renewal that widens a lock overlaps another token's |
| `ladder` (MCLadder.cfg) | five invariants, an action property and the refinement of `LadderStanding`: 3 members and 2 challenges of 2 time items, or 2 members and 1 challenge of 5; 3 policies (652,645 states up to symmetry) |
| `ladder_lag` | a documented claim that fails: with instants out of order a participant confirms their own score |
| `draw` (MCDrawProgression.cfg) | two invariants and two action properties of results entered, corrected and removed: 8 positions, 3 of them BYEs, and a play-off (73,657 states) |
| `draw_relabel` | a documented claim that fails: a status of WALKOVER given alone takes the winner away and leaves it in the later rounds |
| `sanctioning` (MCSanctioning.cfg) | four invariants of an application: 2 endorsers, 3 fields under 4 paths, 1 event, a strict policy, a lax one and none (491,784 states up to symmetry) |

Properties of the engine shell: `OneInstant`, one instant per outermost call; `ImplementsAtomic`,
a call with rollback is atomic to whoever looks from outside, however calls nest, but for what is written to replaced
records; `RefusedDeliveredOnlyByNested`, subscribers hear of a write later taken back only from a call nested in the
refused one, which is what is left of the claim that `sync_delivered` refutes;
`KeptWritesStamped` and `StampsNameTheirCall`, stamps and kept writes agree, in both directions;
`NoSilentLoss`, a notice is lost only for the reasons `Fate` lists; `IdleIsClean`, nothing of a call outlives it but
notices it was told to delay; `SelectionRestored`. Of calls that overlap: `InstantHasOneOwner`, the captured
instant always has exactly one call that will release it; `KeptAsAnswered`, a call's answer tells what
became of its writes, unless it overlapped a rollback; `DeliveredAsAnswered`, what overlapping costs is confined to calls that overlap; `LeftoversAreExplained`, what a
quiet engine still carries comes from a delayed call, from a call whose method or listener rejected, or from an overlapped rollback. Of the server:
`RefusedPersistsNothing`, `WholeOrNothing`, a readable file never holds part of a request;
`LostOnlyToOverlap`, a save overwrites only what was saved while its request was in progress;
`OldCopyStaysHidden`; `EveryRequestEnds`. Properties of the locks: `TableMatchesClaims`, `HoldersExclude`,
`ClashOnlyByWidening`, and `WaiterGetsIn`, a client kept out by locks that expire gets in for good once no further lock is
granted or renewed there; a holder who goes on renewing keeps everybody else out without a limit. Properties of the ladder: `StandingIsARanking`, no hole and no
tie; `ImplementsStanding`, and no other change than those promised; `RankHistoryFollows`, the history
shows the rank held; `DeclineCostsTheRank`, a decline past the allowance costs the rank at once;
`AnsweredOnceInTime`; `CompletedIsAgreed`, a completed matchUp was last confirmed by another party and
not disputed since. Of the draw: `PlacesFollowResults`, who stands in a later round was sent there by a result
or by a BYE, everybody who was sent stands there, and the losers of the semifinals hold the seats of the play-off; `RefusedChangesNothing`, also when the
refusal comes after the first write; `OtherResultsStand`, a call changes no played result but its own. Of an
application: `EndorsementsAsAnswered`, the list says of every endorser what the last call about them answered, but for
an answer that named nobody and met a copy; `SubstantialChangesReviewed`, from submission on, a field that the policy protects changes only by
review: one that no unlisted path and no registration profile writes (`Protected`), while no call brings a policy of its own;
`RegistrationSurvives`, an id handed out to registrants is the tournament's, unless a client replaced it or took the event off.

### Bounds

Every bound is a constant. `MaxDepth` 2 and `MaxCalls` 3 let a call nest in a method and in a listener
and leave one call before or after them, which every property needs to fail; `MaxWrites` 2 gives an
outer and an inner write, or two writes with one key; `QueueLength` {2} has a directive that is not
the last. Two topics give a dispatch something before and something after the listener that calls
again. The mutants of `PROJECT.json` are the measure: each property fails within these bounds when
the code is changed the way the mutant says. Three calls let one overlap a second that overlaps a third; a queue of 2 has an await between its directives; of three calls at most one queue is in progress with the third begun (`Explored` in `MCAsyncEngine`). Two
requests over two records overlap in every order and give a save a file before and a file after the
one it is cut at. Eight positions are the fewest with a round that is neither the first nor the last;
BYEs at 4, 6 and 7 give a matchUp of two participants, one BYE beside it and a semifinal of two byed
participants. The outcomes entered at each matchUp are chosen in `MCDrawProgression`: one representative of each
path through the code, more at the matchUps that have both something before and something after
them; WALKOVER without a winner only at the final, whose winner nobody awaits (at the others it is `draw_relabel`'s subject). For the locks, two elements make a path with a second
level, two tokens a conflict, two locks an overlap, and instants 0 to 2 a lock that expires while
another one is renewed. Three members are the fewest for which exchange and insertion differ and a drop
of two passes someone; two challenges let a decline be the second lapse, or follow a played
challenge; a challenge needs two time items to be accepted or declined, and five to be accepted,
submitted, confirmed, disputed and confirmed again (six for `ladder_lag`): the constraint `Explored` takes a ladder of three with two challenges as far as two items of
each, and one of two members with a single challenge as far as five. One removal leaves a member who
may join again. Two endorsers give the list a first entry and another; of the three fields one is protected, one is
listed but written by the path above it as well, one is of the profile, and one change is partly substantial; three distances from the start date fall before, in and past the windows of
the strict policy; two openings, with or without an id of the caller, and with the event removed, added or amended between, exercise the reuse of ids.
Here the constraint `Explored` leaves out what the calls do not relate: once the proposal or the ids have changed, there are no
conditions, and the list of endorsers has at most one entry, which has endorsed, since calls about the proposal depend on
these only through the guards of the transitions.
Ratings 1, 2 and none place a newcomer above, below and last. With the bounds reached a model stops, which is why deadlock is not checked.

### Fairness

`SyncEngine` states none and has no liveness property: a method or listener may never return.
`MutationLocks` assumes `WF_vars(Tick)`: the wall clock advances, whatever clients do. No client is
assumed to release, renew or call, or to stop renewing: `WaiterGetsIn` has as its premise that locks over the
waiter's method are no longer granted or renewed on the path, and is about what a call would be told. The model's clock
stops at `MaxTime`, on which the property does not rest.
`RequestServer` assumes `WF_vars(Step(r))` for each request: the event loop runs what can be run, and
file reads settle. Crashes, failures and other clients owe nothing.

## What is proved

`EngineStateLemmas` proves, operator by operator, that operations on the provider's state take
states to states. `SyncEngineProofs` proves for every value of the constants:

- `TypeCorrect`: `Spec => []TypeOK`. The instant a call reads is bounded by the number of calls, so the
  inductive invariant is `TypeInv`, `TypeOK` with `clock <= calls`.
- `InstantOfOutermost`: `Spec => []OneInstant`; with the types it is inductive as it stands.
- `RollbackIsComplete`: `Spec => []RefusedLeavesNothing`, a write that was taken back is in no record and no buffered
  notice, inside a call in progress as well. Not inductive: a restore installs a snapshot
  taken earlier, so snapshots must be clean of what was taken back since. `RefusedInv` says what
  holds of the state (`StateHolds`: writes up to `made`, none undone) and of every snapshot
  (`SnapshotsHold`: nothing later than its capture), and that captures are in the order of the stack
  (`SnapshotsNest`), so that a restore undoes nothing a snapshot below it holds.
- `OutermostDeliversKeptWrites`: `Spec => []RefusedDeliveredOnlyByNested`, from `RefusedInv` with
  `DeliveredBeforeCaptures`: what the outermost call delivered was made before any capture in progress.
- `KeptWritesAreStamped`: `Spec => []KeptWritesStamped`, from `MarksInv`: marks are set only while a method runs, the
  instant in force is the last one read, and every write of a loaded record is covered by its stamp or by a mark that
  will become one (`CoveredBut`), but for the writes the property excuses. `StepKinds` sorts the steps by what they do
  to marks and stamps, so that each invariant is argued once for each kind.
- `UnnestedRollbacksStampAll`: `[]EveryKeptWriteStamped` of every behaviour in which no nested call is taken back. It is
  the documented claim that `sync_flag` refutes; among the steps that `StepKinds` sorts, only those taken back inside
  another call leave a write without a mark.
- `NothingOutlivesACall`: `Spec => []IdleIsClean`, from `DelayedInv`: what the outermost call
  found in the buffer, and can put back there, is delayed notices only.
- `RestoresSelect`: `Spec => SelectionRestored`, an action property, from the types alone.
- `StampsAreOfKeptWrites`: `Spec => []StampsNameTheirCall`, from `WitnessInv`: every stamp, in the records and in
  every capture, has a write of its instant that was not taken back.
- `NoNoticeIsLost`: `Spec => []NoSilentLoss`, from `FateInv`: what is pending is buffered, and a capture holds every
  older notice that is, so that a restore loses none.

- `SyncImplementsAtomic`: `Spec => ImplementsAtomic`. The relation the argument turns on is `Grown`: from one view of the
  engine to a later one records gained only writes made in between, lost none and no stamp fell, and every such write is
  there but for those taken back. It composes (`GrownTwice`) and a restore keeps it (`GrownRestored`). `GrowthInv` says
  that the state has grown from what each call captured, and a nested capture from those around it. What was lost is in none of them and needs a detached method.
  Every step other than a beginning, a restore and a load grows the state (`GrowingSteps`), which needs that no stamp is ahead of the clock
  (`StampsArePast`, from `WitnessInv` and `MarksInv`); seen from outside it is a `Keep` or a stutter.

`AsyncEngineProofs` proves of calls of one context that overlap in any order the awaits allow:

- `TypeCorrect`, and `InstantIsReleasedByItsOwner`: `Spec => []InstantHasOneOwner`, from the types with which call
  captured the instant in force.
- `AnswersTellWhatIsKept`: `Spec => []KeptAsAnswered`, from `KeptInv`: calls in progress at one time overlap one
  another; a snapshot agrees with the answers of the calls that did not overlap its own; and a method is detached from
  its records only by the rollback of a call that overlaps it.
- `LeftoversAreAccountedFor`: `Spec => []LeftoversAreExplained`, from `BufferInv`: every notice in the buffer, or in the
  buffer of a snapshot, is of a call that has not answered, or whose answer, a rejection by its method or by a listener included, or
  overlap explains it.
- `AnswersTellWhoIsTold`: `Spec => []DeliveredAsAnswered`, from `DeliveryInv`, which says how far a call that overlaps
  no other has come with each of its notices: which topics are behind it, and that a least one is ahead while any waits.

`LadderProofs` proves of a ladder, for any participants, ratings, policies, instants and challenges:

- `StandingStaysARanking`: `Spec => []StandingIsARanking`, and `TypeCorrect`. A standing is a ranking when it is a
  bijection from the members to `1 .. n` (`IsRanking`); one lemma for each way to rearrange it shows
  that it stays one. `StandingInv` adds the types; that ranks stay below the number of participants
  needs the ranking, which is why types and ranking are proved together. `StandingStep` says what any
  step does to the standing.
- `HistoryFollowsStanding`: `Spec => []RankHistoryFollows`, from `HistoryInv`: who was never a member has no
  history, else a newcomer could bring one that is not true.
- `AnswersOnceInTime`: `Spec => []AnsweredOnceInTime`, for any `MaxLag`. `MatchUpStep` says what any step does to
  a challenge: nothing, or one more time item under the conditions of its call.
- `OrderedItemsAgree`: `[]CompletedIsAgreed` of every behaviour in which the time items of each matchUp are dated in the
  order they were written (`ItemsInOrder`), whatever the clocks: the item the code takes as the latest is then
  the last one written (`LatestIsLastWritten`). `ladder_lag` shows that the statement is false without the condition.
  `CompletedWasAgreed` is its corollary: with `MaxLag = 0` items are always in order (`OrderInv`).
- `DeclinesCost`: `Spec => DeclineCostsTheRank`, an action property: only `DeclineChallenge` writes a decline
  (`OnlyDecliningDeclines`), the decline it has just written counts as a lapse in every window (`DeclineExceeds`), and each
  consequence lowers the rank (`ConsequenceCosts`). Lapses are counted, so that the challenges are finitely many is an
  invariant of its own.

Its last part proves `LadderImplementsStanding`: `Spec => ImplementsStanding`. A ranking of positions is one list,
and each way a call rearranges positions is one of `LadderStanding`'s of the list: joining inserts at an index, leaving
removes one, an overtaking exchanges two or moves one up, a drop moves one down. With `StandingInv`
the initial state maps to the empty list and every step to a step or a stutter.

`RequestServerProofs` proves of the server, for any records, requests and writes, with failing saves and
crashes at any point:

- `RefusedQueuesPersistNothing`, `FilesAreWhole`, `OldCopiesStayHidden`: from `PersistInv`. A write reaches a file only by a
  save of the request that made it, and only when that request's queue is over, so with all its
  others to the record; what an engine holds of others' writes comes from files, hence is whole too.
- `OverwritesOnlyOverlap`: `Spec => []LostOnlyToOverlap`, from `Covered`, which relates a file to the copies
  requests fetched of it and to what was saved since: what a copy lacks was saved by a request that overlaps its holder.
- `TypeCorrect`: with it, that a queue runs only on an engine that holds a record.

`MutationLocksProofs` proves of the locks, for any elements, paths, tokens, scopes, methods and number of locks,
`TypeOK`, `TableMatchesClaims`, `ClashOnlyByWidening` and, from them, `HoldersExclude`. The inductive invariant is
`TableInv`, these and `GateOpen` (a lock anywhere means that the check is enabled): a release finds its claim by the
lock's id, so ids must name one lock; a renewal that does not widen clashes where the lock it renews did. Steps that only
remove expired locks are treated together (`Sweep`). `HoldersExclude` needs no induction: at a claim's element some lock
covers the method, the newest of these decides (`NewestExists`), and it is the caller's. `OneHolderUnlessWidened` proves the
documented claim that `locks_one_holder` refutes, `[]OneHolder`, of every behaviour in which no renewal widens a lock.

`SanctioningProofs` proves of an application, for any endorsers, fields, events, policies and windows:

- `EndorsementsFollowAnswers`: `Spec => []EndorsementsAsAnswered`, from `EndorsementInv`, which adds that no two entries of
  the list are of one endorser: an answer is written to the first entry found, so it must be the only one.
- `SubstantialFieldsReviewed`: `Spec => []SubstantialChangesReviewed`, inductive with the types, since only a submission and a withdrawal lead
  out of `Editable`, the statuses in which the proposal may be edited freely. A change that is applied unreviewed under
  the snapshot writes no protected field (`AmendmentsApply`), and an opening writes the profile's fields only (`OpeningKeepsReviewed`).
- `RegistrationsSurvive`: `Spec => []RegistrationSurvives`, from `PromisesKept`: until there is a tournament, what was handed out, and not
  replaced since, is the proposal's. Openings and amendments keep that (`OpeningKeepsPromises`, `ChangesKeepPromises`), the
  activation hands it over (`ActivationKeepsPromises`), and the tournament is made once (`MadeOnce`).

`DrawProgressionProofs` proves of a draw, for any number of rounds and any BYEs, what holds whatever the calls and
what holds as long as none blanks a winner (`UnblankedCall`: it is not WALKOVER without a winner, given to a decided
matchUp that sends its winner on). `draw_relabel` shows that the second kind is false without the condition; for an
instance in which every call with WALKOVER names its winner (`NoBareWalkover`) it holds of every behaviour, which
`PlacesAlwaysFollow` and `RefusalsChangeNothing` state.

- Whatever the calls: `TypeCorrect`; `PlayedResultsStand`: `Spec => OtherResultsStand`; `OnePlaceAlways`: nobody stands in
  two matchUps of one round. The invariant is `Stands`: whoever stands in a matchUp is of the part of the draw it decides
  (`InBlock`), a matchUp of two participants is one of two positions, and only such a matchUp has a winner. `Steady` says what a call
  may do to it: whatever it changes besides its own matchUp was not played. It composes (`SteadyTwice`), so
  that a call which takes one result back and enters another needs no argument of its own.
- Unless a winner is blanked: `PlacesFollowUnlessBlanked`: `[]PlacesFollowResults`. The inductive invariant is `Bracket`,
  `Stands` with `Places`, that places follow results. Each way a call writes keeps it: another status or score
  (`Relabelled`), a result taken back (`TakenBack`) or entered (`Decides`), two participants changing places (`Exchange`).
  The last rests on arithmetic of the bracket: the positions of a part are adjacent, so the two stand on the same side
  of whoever else comes there.
- `RefusalsUnlessBlanked`: `RefusedChangesNothing`. A refusal after the first write would need a next matchUp
  with two others in it, or no free seat; `OpenNext` and `OpenSeat` exclude them.
- `EveryRoundWonUnlessBlanked` and `LosersOutUnlessBlanked` say what `Bracket` means for a participant: who stands in
  a round was sent on by a matchUp of every round before, and a loser stands in no later round, in the play-off only from
  a semifinal.

Powers of two have no facts in the library; they come from the number of sets of n numbers (`PowerOfTwo`, `Doubles`)
and, for what needs induction, from the least number of a set (`LeastNumber`).

The proofs assume what the modules assume of their constants: `TournamentAssumption`,
`KeyAssumption`, `BoundAssumption`, `RankAssumption`, `AnnouncementAssumption`, `DepthAssumption` for the engines, with
`QueueAssumption` where calls overlap; for the ladder `ParticipantAssumption`, `PolicyAssumption`, `RatingAssumption`,
`BoundAssumption`; for the server `FileAssumption`, `WriteAssumption`; for the locks `MethodAssumption`,
`TokenAssumption`, `PathAssumption`, `LockBoundAssumption`; for the draw `RoundsAssumption`,
`CallAssumption`; for an application `PolicyAssumption`, `ProposalAssumption`, `BoundAssumption`.

Every safety property the passing runs check is proved, and of the documented claims that fail, when they hold. Only model-checked: liveness
(`WaiterGetsIn`, `EveryRequestEnds`), since the prover has neither fairness nor ENABLED. No
module has a recursive operator.

## Disagreements between code and documentation

- A nested rollback or preview clears the modification flag instead of restoring it
  (`assemblies/engines/parts/operationState.ts:102`; `documentation/docs/engines/mutation-engines.md:192`).
- A call nested in a method delivers, when it succeeds, its own notices and those the method buffered before, and the
  call around it is then rolled back: subscribers have heard of refused writes (`assemblies/engines/sync/engineInvoke.ts:75`;
  `documentation/docs/engines/mutation-engines.md:192-193`).
- A renewal can overlap another token's lock (`mutate/tournaments/mutationLocks/addMutationLock.ts:94`;
  `documentation/docs/concepts/mutation-locks.md:231`).
- The score kept is the last one written, the score attested the latest dated one: with instants out
  of order a reporter can confirm the score that stands (`query/ladder/getResultAttestation.ts:38`;
  `documentation/docs/concepts/draw-types/ladder.md:99`).
- A status of WALKOVER given alone to a decided matchUp blanks its winner and leaves that participant in the later
  rounds (`mutate/matchUps/score/modifyMatchUpScore.ts:326`; `documentation/docs/concepts/outcome-pipeline.md:286`).

For each of the five, a theorem says that what the run shows is the only way the claim fails in the model: a nested call
taken back (`UnnestedRollbacksStampAll`), a nested call that delivers (`OutermostDeliversKeptWrites`), a renewal that widens (`OneHolderUnlessWidened`), time items out of order
(`OrderedItemsAgree`), a winner blanked (`PlacesFollowUnlessBlanked`). After a blanked winner a refusal is no longer
without effect either: when the other side is entered as the winner, the matchUp is written before `directWinner` finds
the next one full, and stays written though the call answers with an error.

Seen while modelling, in the code and in the documents, and not shown by a run of their own:

- A method in which a call was rolled back or previewed goes on with the records it was given, which are no longer the
  engine's: what it writes then is lost, though the call may answer success, leave its mark and tell its subscribers
  (`assemblies/engines/parts/operationState.ts:92-93`; `assemblies/engines/parts/paramsMiddleware.ts:23`: "a write never
  silently goes nowhere"). `AtomicEngine` states it as `lost`.
- An async listener that rejects rejects the call around it, whose writes are kept and stamped, and leaves the buffer
  to the next call (`assemblies/engines/async/asyncEngineInvoke.ts:71`; `documentation/docs/engines/mutation-engines.md:186`:
  methods do not throw on failure). `LeftoversAreExplained` names it.
- An amendment is judged by the exact path it names: `events[0]` is minor where `events.*.drawSize` is substantial, as is a
  path below `sanctioningTier` (`mutate/sanctioning/amendments.ts:142`; both fields are in
  `fixtures/policies/POLICY_SANCTIONING_GENERIC.ts:84`). A call may bring a policy of its own
  (`amendments.ts:52`; `documentation/docs/engines/sanctioning-engine.md:189`: all later validation uses the snapshot). And opening
  registration merges its profile into the proposal with no review (`mutate/sanctioning/openProposalRegistration.ts:57`).
  `SubstantialChangesReviewed` excepts these three.
- An opening with a `tournamentId` of the caller replaces the id handed out
  (`mutate/sanctioning/openProposalRegistration.ts:49`), and an update or an amendment that writes an event whole or its `eventId`
  drops or replaces the event's (`mutate/sanctioning/updateEventProposal.ts:35`;
  `documentation/docs/engines/sanctioning-engine.md:256` and `:264`). `RegistrationSurvives` excepts these.
- A queue refused by a lock is not rolled back unless asked to be
  (`assemblies/engines/sync/executionQueue.ts:58`; `documentation/docs/concepts/mutation-locks.md:403`).
- Once a copy of an application is installed, an endorsement or a decline that names no endorser is written to a copy of
  the first entry and lost with it (`mutate/sanctioning/endorsement.ts:11`). `EndorsementsAsAnswered` excepts it.
- An activation that is refused for too few uuids leaves the application ACTIVE, without a tournament and without a way to
  make one (`mutate/sanctioning/activateFromSanctioning.ts:354`).
- Registration opened again on an ACTIVE application whose proposal had no id mints one that is not the tournament's
  (`mutate/sanctioning/openProposalRegistration.ts:49`).
- A conditional approval becomes an approval with conditions unmet, unless the policy has a guard for it
  (`documentation/docs/engines/sanctioning-engine.md:30`), and an amendment may be reviewed in any status.

## Plan

Done: the engine shell with nested and with overlapping calls and the atomic engine it implements, the request server, the locks, the ladder and its
abstract standing, the results of a draw with a play-off, a sanctioning application, and theorems about
every safety property of all of them. Next, in this order:

1. `DrawProgression`: links with a condition, feed-in rounds with BYEs, fed structures of more than one round, double exits.
2. `Sanctioning`: the compliance checklist and the guard `COMPLIANCE_COMPLETE`.
3. `Ladder`: RATING ordering with `refreshLadderRatings`.
4. Draft positions, practice capacity, points with undo.

## Not modelled

Components that have no module, and why:

- Partial-record guard, explain, event bus: the guard refuses before anything runs, so it adds no step to `SyncEngine`;
  explain is a preview whose notices are read, and the bus is one of the listeners.
- Officiating: a life cycle of the same form as `Sanctioning`, with fewer interactions between its calls.
- Entries, participants, events, venues, scales, publishing, tie formats, practice registrations: edits of one record with
  referential checks, one call at a time. What goes wrong there goes wrong within a call, where tests reach it.
- Draft positions: a sequence of picks that ends in an assignment; planned.
- The second outcome pipeline (`mutate/matchUps/outcome`): it is to have the effects of the first, which `DrawProgression`
  models; it is not the default.
- Double exits and their propagation (`positionGovernor/doubleExitAdvancement.ts`), BYE placement and position
  actions: the largest part of the draw that is left; they need BYEs in every round of `DrawProgression`.
- Scoring engine: points, games and sets of one matchUp; its history is a list of states to go back to. Planned.
- Availability engine, scheduling: calendars of courts and minutes; their difficulty is in the data and the heuristics.
- Draw generation, generators and mocks: functions that construct data, combinatorial and beyond small instances.
- Queries, reports, validators, codecs: read only, without state.
