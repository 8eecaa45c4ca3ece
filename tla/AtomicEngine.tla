---------------------------- MODULE AtomicEngine ----------------------------
(***************************************************************************)
(* What rollbackOnError, a queue with rollback and a preview promise to    *)
(* who sees the engine from outside such a call: nothing changes while it  *)
(* is in progress, and then either all it wrote is kept or nothing is.     *)
(* engines/mutation-engines.md states it; SyncEngine implements it with    *)
(* copies that it restores, but for what it does not say: once a call made *)
(* inside a method has been taken back, the method's own writes are lost   *)
(* while their notices are not.                                            *)
(*                                                                         *)
(* Writes are numbered in the order they are made, over all calls.         *)
(***************************************************************************)
EXTENDS Naturals

CONSTANT Tournament

VARIABLES
  records,     \* of each loaded tournament, the writes it holds and its stamp
  announced,   \* the writes whose notices wait to be delivered
  settled,     \* how many writes are of calls that were kept or refused
  refused,     \* the writes that were taken back
  lost,        \* the writes that reached no record
  open,        \* whether a call is in progress that may be refused
  disturbed    \* whether a method runs on in which a call was taken back

vars == <<records, announced, settled, refused, lost, open, disturbed>>

Loaded(ids) == [t \in ids |-> [writes |-> {}, stamp |-> 0]]

Held(r) == UNION {r[t].writes : t \in DOMAIN r}

Init ==
  /\ \E ids \in SUBSET Tournament : records = Loaded(ids)
  /\ announced = {} /\ settled = 0 /\ refused = {} /\ lost = {}
  /\ open = FALSE /\ disturbed = FALSE

\* Only a call that is taken back disturbs the methods it was made in.
Undisturbed == disturbed' => disturbed

\* Writes are lost as a method makes them that was disturbed.
Loses ==
  /\ lost \subseteq lost' /\ \A w \in lost' \ lost : w > settled
  /\ lost' # lost => disturbed

\* A client installs other records.
Load(ids) ==
  /\ ~open
  /\ records' = Loaded(ids)
  /\ Undisturbed
  /\ UNCHANGED <<announced, settled, refused, lost, open>>

Begin ==
  /\ ~open
  /\ open' = TRUE
  /\ Undisturbed
  /\ UNCHANGED <<records, announced, settled, refused, lost>>

\* From r to q, records go or gain writes of ws, all of ws when none goes; no stamp falls.
Grows(r, q, ws) ==
  /\ DOMAIN q \subseteq DOMAIN r
  /\ \A t \in DOMAIN q :
       /\ r[t].writes \subseteq q[t].writes /\ q[t].writes \subseteq r[t].writes \cup ws
       /\ r[t].stamp <= q[t].stamp
  /\ DOMAIN q = DOMAIN r => ws \subseteq Held(q)

\* The call is kept: every write since it began, but for what was refused inside and what was
\* lost.  Without such a call, each write is kept as it is made.
Keep ==
  LET standing == (settled + 1 .. settled') \ refused
  IN /\ ~open'
     /\ settled <= settled'
     /\ announced' \subseteq announced \cup standing
     /\ Grows(records, records', standing \ lost')
     /\ Loses /\ lost' \ lost \subseteq standing
     /\ Undisturbed
     /\ UNCHANGED refused

\* The call is refused: every write since it began is taken back, and nothing else changes.
Refuse ==
  /\ open /\ ~open'
  /\ settled <= settled'
  /\ refused' = refused \cup (settled + 1 .. settled')
  /\ UNCHANGED <<records, announced, lost>>

\* Inside the call in progress a call is refused, which is not seen outside.
RefuseInside ==
  /\ open
  /\ refused \subseteq refused' /\ \A w \in refused' \ refused : w > settled
  /\ UNCHANGED <<records, announced, settled, lost, open>>

\* Inside the call in progress a method goes on, which is not seen outside.
GoOnInside ==
  /\ open
  /\ Loses
  /\ Undisturbed
  /\ UNCHANGED <<records, announced, settled, refused, open>>

Next ==
  \/ Begin
  \/ Keep
  \/ Refuse
  \/ RefuseInside
  \/ GoOnInside
  \/ \E ids \in SUBSET Tournament : Load(ids)

Spec == Init /\ [][Next]_vars
=============================================================================
