------------------------- MODULE MutationLocksProofs -------------------------
(***************************************************************************)
(* For any elements, paths, tokens, scopes and methods, and any number of  *)
(* locks: the tables are well typed, agree with what clients were told,    *)
(* and keep everybody else out; locks clash only if a renewal widened one. *)
(***************************************************************************)
EXTENDS MutationLocks, NaturalsInduction, WellFoundedInduction, TLAPS

\* A lock anywhere means that the check is enabled.
GateOpen == \A e \in Element : locks[e] # {} => enabled

\* The inductive invariant.  The parts need each other: a claim is released by its lock's id,
\* which ids that name one lock make right; a renewal clashes where the lock renewed did.
TableInv == TypeOK /\ TableMatchesClaims /\ ClashOnlyByWidening /\ GateOpen

-----------------------------------------------------------------------------
(* Locks.                                                                  *)

\* Some lock of several is the newest.
LEMMA NewestExists ==
  ASSUME NEW S, S # {}, \A l \in S : l.id \in LockId
  PROVE  Newest(S) # {}
<1> DEFINE Age(l) == MaxLocks - l.id
           Ages == {Age(l) : l \in S}
<1>1. \A l \in S : l.id \in Nat /\ l.id <= MaxLocks /\ Age(l) \in Nat
  BY LockBoundAssumption DEF LockId
<1>2. Ages \subseteq Nat /\ Ages # {}
  BY <1>1
<1>3. IsWellFoundedOn(OpToRel(<, Nat), Nat)
  BY NatLessThanWellFounded
<1>4. PICK a \in Ages : \A b \in Ages : ~(<<b, a>> \in OpToRel(<, Nat))
  BY <1>2, <1>3, WFMin
<1>5. \A b \in Ages : ~(b < a)
  BY <1>2, <1>4 DEF OpToRel
<1>6. PICK l \in S : a = Age(l)
  OBVIOUS
<1>7. ASSUME NEW other \in S PROVE other.id <= l.id
  <2>1. ~(Age(other) < Age(l))
    BY <1>5, <1>6
  <2>2. other.id \in Nat /\ l.id \in Nat /\ MaxLocks \in Nat
    BY <1>1, LockBoundAssumption
  <2> QED BY <2>1, <2>2
<1> QED BY <1>6, <1>7 DEF Newest

\* Locks of one element that clash overlap, and so does one that covers more.
LEMMA ClashMeans ==
  ASSUME NEW a \in Lock, NEW b \in Lock, Clash(a, b)
  PROVE  a.scope = b.scope /\ Overlap(a.methods, b.methods) /\ a.token # b.token
BY DEF Clash, Covers, Overlap

LEMMA LockFields ==
  ASSUME NEW l \in Lock
  PROVE  /\ l.id \in LockId /\ l.token \in Token /\ l.scope \in Scope
         /\ l.methods \in {r.methods : r \in Request} /\ l.expires \in Expiry
BY DEF Lock

-----------------------------------------------------------------------------
(* Steps that remove no lock but expired ones: sweeps and refusals.        *)

Sweep ==
  /\ locks' \in [Element -> SUBSET Lock]
  /\ \A e \in Element : locks'[e] \subseteq locks[e] /\ Unexpired(e) \subseteq locks'[e]
  /\ UNCHANGED <<now, enabled, granted, claims, widened>>

LEMMA SweepKeepsInv ==
  ASSUME TableInv, Sweep
  PROVE  TableInv'
<1>1. \A l : Active(l)' = Active(l)
  BY DEF Sweep, Active
<1>2. \A e \in Element : Unexpired(e)' = Unexpired(e)
  BY <1>1 DEF Sweep, Unexpired
<1>3. TypeOK'
  BY DEF Sweep, TableInv, TypeOK
<1>4. TableMatchesClaims'
  <2>1. ASSUME NEW c \in claims', Active(c.lock)' PROVE c.lock \in locks'[c.element]
    <3>1. c \in claims /\ c.element \in Element /\ Active(c.lock)
      BY <1>1, <2>1 DEF Sweep, TableInv, TypeOK, Claim
    <3>2. c.lock \in Unexpired(c.element)
      BY <3>1 DEF TableInv, TableMatchesClaims, Unexpired
    <3> QED BY <3>1, <3>2 DEF Sweep
  <2> QED BY <1>2, <2>1 DEF Sweep, TableInv, TableMatchesClaims
<1>5. ClashOnlyByWidening'
  BY <1>2 DEF Sweep, TableInv, ClashOnlyByWidening, Clash, Covers
<1>6. GateOpen'
  BY DEF Sweep, TableInv, GateOpen
<1> QED BY <1>3, <1>4, <1>5, <1>6 DEF TableInv

LEMMA CheckSweeps ==
  ASSUME TypeOK, NEW path \in Path, NEW m \in Method, NEW token, CheckMutationLock(path, m, token)
  PROVE  Sweep
BY DEF CheckMutationLock, Swept, Passed, Covering, Unexpired, TypeOK, Sweep

LEMMA CleanSweeps == TypeOK /\ CleanExpired => Sweep
BY DEF CleanExpired, Unexpired, TypeOK, Sweep

LEMMA RefuseSweeps ==
  ASSUME TypeOK, NEW e \in Element, NEW token, NEW scope, NEW methods,
         RefuseLock(e, token, scope, methods)
  PROVE  Sweep
BY DEF RefuseLock, Unexpired, TypeOK, Sweep

-----------------------------------------------------------------------------
(* The other steps.                                                        *)

LEMMA TickKeepsInv ==
  ASSUME TableInv, Tick
  PROVE  TableInv'
<1>1. now \in Nat /\ now' = now + 1 /\ now' \in Time
  BY LockBoundAssumption DEF Tick, TableInv, TypeOK, Time
<1>2. \A l \in Lock : Active(l)' => Active(l)
  BY <1>1, LockBoundAssumption DEF Active, Lock, Expiry, Time
<1>3. \A e \in Element : Unexpired(e)' \subseteq Unexpired(e)
  BY <1>2 DEF Unexpired, Tick, TableInv, TypeOK
<1>4. TypeOK'
  BY <1>1 DEF Tick, TableInv, TypeOK
<1>5. TableMatchesClaims'
  <2>1. ASSUME NEW e \in Element, NEW l \in Unexpired(e)'
        PROVE  [element |-> e, lock |-> l] \in claims'
    BY <1>3, <2>1 DEF Tick, TableInv, TableMatchesClaims, Unexpired, Active
  <2>2. ASSUME NEW c \in claims', Active(c.lock)' PROVE c.lock \in locks'[c.element]
    <3>1. c \in claims /\ c.lock \in Lock
      BY DEF Tick, TableInv, TypeOK, Claim
    <3> QED BY <1>2, <2>2, <3>1 DEF Tick, TableInv, TableMatchesClaims
  <2> QED BY <2>1, <2>2 DEF TableMatchesClaims
<1>6. ClashOnlyByWidening'
  BY <1>3 DEF Tick, TableInv, ClashOnlyByWidening, Clash, Covers
<1>7. GateOpen'
  BY DEF Tick, TableInv, GateOpen
<1> QED BY <1>4, <1>5, <1>6, <1>7 DEF TableInv

\* A grant: the new lock has an id of its own, and clashes with no lock it did not conflict with.
LEMMA GrantKeepsInv ==
  ASSUME TableInv, NEW e \in Element, NEW token \in Token, NEW r \in Request, NEW expires \in Expiry,
         GrantLock(e, token, r.scope, r.methods, expires)
  PROVE  TableInv'
<1> DEFINE lock == [id |-> granted + 1, token |-> token, scope |-> r.scope,
                    methods |-> r.methods, expires |-> expires]
<1>1. /\ granted < MaxLocks /\ Conflicting(e, r.scope, r.methods) = {}
      /\ locks' = [locks EXCEPT ![e] = Unexpired(e) \cup {lock}]
      /\ enabled' = TRUE /\ granted' = granted + 1
      /\ claims' = claims \cup {[element |-> e, lock |-> lock]}
      /\ now' = now /\ widened' = widened
  BY DEF GrantLock, LockIdOfGrant, OpenGate
<1>2. granted \in Nat /\ granted + 1 \in LockId /\ granted' \in 0 .. MaxLocks
  BY <1>1, LockBoundAssumption DEF TableInv, TypeOK, LockId
<1>3. lock \in Lock
  BY <1>2, MethodAssumption DEF Lock
<1> HIDE DEF lock
<1>4. lock.id = granted + 1 /\ lock.token = token /\ lock.scope = r.scope
      /\ lock.methods = r.methods
  BY DEF lock
<1>5. \A l : Active(l)' = Active(l)
  BY <1>1 DEF Active
<1>6. /\ locks' \in [Element -> SUBSET Lock]
      /\ locks'[e] = Unexpired(e) \cup {lock}
      /\ \A f \in Element \ {e} : locks'[f] = locks[f]
      /\ Unexpired(e) \subseteq locks[e]
  BY <1>1, <1>3 DEF TableInv, TypeOK, Unexpired
<1>7. \A f \in Element : \A l \in locks[f] : l \in Lock /\ l.id \in Nat /\ l.id <= granted
                                          /\ l.id # lock.id
  BY <1>2, <1>4, LockBoundAssumption DEF TableInv, TypeOK, Lock, LockId
<1>8. TypeOK'
  <2>1. \A f \in Element : \A l \in locks'[f] : l.id <= granted'
    BY <1>1, <1>2, <1>4, <1>6, <1>7
  <2>2. \A f, g \in Element : \A k \in locks'[f], l \in locks'[g] :
          k.id = l.id => f = g /\ k = l
    BY <1>6, <1>7 DEF TableInv, TypeOK
  <2>3. claims' \subseteq Claim
    BY <1>1, <1>3 DEF TableInv, TypeOK, Claim
  <2> QED BY <1>1, <1>2, <1>6, <2>1, <2>2, <2>3 DEF TableInv, TypeOK
<1>9. TableMatchesClaims'
  <2>1. ASSUME NEW f \in Element, NEW l \in Unexpired(f)'
        PROVE  [element |-> f, lock |-> l] \in claims'
    BY <1>1, <1>5, <1>6, <2>1 DEF TableInv, TableMatchesClaims, Unexpired
  <2>2. ASSUME NEW c \in claims', Active(c.lock)' PROVE c.lock \in locks'[c.element]
    <3>1. CASE c \in claims
      BY <1>5, <1>6, <2>2, <3>1 DEF TableInv, TableMatchesClaims, TypeOK, Claim, Unexpired
    <3>2. CASE c = [element |-> e, lock |-> lock]
      BY <1>6, <3>2
    <3> QED BY <1>1, <3>1, <3>2
  <2> QED BY <2>1, <2>2 DEF TableMatchesClaims
<1>10. ClashOnlyByWidening'
  <2>1. \A l \in Unexpired(e) : ~Clash(l, lock) /\ ~Clash(lock, l)
    <3>1. SUFFICES ASSUME NEW l \in Unexpired(e), Clash(l, lock) \/ Clash(lock, l) PROVE FALSE
      OBVIOUS
    <3>2. l.scope = lock.scope /\ Overlap(l.methods, lock.methods)
      BY <1>3, <1>6, <1>7, <3>1, ClashMeans DEF Overlap
    <3> QED BY <1>1, <1>4, <3>2 DEF Conflicting
  <2>2. ~Clash(lock, lock)
    BY DEF Clash
  <2>3. \A f \in Element : Unexpired(f)' \subseteq
          (IF f = e THEN Unexpired(e) \cup {lock} ELSE Unexpired(f))
    BY <1>5, <1>6 DEF Unexpired
  <2>4. ASSUME NEW f \in Element, NEW a \in Unexpired(f)', NEW b \in Unexpired(f)', Clash(a, b)
        PROVE  a.id \in widened \/ b.id \in widened
    BY <2>1, <2>2, <2>3, <2>4 DEF TableInv, ClashOnlyByWidening
  <2> QED BY <1>1, <2>4 DEF ClashOnlyByWidening, Clash, Covers
<1>11. GateOpen'
  BY <1>1 DEF GateOpen
<1> QED BY <1>8, <1>9, <1>10, <1>11 DEF TableInv

\* A renewal: the lock keeps its id, and unless it is widened it covers nothing it did not.
LEMMA RenewKeepsInv ==
  ASSUME TableInv, NEW e \in Element, NEW token \in Token, NEW r \in Request, NEW expires \in Expiry,
         RenewLock(e, token, r.scope, r.methods, expires)
  PROVE  TableInv'
<1>1. PICK held \in Oldest(Conflicting(e, r.scope, r.methods)) :
        LET renewed == [held EXCEPT !.methods = r.methods, !.expires = expires]
        IN /\ locks' = [locks EXCEPT ![e] = (Unexpired(e) \ {held}) \cup {renewed}]
           /\ claims' = {c \in claims : c.lock.id # held.id}
                          \cup {[element |-> e, lock |-> renewed]}
           /\ widened' = IF Widens(held.methods, r.methods) THEN widened \cup {held.id} ELSE widened
           /\ now' = now /\ enabled' = enabled /\ granted' = granted
  BY DEF RenewLock
<1> DEFINE renewed == [held EXCEPT !.methods = r.methods, !.expires = expires]
<1>2. held \in Unexpired(e) /\ held \in locks[e] /\ Active(held) /\ held \in Lock
  BY DEF Oldest, Conflicting, Unexpired, TableInv, TypeOK
<1>3. renewed \in Lock /\ renewed.id = held.id /\ renewed.token = held.token
      /\ renewed.scope = held.scope /\ renewed.methods = r.methods
  BY <1>2 DEF Lock
<1>4. /\ locks' = [locks EXCEPT ![e] = (Unexpired(e) \ {held}) \cup {renewed}]
      /\ claims' = {c \in claims : c.lock.id # held.id}
                     \cup {[element |-> e, lock |-> renewed]}
      /\ widened' = IF Widens(held.methods, r.methods) THEN widened \cup {held.id} ELSE widened
      /\ now' = now /\ enabled' = enabled /\ granted' = granted
  BY <1>1
<1> HIDE DEF renewed
<1>5. \A l : Active(l)' = Active(l)
  BY <1>4 DEF Active
<1>6. /\ locks' \in [Element -> SUBSET Lock]
      /\ locks'[e] = (Unexpired(e) \ {held}) \cup {renewed}
      /\ \A f \in Element \ {e} : locks'[f] = locks[f]
      /\ Unexpired(e) \subseteq locks[e]
  BY <1>3, <1>4 DEF TableInv, TypeOK, Unexpired
<1>7. \A f \in Element : \A l \in locks[f] : l.id = held.id => f = e /\ l = held
  BY <1>2 DEF TableInv, TypeOK
<1>8. TypeOK'
  <2>1. \A f \in Element : \A l \in locks'[f] : l.id <= granted'
    BY <1>2, <1>3, <1>4, <1>6 DEF TableInv, TypeOK
  <2>2. \A f, g \in Element : \A k \in locks'[f], l \in locks'[g] :
          k.id = l.id => f = g /\ k = l
    BY <1>3, <1>6, <1>7 DEF TableInv, TypeOK
  <2>3. claims' \subseteq Claim /\ widened' \subseteq LockId
    BY <1>2, <1>3, <1>4, LockFields DEF TableInv, TypeOK, Claim
  <2> QED BY <1>4, <1>6, <2>1, <2>2, <2>3 DEF TableInv, TypeOK
<1>9. TableMatchesClaims'
  <2>1. ASSUME NEW f \in Element, NEW l \in Unexpired(f)'
        PROVE  [element |-> f, lock |-> l] \in claims'
    <3>1. CASE l \in locks[f] /\ l.id # held.id
      <4>1. [element |-> f, lock |-> l] \in claims
        BY <1>5, <2>1, <3>1 DEF TableInv, TableMatchesClaims, Unexpired
      <4> QED BY <1>4, <3>1, <4>1
    <3>2. CASE f = e /\ l = renewed
      BY <1>4, <3>2
    <3> QED BY <1>6, <1>7, <2>1, <3>1, <3>2 DEF Unexpired
  <2>2. ASSUME NEW c \in claims', Active(c.lock)' PROVE c.lock \in locks'[c.element]
    <3>1. CASE c \in claims /\ c.lock.id # held.id
      <4>1. c.lock \in locks[c.element] /\ c.element \in Element /\ Active(c.lock)
        BY <1>5, <2>2, <3>1 DEF TableInv, TableMatchesClaims, TypeOK, Claim
      <4> QED BY <1>6, <3>1, <4>1 DEF Unexpired
    <3>2. CASE c = [element |-> e, lock |-> renewed]
      BY <1>6, <3>2
    <3> QED BY <1>4, <3>1, <3>2
  <2> QED BY <2>1, <2>2 DEF TableMatchesClaims
<1>10. ClashOnlyByWidening'
  <2>1. ASSUME ~Widens(held.methods, r.methods), NEW b,
               Clash(renewed, b) \/ Clash(b, renewed)
        PROVE  IF Clash(renewed, b) THEN Clash(held, b) ELSE Clash(b, held)
    <3>1. \A m \in Method : Covers(renewed, m) => Covers(held, m)
      BY <1>3, <2>1 DEF Covers, Widens
    <3> QED BY <1>3, <2>1, <3>1 DEF Clash
  <2>2. \A f \in Element : Unexpired(f)' \subseteq
          (IF f = e THEN Unexpired(e) \cup {renewed} ELSE Unexpired(f))
    BY <1>5, <1>6 DEF Unexpired
  <2>3. ASSUME NEW f \in Element, NEW a \in Unexpired(f)', NEW b \in Unexpired(f)', Clash(a, b)
        PROVE  a.id \in widened' \/ b.id \in widened'
    <3>1. widened \subseteq widened'
      BY <1>4
    <3>2. CASE a \in Unexpired(f) /\ b \in Unexpired(f)
      BY <2>3, <3>1, <3>2 DEF TableInv, ClashOnlyByWidening
    <3>3. CASE Widens(held.methods, r.methods) /\ (a = renewed \/ b = renewed)
      BY <1>3, <1>4, <3>3
    <3>4. CASE ~Widens(held.methods, r.methods) /\ a = renewed
      <4>1. f = e \/ a \in Unexpired(f)
        BY <2>2, <2>3
      <4>2. Clash(held, b)
        BY <2>1, <2>3, <3>4
      <4>3. b # renewed
        BY <2>3, <3>4 DEF Clash
      <4> QED BY <1>2, <1>3, <2>2, <2>3, <3>1, <3>2, <3>4, <4>1, <4>2, <4>3
              DEF TableInv, ClashOnlyByWidening
    <3>5. CASE ~Widens(held.methods, r.methods) /\ b = renewed
      <4>1. f = e \/ b \in Unexpired(f)
        BY <2>2, <2>3
      <4>2. a # renewed
        BY <2>3, <3>5 DEF Clash
      <4>3. Clash(a, held)
        <5>1. \A m \in Method : Covers(renewed, m) => Covers(held, m)
          BY <1>3, <3>5 DEF Covers, Widens
        <5> QED BY <1>3, <2>3, <3>5, <5>1 DEF Clash
      <4> QED BY <1>2, <1>3, <2>2, <2>3, <3>1, <3>2, <3>5, <4>1, <4>2, <4>3
              DEF TableInv, ClashOnlyByWidening
    <3> QED BY <2>2, <2>3, <3>2, <3>3, <3>4, <3>5
  <2> QED BY <2>3 DEF ClashOnlyByWidening, Clash, Covers
<1>11. GateOpen'
  BY <1>2, <1>4, <1>6 DEF TableInv, GateOpen
<1> QED BY <1>8, <1>9, <1>10, <1>11 DEF TableInv

\* A release: what goes from the table goes from the claims, and nothing else.
LEMMA RemoveKeepsInv ==
  ASSUME TableInv, NEW e \in Element, NEW candidates, candidates \subseteq locks[e],
         NEW token, NEW forceRelease, RemoveFirst(e, candidates, token, forceRelease)
  PROVE  TableInv'
<1>1. PICK held \in candidates :
        /\ locks' = [locks EXCEPT ![e] = @ \ {held}]
        /\ claims' = {c \in claims : c.lock.id # held.id}
        /\ now' = now /\ enabled' = enabled /\ granted' = granted /\ widened' = widened
  BY DEF RemoveFirst, Oldest
<1>2. \A l : Active(l)' = Active(l)
  BY <1>1 DEF Active
<1>3. /\ locks' \in [Element -> SUBSET Lock]
      /\ locks'[e] = locks[e] \ {held}
      /\ \A f \in Element \ {e} : locks'[f] = locks[f]
  BY <1>1 DEF TableInv, TypeOK
<1>4. \A f \in Element : \A l \in locks[f] : l.id = held.id => f = e /\ l = held
  BY DEF TableInv, TypeOK
<1>5. \A f \in Element : locks'[f] \subseteq locks[f] /\ Unexpired(f)' \subseteq Unexpired(f)
  BY <1>2, <1>3 DEF Unexpired
<1>6. TypeOK'
  BY <1>1, <1>3, <1>5 DEF TableInv, TypeOK
<1>7. TableMatchesClaims'
  <2>1. ASSUME NEW f \in Element, NEW l \in Unexpired(f)'
        PROVE  [element |-> f, lock |-> l] \in claims'
    <3>1. l.id # held.id
      BY <1>3, <1>4, <1>5, <2>1 DEF Unexpired
    <3>2. [element |-> f, lock |-> l] \in claims
      BY <1>5, <2>1 DEF TableInv, TableMatchesClaims
    <3> QED BY <1>1, <3>1, <3>2
  <2>2. ASSUME NEW c \in claims', Active(c.lock)' PROVE c.lock \in locks'[c.element]
    <3>1. c \in claims /\ c.lock.id # held.id /\ c.element \in Element
      BY <1>1 DEF TableInv, TypeOK, Claim
    <3>2. c.lock \in locks[c.element]
      BY <1>2, <2>2, <3>1 DEF TableInv, TableMatchesClaims
    <3> QED BY <1>3, <3>1, <3>2
  <2> QED BY <2>1, <2>2 DEF TableMatchesClaims
<1>8. ClashOnlyByWidening'
  BY <1>1, <1>5 DEF TableInv, ClashOnlyByWidening, Clash, Covers
<1>9. GateOpen'
  BY <1>1, <1>5 DEF TableInv, GateOpen
<1> QED BY <1>6, <1>7, <1>8, <1>9 DEF TableInv

-----------------------------------------------------------------------------
(* The theorems.                                                           *)

LEMMA InitTableInv == Init => TableInv
<1> SUFFICES ASSUME Init PROVE TableInv
  OBVIOUS
<1>1. TypeOK
  <2>1. now \in Time /\ granted \in 0 .. MaxLocks
    BY LockBoundAssumption DEF Init, Time
  <2>2. locks \in [Element -> SUBSET Lock] /\ \A e \in Element : locks[e] = {}
    BY DEF Init
  <2> QED BY <2>1, <2>2 DEF Init, TypeOK
<1> QED BY <1>1 DEF Init, TableInv, TableMatchesClaims, ClashOnlyByWidening, GateOpen, Unexpired

LEMMA NextTableInv == TableInv /\ [Next]_vars => TableInv'
<1> SUFFICES ASSUME TableInv, [Next]_vars PROVE TableInv'
  OBVIOUS
<1>0. TypeOK
  BY DEF TableInv
<1>1. CASE Tick
  BY <1>1, TickKeepsInv
<1>2. ASSUME NEW e \in Element, NEW token \in Token, NEW r \in Request, NEW expires \in Expiry,
             GrantLock(e, token, r.scope, r.methods, expires)
               \/ RenewLock(e, token, r.scope, r.methods, expires)
      PROVE  TableInv'
  BY <1>2, GrantKeepsInv, RenewKeepsInv
<1>3. ASSUME NEW e \in Element, NEW token \in Token, NEW r \in Request,
             RefuseLock(e, token, r.scope, r.methods)
      PROVE  TableInv'
  BY <1>0, <1>3, RefuseSweeps, SweepKeepsInv
<1>4. ASSUME NEW e \in Element, NEW token \in Token \cup {NoToken}, NEW forceRelease,
             \/ \E id \in LockId : RemoveLockById(e, id, token, forceRelease)
             \/ \E scope \in Scope : RemoveLockByScope(e, scope, token, forceRelease)
      PROVE  TableInv'
  <2>1. PICK candidates \in SUBSET locks[e] : RemoveFirst(e, candidates, token, forceRelease)
    BY <1>4 DEF RemoveLockById, RemoveLockByScope
  <2> QED BY <2>1, RemoveKeepsInv
<1>5. CASE CleanExpired
  BY <1>0, <1>5, CleanSweeps, SweepKeepsInv
<1>6. ASSUME NEW path \in Path, NEW m \in Method, NEW token \in Token \cup {NoToken},
             CheckMutationLock(path, m, token)
      PROVE  TableInv'
  BY <1>0, <1>6, CheckSweeps, SweepKeepsInv
<1>7. CASE UNCHANGED vars
  BY <1>7 DEF vars, TableInv, TypeOK, TableMatchesClaims, ClashOnlyByWidening, GateOpen,
              Unexpired, Active, Clash, Covers
<1> QED BY <1>1, <1>2, <1>3, <1>4, <1>5, <1>6, <1>7 DEF Next

THEOREM TableInvHolds == Spec => []TableInv
<1>1. Init => TableInv
  BY InitTableInv
<1>2. TableInv /\ [Next]_vars => TableInv'
  BY NextTableInv
<1> QED BY <1>1, <1>2, PTL DEF Spec

\* Types, and an id is one lock's of one element.
THEOREM TypeCorrect == Spec => []TypeOK
<1>1. TableInv => TypeOK
  BY DEF TableInv
<1> QED BY <1>1, TableInvHolds, PTL

\* The tables agree with what clients were told (addMutationLock, removeMutationLock,
\* cleanExpiredMutationLocks and the lazy removal of checkMutationLock).
THEOREM TablesMatchClaims == Spec => []TableMatchesClaims
<1>1. TableInv => TableMatchesClaims
  BY DEF TableInv
<1> QED BY <1>1, TableInvHolds, PTL

\* Unexpired locks clash only when a renewal widened one (addMutationLock).
THEOREM ClashesComeFromWidening == Spec => []ClashOnlyByWidening
<1>1. TableInv => ClashOnlyByWidening
  BY DEF TableInv
<1> QED BY <1>1, TableInvHolds, PTL

\* What the documentation says of every behaviour, that unexpired locks of one element never
\* clash, is true of those in which no renewal names a method that the lock did not cover: every
\* other way to come by a lock keeps to the check for conflicts (addMutationLock).
THEOREM OneHolderUnlessWidened == Spec /\ [][widened' = widened]_vars => []OneHolder
<1>1. Init => widened = {}
  BY DEF Init
<1>2. widened = {} /\ [widened' = widened]_vars => (widened = {})'
  BY DEF vars
<1>3. TableInv /\ widened = {} => OneHolder
  BY DEF TableInv, ClashOnlyByWidening, OneHolder
<1> QED BY <1>1, <1>2, <1>3, TableInvHolds, PTL DEF Spec

\* Whatever the check looks at on its way, it finds a lock that covers the method, and what it
\* finds last is the caller's own: a lock that clashes with the claim.
LEMMA InvExcludes == TableInv => HoldersExclude
<1> SUFFICES ASSUME TableInv, NEW c \in claims, Active(c.lock), NEW m \in Method, Covers(c.lock, m),
                    NEW token \in (Token \cup {NoToken}) \ {c.lock.token},
                    NEW path \in Path, NEW i \in DOMAIN path, c.element = path[i],
                    Allowed(path, m, token)
             PROVE  \E own \in claims :
                      /\ own.element = c.element /\ own.lock.token = token
                      /\ Active(own.lock) /\ Clash(own.lock, c.lock)
                      /\ {own.lock.id, c.lock.id} \cap widened # {}
  BY DEF HoldersExclude
<1> DEFINE e == c.element
           S == {l \in Covering(e, m) : Active(l)}
<1>1. e \in Element /\ c.lock \in locks[e]
  BY DEF TableInv, TypeOK, Claim, TableMatchesClaims
<1>2. enabled
  BY <1>1 DEF TableInv, GateOpen
<1>3. S # {} /\ \A l \in S : l \in locks[e] /\ l \in Lock /\ l.id \in LockId /\ l \in Unexpired(e)
  BY <1>1 DEF Covering, TableInv, TypeOK, Lock, Unexpired
<1>4. PICK last \in Newest(S) : TRUE
  <2> HIDE DEF S
  <2> QED BY <1>3, NewestExists
<1>5. last \in S /\ last \in Deciding(e, m)
  BY DEF Newest, Deciding
<1>6. last.token = token
  BY <1>2, <1>5 DEF Allowed, Refuses
<1>7. [element |-> e, lock |-> last] \in claims
  BY <1>1, <1>3, <1>5 DEF TableInv, TableMatchesClaims
<1>8. Clash(last, c.lock)
  BY <1>5, <1>6 DEF Clash, Covering
<1>9. last.id \in widened \/ c.lock.id \in widened
  BY <1>1, <1>3, <1>5, <1>8 DEF TableInv, ClashOnlyByWidening, Unexpired
<1> QED BY <1>5, <1>6, <1>7, <1>8, <1>9

\* A mutation that is let through trespasses on nobody's claim, but where it holds a lock that
\* a renewal made clash with it (checkMutationLock).
THEOREM ClaimsKeepOthersOut == Spec => []HoldersExclude
BY InvExcludes, TableInvHolds, PTL
=============================================================================
