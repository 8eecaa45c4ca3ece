---------------------------- MODULE MutationLocks ----------------------------
(***************************************************************************)
(* Mutation locks (mutate/tournaments/mutationLocks): the lock table kept  *)
(* as an extension of each element of a tournament record, the gate that   *)
(* enables it, and the check every mutation passes before its method runs. *)
(*                                                                         *)
(* Clients take turns: a call is one step.  A call that is refused and     *)
(* rolled back changes nothing and is no step; a refused step below is one *)
(* without rollback, which keeps the expired locks it removed on its way.  *)
(* Removing the gate's extension, or an element with its locks, is left    *)
(* out, as are methods of no scope, which no lock concerns.                *)
(***************************************************************************)
EXTENDS Naturals, Sequences

CONSTANTS
  Element,      \* the tournament, and its events, draws and venues
  Path,         \* the elements a call addresses, most specific first, tournament last
  Token,        \* lock tokens
  NoToken,      \* a call without a lockToken
  Method,       \* the methods that are subject to locks
  Scope,        \* lock scopes
  ScopeOf,      \* methodScopeMap
  AllMethods,   \* a lock without a methods array
  Request,      \* bound: the scopes and methods a lock is asked for
  Never,        \* expiresAt: null
  MaxTime,      \* bound: the last instant
  MaxLocks      \* bound: locks granted

ASSUME PathAssumption == Path \subseteq Seq(Element)
ASSUME TokenAssumption == NoToken \notin Token
ASSUME MethodAssumption ==
  /\ ScopeOf \in [Method -> Scope]
  /\ \A methods \in SUBSET Method : methods # AllMethods
  /\ \A r \in Request :
       r.scope \in Scope /\ (r.methods # AllMethods => r.methods \in SUBSET Method)
ASSUME LockBoundAssumption ==
  /\ MaxTime \in Nat /\ MaxLocks \in Nat
  /\ \A t \in 0 .. MaxTime : t # Never

VARIABLES
  now,       \* the time
  locks,     \* the locks of each element; the table has them in the order of their ids
  enabled,   \* the gate: enabled in the tournament's extension
  granted    \* how many locks were granted; their ids are 1 .. granted

\* History, read by no action.
VARIABLES
  claims,    \* what each client was told it holds: locks granted and not released
  widened    \* locks renewed with a method they did not name before

vars == <<now, locks, enabled, granted, claims, widened>>

Time == 0 .. MaxTime
Expiry == (Time \ {0}) \cup {Never}
LockId == 1 .. MaxLocks

Lock == [id : LockId, token : Token, scope : Scope,
         methods : {r.methods : r \in Request}, expires : Expiry]

Claim == [element : Element, lock : Lock]

-----------------------------------------------------------------------------
(* Locks.                                                                  *)

Active(lock) == lock.expires = Never \/ lock.expires > now

Unexpired(e) == {l \in locks[e] : Active(l)}

Oldest(S) == {l \in S : \A other \in S : l.id <= other.id}
Newest(S) == {l \in S : \A other \in S : other.id <= l.id}

\* A lock without a methods array covers every method of its scope.
Covers(lock, m) ==
  /\ lock.scope = ScopeOf[m]
  /\ lock.methods # AllMethods => m \in lock.methods

\* Faulty: a lock without a methods array overlaps only another such lock.
OverlapListed(some, others) ==
  \/ some = AllMethods /\ others = AllMethods
  \/ some # AllMethods /\ others # AllMethods /\ some \cap others # {}

Overlap(some, others) ==
  \/ some = AllMethods
  \/ others = AllMethods
  \/ some \cap others # {}

\* A renewal replaces what the lock named by something it did not.
Widens(held, methods) ==
  /\ held # AllMethods
  /\ methods # AllMethods => ~(methods \subseteq held)

\* The unexpired locks that a request for these methods meets.
Conflicting(e, scope, methods) ==
  {l \in Unexpired(e) : l.scope = scope /\ Overlap(l.methods, methods)}

-----------------------------------------------------------------------------
(* The check before a mutation.                                            *)

Covering(e, m) == {l \in locks[e] : Covers(l, m)}

\* Faulty: the last lock decides, expired or not.
DecidingExpired(e, m) == Newest(Covering(e, m))

\* The lock that decides for method m at element e, if any: the last active one.
Deciding(e, m) == Newest({l \in Covering(e, m) : Active(l)})

\* The expired locks the check passes on its way there, from the last lock back.
Passed(e, m) ==
  {l \in Covering(e, m) : ~Active(l) /\ \A last \in Deciding(e, m) : last.id < l.id}

\* Faulty: every lock the method's scope names is passed over and removed.
SweptWhole(e, m) == {l \in locks[e] : l.scope # ScopeOf[m]}

Swept(e, m) == locks[e] \ Passed(e, m)

Refuses(e, m, token) == \E l \in Deciding(e, m) : l.token # token

Allowed(path, m, token) ==
  enabled => \A i \in DOMAIN path : ~Refuses(path[i], m, token)

\* The elements the check reaches: all of them, or those up to one that refuses.
Reached(path, m, token) ==
  {path[i] : i \in {j \in DOMAIN path : \A k \in 1 .. j - 1 : ~Refuses(path[k], m, token)}}

-----------------------------------------------------------------------------

Init ==
  /\ now = 0
  /\ locks = [e \in Element |-> {}]
  /\ enabled = FALSE
  /\ granted = 0
  /\ claims = {} /\ widened = {}

\* Time passes.
Tick ==
  /\ now < MaxTime
  /\ now' = now + 1
  /\ claims' = {c \in claims : c.lock.expires = Never \/ c.lock.expires > now'}
  /\ UNCHANGED <<locks, enabled, granted, widened>>

(* addMutationLock.                                                        *)

\* Faulty: only the tournament's own locks open the gate.
OpenGateForRoot(e) == enabled \/ \A path \in Path : path[Len(path)] = e

\* ensureFeatureGate, after every lock granted.
OpenGate(e) == TRUE

\* Faulty: every lock has the id of the first.
ConstantLockId == 1

\* UUID(), as a number.
LockIdOfGrant == granted + 1

\* No lock conflicts: the request is granted a lock of its own.
GrantLock(e, token, scope, methods, expires) ==
  LET lock == [id |-> LockIdOfGrant, token |-> token, scope |-> scope,
               methods |-> methods, expires |-> expires]
  IN /\ granted < MaxLocks
     /\ Conflicting(e, scope, methods) = {}
     /\ locks' = [locks EXCEPT ![e] = Unexpired(e) \cup {lock}]
     /\ enabled' = OpenGate(e)
     /\ granted' = granted + 1
     /\ claims' = claims \cup {[element |-> e, lock |-> lock]}
     /\ UNCHANGED <<now, widened>>

\* The first conflicting lock has the caller's token: it takes the new expiry and methods.
RenewLock(e, token, scope, methods, expires) ==
  \E held \in Oldest(Conflicting(e, scope, methods)) :
    LET renewed == [held EXCEPT !.methods = methods, !.expires = expires]
    IN /\ held.token = token
       /\ locks' = [locks EXCEPT ![e] = (Unexpired(e) \ {held}) \cup {renewed}]
       /\ claims' = {c \in claims : c.lock.id # held.id}
                      \cup {[element |-> e, lock |-> renewed]}
       /\ widened' = IF Widens(held.methods, methods) THEN widened \cup {held.id} ELSE widened
       /\ UNCHANGED <<now, enabled, granted>>

\* It has another's: MUTATION_LOCK_EXISTS, and the expired locks are gone all the same
\* (with none expired, nothing changes).
RefuseLock(e, token, scope, methods) ==
  /\ \E held \in Oldest(Conflicting(e, scope, methods)) : held.token # token
  /\ Unexpired(e) # locks[e]
  /\ locks' = [locks EXCEPT ![e] = Unexpired(e)]
  /\ UNCHANGED <<now, enabled, granted, claims, widened>>

(* removeMutationLock.                                                     *)

\* The first of the locks looked for goes, expired or not, if the token is its own or the
\* release forced.
RemoveFirst(e, candidates, token, forceRelease) ==
  \E held \in Oldest(candidates) :
    /\ forceRelease \/ held.token = token
    /\ locks' = [locks EXCEPT ![e] = @ \ {held}]
    /\ claims' = {c \in claims : c.lock.id # held.id}
    /\ UNCHANGED <<now, enabled, granted, widened>>

RemoveLockById(e, id, token, forceRelease) ==
  RemoveFirst(e, {l \in locks[e] : l.id = id}, token, forceRelease)

\* The first lock of the scope, whoever holds it.
RemoveLockByScope(e, scope, token, forceRelease) ==
  RemoveFirst(e, {l \in locks[e] : l.scope = scope}, token, forceRelease)

(* cleanExpiredMutationLocks.                                              *)

CleanExpired ==
  /\ \E e \in Element : Unexpired(e) # locks[e]
  /\ locks' = [e \in Element |-> Unexpired(e)]
  /\ UNCHANGED <<now, enabled, granted, claims, widened>>

(* Every other mutation: checkMutationLock, before its method.             *)

\* Whether the method runs (Allowed) or the call is refused, the expired locks that the
\* check came past are removed from the table (with none, nothing changes).
CheckMutationLock(path, m, token) ==
  /\ enabled
  /\ \E e \in Reached(path, m, token) : Passed(e, m) # {}
  /\ locks' = [e \in Element |->
                 IF e \in Reached(path, m, token) THEN Swept(e, m) ELSE locks[e]]
  /\ UNCHANGED <<now, enabled, granted, claims, widened>>

Next ==
  \/ Tick
  \/ \E e \in Element, token \in Token, r \in Request :
       \/ \E expires \in Expiry :
            \/ GrantLock(e, token, r.scope, r.methods, expires)
            \/ RenewLock(e, token, r.scope, r.methods, expires)
       \/ RefuseLock(e, token, r.scope, r.methods)
  \/ \E e \in Element, token \in Token \cup {NoToken} :
       LET forceRelease == token = NoToken
       IN \/ \E id \in LockId : RemoveLockById(e, id, token, forceRelease)
          \/ \E scope \in Scope : RemoveLockByScope(e, scope, token, forceRelease)
  \/ CleanExpired
  \/ \E path \in Path, m \in Method, token \in Token \cup {NoToken} :
       CheckMutationLock(path, m, token)

\* Time does not stop; clients owe nothing.
Spec == Init /\ [][Next]_vars /\ WF_vars(Tick)

-----------------------------------------------------------------------------
(* Properties.                                                             *)

\* Locks of different tokens that both cover some method.
Clash(a, b) == a.token # b.token /\ \E m \in Method : Covers(a, m) /\ Covers(b, m)

\* Every variable has its type, and an id names one lock of one element.
TypeOK ==
  /\ now \in Time
  /\ enabled \in BOOLEAN
  /\ granted \in 0 .. MaxLocks
  /\ locks \in [Element -> SUBSET Lock]
  /\ \A e \in Element : \A l \in locks[e] : l.id <= granted
  /\ \A e, f \in Element : \A k \in locks[e], l \in locks[f] : k.id = l.id => e = f /\ k = l
  /\ claims \subseteq Claim /\ widened \subseteq LockId

\* The table agrees with what clients were told: an unexpired lock is in it exactly
\* when it was granted, as last renewed, and was released by nobody.  Neither the
\* lazy removal of expired locks nor a refused call loses one or brings one back.
TableMatchesClaims ==
  /\ \A e \in Element : \A l \in Unexpired(e) : [element |-> e, lock |-> l] \in claims
  /\ \A c \in claims : Active(c.lock) => c.lock \in locks[c.element]

\* A mutation that is let through trespasses on nobody: wherever its path meets an
\* unexpired claim covering the method, the claim is the caller's, or the caller's own
\* claim there clashes with it, which takes a renewal that widened one of the two.
HoldersExclude ==
  \A c \in claims : Active(c.lock) =>
    \A m \in Method : Covers(c.lock, m) =>
      \A token \in (Token \cup {NoToken}) \ {c.lock.token} :
        (\E path \in Path : (\E i \in DOMAIN path : c.element = path[i]) /\ Allowed(path, m, token)) =>
          \E own \in claims :
            /\ own.element = c.element /\ own.lock.token = token
            /\ Active(own.lock) /\ Clash(own.lock, c.lock)
            /\ {own.lock.id, c.lock.id} \cap widened # {}

\* Unexpired locks of one element that clash come from a renewal that widened one.
ClashOnlyByWidening ==
  \A e \in Element : \A a, b \in Unexpired(e) :
    Clash(a, b) => a.id \in widened \/ b.id \in widened

\* As documented, a lock is not added on a scope of an element, nor extended, over
\* another token's: unexpired locks of one element never clash.
OneHolder ==
  \A e \in Element : \A a, b \in Unexpired(e) : ~Clash(a, b)

\* The locks that keep a method out on a path.
Barring(path, m) == {l \in UNION {locks[path[i]] : i \in DOMAIN path} : Covers(l, m)}

\* A client whose path is kept shut by locks that expire gets in for good, once no further
\* lock is granted or renewed there: a lock left in a table by a holder who never releases it,
\* or by calls that never come past it, keeps nobody out after its expiry.  While a holder
\* goes on renewing in time nobody else gets in, and nothing limits how often it may.
WaiterGetsIn ==
  \A path \in Path, m \in Method :
    <>[][Barring(path, m)' \subseteq Barring(path, m)]_vars =>
      <>[]( \/ Allowed(path, m, NoToken)
           \/ \E l \in Barring(path, m) : l.expires = Never )
=============================================================================
