------------------------------ MODULE NsLockMap ------------------------------
(***************************************************************************)
(* The local namespace lock map of src/cmd/namespace-lock.go (nsLockMap,   *)
(* isDistXL = false).  A map guarded by lockMapMutex sends each            *)
(* (volume, path) to an nsLock: a reader-writer mutex (lsync.LRWMutex)     *)
(* with a reference counter.  lock() looks the entry up or creates it,     *)
(* increments ref, and releases the map mutex BEFORE blocking on the RW    *)
(* mutex; a timed-out acquire decrements ref on the entry it holds a       *)
(* pointer to; unlock() looks the entry up again by name; ForceUnlock()    *)
(* drops the entry from the map.                                           *)
(*                                                                         *)
(* Every step that holds lockMapMutex is one atomic action.  Mutex objects *)
(* are identified by small integers; a fresh object takes an identifier   *)
(* no live pointer refers to, which keeps the model finite.                *)
(***************************************************************************)
EXTENDS Naturals, FiniteSets

CONSTANTS
  Ops,       \* request goroutines that call Lock/RLock then Unlock/RUnlock
  Res,       \* nsParam values (volume, path)
  MaxForce,  \* bound on ForceUnlock calls per resource
  RefModulus \* 2^w for nsLock.ref, a Go uint (w = 64 in the build)

ASSUME MaxForce \in Nat
\* Any power of two above twice the longest behaviour checked wraps exactly
\* like 2^64 does within that behaviour.
ASSUME RefModulus \in Nat /\ RefModulus > 2 * Cardinality(Ops)

\* Identifiers for nsLock objects: enough for one live object per
\* resource plus one per operation that still points to a dropped object.
Mutexes == 1..(Cardinality(Ops) + Cardinality(Res))
NoMutex == 0

VARIABLES
  lockMap,   \* n.lockMap: [Res -> Mutexes \cup {NoMutex}]
  ref,       \* nsLock.ref of each object
  rw,        \* LRWMutex state of each object: [writer, readers]
  pc,        \* per operation: "idle", "blocked", "running" (debug status)
  opRes,     \* the nsParam the operation locks
  opRead,    \* readLock argument of lock()/unlock()
  opLk,      \* the nsLk pointer lock() keeps across the blocking acquire
  epoch,     \* ghost: number of ForceUnlock calls per resource
  opEpoch    \* ghost: epoch[opRes[o]] when o entered lock()

vars == <<lockMap, ref, rw, pc, opRes, opRead, opLk, epoch, opEpoch>>

FreeRW == [writer |-> FALSE, readers |-> 0]

TypeOK ==
  /\ lockMap \in [Res -> Mutexes \cup {NoMutex}]
  /\ ref \in [Mutexes -> 0..(RefModulus - 1)]
  /\ rw \in [Mutexes -> [writer : BOOLEAN, readers : Nat]]
  /\ pc \in [Ops -> {"idle", "blocked", "running"}]
  /\ opRes \in [Ops -> Res]
  /\ opRead \in [Ops -> BOOLEAN]
  /\ opLk \in [Ops -> Mutexes \cup {NoMutex}]
  /\ epoch \in [Res -> 0..MaxForce]
  /\ opEpoch \in [Ops -> 0..MaxForce]

Active(o) == pc[o] # "idle"

\* Objects still reachable from the map or from an operation's pointer.
LiveMutexes ==
  {lockMap[r] : r \in Res} \cup {opLk[o] : o \in {p \in Ops : Active(p)}}

\* new(nsLock): an object distinct from every live one, with fresh state.
NewMutex == CHOOSE m \in Mutexes : m \notin LiveMutexes

(***************************************************************************)
(* lsync.LRWMutex, the RW primitive (not under src/; spec.md 4.2 contract) *)
(***************************************************************************)
CanAcquire(m, rd) ==
  IF rd THEN ~rw[m].writer ELSE ~rw[m].writer /\ rw[m].readers = 0

Acquired(m, rd) ==
  IF rd THEN [rw[m] EXCEPT !.readers = @ + 1]
        ELSE [rw[m] EXCEPT !.writer = TRUE]

\* Release in the given mode; a release of a mode not held changes nothing.
Released(m, rd) ==
  IF rd THEN [rw[m] EXCEPT !.readers = IF @ > 0 THEN @ - 1 ELSE 0]
        ELSE [rw[m] EXCEPT !.writer = FALSE]

Init ==
  /\ lockMap = [r \in Res |-> NoMutex]
  /\ ref = [m \in Mutexes |-> 0]
  /\ rw = [m \in Mutexes |-> FreeRW]
  /\ pc = [o \in Ops |-> "idle"]
  /\ opRes = [o \in Ops |-> CHOOSE r \in Res : TRUE]
  /\ opRead = [o \in Ops |-> FALSE]
  /\ opLk = [o \in Ops |-> NoMutex]
  /\ epoch = [r \in Res |-> 0]
  /\ opEpoch = [o \in Ops |-> 0]

\* Variant of LockEnter that forgets ref++ on an existing entry.
LockEnterNoRef(o, r, rd) ==
  LET found == lockMap[r] # NoMutex
      m     == IF found THEN lockMap[r] ELSE NewMutex
  IN
  /\ pc[o] = "idle"
  /\ lockMap' = [lockMap EXCEPT ![r] = m]
  /\ ref' = [ref EXCEPT ![m] = IF found THEN @ ELSE 1]
  /\ rw' = IF found THEN rw ELSE [rw EXCEPT ![m] = FreeRW]
  /\ pc' = [pc EXCEPT ![o] = "blocked"]
  /\ opRes' = [opRes EXCEPT ![o] = r]
  /\ opRead' = [opRead EXCEPT ![o] = rd]
  /\ opLk' = [opLk EXCEPT ![o] = m]
  /\ opEpoch' = [opEpoch EXCEPT ![o] = epoch[r]]
  /\ UNCHANGED epoch

(***************************************************************************)
(* nsLockMap.lock, first half (under lockMapMutex): find or create the     *)
(* entry, ref++, status none -> blocked, release the map mutex.            *)
(***************************************************************************)
LockEnter(o, r, rd) ==
  LET found == lockMap[r] # NoMutex
      m     == IF found THEN lockMap[r] ELSE NewMutex
  IN
  /\ pc[o] = "idle"
  /\ lockMap' = [lockMap EXCEPT ![r] = m]
  /\ ref' = [ref EXCEPT ![m] = IF found THEN (@ + 1) % RefModulus ELSE 1]
  /\ rw' = IF found THEN rw ELSE [rw EXCEPT ![m] = FreeRW]
  /\ pc' = [pc EXCEPT ![o] = "blocked"]
  /\ opRes' = [opRes EXCEPT ![o] = r]
  /\ opRead' = [opRead EXCEPT ![o] = rd]
  /\ opLk' = [opLk EXCEPT ![o] = m]
  /\ opEpoch' = [opEpoch EXCEPT ![o] = epoch[r]]
  /\ UNCHANGED epoch

\* GetLock/GetRLock on the pointer returns true: status blocked -> running.
LockAcquired(o) ==
  /\ pc[o] = "blocked"
  /\ CanAcquire(opLk[o], opRead[o])
  /\ rw' = [rw EXCEPT ![opLk[o]] = Acquired(opLk[o], opRead[o])]
  /\ pc' = [pc EXCEPT ![o] = "running"]
  /\ UNCHANGED <<lockMap, ref, opRes, opRead, opLk, epoch, opEpoch>>

\* Variant of LockTimedOut that deletes the entry whatever ref is.
LockTimedOutAlwaysDelete(o) ==
  /\ pc[o] = "blocked"
  /\ ref' = [ref EXCEPT ![opLk[o]] = (@ + RefModulus - 1) % RefModulus]
  /\ lockMap' = [lockMap EXCEPT ![opRes[o]] = NoMutex]
  /\ pc' = [pc EXCEPT ![o] = "idle"]
  /\ opLk' = [opLk EXCEPT ![o] = NoMutex]
  /\ UNCHANGED <<rw, opRes, opRead, epoch, opEpoch>>

\* Variant of LockTimedOut that returns without the ref-- and delete.
LockTimedOutNoRef(o) ==
  /\ pc[o] = "blocked"
  /\ pc' = [pc EXCEPT ![o] = "idle"]
  /\ opLk' = [opLk EXCEPT ![o] = NoMutex]
  /\ UNCHANGED <<lockMap, ref, rw, opRes, opRead, epoch, opEpoch>>

(***************************************************************************)
(* GetLock returns false after the timeout (the last retry found the       *)
(* mutex busy, so it may return false whatever the mutex state is now).    *)
(* Under lockMapMutex: status -> none, ref-- on the object the pointer     *)
(* names, and when that reaches zero the map entry for the NAME is         *)
(* deleted, whichever object the map holds now.                            *)
(***************************************************************************)
LockTimedOut(o) ==
  LET m      == opLk[o]
      r      == opRes[o]
      newRef == (ref[m] + RefModulus - 1) % RefModulus  \* uint decrement
  IN
  /\ pc[o] = "blocked"
  /\ ref' = [ref EXCEPT ![m] = newRef]
  /\ lockMap' = IF newRef = 0 THEN [lockMap EXCEPT ![r] = NoMutex]
                             ELSE lockMap
  /\ pc' = [pc EXCEPT ![o] = "idle"]
  /\ opLk' = [opLk EXCEPT ![o] = NoMutex]
  /\ UNCHANGED <<rw, opRes, opRead, epoch, opEpoch>>

(***************************************************************************)
(* nsLockMap.unlock, entirely under lockMapMutex: look the entry up by     *)
(* name, release its RW mutex, ref-- unless already zero (logged), delete  *)
(* the entry when ref is zero.  Nothing happens when no entry is found.    *)
(***************************************************************************)
Unlock(o) ==
  LET r == opRes[o]
      m == lockMap[r]
  IN
  /\ pc[o] = "running"
  /\ IF m # NoMutex
       THEN LET newRef == IF ref[m] # 0 THEN ref[m] - 1 ELSE 0
            IN /\ rw' = [rw EXCEPT ![m] = Released(m, opRead[o])]
               /\ ref' = [ref EXCEPT ![m] = newRef]
               /\ lockMap' = IF newRef = 0 THEN [lockMap EXCEPT ![r] = NoMutex]
                                           ELSE lockMap
       ELSE UNCHANGED <<rw, ref, lockMap>>
  /\ pc' = [pc EXCEPT ![o] = "idle"]
  /\ opLk' = [opLk EXCEPT ![o] = NoMutex]
  /\ UNCHANGED <<opRes, opRead, epoch, opEpoch>>

\* nsLockMap.ForceUnlock (local mode): drop the entry from the map.
ForceUnlock(r) ==
  /\ epoch[r] < MaxForce
  /\ lockMap' = [lockMap EXCEPT ![r] = NoMutex]
  /\ epoch' = [epoch EXCEPT ![r] = @ + 1]
  /\ UNCHANGED <<ref, rw, pc, opRes, opRead, opLk, opEpoch>>

LockNext ==
  \E o \in Ops :
    \/ \E r \in Res, rd \in BOOLEAN : LockEnter(o, r, rd)
    \/ LockAcquired(o)
    \/ LockTimedOut(o)
    \/ Unlock(o)

Next == LockNext \/ \E r \in Res : ForceUnlock(r)

\* The RW acquire returns within its timeout (dynamicTimeout), and every
\* handler releases its lock with a deferred Unlock.
Fairness ==
  \A o \in Ops :
    /\ WF_vars(LockAcquired(o) \/ LockTimedOut(o))
    /\ WF_vars(Unlock(o))

\* Local namespace locking without administrative ForceUnlock.
SpecNoForce == Init /\ [][LockNext]_vars /\ Fairness

\* With ForceUnlock issued by the admin API (ClearLocksHandler).
Spec == Init /\ [][Next]_vars /\ Fairness

-----------------------------------------------------------------------------
(***************************************************************************)
(* Properties                                                              *)
(***************************************************************************)

\* Operations of resource r that are inside lock() or hold the lock.
Users(r) == {o \in Ops : Active(o) /\ opRes[o] = r}

\* The reference counting of lock()/unlock(): the map has an entry for r
\* exactly while some operation is between lock() and unlock() on r, that
\* entry is the object every such operation points to, and its ref counts
\* them.  A wrong decrement or a missed delete leaks entries or, worse,
\* drops an entry in use so that the next caller builds a second mutex.
EntryLifecycle ==
  \A r \in Res :
    /\ (lockMap[r] = NoMutex) <=> (Users(r) = {})
    /\ lockMap[r] # NoMutex =>
         /\ \A o \in Users(r) : opLk[o] = lockMap[r]
         /\ ref[lockMap[r]] = Cardinality(Users(r))

\* The lock map implements the namespace lock contract: mapping each
\* operation's status to the abstract waiting/holding states, every step
\* of lock()/unlock() is a step of NsLock.
Abstract == INSTANCE NsLock WITH
  lpc <- [o \in Ops |-> CASE pc[o] = "idle" -> "idle"
                          [] pc[o] = "blocked" -> "waiting"
                          [] pc[o] = "running" -> "holding"],
  lres <- opRes,
  lread <- opRead

AbstractSpec == Abstract!LSpec

\* No entry outlives its users, even with ForceUnlock: the unlock and the
\* timeout of an operation that entered before a ForceUnlock decrement
\* whatever entry the name maps to now, or an object no longer in the map,
\* so they may steal references of newer operations, but an entry for a
\* resource nobody is inside lock() or holding is always gone.  A leaked
\* entry keeps its reference count and its RW mutex forever.
NoEntryWhenIdle == \A r \in Res : Users(r) = {} => lockMap[r] = NoMutex

\* nsLock.ref never wraps below zero: the spec (4.2) has the counter
\* saturate at zero when unlock and lock do not pair up, so it never counts
\* more references than there are operations.
RefNoWrap ==
  \A m \in Mutexes : ref[m] <= Cardinality(Ops)

\* Operations that all entered lock() after the latest ForceUnlock of a
\* resource exclude each other (the ForceUnlock comment: new operations
\* "will use a new mutex and proceed normally").
FreshOpsExclusion ==
  \A o, p \in Ops :
    (/\ o # p /\ pc[o] = "running" /\ pc[p] = "running"
     /\ opRes[o] = opRes[p]
     /\ opEpoch[o] = epoch[opRes[o]] /\ opEpoch[p] = epoch[opRes[p]])
      => (opRead[o] /\ opRead[p])
=============================================================================
