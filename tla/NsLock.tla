------------------------------- MODULE NsLock -------------------------------
(***************************************************************************)
(* What a namespace lock promises its callers (spec.md 4.2, RWLocker in    *)
(* src/cmd/namespace-lock.go): per (volume, path) resource, an operation   *)
(* asks for a read or a write lock, then either holds it or gives up       *)
(* (timed out), and a holder releases it.  A write holder excludes every   *)
(* other holder; read holders exclude only writers.                        *)
(*                                                                         *)
(* This is the abstract specification that NsLockMap is shown to refine.   *)
(***************************************************************************)
EXTENDS FiniteSets

CONSTANTS
  Ops,   \* operations (request goroutines) that take namespace locks
  Res    \* (volume, path) resources

VARIABLES
  lpc,   \* [Ops -> {"idle", "waiting", "holding"}]
  lres,  \* [Ops -> Res]: the resource the operation asked for
  lread  \* [Ops -> BOOLEAN]: TRUE for a read lock

lvars == <<lpc, lres, lread>>

LTypeOK ==
  /\ lpc \in [Ops -> {"idle", "waiting", "holding"}]
  /\ lres \in [Ops -> Res]
  /\ lread \in [Ops -> BOOLEAN]

\* Holders of resource r other than o.
OtherHolders(o, r) == {p \in Ops \ {o} : lpc[p] = "holding" /\ lres[p] = r}

\* o may be granted its lock: no writer holds r, and o is a reader or alone.
Compatible(o) ==
  \A p \in OtherHolders(o, lres[o]) : lread[o] /\ lread[p]

LInit ==
  /\ lpc = [o \in Ops |-> "idle"]
  /\ lres \in [Ops -> Res]
  /\ lread \in [Ops -> BOOLEAN]

Request(o, r, rd) ==
  /\ lpc[o] = "idle"
  /\ lpc' = [lpc EXCEPT ![o] = "waiting"]
  /\ lres' = [lres EXCEPT ![o] = r]
  /\ lread' = [lread EXCEPT ![o] = rd]

Grant(o) ==
  /\ lpc[o] = "waiting"
  /\ Compatible(o)
  /\ lpc' = [lpc EXCEPT ![o] = "holding"]
  /\ UNCHANGED <<lres, lread>>

GiveUp(o) ==
  /\ lpc[o] = "waiting"
  /\ lpc' = [lpc EXCEPT ![o] = "idle"]
  /\ UNCHANGED <<lres, lread>>

Release(o) ==
  /\ lpc[o] = "holding"
  /\ lpc' = [lpc EXCEPT ![o] = "idle"]
  /\ UNCHANGED <<lres, lread>>

LNext ==
  \E o \in Ops :
    \/ \E r \in Res, rd \in BOOLEAN : Request(o, r, rd)
    \/ Grant(o)
    \/ GiveUp(o)
    \/ Release(o)

LSpec == LInit /\ [][LNext]_lvars

\* Reader-writer exclusion: two holders of one resource are both readers.
LMutualExclusion ==
  \A o, p \in Ops :
    (o # p /\ lpc[o] = "holding" /\ lpc[p] = "holding" /\ lres[o] = lres[p])
      => (lread[o] /\ lread[p])
=============================================================================
