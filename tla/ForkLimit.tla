------------------------------ MODULE ForkLimit ------------------------------
(***************************************************************************)
(* The admission pool of a Snapshot: internal/forklimit/pool.go.           *)
(*                                                                         *)
(* A Call is one admission attempt and, once admitted, the Lease it was    *)
(* given: every attempt allocates at most one Lease, and a Lease pointer   *)
(* is never reused.  The pool is exercised by callers that may use the     *)
(* methods of a Lease they hold in any order, any number of times, and     *)
(* concurrently with every other call: what is true here is true of every  *)
(* user of the package.  Errors are abstracted to nil / not nil, the       *)
(* pool's cause to the Lease whose error it is.                            *)
(***************************************************************************)
EXTENDS PoolConstants

VARIABLES
  closed,    \* Pool.closed
  blocked,   \* Pool.blocked: admission stopped after uncertain cleanup
  cause,     \* Pool.cause: whose error stopped it
  leases,    \* Pool.leases: the occupied slots
  active,    \* calls whose Lease.active is set
  debt,      \* calls whose Lease.debt is not nil
  tracking,  \* calls whose Lease.tracking is set
  watchers,  \* calls with a running TrackCleanup goroutine
  waiting,   \* calls blocked on the pool's current changed channel
  pc,        \* where each call is in Acquire
  ctxDone    \* calls whose context is cancelled or expired

poolVars == <<closed, blocked, cause, leases, active, debt, tracking>>
vars == <<closed, blocked, cause, leases, active, debt, tracking, watchers,
          waiting, pc, ctxDone>>

Locations == {"idle", "loop", "admit", "granted", "full", "held", "refused"}

Init ==
  /\ closed = FALSE
  /\ blocked = FALSE
  /\ cause = NoCall
  /\ leases = {}
  /\ active = {}
  /\ debt = {}
  /\ tracking = {}
  /\ watchers = {}
  /\ waiting = {}
  /\ pc = [c \in Call |-> "idle"]
  /\ ctxDone = {}

Goto(c, from, to) == pc[c] = from /\ pc' = [pc EXCEPT ![c] = to]

(***************************************************************************)
(* Closing the changed channel wakes every call blocked on it.             *)
(***************************************************************************)
Signal == waiting' = {}

-----------------------------------------------------------------------------
(* acquireLocked                                                           *)

\* Defect: the explicit recovery is refused as well.
StoppedAlways(recover) == blocked

\* Defect: the explicit recovery passes over the debt of an occupied slot.
StoppedUnlessRecovered(recover) == blocked /\ ~recover

\* Admission is stopped by cleanup debt; an explicit recovery may pass once
\* every occupied slot is free of debt.
Stopped(recover) == blocked /\ (~recover \/ debt \cap leases # {})

Verdict(recover) ==
  IF closed THEN "closed"
  ELSE IF Stopped(recover) THEN "cleanup"
  ELSE IF Cardinality(leases) >= Limit THEN "full" ELSE "ok"

Admit(c) ==
  /\ blocked' = FALSE
  /\ cause' = NoCall
  /\ leases' = leases \cup {c}

(* Acquire: the loop of one waiting call                                   *)

AcquireBegin(c) ==
  /\ Goto(c, "idle", "loop")
  /\ UNCHANGED <<poolVars, watchers, waiting, ctxDone>>

AcquireCheckContext(c) ==
  /\ Goto(c, "loop", IF c \in ctxDone THEN "refused" ELSE "admit")
  /\ UNCHANGED <<poolVars, watchers, waiting, ctxDone>>

AcquireAdmit(c) ==
  /\ \/ /\ Verdict(FALSE) = "ok"
        /\ Goto(c, "admit", "granted")
        /\ Admit(c)
        /\ UNCHANGED waiting
     \/ /\ Verdict(FALSE) = "full"
        /\ Goto(c, "admit", "full")
        /\ waiting' = waiting \cup {c}
        /\ UNCHANGED <<blocked, cause, leases>>
     \/ /\ Verdict(FALSE) \in {"closed", "cleanup"}
        /\ Goto(c, "admit", "refused")
        /\ UNCHANGED <<blocked, cause, leases, waiting>>
  /\ UNCHANGED <<closed, active, debt, tracking, watchers, ctxDone>>

AcquireWoken(c) ==
  /\ c \notin waiting
  /\ Goto(c, "full", "loop")
  /\ UNCHANGED <<poolVars, watchers, waiting, ctxDone>>

AcquireCancelled(c) ==
  /\ c \in ctxDone
  /\ Goto(c, "full", "refused")
  /\ waiting' = waiting \ {c}
  /\ UNCHANGED <<poolVars, watchers, ctxDone>>

(***************************************************************************)
(* TryAcquire never waits; recover is the explicit Live Reset.             *)
(***************************************************************************)
TryAcquire(c, recover) ==
  /\ \/ /\ Verdict(recover) = "ok"
        /\ Goto(c, "idle", "held")
        /\ Admit(c)
     \/ /\ Verdict(recover) # "ok"
        /\ Goto(c, "idle", "refused")
        /\ UNCHANGED <<blocked, cause, leases>>
  /\ UNCHANGED <<closed, active, debt, tracking, watchers, waiting, ctxDone>>

-----------------------------------------------------------------------------
(* The methods of a Lease                                                  *)

Release(c) ==
  /\ leases' = leases \ {c}
  /\ Signal
  /\ UNCHANGED <<closed, blocked, cause, active, debt, tracking>>

(***************************************************************************)
(* An uncertain cleanup keeps the slot and stops admission.                *)
(***************************************************************************)
Stop(c) ==
  /\ active' = active \cup {c}
  /\ debt' = debt \cup {c}
  /\ cause' = IF blocked THEN cause ELSE c
  /\ blocked' = TRUE
  /\ Signal
  /\ UNCHANGED <<closed, leases>>

NoEffect == UNCHANGED <<poolVars, waiting>>

Settle(c, confirmed) ==
  \/ c \notin leases /\ NoEffect
  \/ c \in leases /\ confirmed /\ Release(c)
  \/ c \in leases /\ ~confirmed /\ Stop(c) /\ UNCHANGED tracking

AcquireGranted(c) ==
  /\ Goto(c, "granted", IF c \in ctxDone THEN "refused" ELSE "held")
  /\ IF c \in ctxDone THEN Settle(c, TRUE) ELSE NoEffect
  /\ UNCHANGED <<watchers, ctxDone>>

\* Defect: a revoked reservation can still be activated.
CanActivateRevoked(c) == c \notin active /\ ~blocked

CanActivate(c) == ~closed /\ c \in leases /\ c \notin active /\ ~blocked

Activate(c) ==
  /\ active' = IF CanActivate(c) THEN active \cup {c} ELSE active
  /\ UNCHANGED <<closed, blocked, cause, leases, debt, tracking, waiting>>

Cancel(c) == IF c \in leases /\ c \notin active THEN Release(c) ELSE NoEffect

(***************************************************************************)
(* TrackCleanup with an error that carries disposal owners (owned) leaves  *)
(* one goroutine that settles the lease when they are all done.            *)
(***************************************************************************)
TrackCleanup(c, owned) ==
  IF c \in leases /\ c \notin tracking
  THEN /\ Stop(c)
       /\ tracking' = tracking \cup {c}
       /\ watchers' = IF owned THEN watchers \cup {c} ELSE watchers
  ELSE NoEffect /\ UNCHANGED watchers

WatcherSettles(c) ==
  /\ c \in watchers
  /\ watchers' = watchers \ {c}
  /\ Settle(c, TRUE)
  /\ UNCHANGED <<pc, ctxDone>>

\* Defect: Close does not wake the calls that wait for capacity.
PoolCloseSilently ==
  /\ closed' = TRUE
  /\ leases' = leases \cap active
  /\ UNCHANGED <<blocked, cause, active, debt, tracking, waiting>>

PoolClose ==
  /\ IF closed
     THEN UNCHANGED <<closed, leases, waiting>>
     ELSE closed' = TRUE /\ leases' = leases \cap active /\ Signal
  /\ UNCHANGED <<blocked, cause, active, debt, tracking>>

-----------------------------------------------------------------------------
(* The callers                                                             *)

Close == PoolClose /\ UNCHANGED <<watchers, pc, ctxDone>>

ContextEnds(c) ==
  /\ c \notin ctxDone
  /\ ctxDone' = ctxDone \cup {c}
  /\ UNCHANGED <<poolVars, watchers, waiting, pc>>

LeaseMethod(c) ==
  /\ pc[c] = "held"
  /\ \/ Activate(c) /\ UNCHANGED watchers
     \/ Cancel(c) /\ UNCHANGED watchers
     \/ \E confirmed \in BOOLEAN : Settle(c, confirmed) /\ UNCHANGED watchers
     \/ \E owned \in BOOLEAN : TrackCleanup(c, owned)
  /\ UNCHANGED <<pc, ctxDone>>

AcquireStep(c) ==
  \/ AcquireCheckContext(c)
  \/ AcquireAdmit(c)
  \/ AcquireGranted(c)
  \/ AcquireWoken(c)
  \/ AcquireCancelled(c)

Next ==
  \/ Close
  \/ \E c \in Call :
       \/ AcquireBegin(c)
       \/ AcquireStep(c)
       \/ \E recover \in BOOLEAN : TryAcquire(c, recover)
       \/ LeaseMethod(c)
       \/ WatcherSettles(c)
       \/ ContextEnds(c)

Spec == Init /\ [][Next]_vars

-----------------------------------------------------------------------------
(* Properties                                                              *)

\* Every variable has its type; the pool has a cause exactly while it is
\* blocked, watchers belong to tracked leases, parked calls are in Acquire.
TypeOK ==
  /\ closed \in BOOLEAN
  /\ blocked \in BOOLEAN
  /\ cause \in Call \cup {NoCall}
  /\ blocked <=> cause # NoCall
  /\ leases \subseteq Call
  /\ active \subseteq Call
  /\ debt \subseteq Call
  /\ tracking \subseteq Call
  /\ watchers \subseteq tracking
  /\ pc \in [Call -> Locations]
  /\ waiting \subseteq {c \in Call : pc[c] = "full"}
  /\ ctxDone \subseteq Call

\* However attempts, cancellations and settlements interleave, the pool never
\* has more occupied slots than its limit.
Capacity == IsFiniteSet(leases) /\ Cardinality(leases) <= Limit

\* A call parked on the current changed channel would still be told "full" if
\* it tried again: no release, debt or Close happened after it sampled the
\* channel without waking it.
NoLostWakeup == waiting # {} => Verdict(FALSE) = "full"

\* An occupied slot with unresolved cleanup debt keeps admission stopped, so
\* neither another child's success nor a recovery reopens the pool over it.
DebtStopsAdmission == debt \cap leases # {} => blocked

\* After Close only activated leases occupy slots: unused reservations were
\* revoked and none can be made afterwards.
CloseRevokesReservations == closed => leases \subseteq active

\* A slot belongs to a call that Acquire or TryAcquire has admitted, and only
\* the holder of a lease can have activated it, owe cleanup or have it tracked.
HeldByCallers ==
  /\ leases \subseteq {c \in Call : pc[c] \in {"granted", "held"}}
  /\ active \cup debt \cup tracking \subseteq {c \in Call : pc[c] = "held"}

\* The inductive invariant behind the safety properties of the pool.
PoolInvariant ==
  /\ TypeOK
  /\ HeldByCallers
  /\ Capacity
  /\ NoLostWakeup
  /\ DebtStopsAdmission
  /\ CloseRevokesReservations

\* A lease leaves the pool for good: no step puts back a slot whose call had
\* been admitted before, and a slot is only ever added to an open pool whose
\* debt is settled.
NeverReadmitted ==
  [][\A c \in Call : c \in leases' \ leases =>
       /\ pc[c] \in {"idle", "admit"}
       /\ ~closed
       /\ debt \cap leases = {}]_vars

\* A lease that was revoked or cancelled before Activate never becomes active:
\* no child starts on a slot its caller no longer holds.
ActivationNeedsSlot ==
  [][\A c \in Call : c \in active' \ active => c \in leases /\ c \in leases']_vars

=============================================================================
