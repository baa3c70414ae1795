--------------------------- MODULE ForkLimitProofs ---------------------------
(***************************************************************************)
(* Proofs about ForkLimit for every set of calls and every limit.          *)
(***************************************************************************)
EXTENDS ForkLimit, FiniteSetTheorems, TLAPS

\* acquireLocked admits exactly when the pool is open, admission is not
\* stopped and a slot is free; it says "full" when only the slot is missing.
LEMMA VerdictCases ==
  ASSUME NEW r \in BOOLEAN
  PROVE  /\ Verdict(r) = "ok" <=>
              ~closed /\ ~Stopped(r) /\ ~(Cardinality(leases) >= Limit)
         /\ Verdict(r) = "full" <=>
              ~closed /\ ~Stopped(r) /\ Cardinality(leases) >= Limit
BY DEF Verdict

\* A release from a finite set of slots leaves a finite set of no more slots.
LEMMA FewerSlots ==
  ASSUME NEW S, NEW T, Capacity, S = leases, T \subseteq S
  PROVE  IsFiniteSet(T) /\ Cardinality(T) <= Limit
<1>1. IsFiniteSet(S) /\ Cardinality(S) <= Limit
  BY DEF Capacity
<1>2. IsFiniteSet(T) /\ Cardinality(T) <= Cardinality(S)
  BY <1>1, FS_Subset
<1>3. Cardinality(T) \in Nat /\ Cardinality(S) \in Nat /\ Limit \in Nat
  BY <1>1, <1>2, FS_CardinalityType, LimitAssumption
<1>4. QED
  BY <1>1, <1>2, <1>3

\* Admitting one call below the limit stays within it.
LEMMA OneMoreSlot ==
  ASSUME NEW c, Capacity, ~(Cardinality(leases) >= Limit)
  PROVE  IsFiniteSet(leases \cup {c}) /\ Cardinality(leases \cup {c}) <= Limit
<1>1. IsFiniteSet(leases) /\ Cardinality(leases) \in Nat /\ Limit \in Nat
  BY FS_CardinalityType, LimitAssumption DEF Capacity
<1>2. IsFiniteSet(leases \cup {c})
      /\ Cardinality(leases \cup {c}) \in {Cardinality(leases), Cardinality(leases) + 1}
  BY <1>1, FS_AddElement
<1>3. QED
  BY <1>1, <1>2

\* A new pool has no leases, no debt and nobody waiting.
LEMMA InitPoolInvariant == Init => PoolInvariant
<1> SUFFICES ASSUME Init PROVE PoolInvariant
  OBVIOUS
<1>1. IsFiniteSet({}) /\ Cardinality({}) = 0
  BY FS_EmptySet
<1>2. Capacity
  BY <1>1, LimitAssumption DEF Init, Capacity
<1>3. TypeOK
  BY NoCallAssumption DEF Init, TypeOK, Locations
<1>4. QED
  BY <1>2, <1>3 DEF Init, PoolInvariant, HeldByCallers, NoLostWakeup,
     DebtStopsAdmission, CloseRevokesReservations

\* The pool and the callers are left as they were, up to calls that moved
\* between locations at which they hold nothing.
LEMMA CallersMove ==
  ASSUME PoolInvariant, NEW c \in Call, NEW l \in Locations,
         pc' = [pc EXCEPT ![c] = l],
         UNCHANGED <<poolVars, watchers>>, ctxDone' \subseteq Call,
         waiting' \subseteq waiting \ {c},
         c \in leases => pc[c] = "granted" /\ l = "held" ,
         c \notin active \cup debt \cup tracking
  PROVE  PoolInvariant'
<1>1. TypeOK'
  BY DEF PoolInvariant, TypeOK, poolVars
<1>2. HeldByCallers'
  BY DEF PoolInvariant, TypeOK, HeldByCallers, poolVars
<1>3. Capacity' /\ DebtStopsAdmission' /\ CloseRevokesReservations'
  BY DEF PoolInvariant, Capacity, DebtStopsAdmission, CloseRevokesReservations, poolVars
<1>4. NoLostWakeup'
  BY DEF PoolInvariant, NoLostWakeup, Verdict, Stopped, poolVars
<1>5. QED
  BY <1>1, <1>2, <1>3, <1>4 DEF PoolInvariant

\* Freeing a slot and waking everyone preserves the invariant.
LEMMA ReleaseKeeps ==
  ASSUME PoolInvariant, NEW c \in Call, Release(c), NEW l \in Locations,
         pc' = [pc EXCEPT ![c] = l],
         l = pc[c] \/ c \notin active \cup debt \cup tracking,
         watchers' \subseteq watchers, ctxDone' = ctxDone
  PROVE  PoolInvariant'
<1>1. TypeOK'
  BY DEF PoolInvariant, TypeOK, Release, Signal
<1>2. HeldByCallers'
  BY DEF PoolInvariant, TypeOK, HeldByCallers, Release
<1>3. Capacity'
  BY FewerSlots DEF PoolInvariant, Capacity, Release
<1>4. NoLostWakeup' /\ DebtStopsAdmission' /\ CloseRevokesReservations'
  BY DEF PoolInvariant, NoLostWakeup, DebtStopsAdmission, CloseRevokesReservations,
     Release, Signal
<1>5. QED
  BY <1>1, <1>2, <1>3, <1>4 DEF PoolInvariant

\* Keeping a slot for uncertain cleanup preserves the invariant.
LEMMA StopKeeps ==
  ASSUME PoolInvariant, NEW c \in Call, Stop(c), pc[c] = "held", pc' = pc,
         tracking' \in {tracking, tracking \cup {c}},
         watchers' \in {watchers, watchers \cup {c}},
         watchers' # watchers => c \in tracking', ctxDone' = ctxDone
  PROVE  PoolInvariant'
<1>1. TypeOK'
  BY NoCallAssumption DEF PoolInvariant, TypeOK, Stop, Signal
<1>2. HeldByCallers'
  BY DEF PoolInvariant, TypeOK, HeldByCallers, Stop
<1>3. Capacity'
  BY DEF PoolInvariant, Capacity, Stop
<1>4. NoLostWakeup' /\ DebtStopsAdmission' /\ CloseRevokesReservations'
  BY DEF PoolInvariant, NoLostWakeup, DebtStopsAdmission, CloseRevokesReservations,
     Stop, Signal
<1>5. QED
  BY <1>1, <1>2, <1>3, <1>4 DEF PoolInvariant

\* Admitting a call that holds nothing yet preserves the invariant, because
\* nobody is parked while a slot is free and no occupied slot owes cleanup.
LEMMA AdmitKeeps ==
  ASSUME PoolInvariant, NEW c \in Call, NEW r \in BOOLEAN, Verdict(r) = "ok",
         Admit(c), NEW l \in {"granted", "held"}, pc[c] \in {"idle", "admit"},
         pc' = [pc EXCEPT ![c] = l],
         UNCHANGED <<closed, active, debt, tracking, watchers, waiting, ctxDone>>
  PROVE  PoolInvariant'
<1>1. ~closed /\ ~Stopped(r) /\ ~(Cardinality(leases) >= Limit)
  BY VerdictCases
<1>2. waiting = {}
  <2>1. CASE waiting # {}
    <3>1. Verdict(FALSE) = "full"
      BY <2>1 DEF PoolInvariant, NoLostWakeup
    <3>2. QED
      BY <1>1, <3>1, VerdictCases
  <2>2. QED
    BY <2>1
<1>3. debt \cap leases = {} /\ c \notin debt
  BY <1>1 DEF PoolInvariant, DebtStopsAdmission, Stopped, HeldByCallers
<1>4. TypeOK'
  BY <1>2, NoCallAssumption DEF PoolInvariant, TypeOK, Admit, Locations
<1>5. HeldByCallers'
  BY DEF PoolInvariant, TypeOK, HeldByCallers, Admit
<1>6. Capacity'
  BY <1>1, OneMoreSlot DEF PoolInvariant, Capacity, Admit
<1>7. NoLostWakeup' /\ DebtStopsAdmission' /\ CloseRevokesReservations'
  BY <1>1, <1>2, <1>3 DEF NoLostWakeup, DebtStopsAdmission,
     CloseRevokesReservations, Admit
<1>8. QED
  BY <1>4, <1>5, <1>6, <1>7 DEF PoolInvariant

\* A step that leaves every variable of the pool alone.
LEMMA NothingHappens ==
  ASSUME PoolInvariant, NoEffect, pc' = pc, ctxDone' \subseteq Call,
         watchers' \subseteq watchers
  PROVE  PoolInvariant'
<1>1. TypeOK'
  BY DEF PoolInvariant, TypeOK, NoEffect, poolVars
<1>2. HeldByCallers' /\ Capacity' /\ DebtStopsAdmission' /\ CloseRevokesReservations'
  BY DEF PoolInvariant, HeldByCallers, Capacity, DebtStopsAdmission,
     CloseRevokesReservations, NoEffect, poolVars
<1>3. NoLostWakeup'
  BY DEF PoolInvariant, NoLostWakeup, Verdict, Stopped, NoEffect, poolVars
<1>4. QED
  BY <1>1, <1>2, <1>3 DEF PoolInvariant

\* Every step of the pool and of its callers preserves the invariant.
LEMMA NextPoolInvariant == PoolInvariant /\ [Next]_vars => PoolInvariant'
<1> SUFFICES ASSUME PoolInvariant, [Next]_vars
             PROVE  PoolInvariant'
  OBVIOUS
<1> USE DEF PoolInvariant, TypeOK, HeldByCallers
<1>1. CASE Close
  <2>1. CASE closed
    BY <1>1, <2>1, NothingHappens DEF Close, PoolClose, NoEffect, poolVars
  <2>2. CASE ~closed
    <3>1. closed' = TRUE /\ leases' = leases \cap active /\ waiting' = {}
          /\ UNCHANGED <<blocked, cause, active, debt, tracking, watchers, pc, ctxDone>>
      BY <1>1, <2>2 DEF Close, PoolClose, Signal
    <3>2. TypeOK' /\ HeldByCallers'
      BY <3>1
    <3>3. Capacity'
      BY <3>1, FewerSlots DEF Capacity
    <3>4. NoLostWakeup' /\ DebtStopsAdmission' /\ CloseRevokesReservations'
      BY <3>1 DEF NoLostWakeup, DebtStopsAdmission, CloseRevokesReservations
    <3>5. QED
      BY <3>2, <3>3, <3>4
  <2>3. QED
    BY <2>1, <2>2
<1>2. ASSUME NEW c \in Call, AcquireBegin(c)
      PROVE  PoolInvariant'
  BY <1>2, CallersMove DEF AcquireBegin, Goto, Locations
<1>3. ASSUME NEW c \in Call, AcquireCheckContext(c)
      PROVE  PoolInvariant'
  BY <1>3, CallersMove DEF AcquireCheckContext, Goto, Locations
<1>4. ASSUME NEW c \in Call, AcquireAdmit(c)
      PROVE  PoolInvariant'
  <2>1. CASE Verdict(FALSE) = "ok"
    BY <1>4, <2>1, AdmitKeeps DEF AcquireAdmit, Goto
  <2>2. CASE Verdict(FALSE) = "full"
    <3>1. pc[c] = "admit" /\ pc' = [pc EXCEPT ![c] = "full"]
          /\ waiting' = waiting \cup {c}
          /\ UNCHANGED <<poolVars, watchers, ctxDone>>
      BY <1>4, <2>2 DEF AcquireAdmit, Goto, poolVars
    <3>2. TypeOK' /\ HeldByCallers'
      BY <3>1 DEF poolVars, Locations
    <3>3. Capacity' /\ DebtStopsAdmission' /\ CloseRevokesReservations'
      BY <3>1 DEF poolVars, Capacity, DebtStopsAdmission, CloseRevokesReservations
    <3>4. NoLostWakeup'
      BY <3>1, <2>2 DEF poolVars, NoLostWakeup, Verdict, Stopped
    <3>5. QED
      BY <3>2, <3>3, <3>4
  <2>3. CASE Verdict(FALSE) \in {"closed", "cleanup"}
    BY <1>4, <2>3, CallersMove DEF AcquireAdmit, Goto, poolVars, Locations
  <2>4. QED
    BY <1>4, <2>1, <2>2, <2>3 DEF AcquireAdmit
<1>5. ASSUME NEW c \in Call, AcquireGranted(c)
      PROVE  PoolInvariant'
  <2>1. CASE c \in ctxDone /\ c \in leases
    BY <1>5, <2>1, ReleaseKeeps DEF AcquireGranted, Settle, Goto, Locations
  <2>2. CASE ~(c \in ctxDone /\ c \in leases)
    BY <1>5, <2>2, CallersMove DEF AcquireGranted, Settle, NoEffect, Goto, Locations
  <2>3. QED
    BY <2>1, <2>2
<1>6. ASSUME NEW c \in Call, AcquireWoken(c)
      PROVE  PoolInvariant'
  <2>1. c \notin leases /\ c \notin active \cup debt \cup tracking
    BY <1>6 DEF AcquireWoken, Goto
  <2>2. waiting' \subseteq waiting \ {c} /\ ctxDone' \subseteq Call
        /\ pc' = [pc EXCEPT ![c] = "loop"] /\ UNCHANGED <<poolVars, watchers>>
    BY <1>6 DEF AcquireWoken, Goto
  <2>3. "loop" \in Locations
    BY DEF Locations
  <2>4. QED
    BY <2>1, <2>2, <2>3, CallersMove
<1>7. ASSUME NEW c \in Call, AcquireCancelled(c)
      PROVE  PoolInvariant'
  BY <1>7, CallersMove DEF AcquireCancelled, Goto, Locations
<1>8. ASSUME NEW c \in Call, NEW r \in BOOLEAN, TryAcquire(c, r)
      PROVE  PoolInvariant'
  <2>1. CASE Verdict(r) = "ok"
    BY <1>8, <2>1, AdmitKeeps DEF TryAcquire, Goto
  <2>2. CASE Verdict(r) # "ok"
    BY <1>8, <2>2, CallersMove DEF TryAcquire, Goto, poolVars, Locations
  <2>3. QED
    BY <2>1, <2>2
<1>9. ASSUME NEW c \in Call, LeaseMethod(c)
      PROVE  PoolInvariant'
  <2>1. CASE Activate(c) /\ UNCHANGED watchers
    <3>1. CASE CanActivate(c)
      <4>1. active' = active \cup {c} /\ c \in leases /\ pc[c] = "held"
            /\ UNCHANGED <<closed, blocked, cause, leases, debt, tracking, waiting,
                           watchers, pc, ctxDone>>
        BY <1>9, <2>1, <3>1 DEF LeaseMethod, Activate, CanActivate
      <4>2. TypeOK' /\ HeldByCallers'
        BY <4>1
      <4>3. Capacity' /\ DebtStopsAdmission' /\ CloseRevokesReservations'
        BY <4>1 DEF Capacity, DebtStopsAdmission, CloseRevokesReservations
      <4>4. NoLostWakeup'
        BY <4>1 DEF NoLostWakeup, Verdict, Stopped
      <4>5. QED
        BY <4>2, <4>3, <4>4
    <3>2. CASE ~CanActivate(c)
      BY <1>9, <2>1, <3>2, NothingHappens DEF LeaseMethod, Activate, NoEffect, poolVars
    <3>3. QED
      BY <3>1, <3>2
  <2>2. CASE Cancel(c) /\ UNCHANGED watchers
    <3>1. CASE Release(c)
      BY <1>9, <2>2, <3>1, ReleaseKeeps DEF LeaseMethod
    <3>2. CASE NoEffect
      BY <1>9, <2>2, <3>2, NothingHappens DEF LeaseMethod
    <3>3. QED
      BY <2>2, <3>1, <3>2 DEF Cancel
  <2>3. ASSUME NEW confirmed \in BOOLEAN, Settle(c, confirmed), UNCHANGED watchers
        PROVE  PoolInvariant'
    <3>1. CASE c \notin leases
      BY <1>9, <2>3, <3>1, NothingHappens DEF LeaseMethod, Settle
    <3>2. CASE c \in leases /\ confirmed
      BY <1>9, <2>3, <3>2, ReleaseKeeps DEF LeaseMethod, Settle
    <3>3. CASE c \in leases /\ ~confirmed
      BY <1>9, <2>3, <3>3, StopKeeps DEF LeaseMethod, Settle
    <3>4. QED
      BY <3>1, <3>2, <3>3
  <2>4. ASSUME NEW owned \in BOOLEAN, TrackCleanup(c, owned)
        PROVE  PoolInvariant'
    <3>1. CASE c \in leases /\ c \notin tracking
      BY <1>9, <2>4, <3>1, StopKeeps DEF LeaseMethod, TrackCleanup
    <3>2. CASE ~(c \in leases /\ c \notin tracking)
      BY <1>9, <2>4, <3>2, NothingHappens DEF LeaseMethod, TrackCleanup
    <3>3. QED
      BY <3>1, <3>2
  <2>5. QED
    BY <1>9, <2>1, <2>2, <2>3, <2>4 DEF LeaseMethod
<1>10. ASSUME NEW c \in Call, WatcherSettles(c)
       PROVE  PoolInvariant'
  <2>1. CASE c \in leases
    BY <1>10, <2>1, ReleaseKeeps DEF WatcherSettles, Settle
  <2>2. CASE c \notin leases
    BY <1>10, <2>2, NothingHappens DEF WatcherSettles, Settle
  <2>3. QED
    BY <2>1, <2>2
<1>11. ASSUME NEW c \in Call, ContextEnds(c)
       PROVE  PoolInvariant'
  BY <1>11, NothingHappens DEF ContextEnds, NoEffect
<1>12. CASE UNCHANGED vars
  BY <1>12, NothingHappens DEF vars, NoEffect, poolVars
<1>13. QED
  BY <1>1, <1>2, <1>3, <1>4, <1>5, <1>6, <1>7, <1>8, <1>9, <1>10, <1>11, <1>12
     DEF Next, AcquireStep

\* The inductive invariant holds in every reachable state of the pool.
THEOREM PoolInvariantHolds == Spec => []PoolInvariant
<1>1. QED
  BY InitPoolInvariant, NextPoolInvariant, PTL DEF Spec

\* Pool.leases never exceeds Pool.limit, for any number of concurrent callers.
THEOREM CapacityHolds == Spec => []Capacity
<1>1. PoolInvariant => Capacity
  BY DEF PoolInvariant
<1>2. QED
  BY <1>1, PoolInvariantHolds, PTL

\* No caller of Acquire stays parked on a channel while its retry would not
\* be refused as full.
THEOREM NoLostWakeupHolds == Spec => []NoLostWakeup
<1>1. PoolInvariant => NoLostWakeup
  BY DEF PoolInvariant
<1>2. QED
  BY <1>1, PoolInvariantHolds, PTL

\* Unsettled cleanup debt keeps admission stopped whoever else settles,
\* cancels or recovers.
THEOREM DebtStopsAdmissionHolds == Spec => []DebtStopsAdmission
<1>1. PoolInvariant => DebtStopsAdmission
  BY DEF PoolInvariant
<1>2. QED
  BY <1>1, PoolInvariantHolds, PTL

\* After Close the occupied slots are exactly those of activated leases.
THEOREM CloseRevokesReservationsHolds == Spec => []CloseRevokesReservations
<1>1. PoolInvariant => CloseRevokesReservations
  BY DEF PoolInvariant
<1>2. QED
  BY <1>1, PoolInvariantHolds, PTL

\* An admitted call found the pool open and every occupied slot free of debt,
\* whether it asked for recovery or not.
LEMMA AdmissionIsClean ==
  ASSUME DebtStopsAdmission, NEW r \in BOOLEAN, Verdict(r) = "ok"
  PROVE  ~closed /\ debt \cap leases = {}
<1>1. ~closed /\ ~Stopped(r)
  BY VerdictCases
<1>2. QED
  BY <1>1 DEF Stopped, DebtStopsAdmission

\* Except for AcquireAdmit and TryAcquire no step of the pool adds a slot, and
\* those two add the slot of the call that was admitted.
LEMMA SlotsAdded ==
  ASSUME PoolInvariant, [Next]_vars, NEW d \in Call, d \in leases' \ leases
  PROVE  pc[d] \in {"idle", "admit"} /\ ~closed /\ debt \cap leases = {}
<1>1. CASE Close
  BY <1>1 DEF Close, PoolClose
<1>2. ASSUME NEW c \in Call, AcquireAdmit(c)
      PROVE  pc[d] \in {"idle", "admit"} /\ ~closed /\ debt \cap leases = {}
  <2>1. Verdict(FALSE) = "ok" /\ d = c /\ pc[c] = "admit"
    BY <1>2 DEF AcquireAdmit, Goto, Admit
  <2>2. QED
    BY <2>1, AdmissionIsClean DEF PoolInvariant
<1>3. ASSUME NEW c \in Call, NEW r \in BOOLEAN, TryAcquire(c, r)
      PROVE  pc[d] \in {"idle", "admit"} /\ ~closed /\ debt \cap leases = {}
  <2>1. Verdict(r) = "ok" /\ d = c /\ pc[c] = "idle"
    BY <1>3 DEF TryAcquire, Goto, Admit
  <2>2. QED
    BY <2>1, AdmissionIsClean DEF PoolInvariant
<1>4. ASSUME NEW c \in Call, AcquireBegin(c) \/ AcquireCheckContext(c) \/ AcquireWoken(c)
                               \/ AcquireCancelled(c) \/ ContextEnds(c)
      PROVE  FALSE
  BY <1>4 DEF AcquireBegin, AcquireCheckContext, AcquireWoken, AcquireCancelled,
     ContextEnds, poolVars
<1>5. ASSUME NEW c \in Call, AcquireGranted(c)
      PROVE  FALSE
  BY <1>5 DEF AcquireGranted, Settle, NoEffect, Release, poolVars
<1>6. ASSUME NEW c \in Call, LeaseMethod(c)
      PROVE  FALSE
  BY <1>6 DEF LeaseMethod, Activate, Cancel, Settle, TrackCleanup, NoEffect, Release,
     Stop, poolVars
<1>7. ASSUME NEW c \in Call, WatcherSettles(c)
      PROVE  FALSE
  BY <1>7 DEF WatcherSettles, Settle, NoEffect, Release, poolVars
<1>8. CASE UNCHANGED vars
  BY <1>8 DEF vars, poolVars
<1>9. QED
  BY <1>1, <1>2, <1>3, <1>4, <1>5, <1>6, <1>7, <1>8 DEF Next, AcquireStep

\* A slot that was given up never comes back, and no slot is added to a closed
\* pool or beside unsettled cleanup debt.
THEOREM NeverReadmittedHolds == Spec => NeverReadmitted
<1>1. PoolInvariant /\ [Next]_vars =>
        [\A c \in Call : c \in leases' \ leases =>
           /\ pc[c] \in {"idle", "admit"}
           /\ ~closed
           /\ debt \cap leases = {}]_vars
  BY SlotsAdded
<1>2. QED
  BY <1>1, PoolInvariantHolds, PTL DEF Spec, NeverReadmitted

\* Only the holder of an occupied slot becomes active, by Activate or by the
\* debt of its own child, and no step activates a lease and drops its slot.
LEMMA SlotsActivated ==
  ASSUME [Next]_vars, NEW d \in Call, d \in active' \ active
  PROVE  d \in leases /\ d \in leases'
<1>1. CASE Close
  BY <1>1 DEF Close, PoolClose
<1>2. ASSUME NEW c \in Call, AcquireAdmit(c)
      PROVE  FALSE
  BY <1>2 DEF AcquireAdmit
<1>3. ASSUME NEW c \in Call, NEW r \in BOOLEAN, TryAcquire(c, r)
      PROVE  FALSE
  BY <1>3 DEF TryAcquire
<1>4. ASSUME NEW c \in Call, AcquireBegin(c) \/ AcquireCheckContext(c) \/ AcquireWoken(c)
                               \/ AcquireCancelled(c) \/ ContextEnds(c)
      PROVE  FALSE
  BY <1>4 DEF AcquireBegin, AcquireCheckContext, AcquireWoken, AcquireCancelled,
     ContextEnds, poolVars
<1>5. ASSUME NEW c \in Call, AcquireGranted(c)
      PROVE  FALSE
  BY <1>5 DEF AcquireGranted, Settle, NoEffect, Release, poolVars
<1>6. ASSUME NEW c \in Call, LeaseMethod(c)
      PROVE  d \in leases /\ d \in leases'
  BY <1>6 DEF LeaseMethod, Activate, CanActivate, Cancel, Settle, TrackCleanup, NoEffect,
     Release, Stop, poolVars
<1>7. ASSUME NEW c \in Call, WatcherSettles(c)
      PROVE  FALSE
  BY <1>7 DEF WatcherSettles, Settle, NoEffect, Release, poolVars
<1>8. CASE UNCHANGED vars
  BY <1>8 DEF vars, poolVars
<1>9. QED
  BY <1>1, <1>2, <1>3, <1>4, <1>5, <1>6, <1>7, <1>8 DEF Next, AcquireStep

\* No child is ever started on a slot that Close or Cancel took away.
THEOREM ActivationNeedsSlotHolds == Spec => ActivationNeedsSlot
<1>1. [Next]_vars =>
        [\A c \in Call : c \in active' \ active => c \in leases /\ c \in leases']_vars
  BY SlotsActivated
<1>2. QED
  BY <1>1, PTL DEF Spec, ActivationNeedsSlot

=============================================================================
