------------------------- MODULE SnapshotForkProofs -------------------------
(***************************************************************************)
(* Proofs about SnapshotFork for every number of forks and closers and     *)
(* every limit: the slot of a child, the backing, and that every step is a *)
(* step of the admission pool.                                             *)
(***************************************************************************)
EXTENDS SnapshotFork, TLAPS

-----------------------------------------------------------------------------
(* The inductive invariant                                                 *)

Typed ==
  /\ TypeOK
  /\ pc \in [Call -> Pool!Locations]

Unadmitted == {"none", "rlocked", "rejected"}
StartFailure == {"startFailed", "refused"}
Ending == {"removing", "removingCapture", "discarding", "sampling", "settling", "closed"}

\* A child keeps its slot from Activate to the settlement that ends its Fork or
\* its Database; Close of the pool takes only slots that were not activated.
Slots(c) ==
  /\ stage[c] # "none" => pc[c] = "held"
  /\ stage[c] \in Unadmitted => c \notin active
  /\ stage[c] \notin Unadmitted \cup {"refused", "closed"} => c \in leases
  /\ stage[c] \notin Unadmitted \cup {"refused"} => c \in active
  /\ guest[c] # "none" => c \in active
  /\ c \in watchers => stage[c] \in {"refused", "closed"} /\ c \notin captureDebt
  /\ c \in captureDebt => stage[c] \in {"sampling", "settling", "closed"}

\* Owners appear with the failures that leave them, finish in their order and
\* are named by the error until they are done.
Disposal(c) ==
  /\ guest[c] = "none" => \A o \in Owners : owner[c][o] = "none"
  /\ stage[c] \in Unadmitted \cup {"starting", "launching"} => guest[c] = "none"
  /\ stage[c] \in {"live", "closing", "capturing"} =>
       guest[c] # "none" /\ \A o \in Owners : owner[c][o] = "none"
  /\ stage[c] \in Ending => guest[c] # "none" /\ owner[c]["disposer"] # "none"
  /\ owner[c]["disposer"] = "done" => guest[c] = "exited"
  /\ owner[c]["remover"] = "done" => owner[c]["disposer"] = "done"
  /\ "disposer" \in continuing[c] => owner[c]["disposer"] # "none"
  /\ "remover" \in continuing[c] => owner[c]["remover"] = "pending"
  /\ owner[c]["remover"] # "none" => "remover" \in owned[c]
  /\ stage[c] \in StartFailure =>
       /\ guest[c] = "running" => owner[c]["disposer"] = "pending"
       /\ owner[c]["disposer"] = "pending" => owner[c]["remover"] = "pending"
  /\ stage[c] \in {"removing", "removingCapture"} => owner[c]["remover"] = "none"
  /\ stage[c] \in Ending =>
       /\ owner[c]["disposer"] = "pending" => "disposer" \in owned[c]
       /\ c \notin failed => guest[c] = "exited"
  /\ c \in confirmed => stage[c] \in {"settling", "closed"} /\ owner[c]["disposer"] = "done"

\* The backing is pinned while a startup launches, and by a failed startup until
\* its disposer is done.
Pinned(c) ==
  /\ stage[c] = "launching" => c \in pins
  /\ stage[c] \in StartFailure /\ owner[c]["disposer"] = "pending" => c \in pins

SlotHeld(c) == HasResources(c) \/ c \in captureDebt => c \in leases

ChildOK(c) == Slots(c) /\ Disposal(c) /\ Pinned(c) /\ SlotHeld(c)

ForkInvariant ==
  /\ Typed
  /\ \A c \in Call : ChildOK(c)
  /\ backingClosed => pins = {}

-----------------------------------------------------------------------------
(* Children that a step leaves alone                                       *)

\* What the step does not change of child d; the pool may revoke a slot that was
\* not activated.
Same(d) ==
  /\ stage'[d] = stage[d] /\ guest'[d] = guest[d] /\ owner'[d] = owner[d]
  /\ owned'[d] = owned[d] /\ continuing'[d] = continuing[d] /\ pc'[d] = pc[d]
  /\ (d \in failed') = (d \in failed) /\ (d \in confirmed') = (d \in confirmed)
  /\ (d \in captureDebt') = (d \in captureDebt) /\ (d \in pins') = (d \in pins)
  /\ (d \in active') = (d \in active) /\ (d \in watchers') = (d \in watchers)
  /\ d \in leases \cap active => d \in leases'

\* A child keeps its part of the invariant while others move.
LEMMA SameKeeps ==
  ASSUME NEW d \in Call, ChildOK(d), Same(d)
  PROVE  ChildOK(d)'
<1>1. Slots(d)'
  BY DEF ChildOK, Same, Slots, Unadmitted
<1>2. Disposal(d)'
  BY DEF ChildOK, Same, Disposal
<1>3. Pinned(d)'
  BY DEF ChildOK, Same, Pinned
<1>4. SlotHeld(d)'
  BY DEF ChildOK, Same, SlotHeld, HasResources, Slots, Disposal, Unadmitted
<1>5. QED
  BY <1>1, <1>2, <1>3, <1>4 DEF ChildOK

\* A step of one child needs to be looked at for that child only.
LEMMA OneChild ==
  ASSUME ForkInvariant, NEW c \in Call, Typed', \A d \in Call \ {c} : Same(d), ChildOK(c)',
         backingClosed' => pins' = {}
  PROVE  ForkInvariant'
BY SameKeeps DEF ForkInvariant

\* A step of the pool or of a closer that leaves every child alone.
LEMMA NoChild ==
  ASSUME ForkInvariant, Typed', \A d \in Call : Same(d), backingClosed' => pins' = {}
  PROVE  ForkInvariant'
BY SameKeeps DEF ForkInvariant

\* Before the first Fork nothing exists.
LEMMA InitForkInvariant == Init => ForkInvariant
<1> SUFFICES ASSUME Init PROVE ForkInvariant
  OBVIOUS
<1>1. Typed
  BY DEF Init, Typed, TypeOK, Pool!Init, Pool!Locations, Stages, Owners, OwnerStates
<1>2. ASSUME NEW c \in Call PROVE ChildOK(c)
  BY DEF Init, ChildOK, Slots, Disposal, Pinned, SlotHeld, HasResources, Pool!Init,
     Unadmitted, StartFailure, Ending, Owners
<1>3. QED
  BY <1>1, <1>2 DEF Init, ForkInvariant

-----------------------------------------------------------------------------
(* Steps                                                                   *)

\* When every owner named by the error of a failed startup or a closed Database is
\* done, nothing of the child is left.
LEMMA DoneMeansDisposed ==
  ASSUME Typed, NEW c \in Call, ChildOK(c), ~CleanupPending(c),
         stage[c] \in {"refused", "closed"}
  PROVE  ~HasResources(c)
<1>1. \A o \in Owners : owner[c][o] \in {"none", "pending", "done"}
  BY DEF Typed, TypeOK, OwnerStates
<1>2. owner[c]["remover"] # "pending"
  BY <1>1 DEF ChildOK, Disposal, CleanupPending
<1>3. owner[c]["disposer"] # "pending"
  BY <1>1, <1>2 DEF ChildOK, Disposal, CleanupPending, StartFailure, Ending
<1>4. guest[c] # "running"
  BY <1>1, <1>3 DEF ChildOK, Disposal, StartFailure, Ending, Owners
<1>5. QED
  BY <1>2, <1>3, <1>4 DEF HasResources, Owners

\* Every step preserves the invariant: those of one Fork and its child, and those
\* of Snapshot.Close.
LEMMA NextForkInvariant == ForkInvariant /\ [Next]_vars => ForkInvariant'
<1> SUFFICES ASSUME ForkInvariant, [Next]_vars
             PROVE  ForkInvariant'
  OBVIOUS
<1> USE DEF ForkInvariant, Typed, TypeOK
<1>1. ASSUME NEW c \in Call, ForkAcquires(c) PROVE ForkInvariant'
  <2>1. Typed'
    <3>1. UNCHANGED <<childVars, snapVars>>
      BY <1>1 DEF ForkAcquires
    <3>2. \E l \in Pool!Locations : pc' = [pc EXCEPT ![c] = l]
      BY <1>1 DEF ForkAcquires, Pool!AcquireBegin, Pool!AcquireStep, Pool!AcquireCheckContext,
         Pool!AcquireAdmit, Pool!AcquireGranted, Pool!AcquireWoken, Pool!AcquireCancelled,
         Pool!Goto, Pool!Locations
    <3>3. QED
      BY <3>1, <3>2 DEF childVars, snapVars
  <2>2. \A d \in Call \ {c} : Same(d)
    BY <1>1 DEF Same, ForkAcquires, Pool!AcquireBegin, Pool!AcquireStep,
       Pool!AcquireCheckContext, Pool!AcquireAdmit, Pool!AcquireGranted,
       Pool!AcquireWoken, Pool!AcquireCancelled, Pool!Goto, Pool!Admit, Pool!Settle,
       Pool!Release, Pool!Stop, Pool!NoEffect, Pool!poolVars, childVars, snapVars
  <2>3. ChildOK(c)'
    BY <1>1 DEF ChildOK, Slots, Disposal, Pinned, SlotHeld, HasResources,
       CleanupPending, Unadmitted, StartFailure, Ending, Owners, ForkAcquires,
       Pool!AcquireBegin, Pool!AcquireStep, Pool!AcquireCheckContext,
       Pool!AcquireAdmit, Pool!AcquireGranted, Pool!AcquireWoken,
       Pool!AcquireCancelled, Pool!Goto, Pool!Admit, Pool!Settle, Pool!Release,
       Pool!Stop, Pool!NoEffect, Pool!poolVars, childVars, snapVars
  <2>4. QED
    BY <1>1, <2>1, <2>2, <2>3, OneChild DEF ForkAcquires, Pool!AcquireBegin,
       Pool!AcquireStep, Pool!AcquireCheckContext, Pool!AcquireAdmit,
       Pool!AcquireGranted, Pool!AcquireWoken, Pool!AcquireCancelled, Pool!Goto,
       Pool!Admit, Pool!Settle, Pool!Release, Pool!Stop, Pool!NoEffect,
       Pool!poolVars, childVars, snapVars
<1>2. ASSUME NEW c \in Call, ForkContextEnds(c) PROVE ForkInvariant'
  <2>1. Typed'
    BY <1>2 DEF ForkContextEnds, Pool!ContextEnds, Pool!poolVars, childVars,
       snapVars, Stages, Owners, OwnerStates, Pool!Locations
  <2>2. \A d \in Call \ {c} : Same(d)
    BY <1>2 DEF Same, ForkContextEnds, Pool!ContextEnds, Pool!poolVars, childVars,
       snapVars
  <2>3. ChildOK(c)'
    BY <1>2 DEF ChildOK, Slots, Disposal, Pinned, SlotHeld, HasResources,
       CleanupPending, Unadmitted, StartFailure, Ending, Owners, ForkContextEnds,
       Pool!ContextEnds, Pool!poolVars, childVars, snapVars
  <2>4. QED
    BY <1>2, <2>1, <2>2, <2>3, OneChild DEF ForkContextEnds, Pool!ContextEnds,
       Pool!poolVars, childVars, snapVars
<1>3. ASSUME NEW c \in Call, ForkLocks(c) PROVE ForkInvariant'
  <2>1. Typed'
    BY <1>3 DEF ForkLocks, Enter, poolVars, snapVars, Stages, Owners, OwnerStates,
       Pool!Locations
  <2>2. \A d \in Call \ {c} : Same(d)
    BY <1>3 DEF Same, ForkLocks, Enter, poolVars, snapVars
  <2>3. ChildOK(c)'
    BY <1>3 DEF ChildOK, Slots, Disposal, Pinned, SlotHeld, HasResources,
       CleanupPending, Unadmitted, StartFailure, Ending, Owners, ForkLocks, Enter,
       poolVars, snapVars
  <2>4. QED
    BY <1>3, <2>1, <2>2, <2>3, OneChild DEF ForkLocks, Enter, poolVars, snapVars
<1>4. ASSUME NEW c \in Call, ForkActivates(c) PROVE ForkInvariant'
  <2>1. Typed'
    BY <1>4 DEF ForkActivates, Enter, Pool!Activate, Pool!CanActivate, snapVars,
       Stages, Owners, OwnerStates, Pool!Locations
  <2>2. \A d \in Call \ {c} : Same(d)
    BY <1>4 DEF Same, ForkActivates, Enter, Pool!Activate, Pool!CanActivate,
       snapVars
  <2>3. ChildOK(c)'
    BY <1>4 DEF ChildOK, Slots, Disposal, Pinned, SlotHeld, HasResources,
       CleanupPending, Unadmitted, StartFailure, Ending, Owners, ForkActivates,
       Enter, Pool!Activate, Pool!CanActivate, snapVars
  <2>4. QED
    BY <1>4, <2>1, <2>2, <2>3, OneChild DEF ForkActivates, Enter, Pool!Activate,
       Pool!CanActivate, snapVars
<1>5. ASSUME NEW c \in Call, ForkRejected(c) PROVE ForkInvariant'
  <2>1. Typed'
    BY <1>5 DEF ForkRejected, Enter, Pool!Cancel, Pool!Release, Pool!NoEffect,
       Pool!poolVars, snapVars, Stages, Owners, OwnerStates, Pool!Locations
  <2>2. \A d \in Call \ {c} : Same(d)
    BY <1>5 DEF Same, ForkRejected, Enter, Pool!Cancel, Pool!Release, Pool!NoEffect,
       Pool!poolVars, snapVars
  <2>3. ChildOK(c)'
    BY <1>5 DEF ChildOK, Slots, Disposal, Pinned, SlotHeld, HasResources,
       CleanupPending, Unadmitted, StartFailure, Ending, Owners, ForkRejected,
       Enter, Pool!Cancel, Pool!Release, Pool!NoEffect, Pool!poolVars, snapVars
  <2>4. QED
    BY <1>5, <2>1, <2>2, <2>3, OneChild DEF ForkRejected, Enter, Pool!Cancel,
       Pool!Release, Pool!NoEffect, Pool!poolVars, snapVars
<1>6. ASSUME NEW c \in Call, StartPins(c) PROVE ForkInvariant'
  <2>1. Typed'
    BY <1>6 DEF StartPins, Enter, poolVars, snapVars, Stages, Owners, OwnerStates,
       Pool!Locations
  <2>2. \A d \in Call \ {c} : Same(d)
    BY <1>6 DEF Same, StartPins, Enter, poolVars, snapVars
  <2>3. ChildOK(c)'
    BY <1>6 DEF ChildOK, Slots, Disposal, Pinned, SlotHeld, HasResources,
       CleanupPending, Unadmitted, StartFailure, Ending, Owners, StartPins, Enter,
       poolVars, snapVars
  <2>4. QED
    BY <1>6, <2>1, <2>2, <2>3, OneChild DEF StartPins, Enter, poolVars, snapVars
<1>7. ASSUME NEW c \in Call, StartSucceeds(c) PROVE ForkInvariant'
  <2>1. Typed'
    BY <1>7 DEF StartSucceeds, Enter, poolVars, snapVars, Stages, Owners,
       OwnerStates, Pool!Locations
  <2>2. \A d \in Call \ {c} : Same(d)
    BY <1>7 DEF Same, StartSucceeds, Enter, poolVars, snapVars
  <2>3. ChildOK(c)'
    BY <1>7 DEF ChildOK, Slots, Disposal, Pinned, SlotHeld, HasResources,
       CleanupPending, Unadmitted, StartFailure, Ending, Owners, StartSucceeds,
       Enter, poolVars, snapVars
  <2>4. QED
    BY <1>7, <2>1, <2>2, <2>3, OneChild DEF StartSucceeds, Enter, poolVars, snapVars
<1>8. ASSUME NEW c \in Call, StartFails(c) PROVE ForkInvariant'
  <2>1. Typed'
    <3>1. owner' \in {owner,
                    [owner EXCEPT ![c] = [disposer |-> "done", remover |-> "pending"]],
                    [owner EXCEPT ![c] = [o \in Owners |-> "pending"]]}
      BY <1>8, Zenon DEF StartFails
    <3>2. owner' \in [Call -> [Owners -> OwnerStates]]
      <4>1. CASE owner' = owner
        BY <4>1 DEF Owners, OwnerStates
      <4>2. CASE owner' = [owner EXCEPT ![c] = [disposer |-> "done", remover |-> "pending"]]
        BY <4>2 DEF Owners, OwnerStates
      <4>3. CASE owner' = [owner EXCEPT ![c] = [o \in Owners |-> "pending"]]
        BY <4>3 DEF Owners, OwnerStates
      <4>4. QED
        BY <3>1, <4>1, <4>2, <4>3, Zenon
    <3>3. /\ owned' \in {owned, [owned EXCEPT ![c] = {"remover"}]}
          /\ continuing' \in {continuing, [continuing EXCEPT ![c] = {"remover"}],
                              [continuing EXCEPT ![c] = Owners]}
      BY <1>8, Zenon DEF StartFails
    <3>4. owned' \in [Call -> SUBSET Owners]
      BY <3>3 DEF Owners
    <3>5. continuing' \in [Call -> SUBSET Owners]
      BY <3>3 DEF Owners
    <3>6. guest' \in [Call -> {"none", "running", "exited"}]
      <4>1. \E g \in {"running", "exited"} : guest' = [guest EXCEPT ![c] = g]
        BY <1>8 DEF StartFails
      <4>2. QED
        BY <4>1
    <3>7. QED
      BY <1>8, <3>2, <3>4, <3>5, <3>6 DEF StartFails, Enter, poolVars, snapVars, Stages
  <2>2. \A d \in Call \ {c} : Same(d)
    BY <1>8 DEF Same, StartFails, Enter, poolVars, snapVars
  <2>3. ChildOK(c)'
    BY <1>8 DEF ChildOK, Slots, Disposal, Pinned, SlotHeld, HasResources,
       CleanupPending, Unadmitted, StartFailure, Ending, Owners, StartFails, Enter,
       poolVars, snapVars
  <2>4. QED
    BY <1>8, <2>1, <2>2, <2>3, OneChild DEF StartFails, Enter, poolVars, snapVars
<1>9. ASSUME NEW c \in Call, StartSettles(c) PROVE ForkInvariant'
  <2>1. Typed'
    BY <1>9 DEF StartSettles, Enter, Pool!TrackCleanup, Pool!Settle, Pool!Release,
       Pool!Stop, Pool!NoEffect, Pool!poolVars, snapVars, Stages, Owners,
       OwnerStates, Pool!Locations
  <2>2. \A d \in Call \ {c} : Same(d)
    BY <1>9 DEF Same, StartSettles, Enter, Pool!TrackCleanup, Pool!Settle,
       Pool!Release, Pool!Stop, Pool!NoEffect, Pool!poolVars, snapVars
  <2>3. ChildOK(c)'
    BY <1>9 DEF ChildOK, Slots, Disposal, Pinned, SlotHeld, HasResources,
       CleanupPending, Unadmitted, StartFailure, Ending, Owners, StartSettles,
       Enter, Pool!TrackCleanup, Pool!Settle, Pool!Release, Pool!Stop,
       Pool!NoEffect, Pool!poolVars, snapVars
  <2>4. QED
    BY <1>9, <2>1, <2>2, <2>3, OneChild DEF StartSettles, Enter, Pool!TrackCleanup,
       Pool!Settle, Pool!Release, Pool!Stop, Pool!NoEffect, Pool!poolVars, snapVars
<1>10. ASSUME NEW c \in Call, GuestExits(c) PROVE ForkInvariant'
  <2>1. Typed'
    BY <1>10 DEF GuestExits, poolVars, snapVars, Stages, Owners, OwnerStates,
       Pool!Locations
  <2>2. \A d \in Call \ {c} : Same(d)
    BY <1>10 DEF Same, GuestExits, poolVars, snapVars
  <2>3. ChildOK(c)'
    BY <1>10 DEF ChildOK, Slots, Disposal, Pinned, SlotHeld, HasResources,
       CleanupPending, Unadmitted, StartFailure, Ending, Owners, GuestExits,
       poolVars, snapVars
  <2>4. QED
    BY <1>10, <2>1, <2>2, <2>3, OneChild DEF GuestExits, poolVars, snapVars
<1>11. ASSUME NEW c \in Call, CloseBegins(c) PROVE ForkInvariant'
  <2>1. Typed'
    BY <1>11 DEF CloseBegins, Enter, poolVars, snapVars, Stages, Owners,
       OwnerStates, Pool!Locations
  <2>2. \A d \in Call \ {c} : Same(d)
    BY <1>11 DEF Same, CloseBegins, Enter, poolVars, snapVars
  <2>3. ChildOK(c)'
    BY <1>11 DEF ChildOK, Slots, Disposal, Pinned, SlotHeld, HasResources,
       CleanupPending, Unadmitted, StartFailure, Ending, Owners, CloseBegins, Enter,
       poolVars, snapVars
  <2>4. QED
    BY <1>11, <2>1, <2>2, <2>3, OneChild DEF CloseBegins, Enter, poolVars, snapVars
<1>12. ASSUME NEW c \in Call, CaptureBegins(c) PROVE ForkInvariant'
  <2>1. Typed'
    BY <1>12 DEF CaptureBegins, Enter, poolVars, snapVars, Stages, Owners,
       OwnerStates, Pool!Locations
  <2>2. \A d \in Call \ {c} : Same(d)
    BY <1>12 DEF Same, CaptureBegins, Enter, poolVars, snapVars
  <2>3. ChildOK(c)'
    BY <1>12 DEF ChildOK, Slots, Disposal, Pinned, SlotHeld, HasResources,
       CleanupPending, Unadmitted, StartFailure, Ending, Owners, CaptureBegins,
       Enter, poolVars, snapVars
  <2>4. QED
    BY <1>12, <2>1, <2>2, <2>3, OneChild DEF CaptureBegins, Enter, poolVars,
       snapVars
<1>13. ASSUME NEW c \in Call, ServerStops(c) PROVE ForkInvariant'
  <2>1. Typed'
    <3>1. owner' \in {[owner EXCEPT ![c]["disposer"] = "done"],
                    [owner EXCEPT ![c]["disposer"] = "pending"]}
      BY <1>13, Zenon DEF ServerStops
    <3>2. owner' \in [Call -> [Owners -> OwnerStates]]
      <4>1. CASE owner' = [owner EXCEPT ![c]["disposer"] = "done"]
        BY <4>1 DEF Owners, OwnerStates
      <4>2. CASE owner' = [owner EXCEPT ![c]["disposer"] = "pending"]
        BY <4>2 DEF Owners, OwnerStates
      <4>3. QED
        BY <3>1, <4>1, <4>2, Zenon
    <3>3. /\ owned' \in {owned, [owned EXCEPT ![c] = {"disposer"}]}
          /\ continuing' \in {continuing, [continuing EXCEPT ![c] = {"disposer"}]}
      BY <1>13, Zenon DEF ServerStops
    <3>4. owned' \in [Call -> SUBSET Owners]
      BY <3>3 DEF Owners
    <3>5. continuing' \in [Call -> SUBSET Owners]
      BY <3>3 DEF Owners
    <3>6. QED
      BY <1>13, <3>2, <3>4, <3>5 DEF ServerStops, Enter, poolVars, snapVars, Stages
  <2>2. \A d \in Call \ {c} : Same(d)
    BY <1>13 DEF Same, ServerStops, Enter, poolVars, snapVars
  <2>3. ChildOK(c)'
    BY <1>13 DEF ChildOK, Slots, Disposal, Pinned, SlotHeld, HasResources,
       CleanupPending, Unadmitted, StartFailure, Ending, Owners, ServerStops, Enter,
       poolVars, snapVars
  <2>4. QED
    BY <1>13, <2>1, <2>2, <2>3, OneChild DEF ServerStops, Enter, poolVars, snapVars
<1>14. ASSUME NEW c \in Call, TemporaryRemoved(c) PROVE ForkInvariant'
  <2>1. Typed'
    <3>1. owner' \in {[owner EXCEPT ![c]["disposer"] = "done"],
                    [owner EXCEPT ![c]["remover"] = "pending"],
                    [owner EXCEPT ![c] = [disposer |-> "done", remover |-> "pending"]]}
      BY <1>14, Zenon DEF TemporaryRemoved
    <3>2. owner' \in [Call -> [Owners -> OwnerStates]]
      <4>1. CASE owner' = [owner EXCEPT ![c]["disposer"] = "done"]
        BY <4>1 DEF Owners, OwnerStates
      <4>2. CASE owner' = [owner EXCEPT ![c]["remover"] = "pending"]
        BY <4>2 DEF Owners, OwnerStates
      <4>3. CASE owner' = [owner EXCEPT ![c] = [disposer |-> "done", remover |-> "pending"]]
        BY <4>3 DEF Owners, OwnerStates
      <4>4. QED
        BY <3>1, <4>1, <4>2, <4>3, Zenon
    <3>3. /\ owned' \in {owned, [owned EXCEPT ![c] = @ \cup {"remover"}]}
          /\ continuing' \in {continuing, [continuing EXCEPT ![c] = @ \cup {"remover"}]}
      BY <1>14, Zenon DEF TemporaryRemoved
    <3>4. owned' \in [Call -> SUBSET Owners]
      BY <3>3 DEF Owners
    <3>5. continuing' \in [Call -> SUBSET Owners]
      BY <3>3 DEF Owners
    <3>6. QED
      BY <1>14, <3>2, <3>4, <3>5 DEF TemporaryRemoved, Enter, poolVars, snapVars, Stages
  <2>2. \A d \in Call \ {c} : Same(d)
    BY <1>14 DEF Same, TemporaryRemoved, Enter, poolVars, snapVars
  <2>3. ChildOK(c)'
    BY <1>14 DEF ChildOK, Slots, Disposal, Pinned, SlotHeld, HasResources,
       CleanupPending, Unadmitted, StartFailure, Ending, Owners, TemporaryRemoved,
       Enter, poolVars, snapVars
  <2>4. QED
    BY <1>14, <2>1, <2>2, <2>3, OneChild DEF TemporaryRemoved, Enter, poolVars,
       snapVars
<1>15. ASSUME NEW c \in Call, CaptureDiscards(c) PROVE ForkInvariant'
  <2>1. Typed'
    BY <1>15 DEF CaptureDiscards, Enter, Pool!Settle, Pool!Stop, Pool!NoEffect,
       Pool!Release, Pool!poolVars, poolVars, snapVars, Stages, Owners, OwnerStates,
       Pool!Locations
  <2>2. \A d \in Call \ {c} : Same(d)
    BY <1>15 DEF Same, CaptureDiscards, Enter, Pool!Settle, Pool!Stop,
       Pool!NoEffect, Pool!Release, Pool!poolVars, poolVars, snapVars
  <2>3. ChildOK(c)'
    BY <1>15 DEF ChildOK, Slots, Disposal, Pinned, SlotHeld, HasResources,
       CleanupPending, Unadmitted, StartFailure, Ending, Owners, CaptureDiscards,
       Enter, Pool!Settle, Pool!Stop, Pool!NoEffect, Pool!Release, Pool!poolVars,
       poolVars, snapVars
  <2>4. QED
    BY <1>15, <2>1, <2>2, <2>3, OneChild DEF CaptureDiscards, Enter, Pool!Settle,
       Pool!Stop, Pool!NoEffect, Pool!Release, Pool!poolVars, poolVars, snapVars
<1>16. ASSUME NEW c \in Call, DisposalSampled(c) PROVE ForkInvariant'
  <2>1. Typed'
    BY <1>16 DEF DisposalSampled, Enter, poolVars, snapVars, Stages, Owners,
       OwnerStates, Pool!Locations
  <2>2. \A d \in Call \ {c} : Same(d)
    BY <1>16 DEF Same, DisposalSampled, Enter, poolVars, snapVars
  <2>3. ChildOK(c)'
    BY <1>16 DEF ChildOK, Slots, Disposal, Pinned, SlotHeld, HasResources,
       CleanupPending, Unadmitted, StartFailure, Ending, Owners, DisposalSampled,
       Enter, poolVars, snapVars
  <2>4. QED
    BY <1>16, <2>1, <2>2, <2>3, OneChild DEF DisposalSampled, Enter, poolVars,
       snapVars
<1>17. ASSUME NEW c \in Call, SettleFork(c) PROVE ForkInvariant'
  <2>1. Typed'
    BY <1>17 DEF SettleFork, Enter, CleanResult, Pool!TrackCleanup, Pool!Settle,
       Pool!Release, Pool!Stop, Pool!NoEffect, Pool!poolVars, snapVars, Stages,
       Owners, OwnerStates, Pool!Locations
  <2>2. \A d \in Call \ {c} : Same(d)
    BY <1>17 DEF Same, SettleFork, Enter, CleanResult, Pool!TrackCleanup,
       Pool!Settle, Pool!Release, Pool!Stop, Pool!NoEffect, Pool!poolVars, snapVars
  <2>3. ChildOK(c)'
    BY <1>17 DEF ChildOK, Slots, Disposal, Pinned, SlotHeld, HasResources,
       CleanupPending, Unadmitted, StartFailure, Ending, Owners, SettleFork, Enter,
       CleanResult, Pool!TrackCleanup, Pool!Settle, Pool!Release, Pool!Stop,
       Pool!NoEffect, Pool!poolVars, snapVars
  <2>4. QED
    BY <1>17, <2>1, <2>2, <2>3, OneChild DEF SettleFork, Enter, CleanResult,
       Pool!TrackCleanup, Pool!Settle, Pool!Release, Pool!Stop, Pool!NoEffect,
       Pool!poolVars, snapVars
<1>18. ASSUME NEW c \in Call, DisposerContinues(c) PROVE ForkInvariant'
  <2>1. Typed'
    BY <1>18 DEF DisposerContinues, poolVars, snapVars, Stages, Owners, OwnerStates,
       Pool!Locations
  <2>2. \A d \in Call \ {c} : Same(d)
    BY <1>18 DEF Same, DisposerContinues, poolVars, snapVars
  <2>3. ChildOK(c)'
    BY <1>18 DEF ChildOK, Slots, Disposal, Pinned, SlotHeld, HasResources,
       CleanupPending, Unadmitted, StartFailure, Ending, Owners, DisposerContinues,
       poolVars, snapVars
  <2>4. QED
    BY <1>18, <2>1, <2>2, <2>3, OneChild DEF DisposerContinues, poolVars, snapVars
<1>19. ASSUME NEW c \in Call, RemoverContinues(c) PROVE ForkInvariant'
  <2>1. Typed'
    <3>1. owner' \in {owner,
                    [owner EXCEPT ![c] = [disposer |-> "done", remover |-> "pending"]],
                    [owner EXCEPT ![c] = [disposer |-> "done", remover |-> "done"]]}
      BY <1>19, Zenon DEF RemoverContinues
    <3>2. owner' \in [Call -> [Owners -> OwnerStates]]
      <4>1. CASE owner' = owner
        BY <4>1 DEF Owners, OwnerStates
      <4>2. CASE owner' = [owner EXCEPT ![c] = [disposer |-> "done", remover |-> "pending"]]
        BY <4>2 DEF Owners, OwnerStates
      <4>3. CASE owner' = [owner EXCEPT ![c] = [disposer |-> "done", remover |-> "done"]]
        BY <4>3 DEF Owners, OwnerStates
      <4>4. QED
        BY <3>1, <4>1, <4>2, <4>3, Zenon
    <3>3. /\ owned' \in {owned}
          /\ continuing' \in {continuing, [continuing EXCEPT ![c] = @ \ {"remover"}]}
      BY <1>19, Zenon DEF RemoverContinues
    <3>4. owned' \in [Call -> SUBSET Owners]
      BY <3>3 DEF Owners
    <3>5. continuing' \in [Call -> SUBSET Owners]
      BY <3>3 DEF Owners
    <3>6. QED
      BY <1>19, <3>2, <3>4, <3>5 DEF RemoverContinues, Enter, poolVars, snapVars, Stages
  <2>2. \A d \in Call \ {c} : Same(d)
    BY <1>19 DEF Same, RemoverContinues, poolVars, snapVars
  <2>3. ChildOK(c)'
    BY <1>19 DEF ChildOK, Slots, Disposal, Pinned, SlotHeld, HasResources,
       CleanupPending, Unadmitted, StartFailure, Ending, Owners, RemoverContinues,
       poolVars, snapVars
  <2>4. QED
    BY <1>19, <2>1, <2>2, <2>3, OneChild DEF RemoverContinues, poolVars, snapVars
<1>20. ASSUME NEW c \in Call, WatcherSettles(c) PROVE ForkInvariant'
  <2>1. Typed'
    BY <1>20 DEF WatcherSettles, Pool!WatcherSettles, Pool!Settle, Pool!Release,
       Pool!Stop, Pool!NoEffect, Pool!poolVars, childVars, snapVars, Stages, Owners,
       OwnerStates, Pool!Locations
  <2>2. \A d \in Call \ {c} : Same(d)
    BY <1>20 DEF Same, WatcherSettles, Pool!WatcherSettles, Pool!Settle,
       Pool!Release, Pool!Stop, Pool!NoEffect, Pool!poolVars, childVars, snapVars
  <2>3. ChildOK(c)'
    <3>1. c \in watchers /\ stage[c] \in {"refused", "closed"} /\ c \notin captureDebt
      BY <1>20 DEF ChildOK, Slots, WatcherSettles, Pool!WatcherSettles
    <3>2. ~HasResources(c)
      BY <1>20, <3>1, DoneMeansDisposed DEF WatcherSettles
    <3>3. SlotHeld(c)' /\ Disposal(c)' /\ Pinned(c)'
      BY <1>20, <3>1, <3>2 DEF ChildOK, SlotHeld, HasResources, Disposal, Pinned, WatcherSettles,
         childVars
    <3>4. Slots(c)'
      BY <1>20, <3>1 DEF ChildOK, Slots, Unadmitted, WatcherSettles, Pool!WatcherSettles,
         Pool!Settle, Pool!Release, Pool!Stop, Pool!NoEffect, Pool!poolVars, childVars
    <3>5. QED
      BY <3>3, <3>4 DEF ChildOK
  <2>4. QED
    BY <1>20, <2>1, <2>2, <2>3, OneChild DEF WatcherSettles, Pool!WatcherSettles,
       Pool!Settle, Pool!Release, Pool!Stop, Pool!NoEffect, Pool!poolVars,
       childVars, snapVars
<1>21. ASSUME NEW k \in Closer, CloseRevokes(k) PROVE ForkInvariant'
  BY <1>21, NoChild DEF Same, CloseRevokes, MoveCloser, Pool!Close, Pool!PoolClose, Pool!Signal, childVars
<1>22. ASSUME NEW k \in Closer, CloseQueues(k) PROVE ForkInvariant'
  BY <1>22, NoChild DEF Same, CloseQueues, MoveCloser, childVars, poolVars
<1>23. ASSUME NEW k \in Closer, CloseLocks(k) PROVE ForkInvariant'
  BY <1>23, NoChild DEF Same, CloseLocks, MoveCloser, childVars, poolVars
<1>24. ASSUME NEW k \in Closer, CloseReleases(k) PROVE ForkInvariant'
  BY <1>24, NoChild DEF Same, CloseReleases, MoveCloser, childVars, poolVars
<1>25. CASE UNCHANGED vars
  BY <1>25, NoChild DEF Same, vars, childVars, poolVars, snapVars
<1>26. QED
  BY <1>1, <1>2, <1>3, <1>4, <1>5, <1>6, <1>7, <1>8, <1>9, <1>10, <1>11, <1>12, <1>13,
     <1>14, <1>15, <1>16, <1>17, <1>18, <1>19, <1>20, <1>21, <1>22, <1>23, <1>24, <1>25
     DEF Next, DatabaseStep, BackgroundStep, CloserStep

-----------------------------------------------------------------------------
(* What follows from it                                                    *)

\* The inductive invariant holds in every reachable state.
THEOREM ForkInvariantHolds == Spec => []ForkInvariant
<1>1. QED
  BY InitForkInvariant, NextForkInvariant, PTL DEF Spec

\* The type invariant of the children and of Snapshot.Close.
THEOREM TypeCorrect == Spec => []TypeOK
<1>1. ForkInvariant => TypeOK
  BY DEF ForkInvariant, Typed
<1>2. QED
  BY <1>1, ForkInvariantHolds, PTL

\* settleFork, settleStartupLease, TrackCleanup's goroutine and Close of the pool
\* together never free the slot of a child that still has a guest, a directory or
\* a capture that could not be discarded, however many forks share the pool.
THEOREM SlotUntilDisposedHolds == Spec => []SlotUntilDisposed
<1>1. ForkInvariant => SlotUntilDisposed
  BY DEF ForkInvariant, ChildOK, SlotHeld, SlotUntilDisposed
<1>2. QED
  BY <1>1, ForkInvariantHolds, PTL

\* Owned.Close drops the backing only when no startup, and no failed startup whose
\* guest may still run, reads it.
THEOREM BackingOutlivesReadersHolds == Spec => []BackingOutlivesReaders
<1>1. ForkInvariant => BackingOutlivesReaders
  BY DEF ForkInvariant, ChildOK, Pinned, Disposal, StartFailure, BackingOutlivesReaders
<1>2. QED
  BY <1>1, ForkInvariantHolds, PTL

-----------------------------------------------------------------------------
(* The pool                                                                *)

\* A Fork past its admission holds its lease, so that what it does to the pool is a
\* method of a lease that is held.
LEMMA LeaseIsHeld ==
  ASSUME ForkInvariant, NEW c \in Call, stage[c] # "none"
  PROVE  pc[c] = "held"
BY DEF ForkInvariant, ChildOK, Slots

\* Every step of forks, children and closers is a step of the pool or leaves it
\* alone.
LEMMA StepIsPoolStep == ForkInvariant /\ [Next]_vars => [Pool!Next]_(Pool!vars)
<1> SUFFICES ASSUME ForkInvariant, [Next]_vars
             PROVE  Pool!Next \/ UNCHANGED Pool!vars
  OBVIOUS
<1>1. CASE UNCHANGED poolVars
  BY <1>1 DEF poolVars, Pool!vars
<1>2. ASSUME NEW c \in Call, ForkAcquires(c) PROVE Pool!Next
  BY <1>2 DEF ForkAcquires, Pool!Next
<1>3. ASSUME NEW c \in Call, ForkContextEnds(c) PROVE Pool!Next
  BY <1>3 DEF ForkContextEnds, Pool!Next
<1>4. ASSUME NEW c \in Call, ForkActivates(c) PROVE Pool!Next
  BY <1>4, LeaseIsHeld DEF ForkActivates, Enter, Pool!Next, Pool!LeaseMethod
<1>5. ASSUME NEW c \in Call, ForkRejected(c) PROVE Pool!Next
  BY <1>5, LeaseIsHeld DEF ForkRejected, Enter, Pool!Next, Pool!LeaseMethod
<1>6. ASSUME NEW c \in Call, StartSettles(c) PROVE Pool!Next
  BY <1>6, LeaseIsHeld DEF StartSettles, Enter, Pool!Next, Pool!LeaseMethod
<1>7. ASSUME NEW c \in Call, CaptureDiscards(c) PROVE Pool!Next \/ UNCHANGED poolVars
  BY <1>7, LeaseIsHeld DEF CaptureDiscards, Enter, Pool!Next, Pool!LeaseMethod, poolVars
<1>8. ASSUME NEW c \in Call, SettleFork(c) PROVE Pool!Next
  BY <1>8, LeaseIsHeld DEF SettleFork, Enter, Pool!Next, Pool!LeaseMethod
<1>9. ASSUME NEW c \in Call, WatcherSettles(c) PROVE Pool!Next
  BY <1>9 DEF WatcherSettles, Pool!Next
<1>10. ASSUME NEW k \in Closer, CloseRevokes(k) PROVE Pool!Next
  BY <1>10 DEF CloseRevokes, Pool!Next
<1>11. ASSUME NEW c \in Call,
              \/ ForkLocks(c) \/ StartPins(c) \/ StartSucceeds(c) \/ StartFails(c)
              \/ GuestExits(c) \/ CloseBegins(c) \/ CaptureBegins(c) \/ ServerStops(c)
              \/ TemporaryRemoved(c) \/ DisposalSampled(c)
              \/ DisposerContinues(c) \/ RemoverContinues(c)
       PROVE  UNCHANGED poolVars
  BY <1>11 DEF ForkLocks, StartPins, StartSucceeds, StartFails, GuestExits, CloseBegins,
     CaptureBegins, ServerStops, TemporaryRemoved, DisposalSampled, DisposerContinues,
     RemoverContinues
<1>12. ASSUME NEW k \in Closer, CloserStep(k) PROVE UNCHANGED poolVars
  BY <1>12 DEF CloserStep, CloseQueues, CloseLocks, CloseReleases
<1>13. CASE UNCHANGED vars
  BY <1>1, <1>13 DEF vars
<1>14. QED
  BY <1>1, <1>2, <1>3, <1>4, <1>5, <1>6, <1>7, <1>8, <1>9, <1>10, <1>11, <1>12, <1>13
     DEF Next, DatabaseStep, BackgroundStep

\* SnapshotFork implements the pool: whatever is proved of ForkLimit holds of the
\* Forks of a Snapshot.
THEOREM ImplementsPool == Spec => PoolSpec
<1>1. Init => Pool!Init
  BY DEF Init
<1>2. QED
  BY <1>1, StepIsPoolStep, ForkInvariantHolds, PTL DEF Spec, PoolSpec, Pool!Spec
=============================================================================
