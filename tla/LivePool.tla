------------------------------ MODULE LivePool ------------------------------
(***************************************************************************)
(* A Live and the admission pool of its parent Snapshot (live.go,          *)
(* internal/live, internal/forklimit).  Each child of the endpoint is      *)
(* started on the slot that Reset reserved for it before draining, and     *)
(* settles the slot when it is closed; meanwhile other Forks use the pool, *)
(* leave cleanup debt in it, and the Snapshot is closed.                   *)
(*                                                                         *)
(* A child is named like the lease it is started on.  A step of the        *)
(* endpoint is the step of LiveEndpoint together with what its factory and *)
(* its children (liveChild, Database) do to the pool.                      *)
(***************************************************************************)
EXTENDS LiveEndpoint

CONSTANTS
  Other,    \* Forks of the same Snapshot
  NoCall,
  Limit

\* Snapshot.Live refuses a Snapshot with fewer than two slots.
ASSUME LiveAssumption == Limit \in Nat /\ Limit >= 2 /\ Other \cap Child = {}

VARIABLES
  closed, blocked, cause, leases, active, debt, tracking, watchers, waiting, pc,
  leaseDone,    \* the pool's ctxDone
  reservation,  \* the slot of the running Reset: NoChild outside it
  snapClosed    \* Snapshot.closed

Call == Child \cup Other

Pool == INSTANCE ForkLimit WITH ctxDone <- leaseDone

slotVars == <<closed, blocked, cause, leases, active, debt, tracking, waiting>>
poolVars == <<slotVars, watchers, pc, leaseDone>>
allVars == <<vars, poolVars, reservation, snapClosed>>

\* The first child holds a slot it has activated; the owner of an aborted
\* creation has left its debt there.
InitPool ==
  LET first == {x \in Child : life[x] # "unborn"} IN
  /\ closed = FALSE /\ waiting = {} /\ leaseDone = {}
  /\ leases = first /\ active = first
  /\ debt = {x \in first : life[x] = "debt"}
  /\ blocked = (debt # {})
  /\ cause \in (IF blocked THEN debt ELSE {NoCall})
  /\ tracking \in SUBSET debt /\ watchers = tracking
  /\ pc = [c \in Call |-> IF c \in first THEN "held" ELSE "idle"]
  /\ reservation = NoChild
  /\ snapClosed = FALSE

\* Names of leases not given out yet.  They are interchangeable, so that the
\* first child and each reservation take a chosen one.
Fresh == {x \in Child : life[x] = "unborn" /\ pc[x] = "idle"}

LiveInit == Init /\ life[CHOOSE x \in Child : TRUE] # "unborn" /\ InitPool

-----------------------------------------------------------------------------
(* What a step of the endpoint does to the pool                            *)

\* A Reset that returns gives back, by its deferred Cancel, a slot that Start
\* did not activate.
Returning == at # "free" /\ at' = "free"
Unused == IF Returning THEN {reservation} \cap (leases \ active) ELSE {}

\* The children this step closed, and those of them whose Close failed.
Disposed == {x \in Child : life[x] # "disposed" /\ life'[x] = "disposed"}
Failing ==
  pending' \cup {x \in {child} : at \in {"recoverRetire", "retire"} /\ life'[x] = "debt"}

\* Settle(nil) frees a slot; a failed Close keeps it and stops admission, with
\* one watcher if the failure names its disposal owners.
SettleSlots(free, bad) ==
  /\ leases' = leases \ free
  /\ active' = active \cup bad
  /\ debt' = debt \cup bad
  /\ blocked' = (blocked \/ bad # {})
  /\ IF blocked \/ bad = {} THEN cause' = cause ELSE cause' \in bad
  /\ \E T \in SUBSET (bad \ tracking) : tracking' = tracking \cup T /\ watchers' = watchers \cup T
  /\ waiting' = IF free \cap leases = {} /\ bad = {} THEN waiting ELSE {}
  /\ pc' = [c \in Call |-> IF c \in Unused THEN "idle" ELSE pc[c]]
  /\ UNCHANGED <<closed, leaseDone>>

Proceed == reservation' = (IF Returning THEN NoChild ELSE reservation) /\ UNCHANGED snapClosed

\* A step that closes children, and one that closes none.
Closes(A) == A /\ SettleSlots(Disposed \cup Unused, Failing \cap leases) /\ Proceed
Keeps(A) == A /\ SettleSlots(Unused, {}) /\ Proceed

\* Factory.Check.  (Without a fresh name the bound on children is reached.)
BeginReset == ~snapClosed /\ Fresh # {} /\ Keeps(ResetBegins)

\* Factory.Reserve: an explicit recovery, which does not wait.
ReserveSlot ==
  /\ Reserve
  /\ \/ /\ at' = "drain" /\ ~ctxDone
        /\ Pool!Verdict(TRUE) = "ok"
        /\ reservation' = CHOOSE x \in Fresh : TRUE
        /\ Pool!TryAcquire(reservation', TRUE)
     \/ /\ at' = "free"
        /\ ctxDone \/ Pool!Verdict(TRUE) # "ok"
        /\ UNCHANGED <<poolVars, reservation>>
  /\ UNCHANGED snapClosed

\* forkReserved: the slot is activated before anything is allocated.  A slot
\* that the closed pool revoked, or that a debt blocks, starts no child.
StartOnSlot ==
  /\ Start
  /\ candidate' \in {reservation, NoChild}
  /\ \/ /\ Pool!CanActivate(reservation)
        /\ \/ /\ candidate' = reservation /\ life'[reservation] = "serving"
              /\ Pool!Activate(reservation) /\ UNCHANGED watchers
           \/ /\ candidate' = reservation /\ life'[reservation] = "debt"
              /\ Pool!TrackCleanup(reservation, TRUE)
           \/ /\ candidate' = NoChild
              /\ Pool!Settle(reservation, TRUE) /\ UNCHANGED watchers
        /\ UNCHANGED <<pc, leaseDone>>
     \/ /\ ~Pool!CanActivate(reservation)
        /\ candidate' = NoChild
        /\ Pool!Cancel(reservation)
        /\ UNCHANGED <<watchers, pc, leaseDone>>
  /\ UNCHANGED <<reservation, snapClosed>>

\* Database.watch closes a child whose guest exited, behind the endpoint.
WatchCloses(x) ==
  /\ life[x] = "dead" /\ x \in leases /\ x \notin debt
  /\ UNCHANGED <<vars, reservation, snapClosed>>
  /\ SettleSlots({x}, {}) \/ SettleSlots({}, {x})

\* The owners of a tracked failure complete: its watcher frees the slot.
OwnersComplete(c) == Pool!WatcherSettles(c) /\ UNCHANGED <<vars, reservation, snapClosed>>

-----------------------------------------------------------------------------
(* The rest of the Snapshot                                                *)

AdmissionStep(c) == Pool!AcquireStep(c) /\ UNCHANGED <<vars, reservation, snapClosed>>

\* A Fork waits for its slot, activates it (or gives it back), and its database
\* is closed or leaves a tracked debt.
OtherUses(c) ==
  /\ \/ Pool!AcquireBegin(c)
     \/ /\ c \in leases /\ pc[c] = "held"
        /\ \/ Pool!CanActivate(c) /\ Pool!Activate(c) /\ UNCHANGED watchers
           \/ ~Pool!CanActivate(c) /\ c \notin active /\ Pool!Cancel(c) /\ UNCHANGED watchers
           \/ c \in active \ debt /\ Pool!Settle(c, TRUE) /\ UNCHANGED watchers
           \/ c \in active \ debt /\ Pool!TrackCleanup(c, TRUE)
        /\ UNCHANGED <<pc, leaseDone>>
  /\ UNCHANGED <<vars, reservation, snapClosed>>

\* Snapshot.Close closes the pool first, then takes Snapshot.mu.
PoolCloses == Pool!Close /\ UNCHANGED <<vars, reservation, snapClosed>>

SnapshotCloses ==
  /\ closed /\ ~snapClosed
  /\ snapClosed' = TRUE
  /\ UNCHANGED <<vars, poolVars, reservation>>

ResetRuns ==
  \/ Closes(RecoverPending) \/ Closes(RecoverRetire) \/ ReserveSlot
  \/ Keeps(Drain) \/ Keeps(DrainWoken) \/ Closes(SwitchPending)
  \/ StartOnSlot \/ Closes(StartFailed) \/ Closes(Retire) \/ Closes(Commit)

LiveNext ==
  \/ \E c \in Conn : Keeps(Accept(c)) \/ Keeps(Dialed(c)) \/ Keeps(Leaves(c))
  \/ \E x \in Child : Keeps(ChildDies(x)) \/ WatchCloses(x)
  \/ BeginReset \/ Keeps(ContextEnds) \/ ResetRuns \/ Keeps(DrainExpires)
  \/ Keeps(CloseBegins) \/ Closes(CloseEnds) \/ Closes(CloseAgain)
  \/ \E c \in Call : OwnersComplete(c)
  \/ \E c \in Other : AdmissionStep(c) \/ OtherUses(c)
  \/ PoolCloses \/ SnapshotCloses

LiveSpec == LiveInit /\ [][LiveNext]_allVars

\* The goroutine in Reset or Close is scheduled and its drain timer fires, as in
\* LiveEndpoint.  Clients, other Forks and disposal owners owe nothing.
FairLiveSpec ==
  /\ LiveSpec
  /\ WF_allVars(ResetRuns) /\ WF_allVars(Keeps(DrainExpires)) /\ WF_allVars(Closes(CloseEnds))

-----------------------------------------------------------------------------
(* Properties                                                              *)

\* A serving child runs on a slot that is still its own, and every slot of the
\* Live belongs to a child not known to be disposed or to the running Reset: a
\* reservation revoked or blocked while Reset drained starts no child, and no
\* failed, cancelled or repeated Reset leaks a slot.
SlotPerChild ==
  /\ \A x \in Child : life[x] = "serving" => x \in leases \cap active
  /\ leases \cap Child \subseteq Undisposed \cup {reservation}
  /\ at \in {"free", "closing"} => leases \cap Child \subseteq active

\* A Reset that has recovered what its endpoint owns is never refused because of
\* it: without other users of an open pool it finds a slot, unless its own child
\* died and left a debt.
ResetFindsSlot ==
  (at = "reserve" /\ ~closed /\ leases \cap Other = {} /\ child \notin debt)
    => Pool!Verdict(TRUE) = "ok"

\* While a slot of the pool owes cleanup nothing new is started on the Snapshot:
\* not by the Reset that reserved its slot before the debt, not by the recovery
\* that Reserve asks for, and not by a Fork that another child's success let in.
StartsWithoutDebt ==
  [][debt \cap leases # {} =>
       /\ \A x \in Child : life[x] = "unborn" => life'[x] = "unborn"
       /\ active' \cap Other \subseteq active]_allVars
=============================================================================
