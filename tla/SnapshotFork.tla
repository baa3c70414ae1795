---------------------------- MODULE SnapshotFork ----------------------------
(***************************************************************************)
(* The Go API around the admission pool: Snapshot.Fork and Snapshot.Close  *)
(* (snapshot.go), the life of a forked Database (mariamem.go) and the      *)
(* disposal owners its startup, Close and capture leave behind             *)
(* (internal/disposal, internal/host/disposal.go).                         *)
(*                                                                         *)
(* A call is one Fork and the child it starts.  Its resources are the      *)
(* guest with its session workers (guest), and two disposal owners: the    *)
(* disposer joins the guest and removes the transfer directory (and, for   *)
(* a failed startup, then unpins the backing); the remover runs after it   *)
(* and removes the child's temporary directory.  Both removals may fail.   *)
(***************************************************************************)
EXTENDS PoolConstants   \* a Call is a Fork, its lease and its child

CONSTANT Closer   \* concurrent callers of Snapshot.Close

VARIABLES
  closed, blocked, cause, leases, active, debt, tracking, watchers, waiting,
  pc, ctxDone,   \* the pool: see ForkLimit
  stage,         \* where each Fork, and then its Database, is
  guest,         \* the child's guest
  owner,         \* state of each child's two disposal owners
  owned,         \* the owners its startup or close error carries
  continuing,    \* owners whose one background Retry has not run yet
  failed,        \* children whose stop operation itself failed
  confirmed,     \* children whose disposalComplete() was sampled TRUE
  captureDebt,   \* children with Database.captureDebt set
  pins,          \* startups holding the read lock of the backing
  closer,        \* where each Snapshot.Close is
  snapClosed,    \* Snapshot.closed
  backingClosed  \* Owned.closed

poolVars == <<closed, blocked, cause, leases, active, debt, tracking, watchers,
              waiting, pc, ctxDone>>
childVars == <<stage, guest, owner, owned, continuing, failed, confirmed, captureDebt, pins>>
snapVars == <<closer, snapClosed, backingClosed>>
vars == <<poolVars, childVars, snapVars>>

Pool == INSTANCE ForkLimit

Owners == {"disposer", "remover"}
OwnerStates == {"none", "pending", "done"}
Stages == {"none", "rlocked", "rejected", "starting", "launching", "startFailed",
           "refused", "live", "closing", "capturing", "removing",
           "removingCapture", "discarding", "sampling", "settling", "closed"}

Init ==
  /\ Pool!Init
  /\ stage = [c \in Call |-> "none"]
  /\ guest = [c \in Call |-> "none"]
  /\ owner = [c \in Call |-> [o \in Owners |-> "none"]]
  /\ owned = [c \in Call |-> {}]
  /\ continuing = [c \in Call |-> {}]
  /\ failed = {}
  /\ confirmed = {}
  /\ captureDebt = {}
  /\ pins = {}
  /\ closer = [k \in Closer |-> "idle"]
  /\ snapClosed = FALSE
  /\ backingClosed = FALSE

Enter(c, from, to) == stage[c] = from /\ stage' = [stage EXCEPT ![c] = to]

\* Forks that hold Snapshot.mu for reading: forkReserved returns only after the
\* startup lease of a failed start has been settled.
Readers == {c \in Call : stage[c] \in {"rlocked", "rejected", "starting", "launching", "startFailed"}}

\* A waiting writer of Snapshot.mu blocks new readers.
WriterWaits == \E k \in Closer : closer[k] \in {"queued", "locked"}

\* cleanupPending(err): an owner the error carries is not complete.
CleanupPending(c) == \E o \in owned[c] : owner[c][o] # "done"

-----------------------------------------------------------------------------
(* Fork: admission, then startup under the read lock                       *)

ForkAcquires(c) ==
  /\ stage[c] = "none"
  /\ Pool!AcquireBegin(c) \/ Pool!AcquireStep(c)
  /\ UNCHANGED <<childVars, snapVars>>

ForkContextEnds(c) ==
  /\ stage[c] = "none"
  /\ Pool!ContextEnds(c)
  /\ UNCHANGED <<childVars, snapVars>>

ForkLocks(c) ==
  /\ pc[c] = "held"
  /\ ~WriterWaits
  /\ Enter(c, "none", IF snapClosed THEN "rejected" ELSE "rlocked")
  /\ UNCHANGED <<poolVars, guest, owner, owned, continuing, failed, confirmed,
                 captureDebt, pins, snapVars>>

ForkActivates(c) ==
  /\ Enter(c, "rlocked", IF Pool!CanActivate(c) THEN "starting" ELSE "rejected")
  /\ Pool!Activate(c)
  /\ UNCHANGED <<watchers, pc, ctxDone, guest, owner, owned, continuing, failed,
                 confirmed, captureDebt, pins, snapVars>>

ForkRejected(c) ==
  /\ Enter(c, "rejected", "refused")
  /\ Pool!Cancel(c)
  /\ UNCHANGED <<watchers, pc, ctxDone, guest, owner, owned, continuing, failed,
                 confirmed, captureDebt, pins, snapVars>>

(* startLeased refuses the options, the context or the platform before it   *)
(* allocates anything, or Owned.Acquire pins the backing.                  *)
StartPins(c) ==
  /\ \/ Enter(c, "starting", "startFailed") /\ UNCHANGED pins
     \/ /\ ~backingClosed
        /\ Enter(c, "starting", "launching")
        /\ pins' = pins \cup {c}
  /\ UNCHANGED <<poolVars, guest, owner, owned, continuing, failed, confirmed,
                 captureDebt, snapVars>>

StartSucceeds(c) ==
  /\ Enter(c, "launching", "live")
  /\ guest' = [guest EXCEPT ![c] = "running"]
  /\ pins' = pins \ {c}
  /\ UNCHANGED <<poolVars, owner, owned, continuing, failed, confirmed,
                 captureDebt, snapVars>>

\* Defect: host.start releases the backing as soon as the startup failed.
StartFailsUnpins(c) ==
  /\ Enter(c, "launching", "startFailed")
  /\ guest' \in {[guest EXCEPT ![c] = g] : g \in {"running", "exited"}}
  /\ owner' = [owner EXCEPT ![c] = [o \in Owners |-> "pending"]]
  /\ owned' = [owned EXCEPT ![c] = {"remover"}]
  /\ continuing' = [continuing EXCEPT ![c] = Owners]
  /\ pins' = pins \ {c}
  /\ UNCHANGED <<poolVars, failed, confirmed, captureDebt, snapVars>>

\* Defect: a startup that cleaned up everything else forgets its read lock.
StartFailsPinned(c) ==
  /\ Enter(c, "launching", "startFailed")
  /\ guest' = [guest EXCEPT ![c] = "exited"]
  /\ UNCHANGED <<poolVars, owner, owned, continuing, failed, confirmed, captureDebt, pins, snapVars>>

\* The outcomes of a failed startup: what disposal.After and RemoveAfter could
\* not finish on their first probe stays owned, outermost owner last.
StartFails(c) ==
  /\ Enter(c, "launching", "startFailed")
  /\ \/ /\ guest' = [guest EXCEPT ![c] = "exited"]   \* everything cleaned up
        /\ pins' = pins \ {c}
        /\ UNCHANGED <<owner, owned, continuing>>
     \/ /\ guest' = [guest EXCEPT ![c] = "exited"]   \* temporary directory left
        /\ pins' = pins \ {c}
        /\ owner' = [owner EXCEPT ![c] = [disposer |-> "done", remover |-> "pending"]]
        /\ owned' = [owned EXCEPT ![c] = {"remover"}]
        /\ continuing' = [continuing EXCEPT ![c] = {"remover"}]
     \/ /\ guest' \in {[guest EXCEPT ![c] = g] : g \in {"running", "exited"}}
        /\ owner' = [owner EXCEPT ![c] = [o \in Owners |-> "pending"]]
        /\ owned' = [owned EXCEPT ![c] = {"remover"}]
        /\ continuing' = [continuing EXCEPT ![c] = Owners]
        /\ UNCHANGED pins
  /\ UNCHANGED <<poolVars, failed, confirmed, captureDebt, snapVars>>

\* Defect: the lease is dropped without waking the calls that wait for it.
StartSettlesSilently(c) ==
  /\ Enter(c, "startFailed", "refused")
  /\ leases' = leases \ {c}
  /\ UNCHANGED <<closed, blocked, cause, active, debt, tracking, waiting, watchers, pc,
                 ctxDone, guest, owner, owned, continuing, failed, confirmed,
                 captureDebt, pins, snapVars>>

\* Defect: the cleanup error loses its owners before it is tracked.
StartSettlesUnwatched(c) ==
  /\ Enter(c, "startFailed", "refused")
  /\ \/ CleanupPending(c) /\ Pool!TrackCleanup(c, FALSE)
     \/ ~CleanupPending(c) /\ Pool!Settle(c, TRUE) /\ UNCHANGED watchers
  /\ UNCHANGED <<pc, ctxDone, guest, owner, owned, continuing, failed, confirmed,
                 captureDebt, pins, snapVars>>

\* settleStartupLease, then RUnlock.
StartSettles(c) ==
  /\ Enter(c, "startFailed", "refused")
  /\ \/ CleanupPending(c) /\ Pool!TrackCleanup(c, TRUE)
     \/ ~CleanupPending(c) /\ Pool!Settle(c, TRUE) /\ UNCHANGED watchers
  /\ UNCHANGED <<pc, ctxDone, guest, owner, owned, continuing, failed, confirmed,
                 captureDebt, pins, snapVars>>

-----------------------------------------------------------------------------
(* The life of the child                                                   *)

\* A guest ends by itself, on shutdown or after Abort.
GuestExits(c) ==
  /\ guest[c] = "running"
  /\ guest' = [guest EXCEPT ![c] = "exited"]
  /\ UNCHANGED <<poolVars, stage, owner, owned, continuing, failed, confirmed,
                 captureDebt, pins, snapVars>>

\* Database.Close, or the watch goroutine after the guest ended: closeLocked
\* and Snapshot hold Database.mu to the end, so there is only one of them.
CloseBegins(c) ==
  /\ Enter(c, "live", "closing")
  /\ UNCHANGED <<poolVars, guest, owner, owned, continuing, failed, confirmed,
                 captureDebt, pins, snapVars>>

\* Database.Snapshot, once the host accepted the capture.
CaptureBegins(c) ==
  /\ Enter(c, "live", "capturing")
  /\ UNCHANGED <<poolVars, guest, owner, owned, continuing, failed, confirmed,
                 captureDebt, pins, snapVars>>

\* Server.finish returned and disposeAfter probed the disposer.  A guest or a
\* session that outlives finish's timeouts makes the operation fail.
ServerStops(c) ==
  /\ Enter(c, "closing", "removing") \/ Enter(c, "capturing", "removingCapture")
  /\ failed' \in {failed, failed \cup {c}}
  /\ guest[c] = "running" => c \in failed'
  /\ \/ /\ guest[c] = "exited"
        /\ owner' = [owner EXCEPT ![c]["disposer"] = "done"]
        /\ UNCHANGED <<owned, continuing>>
     \/ /\ owner' = [owner EXCEPT ![c]["disposer"] = "pending"]
        /\ owned' = [owned EXCEPT ![c] = {"disposer"}]
        /\ continuing' = [continuing EXCEPT ![c] = {"disposer"}]
  /\ UNCHANGED <<poolVars, guest, confirmed, captureDebt, pins, snapVars>>

\* removeTemporaryAfter: probe the dependency, then remove the directory; what
\* cannot be done now becomes the remover.
TemporaryRemoved(c) ==
  /\ Enter(c, "removing", "sampling") \/ Enter(c, "removingCapture", "discarding")
  /\ \/ /\ guest[c] = "exited"
        /\ owner' = [owner EXCEPT ![c]["disposer"] = "done"]
        /\ UNCHANGED <<owned, continuing>>
     \/ /\ \/ owner' = [owner EXCEPT ![c]["remover"] = "pending"]
           \/ /\ guest[c] = "exited"
              /\ owner' = [owner EXCEPT ![c] = [disposer |-> "done", remover |-> "pending"]]
        /\ owned' = [owned EXCEPT ![c] = @ \cup {"remover"}]
        /\ continuing' = [continuing EXCEPT ![c] = @ \cup {"remover"}]
  /\ UNCHANGED <<poolVars, guest, failed, confirmed, captureDebt, pins, snapVars>>

\* A capture that left an error closes the Snapshot it made, if it made one.
\* That Close can fail, and cannot be retried: permanent capture debt.
CaptureDiscards(c) ==
  /\ Enter(c, "discarding", "sampling")
  /\ \/ UNCHANGED <<captureDebt, poolVars>>
     \/ /\ c \notin failed /\ owned[c] # {}
        /\ captureDebt' = captureDebt \cup {c}
        /\ Pool!Settle(c, FALSE)
        /\ UNCHANGED <<watchers, pc, ctxDone>>
  /\ UNCHANGED <<guest, owner, owned, continuing, failed, confirmed, pins, snapVars>>

\* disposalComplete() is evaluated as an argument, before settleFork runs.
DisposalSampled(c) ==
  /\ Enter(c, "sampling", "settling")
  /\ confirmed' = IF c \notin captureDebt /\ owner[c]["disposer"] = "done"
                  THEN confirmed \cup {c} ELSE confirmed
  /\ UNCHANGED <<poolVars, guest, owner, owned, continuing, failed, captureDebt, pins, snapVars>>

\* The error handed to settleFork is nil.
CleanResult(c) == c \notin failed /\ owned[c] = {}

\* Defect: a confirmed disposer frees the slot although removal is pending.
SettleForkConfirmedFirst(c) ==
  /\ Enter(c, "settling", "closed")
  /\ Pool!Settle(c, CleanResult(c) \/ c \in confirmed)
  /\ UNCHANGED <<watchers, pc, ctxDone, guest, owner, owned, continuing, failed,
                 confirmed, captureDebt, pins, snapVars>>

SettleFork(c) ==
  /\ Enter(c, "settling", "closed")
  /\ \/ /\ c \in captureDebt
        /\ Pool!Settle(c, FALSE) /\ UNCHANGED watchers
     \/ /\ c \notin captureDebt /\ CleanupPending(c)
        /\ Pool!TrackCleanup(c, TRUE)
     \/ /\ c \notin captureDebt /\ ~CleanupPending(c)
        /\ Pool!Settle(c, CleanResult(c) \/ c \in confirmed) /\ UNCHANGED watchers
  /\ UNCHANGED <<pc, ctxDone, guest, owner, owned, continuing, failed, confirmed,
                 captureDebt, pins, snapVars>>

-----------------------------------------------------------------------------
(* Background disposal                                                     *)

\* Owner.Continue: one Retry of the disposer, which waits for the guest and
\* then succeeds, or fails to remove the directory and is not retried.
DisposerContinues(c) ==
  /\ "disposer" \in continuing[c]
  /\ guest[c] = "exited"
  /\ continuing' = [continuing EXCEPT ![c] = @ \ {"disposer"}]
  /\ \/ /\ owner' = [owner EXCEPT ![c]["disposer"] = "done"]
        /\ pins' = pins \ {c}
     \/ owner[c]["disposer"] # "done" /\ UNCHANGED <<owner, pins>>
  /\ UNCHANGED <<poolVars, stage, guest, owned, failed, confirmed, captureDebt, snapVars>>

\* The remover first retries the disposer it depends on.
RemoverContinues(c) ==
  /\ "remover" \in continuing[c]
  /\ guest[c] = "exited"
  /\ continuing' = [continuing EXCEPT ![c] = @ \ {"remover"}]
  /\ \/ /\ \E r \in {"pending", "done"} :
             owner' = [owner EXCEPT ![c] = [disposer |-> "done", remover |-> r]]
        /\ pins' = pins \ {c}
     \/ owner[c]["disposer"] # "done" /\ UNCHANGED <<owner, pins>>
  /\ UNCHANGED <<poolVars, stage, guest, owned, failed, confirmed, captureDebt, snapVars>>

\* The goroutine of TrackCleanup: every owner in the error is done.
WatcherSettles(c) ==
  /\ ~CleanupPending(c)
  /\ Pool!WatcherSettles(c)
  /\ UNCHANGED <<childVars, snapVars>>

-----------------------------------------------------------------------------
(* Snapshot.Close                                                          *)

MoveCloser(k, from, to) == closer[k] = from /\ closer' = [closer EXCEPT ![k] = to]

CloseRevokes(k) ==
  /\ MoveCloser(k, "idle", "revoked")
  /\ Pool!Close
  /\ UNCHANGED <<childVars, snapClosed, backingClosed>>

CloseQueues(k) ==
  /\ MoveCloser(k, "revoked", "queued")
  /\ UNCHANGED <<poolVars, childVars, snapClosed, backingClosed>>

CloseLocks(k) ==
  /\ Readers = {} /\ \A j \in Closer : closer[j] # "locked"
  /\ MoveCloser(k, "queued", IF snapClosed THEN "done" ELSE "locked")
  /\ snapClosed' = TRUE
  /\ UNCHANGED <<poolVars, childVars, backingClosed>>

\* Owned.Close waits for the readers of the backing, then drops it.
CloseReleases(k) ==
  /\ pins = {}
  /\ MoveCloser(k, "locked", "done")
  /\ backingClosed' = TRUE
  /\ UNCHANGED <<poolVars, childVars, snapClosed>>

-----------------------------------------------------------------------------
ForkStep(c) ==
  \/ pc[c] # "idle" /\ ForkAcquires(c)
  \/ ForkLocks(c) \/ ForkActivates(c) \/ ForkRejected(c)
  \/ StartPins(c) \/ StartSucceeds(c) \/ StartFails(c) \/ StartSettles(c)

DatabaseStep(c) ==
  \/ ServerStops(c) \/ TemporaryRemoved(c) \/ CaptureDiscards(c)
  \/ DisposalSampled(c) \/ SettleFork(c)

BackgroundStep(c) ==
  DisposerContinues(c) \/ RemoverContinues(c) \/ WatcherSettles(c)

CloserStep(k) == CloseQueues(k) \/ CloseLocks(k) \/ CloseReleases(k)

Next ==
  \/ \E c \in Call :
       \/ ForkAcquires(c) \/ ForkContextEnds(c)
       \/ ForkLocks(c) \/ ForkActivates(c) \/ ForkRejected(c)
       \/ StartPins(c) \/ StartSucceeds(c) \/ StartFails(c) \/ StartSettles(c)
       \/ GuestExits(c) \/ CloseBegins(c) \/ CaptureBegins(c)
       \/ DatabaseStep(c)
       \/ BackgroundStep(c)
  \/ \E k \in Closer : CloseRevokes(k) \/ CloserStep(k)

Spec == Init /\ [][Next]_vars

(***************************************************************************)
(* Goroutines that can run are scheduled: a Fork, a close in progress, the *)
(* background disposals and Snapshot.Close; the watch goroutine closes a   *)
(* child whose guest ended.  A guest that was told to stop ends            *)
(* (cooperative guests); nobody has to cancel, close or capture anything.  *)
(***************************************************************************)
Fairness ==
  /\ \A c \in Call :
       /\ WF_vars(ForkStep(c))
       /\ WF_vars(DatabaseStep(c))
       /\ WF_vars(DisposerContinues(c))
       /\ WF_vars(RemoverContinues(c))
       /\ WF_vars(WatcherSettles(c))
       /\ WF_vars(guest[c] = "exited" /\ CloseBegins(c))
       /\ WF_vars(stage[c] # "live" /\ GuestExits(c))
  /\ \A k \in Closer : WF_vars(CloserStep(k))

FairSpec == Spec /\ Fairness

-----------------------------------------------------------------------------
(* Properties                                                              *)

\* Every variable of the children and of Snapshot.Close has its type.
TypeOK ==
  /\ stage \in [Call -> Stages]
  /\ guest \in [Call -> {"none", "running", "exited"}]
  /\ owner \in [Call -> [Owners -> OwnerStates]]
  /\ owned \in [Call -> SUBSET Owners] /\ continuing \in [Call -> SUBSET Owners]
  /\ failed \subseteq Call /\ confirmed \subseteq Call
  /\ captureDebt \subseteq Call /\ pins \subseteq Call
  /\ closer \in [Closer -> {"idle", "revoked", "queued", "locked", "done"}]
  /\ snapClosed \in BOOLEAN /\ backingClosed \in BOOLEAN

\* What a child still has: a guest that may run, a directory not yet removed.
HasResources(c) ==
  guest[c] = "running" \/ \E o \in Owners : owner[c][o] = "pending"

\* A slot is held until the child's disposal is confirmed: no interleaving of
\* failed startups, Close, guest death, late cleanup and Snapshot.Close frees
\* the slot of a child that still has a guest or a directory, or one whose
\* capture could not be discarded (latched for good: docs/go.md, issue 53).
SlotUntilDisposed == \A c \in Call : HasResources(c) \/ c \in captureDebt => c \in leases

\* The backing is dropped only when no startup reads it, not even a failed one
\* whose guest has not been joined.
BackingOutlivesReaders ==
  backingClosed => /\ pins = {}
                   /\ \A c \in Call : stage[c] # "launching"
                   /\ \A c \in Call : stage[c] \in {"startFailed", "refused"} => guest[c] # "running"

\* Every step is a step of the pool as its package promises it.
PoolSpec == Pool!Spec

\* Snapshot.Close returns once admitted startups are joined, unless a failed
\* startup could not remove its transfer directory and so keeps the backing.
CloseReturns ==
  \A k \in Closer : closer[k] = "revoked" ~>
     (closer[k] = "done" \/ \E c \in pins : owner[c]["disposer"] = "pending" /\ continuing[c] = {})

\* A Fork that waits for a slot returns once the pool is closed or its context
\* ends, even if no child is ever closed.
ForkReturns ==
  \A c \in Call : (pc[c] = "full" /\ (closed \/ c \in ctxDone)) ~> pc[c] \in {"held", "refused"}

\* A child whose error is tracked gives its slot back when its owners are done.
TrackedSlotReleased ==
  \A c \in Call : (c \in tracking /\ ~CleanupPending(c)) ~> c \notin leases

\* A fully disposed child without capture debt gives its slot back: "a slot
\* counts reservation/startup, a live child and unconfirmed cleanup".
DisposedChildFreesSlot ==
  \A c \in Call :
    (stage[c] = "closed" /\ ~HasResources(c) /\ c \notin captureDebt) ~> c \notin leases
=============================================================================
