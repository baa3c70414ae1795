--------------------------- MODULE ControlManager ---------------------------
(***************************************************************************)
(* The shared host of the Python package (internal/control): requests of   *)
(* one owner run concurrently on a manager that keeps databases, captured  *)
(* snapshots, reservations of fork slots, transfer directories handed to   *)
(* another host, and cleanup that is not finished yet.                     *)
(*                                                                         *)
(* A request r is also the name of what it creates: the lease it acquires, *)
(* the token of its reservation, the database it starts, the snapshot it   *)
(* captures.  A reserved startup uses the lease its argument names.  All   *)
(* forks share one baseline (Base).  The errors a startup, a close or an   *)
(* export leaves about a lease carry one disposal owner (cleanup).         *)
(***************************************************************************)
EXTENDS Integers, FiniteSets

CONSTANTS
  Req,    \* requests: bounds what the owner may ask for
  NoReq,
  Base,   \* the handle of the baseline
  Limit,  \* its capacity
  Ops     \* the operations the owner uses

ASSUME HandleAssumption == NoReq \notin Req /\ Base \notin Req /\ Base # NoReq

VARIABLES
  closed, blocked, cause, leases, active, debt, tracking, watchers, waiting,
  pc, ctxDone,   \* the pool of the baseline, and the requests' contexts: ForkLimit
  op, arg,       \* what each request asks for
  at,            \* where it is
  result,        \* the handles and tokens its result holds
  background,    \* requests that undo their own result, which nothing cancels
  saysDisposed,  \* requests whose result says "disposed": true
  reservations,  \* manager.reservations: the stage of each
  dbs,           \* manager.dbs
  snaps,         \* manager.snaps
  retained,      \* manager.retained
  database,      \* each database
  gate,          \* db.gate: the request that holds it
  cleanup,       \* the disposal owner of each lease or database
  continuing,    \* owners whose background Retry has not run yet
  path,          \* transfer directories that exist
  baseClosed,    \* baseline.closed
  told,          \* what the replies told the owner
  host,          \* the request loop and the final cleanup
  exitErr        \* the final cleanup reports an error

poolVars == <<closed, blocked, cause, leases, active, debt, tracking, watchers,
              waiting, pc, ctxDone>>
callVars == <<op, arg, background>>
resultVars == <<result, saysDisposed>>
ownVars == <<database, cleanup, continuing, path>>
mapVars == <<reservations, dbs, snaps, retained>>
hostVars == <<told, host, exitErr>>
vars == <<poolVars, callVars, resultVars, at, ownVars, mapVars, gate, baseClosed, hostVars>>

Pool == INSTANCE ForkLimit WITH Call <- Req, NoCall <- NoReq

AllOps == {"start", "fork", "fork_reserve", "fork_cancel", "handoff", "handoff_release",
           "handoff_abandon", "cleanup_status", "snapshot", "snapshot_close",
           "db_close", "db_cleanup"}
ASSUME OpsAssumption == Ops \subseteq AllOps

Places == {"idle", "begun", "insert", "removing", "acquiring", "locking", "rlocked",
           "creating", "startFailed", "retaining", "retain", "gating", "gated",
           "settling", "forgetting", "reporting", "naming", "revoking", "sweeping", "queued",
           "result", "done"}

Init ==
  /\ Pool!Init
  /\ op = [r \in Req |-> "none"]
  /\ arg = [r \in Req |-> NoReq]
  /\ at = [r \in Req |-> "idle"]
  /\ result = [r \in Req |-> {}]
  /\ background = {} /\ saysDisposed = {}
  /\ reservations = [r \in Req |-> "none"]
  /\ dbs = {} /\ snaps = {Base} /\ retained = {}
  /\ database = [r \in Req |-> "none"]
  /\ gate = [r \in Req |-> NoReq]
  /\ cleanup = [r \in Req |-> "none"]
  /\ continuing = {} /\ path = {}
  /\ baseClosed = FALSE
  /\ told = {} /\ host = "serving" /\ exitErr = FALSE

\* The lease, and so the database, that a startup or handoff is about.
Lease(r) == IF arg[r] = NoReq THEN r ELSE arg[r]

\* manager.pending.
Pending == {r \in Req : at[r] \notin {"idle", "done"}}

\* pendingCleanup(err): the error about l has an owner that is not complete.
Owned == {"startup", "closing", "removal"}
PendingCleanup(l) == cleanup[l] \in Owned

\* db.disposed()
Disposed(l) == database[l] = "closed" /\ ~PendingCleanup(l)

\* Defect: a failed startup returns without the read lock being released.
ReadersLeak == {r \in Req : op[r] \in {"fork", "handoff"} /\
                  \/ at[r] \in {"rlocked", "creating", "startFailed", "retaining", "retain"}
                  \/ at[r] = "done" /\ r \in saysDisposed}

\* Requests that hold baseline.mu for reading, and writers waiting for it.
Readers == {r \in Req : at[r] \in {"rlocked", "creating", "startFailed", "retaining", "retain"}
                        /\ op[r] \in {"fork", "handoff"}}
WriterWaits == \E r \in Req : at[r] = "queued"

\* Failed startups that still hold the read lock of the backing ("startup").
Pins == {l \in Req : cleanup[l] = "startup" /\ pc[l] = "held"}

\* An owner that fails stays; it may have released the backing before it failed.
RetryFails(l) ==
  /\ PendingCleanup(l)
  /\ cleanup' \in {cleanup, [cleanup EXCEPT ![l] = IF @ = "startup" THEN "closing" ELSE @]}

\* Goroutines run until the process ends.
Running == host # "exited"

Step(r, from, to) == Running /\ at[r] = from /\ at' = [at EXCEPT ![r] = to]

-----------------------------------------------------------------------------
(* The request loop                                                        *)

\* Handles and tokens the owner may use: what it was told, and the baseline.
Arguments(o) ==
  CASE o = "start" -> {NoReq}
    [] o = "fork_reserve" -> {NoReq}
    [] o = "fork" -> {NoReq} \cup {l \in Req : <<"reservation", l>> \in told}
    [] o \in {"fork_cancel", "handoff"} -> {l \in Req : <<"reservation", l>> \in told}
    [] o \in {"handoff_release", "handoff_abandon"} -> {l \in Req : <<"lease", l>> \in told}
    [] o = "cleanup_status" -> {l \in Req : <<"token", l>> \in told}
    [] o = "snapshot_close" -> {Base} \cup {l \in Req : <<"snapshot", l>> \in told}
    [] o \in {"snapshot", "db_close"} -> {l \in Req : <<"database", l>> \in told}
    [] o = "db_cleanup" -> {l \in Req : <<"cleanup_handle", l>> \in told}

\* A request is registered as pending and gets a goroutine of its own.
Receive(r) ==
  /\ host = "serving"
  /\ Step(r, "idle", "begun")
  /\ \E o \in Ops : \E a \in Arguments(o) :
       op' = [op EXCEPT ![r] = o] /\ arg' = [arg EXCEPT ![r] = a]
  /\ UNCHANGED <<poolVars, background, resultVars, ownVars, mapVars, gate, baseClosed, hostVars>>

\* "cancel", or the end of the owner, ends the context of a pending request.
CancelRequest(r) ==
  /\ Running /\ r \in Pending
  /\ Pool!ContextEnds(r)
  /\ UNCHANGED <<callVars, resultVars, at, ownVars, mapVars, gate, baseClosed, hostVars>>

Idle == Pending = {} /\ dbs = {} /\ snaps = {} /\ retained = {}
        /\ \A r \in Req : reservations[r] = "none"

\* Defect: unfinished cleanup does not keep the host busy.
ShutdownForgetsRetained ==
  /\ host = "serving"
  /\ Pending = {} /\ dbs = {} /\ snaps = {} /\ \A r \in Req : reservations[r] = "none"
  /\ host' = "idle"
  /\ UNCHANGED <<poolVars, callVars, resultVars, at, ownVars, mapVars, gate, baseClosed,
                 told, exitErr>>

\* "shutdown" is refused as busy until the host owns nothing.
Shutdown ==
  /\ host = "serving" /\ Idle
  /\ host' = "idle"
  /\ UNCHANGED <<poolVars, callVars, resultVars, at, ownVars, mapVars, gate, baseClosed,
                 told, exitErr>>

\* End of input, a signal, a malformed line or a duplicate request id.
OwnerEnds ==
  /\ host = "serving"
  /\ host' = "draining"
  /\ UNCHANGED <<poolVars, callVars, resultVars, at, ownVars, mapVars, gate, baseClosed,
                 told, exitErr>>

-----------------------------------------------------------------------------
(* The result of an operation                                              *)

Undo == [reservation |-> "fork_cancel", lease |-> "handoff_release",
         database |-> "db_close", snapshot |-> "snapshot_close"]

\* Defect: a cancelled request forgets a snapshot or reservation without undoing it.
CompensateDatabase(r) ==
  /\ r \in ctxDone \ background
  /\ \E x \in result[r] :
       /\ x[1] \in DOMAIN Undo
       /\ result' = [result EXCEPT ![r] = @ \ {x}]
       /\ IF x[1] = "database"
          THEN /\ Step(r, "result", "begun")
               /\ op' = [op EXCEPT ![r] = Undo[x[1]]] /\ arg' = [arg EXCEPT ![r] = x[2]]
          ELSE Step(r, "result", "result") /\ UNCHANGED <<op, arg>>
  /\ background' = background \cup {r}
  /\ UNCHANGED <<poolVars, saysDisposed, ownVars, mapVars, gate, baseClosed, hostVars>>

\* A cancelled request undoes what it has made before it replies; the reply
\* still names a lease.
Compensate(r) ==
  /\ r \in ctxDone \ background
  /\ Step(r, "result", "begun")
  /\ \E x \in result[r] :
       /\ x[1] \in DOMAIN Undo
       /\ op' = [op EXCEPT ![r] = Undo[x[1]]]
       /\ arg' = [arg EXCEPT ![r] = x[2]]
       /\ result' = [result EXCEPT ![r] = IF x[1] = "lease" THEN @ ELSE @ \ {x}]
  /\ background' = background \cup {r}
  /\ UNCHANGED <<poolVars, saysDisposed, ownVars, mapVars, gate, baseClosed, hostVars>>

\* The result is complete: nothing to undo, not cancelled, or undone already.
Final(r) ==
  \/ r \notin ctxDone \/ r \in background
  \/ \A x \in result[r] : x[1] \notin DOMAIN Undo

\* The request leaves manager.pending and its result is sent.
Reply(r) ==
  /\ Final(r)
  /\ Step(r, "result", "done")
  /\ told' = told \cup result[r]
  /\ UNCHANGED <<poolVars, callVars, resultVars, ownVars, mapVars, gate, baseClosed, host, exitErr>>

-----------------------------------------------------------------------------
(* Reservations                                                            *)

\* TryAcquire.  token() after it cannot fail: the random source of the Go version
\* that go.mod asks for returns no error, so its l.Cancel() is never reached.
ReserveSlot(r) ==
  /\ op[r] = "fork_reserve"
  /\ \/ /\ Base \in snaps /\ Pool!Verdict(FALSE) = "ok"
        /\ Step(r, "begun", "insert")
        /\ Pool!TryAcquire(r, FALSE)
     \/ /\ Base \notin snaps \/ Pool!Verdict(FALSE) # "ok"
        /\ Step(r, "begun", "result")
        /\ UNCHANGED poolVars
  /\ UNCHANGED <<callVars, resultVars, ownVars, mapVars, gate, baseClosed, hostVars>>

ReserveInserts(r) ==
  /\ Step(r, "insert", "result")
  /\ reservations' = [reservations EXCEPT ![r] = "reserved"]
  /\ result' = [result EXCEPT ![r] = {<<"reservation", r>>}]
  /\ UNCHANGED <<poolVars, callVars, saysDisposed, ownVars, dbs, snaps, retained, gate,
                 baseClosed, hostVars>>

\* A token that is not in the map is reported as disposed.
SaysUnknown(r) ==
  saysDisposed' = IF reservations[arg[r]] = "none" THEN saysDisposed \cup {r} ELSE saysDisposed

ForkCancel(r) ==
  /\ op[r] = "fork_cancel"
  /\ Step(r, "begun", "result")
  /\ IF reservations[arg[r]] = "reserved"
     THEN /\ reservations' = [reservations EXCEPT ![arg[r]] = "none"]
          /\ Pool!Cancel(arg[r]) /\ UNCHANGED <<watchers, pc, ctxDone>>
     ELSE UNCHANGED <<reservations, poolVars>>
  /\ SaysUnknown(r)
  /\ UNCHANGED <<callVars, result, ownVars, dbs, snaps, retained, gate, baseClosed, hostVars>>

\* The other host could not confirm that its child is gone.
HandoffAbandon(r) ==
  /\ op[r] = "handoff_abandon"
  /\ Step(r, "begun", "result")
  /\ IF reservations[arg[r]] = "exported"
     THEN Pool!Settle(arg[r], FALSE) /\ UNCHANGED <<watchers, pc, ctxDone>>
     ELSE UNCHANGED poolVars
  /\ SaysUnknown(r)
  /\ UNCHANGED <<callVars, result, ownVars, mapVars, gate, baseClosed, hostVars>>

ReleaseChecks(r) ==
  /\ op[r] = "handoff_release"
  /\ Step(r, "begun", IF reservations[arg[r]] = "exported" THEN "removing" ELSE "result")
  /\ SaysUnknown(r)
  /\ UNCHANGED <<poolVars, callVars, result, ownVars, mapVars, gate, baseClosed, hostVars>>

\* Defect: the slot is settled although the directory could not be removed.
ReleaseRemovesBlindly(r) ==
  /\ Step(r, "removing", "result")
  /\ path' \in {path, path \ {arg[r]}}
  /\ Pool!Settle(arg[r], TRUE) /\ UNCHANGED <<watchers, pc, ctxDone>>
  /\ reservations' = [reservations EXCEPT ![arg[r]] = "none"]
  /\ saysDisposed' = saysDisposed \cup {r}
  /\ UNCHANGED <<callVars, result, database, cleanup, continuing, dbs, snaps, retained, gate,
                 baseClosed, hostVars>>

\* The transfer directory is removed and the slot settled, or its removal is
\* owned, tracked and may be asked for again.
ReleaseRemoves(r) ==
  /\ Step(r, "removing", "result")
  /\ \/ /\ path' = path \ {arg[r]}
        /\ Pool!Settle(arg[r], TRUE) /\ UNCHANGED <<watchers, pc, ctxDone>>
        /\ reservations' = [reservations EXCEPT ![arg[r]] = "none"]
        /\ saysDisposed' = saysDisposed \cup {r}
        /\ UNCHANGED <<cleanup, continuing>>
     \/ /\ arg[r] \in path /\ arg[r] \notin tracking
        /\ cleanup' = [cleanup EXCEPT ![arg[r]] = "removal"]
        /\ continuing' = continuing \cup {arg[r]}
        /\ Pool!TrackCleanup(arg[r], TRUE) /\ UNCHANGED <<pc, ctxDone>>
        /\ UNCHANGED <<path, reservations, saysDisposed>>
     \/ /\ arg[r] \in path /\ arg[r] \in tracking   \* only the first owner is tracked
        /\ path' \in {path, path \ {arg[r]}}
        /\ UNCHANGED <<poolVars, cleanup, continuing, reservations, saysDisposed>>
  /\ UNCHANGED <<callVars, result, database, dbs, snaps, retained, gate, baseClosed, hostVars>>

\* cleanup_status retries the retained cleanup and forgets it when it is done.
CleanupStatus(r) ==
  /\ op[r] = "cleanup_status"
  /\ Step(r, "begun", "result")
  /\ \/ /\ cleanup' = [cleanup EXCEPT ![arg[r]] = "done"]
        /\ path' = path \ {arg[r]}
        /\ retained' = retained \ {arg[r]}
        /\ saysDisposed' = saysDisposed \cup {r}
     \/ RetryFails(arg[r]) /\ UNCHANGED <<path, retained, saysDisposed>>
  /\ UNCHANGED <<poolVars, callVars, result, database, continuing, reservations, dbs, snaps,
                 gate, baseClosed, hostVars>>

-----------------------------------------------------------------------------
(* fork and handoff                                                        *)

\* Defect: a reservation can be claimed again while its startup runs.
ClaimTwice(r) ==
  /\ op[r] \in {"fork", "handoff"} /\ arg[r] # NoReq
  /\ Step(r, "begun", IF reservations[arg[r]] # "none" THEN "locking" ELSE "result")
  /\ reservations' = [reservations EXCEPT ![arg[r]] = IF @ # "none" THEN "starting" ELSE @]
  /\ UNCHANGED <<poolVars, callVars, resultVars, ownVars, dbs, snaps, retained, gate,
                 baseClosed, hostVars>>

\* claim: only an unused reservation; a local fork takes it out of the map.
Claim(r) ==
  /\ op[r] \in {"fork", "handoff"} /\ arg[r] # NoReq
  /\ Step(r, "begun", IF reservations[arg[r]] = "reserved" THEN "locking" ELSE "result")
  /\ reservations' = [reservations EXCEPT ![arg[r]] =
       IF @ # "reserved" THEN @ ELSE IF op[r] = "handoff" THEN "starting" ELSE "none"]
  /\ UNCHANGED <<poolVars, callVars, resultVars, ownVars, dbs, snaps, retained, gate,
                 baseClosed, hostVars>>

ForkLooksUp(r) ==
  /\ op[r] = "fork" /\ arg[r] = NoReq
  /\ Step(r, "begun", IF Base \in snaps THEN "acquiring" ELSE "result")
  /\ UNCHANGED <<poolVars, callVars, resultVars, ownVars, mapVars, gate, baseClosed, hostVars>>

ForkAcquires(r) ==
  /\ Running /\ at[r] = "acquiring"
  /\ Pool!AcquireBegin(r) \/ Pool!AcquireStep(r)
  /\ at' = [at EXCEPT ![r] = CASE pc'[r] = "held" -> "locking"
                               [] pc'[r] = "refused" -> "result"
                               [] OTHER -> @]
  /\ UNCHANGED <<callVars, resultVars, ownVars, mapVars, gate, baseClosed, hostVars>>

\* Cancel the lease and fail; an export also takes its reservation back and
\* reports that nothing is left.
Reject(r) ==
  /\ Pool!Cancel(Lease(r)) /\ UNCHANGED <<watchers, pc, ctxDone>>
  /\ saysDisposed' = IF op[r] = "handoff" THEN saysDisposed \cup {r} ELSE saysDisposed
  /\ reservations' = [reservations EXCEPT ![Lease(r)] = "none"]

\* Under the read lock of the baseline: it may be closed, or the lease revoked.
StartLocks(r) ==
  /\ ~WriterWaits
  /\ \/ /\ ~baseClosed
        /\ Step(r, "locking", "rlocked")
        /\ UNCHANGED <<poolVars, reservations, saysDisposed>>
     \/ /\ baseClosed
        /\ Step(r, "locking", "result")
        /\ Reject(r)
  /\ UNCHANGED <<callVars, result, ownVars, dbs, snaps, retained, gate, baseClosed, hostVars>>

StartActivates(r) ==
  /\ \/ /\ Pool!CanActivate(Lease(r))
        /\ Step(r, "rlocked", "creating")
        /\ Pool!Activate(Lease(r)) /\ UNCHANGED <<watchers, pc, ctxDone>>
        /\ UNCHANGED <<reservations, saysDisposed>>
     \/ /\ ~Pool!CanActivate(Lease(r))
        /\ Step(r, "rlocked", "result")
        /\ Reject(r)
  /\ UNCHANGED <<callVars, result, ownVars, dbs, snaps, retained, gate, baseClosed, hostVars>>

StartBegins(r) ==
  /\ op[r] = "start"
  /\ Step(r, "begun", "creating")
  /\ UNCHANGED <<poolVars, callVars, resultVars, ownVars, mapVars, gate, baseClosed, hostVars>>

\* makeDB started a server, and the database is registered.
CreateSucceeds(r) ==
  /\ op[r] \in {"start", "fork"}
  /\ Step(r, "creating", "result")
  /\ database' = [database EXCEPT ![Lease(r)] = "serving"]
  /\ dbs' = dbs \cup {Lease(r)}
  /\ result' = [result EXCEPT ![r] = {<<"database", Lease(r)>>}]
  /\ UNCHANGED <<poolVars, callVars, saysDisposed, cleanup, continuing, path, reservations,
                 snaps, retained, gate, baseClosed, hostVars>>

\* exportReserved made the directory and published the backing into it.
ExportSucceeds(r) ==
  /\ op[r] = "handoff" /\ r \notin ctxDone
  /\ Step(r, "creating", "result")
  /\ path' = path \cup {Lease(r)}
  /\ reservations' = [reservations EXCEPT ![Lease(r)] = "exported"]
  /\ result' = [result EXCEPT ![r] = {<<"lease", Lease(r)>>}]
  /\ UNCHANGED <<poolVars, callVars, saysDisposed, database, cleanup, continuing, dbs,
                 snaps, retained, gate, baseClosed, hostVars>>

\* The startup or export failed; what it could not dispose of stays owned.
CreateFails(r) ==
  /\ Step(r, "creating", "startFailed")
  /\ \/ UNCHANGED <<cleanup, continuing, path>>
     \/ /\ \E c \in IF op[r] = "handoff" THEN {"removal"} ELSE {"startup", "closing"} :
             cleanup' = [cleanup EXCEPT ![Lease(r)] = c]
        /\ continuing' = continuing \cup {Lease(r)}
        /\ path' = IF op[r] = "handoff" THEN path \cup {Lease(r)} ELSE path
  /\ UNCHANGED <<poolVars, callVars, resultVars, database, mapVars, gate, baseClosed, hostVars>>

\* settleStartup; a failed export gives its reservation back.
StartSettles(r) ==
  /\ Step(r, "startFailed", "retaining")
  /\ \/ PendingCleanup(Lease(r)) /\ Pool!TrackCleanup(Lease(r), TRUE)
     \/ ~PendingCleanup(Lease(r)) /\ Pool!Settle(Lease(r), TRUE) /\ UNCHANGED watchers
  /\ reservations' = [reservations EXCEPT ![Lease(r)] = "none"]
  /\ UNCHANGED <<pc, ctxDone, callVars, resultVars, ownVars, dbs, snaps, retained, gate,
                 baseClosed, hostVars>>

\* retainFailure asks twice whether the cleanup is pending: once for its report,
RetainReports(r) ==
  /\ Step(r, "retaining", "retain")
  /\ saysDisposed' = IF PendingCleanup(Lease(r)) THEN saysDisposed ELSE saysDisposed \cup {r}
  /\ UNCHANGED <<poolVars, callVars, result, ownVars, mapVars, gate, baseClosed, hostVars>>

\* ... and once to keep the error and name a token for it.
RetainFailure(r) ==
  /\ Step(r, "retain", "result")
  /\ IF PendingCleanup(Lease(r))
     THEN /\ retained' = retained \cup {Lease(r)}
          /\ result' = [result EXCEPT ![r] = {<<"token", Lease(r)>>}]
     ELSE UNCHANGED <<retained, result>>
  /\ UNCHANGED <<poolVars, callVars, saysDisposed, ownVars, reservations, dbs, snaps, gate,
                 baseClosed, hostVars>>

-----------------------------------------------------------------------------
(* Databases                                                               *)

\* The handle is looked up under manager.mu.
DatabaseCall(r) ==
  /\ op[r] \in {"snapshot", "db_close", "db_cleanup"}
  /\ Step(r, "begun", IF arg[r] \in dbs THEN "gating" ELSE "result")
  /\ saysDisposed' = IF arg[r] \notin dbs /\ op[r] # "snapshot"
                     THEN saysDisposed \cup {r} ELSE saysDisposed
  /\ UNCHANGED <<poolVars, callVars, result, ownVars, mapVars, gate, baseClosed, hostVars>>

\* lockDB: the database's gate, or the end of the request's context.
DatabaseLocks(r) ==
  /\ \/ /\ Step(r, "gating", "gated")
        /\ gate[arg[r]] = NoReq
        /\ gate' = [gate EXCEPT ![arg[r]] = r]
     \/ /\ r \in ctxDone \ background
        /\ Step(r, "gating", "result")
        /\ UNCHANGED gate
  /\ UNCHANGED <<poolVars, callVars, resultVars, ownVars, mapVars, baseClosed, hostVars>>

\* The server is stopped: everything is disposed of, or an owner stays.
Stopped(l) ==
  /\ database' = [database EXCEPT ![l] = "closed"]
  /\ \/ UNCHANGED <<cleanup, continuing>>
     \/ cleanup' = [cleanup EXCEPT ![l] = "closing"] /\ continuing' = continuing \cup {l}

DbClose(r) ==
  /\ op[r] = "db_close"
  /\ \/ /\ database[arg[r]] = "serving"
        /\ Step(r, "gated", "settling")
        /\ Stopped(arg[r])
     \/ /\ database[arg[r]] = "closed"
        /\ Step(r, "gated", "forgetting")
        /\ UNCHANGED <<database, cleanup, continuing>>
  /\ UNCHANGED <<poolVars, callVars, resultVars, path, mapVars, gate, baseClosed, hostVars>>

\* retryCleanup: the owners are asked again, and settle the lease if they are done.
DbCleanup(r) ==
  /\ op[r] = "db_cleanup"
  /\ Step(r, "gated", "forgetting")
  /\ \/ /\ cleanup' = [cleanup EXCEPT ![arg[r]] = "done"]
        /\ Pool!Settle(arg[r], TRUE) /\ UNCHANGED <<watchers, pc, ctxDone>>
     \/ PendingCleanup(arg[r]) /\ UNCHANGED <<cleanup, poolVars>>
  /\ UNCHANGED <<callVars, resultVars, database, continuing, path, mapVars, gate, baseClosed, hostVars>>

\* A capture is refused, or consumes the database and gives a snapshot.
SnapshotCaptures(r) ==
  /\ op[r] = "snapshot"
  /\ \/ /\ Step(r, "gated", "result")                 \* refused
        /\ gate' = [gate EXCEPT ![arg[r]] = NoReq]
        /\ UNCHANGED <<poolVars, database, cleanup, continuing, dbs, snaps, result>>
     \/ /\ database[arg[r]] = "serving" /\ r \notin ctxDone
        /\ Step(r, "gated", "result")
        /\ database' = [database EXCEPT ![arg[r]] = "closed"]
        /\ Pool!Settle(arg[r], TRUE) /\ UNCHANGED <<watchers, pc, ctxDone>>
        /\ dbs' = dbs \ {arg[r]}
        /\ snaps' = snaps \cup {r}
        /\ result' = [result EXCEPT ![r] = {<<"snapshot", r>>}]
        /\ gate' = [gate EXCEPT ![arg[r]] = NoReq]
        /\ UNCHANGED <<cleanup, continuing>>
     \/ /\ database[arg[r]] = "serving"               \* consumed by a failed capture
        /\ Step(r, "gated", "settling")
        /\ Stopped(arg[r])
        /\ UNCHANGED <<poolVars, dbs, snaps, result, gate>>
  /\ UNCHANGED <<callVars, saysDisposed, path, reservations, retained, baseClosed, hostVars>>

\* db.settle.  Its first branch needs a captureDebt, an error of closing a root
\* on the heap, which has no file to close.  Its last one needs an error that
\* names no pending owner with a disposal still incomplete: the owners are looked
\* at before disposed(), and a disposal that ended in between is complete.
DbSettles(r) ==
  /\ Step(r, "settling", IF op[r] = "snapshot" THEN "reporting" ELSE "forgetting")
  /\ \/ PendingCleanup(arg[r]) /\ Pool!TrackCleanup(arg[r], TRUE)
     \/ ~PendingCleanup(arg[r]) /\ Pool!Settle(arg[r], TRUE) /\ UNCHANGED watchers
  /\ UNCHANGED <<pc, ctxDone, callVars, resultVars, ownVars, mapVars, gate, baseClosed, hostVars>>

Unlock(r) == gate' = [gate EXCEPT ![arg[r]] = NoReq]

Names(r) == result' = [result EXCEPT ![r] = @ \cup {<<"cleanup_handle", arg[r]>>}]

\* Defect: a database leaves the map although its cleanup is not confirmed.
DbForgetsEarly(r) ==
  /\ Step(r, "forgetting", IF op[r] = "snapshot" THEN "result" ELSE "reporting")
  /\ dbs' = dbs \ {arg[r]}
  /\ IF op[r] = "snapshot" THEN Unlock(r) ELSE UNCHANGED gate
  /\ UNCHANGED <<poolVars, callVars, resultVars, ownVars, reservations, snaps, retained,
                 baseClosed, hostVars>>

\* A disposed database leaves the map: before the report of db_close and
\* db_cleanup, after the one of a failed capture (finishConsumed).
DbForgets(r) ==
  /\ Step(r, "forgetting", IF op[r] = "snapshot" THEN "result" ELSE "reporting")
  /\ dbs' = IF Disposed(arg[r]) THEN dbs \ {arg[r]} ELSE dbs
  /\ IF op[r] = "snapshot" /\ ~Disposed(arg[r]) THEN Names(r) ELSE UNCHANGED result
  /\ IF op[r] = "snapshot" THEN Unlock(r) ELSE UNCHANGED gate
  /\ UNCHANGED <<poolVars, callVars, saysDisposed, ownVars, reservations, snaps, retained,
                 baseClosed, hostVars>>

\* The result says whether the database is disposed, asking again.
DbReports(r) ==
  /\ Step(r, "reporting", CASE op[r] = "snapshot" -> "forgetting"
                            [] op[r] = "db_close" -> "naming"
                            [] op[r] = "db_cleanup" -> "result")
  /\ saysDisposed' = IF Disposed(arg[r]) THEN saysDisposed \cup {r} ELSE saysDisposed
  /\ IF op[r] = "db_cleanup" THEN Unlock(r) ELSE UNCHANGED gate
  /\ UNCHANGED <<poolVars, callVars, result, ownVars, mapVars, baseClosed, hostVars>>

\* db_close names the handle if it is still not disposed; a request that undoes
\* its own database goes by the report.
DbNames(r) ==
  /\ Step(r, "naming", "result")
  /\ IF IF r \in background THEN r \in saysDisposed ELSE Disposed(arg[r])
     THEN UNCHANGED result ELSE Names(r)
  /\ Unlock(r)
  /\ UNCHANGED <<poolVars, callVars, saysDisposed, ownVars, mapVars, baseClosed, hostVars>>

-----------------------------------------------------------------------------
(* snapshot_close                                                          *)

\* A captured snapshot has no forks here: it is dropped at once.
SnapshotTaken(r) ==
  /\ op[r] = "snapshot_close"
  /\ Step(r, "begun", IF arg[r] = Base /\ Base \in snaps THEN "revoking" ELSE "result")
  /\ snaps' = snaps \ {arg[r]}
  /\ UNCHANGED <<poolVars, callVars, resultVars, ownVars, reservations, dbs, retained, gate,
                 baseClosed, hostVars>>

\* Defect: revoking leaves the forks that wait for a slot asleep.
SnapshotRevokesSilently(r) ==
  /\ Step(r, "revoking", "sweeping")
  /\ closed' = TRUE /\ leases' = leases \cap active
  /\ UNCHANGED <<blocked, cause, active, debt, tracking, watchers, waiting, pc, ctxDone>>
  /\ UNCHANGED <<callVars, resultVars, ownVars, mapVars, gate, baseClosed, hostVars>>

SnapshotRevokes(r) ==
  /\ Step(r, "revoking", "sweeping")
  /\ Pool!Close
  /\ UNCHANGED <<callVars, resultVars, ownVars, mapVars, gate, baseClosed, hostVars>>

\* cancelReservations: their leases were revoked with the pool.
CancelReservations(r) ==
  /\ Step(r, "sweeping", "queued")
  /\ reservations' = [l \in Req |-> IF reservations[l] = "reserved" THEN "none" ELSE reservations[l]]
  /\ UNCHANGED <<poolVars, callVars, resultVars, ownVars, dbs, snaps, retained, gate,
                 baseClosed, hostVars>>

\* The write lock excludes startups; Owned.Close waits for failed ones.
SnapshotCloses(r) ==
  /\ Readers = {} /\ Pins = {}
  /\ Step(r, "queued", "result")
  /\ baseClosed' = TRUE
  /\ UNCHANGED <<poolVars, callVars, resultVars, ownVars, mapVars, gate, hostVars>>

-----------------------------------------------------------------------------
(* Background disposal                                                     *)

\* Owner.Continue tries once; a failure keeps the owner for an explicit retry.
OwnerContinues(l) ==
  /\ Running /\ l \in continuing
  /\ continuing' = continuing \ {l}
  /\ \/ cleanup' = [cleanup EXCEPT ![l] = "done"] /\ path' = path \ {l}
     \/ RetryFails(l) /\ UNCHANGED path
  /\ UNCHANGED <<poolVars, callVars, resultVars, at, database, mapVars, gate, baseClosed, hostVars>>

WatcherSettles(l) ==
  /\ Running /\ ~PendingCleanup(l)
  /\ Pool!WatcherSettles(l)
  /\ UNCHANGED <<callVars, resultVars, at, ownVars, mapVars, gate, baseClosed, hostVars>>

-----------------------------------------------------------------------------
(* manager.cleanup, after every request has returned                       *)

FinalBegins ==
  /\ host \in {"idle", "draining"} /\ Pending = {}
  /\ host' = "cleaning"
  /\ IF Base \in snaps THEN Pool!Close ELSE UNCHANGED poolVars
  /\ UNCHANGED <<callVars, resultVars, at, ownVars, mapVars, gate, baseClosed, told, exitErr>>

\* close and retryCleanup of one database.
FinalDatabase(l) ==
  /\ host = "cleaning" /\ l \in dbs
  /\ database' = [database EXCEPT ![l] = "closed"]
  /\ dbs' = dbs \ {l}
  /\ \/ /\ cleanup' = [cleanup EXCEPT ![l] = "done"]
        /\ Pool!Settle(l, TRUE) /\ UNCHANGED <<watchers, pc, ctxDone>>
        /\ exitErr' \in {exitErr, TRUE}
        /\ UNCHANGED continuing
     \/ /\ cleanup[l] # "done"
        /\ cleanup' = [cleanup EXCEPT ![l] = "closing"]
        /\ continuing' = continuing \cup {l}
        /\ Pool!TrackCleanup(l, TRUE) /\ UNCHANGED <<pc, ctxDone>>
        /\ exitErr' = TRUE
  /\ UNCHANGED <<callVars, resultVars, at, path, reservations, snaps, retained, gate,
                 baseClosed, told, host>>

FinalSnapshots ==
  /\ host = "cleaning" /\ dbs = {}
  /\ Base \in snaps => Pins = {}
  /\ host' = "releasing"
  /\ baseClosed' = (baseClosed \/ Base \in snaps)
  /\ snaps' = {}
  /\ UNCHANGED <<poolVars, callVars, resultVars, at, ownVars, reservations, dbs, retained, gate,
                 told, exitErr>>

\* Defect: exported directories are left to their importers.
FinalReservationKeeps(l) ==
  /\ host = "releasing" /\ reservations[l] # "none"
  /\ reservations' = [reservations EXCEPT ![l] = "none"]
  /\ Pool!Cancel(l) /\ UNCHANGED <<watchers, pc, ctxDone>>
  /\ UNCHANGED <<callVars, resultVars, at, ownVars, dbs, snaps, retained, gate, baseClosed,
                 told, host, exitErr>>

FinalReservation(l) ==
  /\ host = "releasing" /\ reservations[l] # "none"
  /\ reservations' = [reservations EXCEPT ![l] = "none"]
  /\ Pool!Cancel(l) /\ UNCHANGED <<watchers, pc, ctxDone>>
  /\ \/ path' = path \ {l} /\ UNCHANGED exitErr
     \/ l \in path /\ UNCHANGED path /\ exitErr' = TRUE
  /\ UNCHANGED <<callVars, resultVars, at, database, cleanup, continuing, dbs, snaps, retained,
                 gate, baseClosed, told, host>>

FinalRetained(l) ==
  /\ host = "releasing" /\ l \in retained
  /\ retained' = retained \ {l}
  /\ \/ cleanup' = [cleanup EXCEPT ![l] = "done"] /\ path' = path \ {l} /\ UNCHANGED exitErr
     \/ RetryFails(l) /\ exitErr' = TRUE /\ UNCHANGED path
  /\ UNCHANGED <<poolVars, callVars, resultVars, at, database, continuing, reservations, dbs,
                 snaps, gate, baseClosed, told, host>>

FinalEnds ==
  /\ host = "releasing" /\ retained = {} /\ \A l \in Req : reservations[l] = "none"
  /\ host' = "exited"
  /\ UNCHANGED <<poolVars, callVars, resultVars, at, ownVars, mapVars, gate, baseClosed, told, exitErr>>

\* The host waits 45 seconds for its requests and its cleanup.
FinalTimesOut ==
  /\ host \in {"idle", "draining", "cleaning", "releasing"}
  /\ host' = "exited"
  /\ exitErr' = TRUE
  /\ UNCHANGED <<poolVars, callVars, resultVars, at, ownVars, mapVars, gate, baseClosed, told>>

-----------------------------------------------------------------------------
RequestStep(r) ==
  \/ Compensate(r) \/ Reply(r)
  \/ ReserveSlot(r) \/ ReserveInserts(r) \/ ForkCancel(r) \/ HandoffAbandon(r)
  \/ ReleaseChecks(r) \/ ReleaseRemoves(r) \/ CleanupStatus(r)
  \/ Claim(r) \/ ForkLooksUp(r) \/ ForkAcquires(r) \/ StartLocks(r) \/ StartActivates(r)
  \/ StartBegins(r) \/ CreateSucceeds(r) \/ ExportSucceeds(r) \/ CreateFails(r)
  \/ StartSettles(r) \/ RetainReports(r) \/ RetainFailure(r)
  \/ DatabaseCall(r) \/ DatabaseLocks(r) \/ DbClose(r) \/ DbCleanup(r) \/ SnapshotCaptures(r)
  \/ DbSettles(r) \/ DbForgets(r) \/ DbReports(r) \/ DbNames(r)
  \/ SnapshotTaken(r) \/ SnapshotRevokes(r) \/ CancelReservations(r) \/ SnapshotCloses(r)

FinalStep ==
  \/ FinalBegins \/ FinalSnapshots \/ FinalEnds
  \/ \E l \in Req : FinalDatabase(l) \/ FinalReservation(l) \/ FinalRetained(l)

Next ==
  \/ \E r \in Req :
       \/ Receive(r) \/ CancelRequest(r) \/ RequestStep(r)
       \/ OwnerContinues(r) \/ WatcherSettles(r)
  \/ Shutdown \/ OwnerEnds \/ FinalStep \/ FinalTimesOut

Spec == Init /\ [][Next]_vars

(***************************************************************************)
(* Goroutines that can run are scheduled; the end of the owner reaches     *)
(* every request.  The owner owes nothing.                                 *)
(***************************************************************************)
FairSpec ==
  /\ Spec
  /\ WF_vars(FinalStep)
  /\ \A r \in Req :
       /\ WF_vars(RequestStep(r))
       /\ WF_vars(host = "draining" /\ CancelRequest(r))
       /\ WF_vars(OwnerContinues(r))
       /\ WF_vars(WatcherSettles(r))

-----------------------------------------------------------------------------
(* Properties                                                              *)

Kinds == {"reservation", "lease", "database", "snapshot", "token", "cleanup_handle"}

\* Every variable has its type; the gate of a database is held exactly by the
\* request that is inside it, and only existing directories await removal.
TypeOK ==
  /\ op \in [Req -> AllOps \cup {"none"}]
  /\ arg \in [Req -> Req \cup {NoReq, Base}]
  /\ at \in [Req -> Places]
  /\ result \in [Req -> SUBSET (Kinds \X Req)]
  /\ background \subseteq Req /\ saysDisposed \subseteq Req
  /\ reservations \in [Req -> {"none", "reserved", "starting", "exported"}]
  /\ dbs \subseteq Req /\ retained \subseteq Req /\ snaps \subseteq Req \cup {Base}
  /\ database \in [Req -> {"none", "serving", "closed"}]
  /\ \A l \in Req : gate[l] = NoReq \/ (arg[gate[l]] = l /\ at[gate[l]] \in
                      {"gated", "settling", "forgetting", "reporting", "naming"})
  /\ cleanup \in [Req -> Owned \cup {"none", "done"}]
  /\ continuing \subseteq Req /\ path \subseteq Req
  /\ baseClosed \in BOOLEAN /\ exitErr \in BOOLEAN
  /\ told \subseteq Kinds \X Req
  /\ host \in {"serving", "idle", "draining", "cleaning", "releasing", "exited"}

\* What the host still has for l: a server, a directory, an unfinished startup
\* or an unfinished close.
HasResources(l) ==
  database[l] = "serving" \/ l \in path \/ cleanup[l] \in {"startup", "closing"}

\* A lease keeps its slot while the host has anything for it: no order of
\* startups, handoffs, releases, abandons, closes, captures and late cleanup
\* frees the slot of a child whose disposal is not confirmed.
SlotUntilDisposed ==
  \A l \in Req : pc[l] = "held" /\ HasResources(l) => l \in leases

\* A reservation serves one startup or export, whoever repeats its token, and
\* none once something came of it.
ClaimedOnce ==
  \A q, r \in Req :
    LET Starts(x) == op[x] \in {"fork", "handoff"}
                     /\ at[x] \in {"locking", "rlocked", "creating"}
    IN Starts(r) => /\ Starts(q) /\ Lease(q) = Lease(r) => q = r
                    /\ database[Lease(r)] = "none" /\ Lease(r) \notin path

\* The request that works on what l names.
Handled(l) == \E r \in Pending : Lease(r) = l

\* Whatever the host has is registered in one of the manager's maps or in the
\* hands of a pending request, until the final cleanup reports an error.
NothingLost ==
  \A l \in Req : HasResources(l) =>
    \/ l \in dbs \/ l \in retained \/ reservations[l] = "exported"
    \/ Handled(l) \/ exitErr

\* The owner has been told, or is about to be, one of these kinds of name of l.
Known(kinds, l) ==
  \/ \E k \in kinds : <<k, l>> \in told \cup UNION {result[r] : r \in Pending}
  \/ Handled(l)

\* A reply that says "disposed" is true and stays true: nothing of the startup,
\* database or export it is about is left, and no request brings any back.  A
\* fork_cancel speaks of the reservation alone.
DisposedIsTrue ==
  \A r \in saysDisposed : op[r] # "fork_cancel" => ~HasResources(Lease(r))

\* What needs another request of the owner has a name that the owner knows,
\* also when the request that made it was cancelled or failed.
OwnerCanRelease ==
  \A l \in Req :
    /\ l \in dbs /\ HasResources(l) => Known({"database", "cleanup_handle"}, l)
    /\ l \in retained => Known({"token"}, l)
    /\ reservations[l] = "reserved" => Known({"reservation"}, l)
    /\ reservations[l] = "exported" => Known({"lease"}, l)
    /\ l \in snaps => Known({"snapshot"}, l)

\* Nobody has anything to do with a closed baseline any more, however forks and
\* exports stood between their lease and the read lock when snapshot_close came:
\* no fork waits for a slot of it, no reservation keeps one, and no startup,
\* not even a failed one, reads its backing.
ClosedIsReleased ==
  baseClosed => waiting = {} /\ leases \subseteq active /\ Readers = {} /\ Pins = {}

\* shutdown is acknowledged only when nothing is left of any request.
ShutdownIsIdle == host = "idle" => baseClosed /\ \A l \in Req : ~HasResources(l)

\* A host that exits without an error has closed and removed everything.
CleanExit ==
  host = "exited" /\ ~exitErr => baseClosed /\ \A l \in Req : ~HasResources(l)

\* Every step is a step of the pool as its package promises it.
PoolSpec == Pool!Spec

\* A cancelled request replies, unless a failed startup whose cleanup failed
\* keeps the backing that snapshot_close waits for.
CancelledReply ==
  \A r \in Req : (r \in Pending /\ r \in ctxDone) ~>
     (at[r] = "done" \/ host = "exited" \/ Pins \ continuing # {})

\* A database that a reply reports as disposed is no longer registered: the test
\* of the request loop fails with "failed unpublished handle retained" otherwise.
DisposedHandleForgotten ==
  \A r \in Req :
    (at[r] = "done" /\ op[r] \in {"db_close", "db_cleanup"} /\ r \in saysDisposed) => arg[r] \notin dbs
=============================================================================
