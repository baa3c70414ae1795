------------------------ MODULE ControlManagerProofs ------------------------
(***************************************************************************)
(* Proofs about ControlManager for any number of requests, every limit of  *)
(* the pool and every set of operations that the owner uses.               *)
(***************************************************************************)
EXTENDS ControlManager, TLAPS

Starting == {"acquiring", "locking", "rlocked", "creating", "startFailed", "retaining", "retain"}
Failed == {"startFailed", "retaining", "retain"}
Inside == {"gated", "settling", "forgetting", "reporting", "naming"}
DatabaseOps == {"snapshot", "db_close", "db_cleanup"}

-----------------------------------------------------------------------------
(* The inductive invariant                                                 *)

Typed ==
  /\ op \in [Req -> AllOps \cup {"none"}]
  /\ arg \in [Req -> Req \cup {NoReq, Base}]
  /\ at \in [Req -> Places]
  /\ result \in [Req -> SUBSET (Kinds \X Req)]
  /\ background \subseteq Req /\ saysDisposed \subseteq Req
  /\ reservations \in [Req -> {"none", "reserved", "starting", "exported"}]
  /\ dbs \subseteq Req /\ retained \subseteq Req /\ snaps \subseteq Req \cup {Base}
  /\ database \in [Req -> {"none", "serving", "closed"}]
  /\ gate \in [Req -> Req \cup {NoReq}]
  /\ cleanup \in [Req -> Owned \cup {"none", "done"}]
  /\ continuing \subseteq Req /\ path \subseteq Req
  /\ baseClosed \in BOOLEAN /\ exitErr \in BOOLEAN
  /\ told \subseteq Kinds \X Req
  /\ host \in {"serving", "idle", "draining", "cleaning", "releasing", "exited"}

PoolTyped ==
  /\ pc \in [Req -> Pool!Locations]
  /\ leases \subseteq Req /\ active \subseteq Req /\ watchers \subseteq Req

\* What a request asks for fits the place it is at.
Placed(q) ==
  /\ op[q] = "none" <=> at[q] = "idle"
  /\ at[q] = "insert" => op[q] = "fork_reserve"
  /\ at[q] = "removing" => op[q] = "handoff_release"
  /\ at[q] = "acquiring" => op[q] = "fork" /\ arg[q] = NoReq
  /\ at[q] \in {"locking", "rlocked"} => op[q] \in {"fork", "handoff"}
  /\ at[q] \in {"creating", "startFailed", "retaining", "retain"} =>
       op[q] \in {"start", "fork", "handoff"}
  /\ at[q] \in {"gating", "gated", "forgetting", "reporting"} => op[q] \in DatabaseOps
  /\ at[q] = "settling" => op[q] \in {"snapshot", "db_close"}
  /\ at[q] = "naming" => op[q] = "db_close"
  /\ at[q] \in {"revoking", "sweeping", "queued"} => op[q] = "snapshot_close" /\ arg[q] = Base

\* It has the argument its operation takes.
Argued(q) ==
  /\ op[q] \in {"none", "start", "fork_reserve"} => arg[q] = NoReq
  /\ op[q] = "fork" => arg[q] \in Req \cup {NoReq}
  /\ op[q] = "snapshot_close" => arg[q] \in Req \cup {Base}
  /\ op[q] \notin {"none", "start", "fork_reserve", "fork", "snapshot_close"} => arg[q] \in Req

\* A request inside a database holds its gate.
Gated(q) == at[q] \in Inside => gate[arg[q]] = q

\* A request has a result when it is complete, and undoes only what it made.
Resulting(q) ==
  /\ q \notin background /\ at[q] \notin {"result", "done"} => result[q] = {}
  /\ q \in background => op[q] \in {"fork_cancel", "handoff_release", "db_close", "snapshot_close"}
  /\ at[q] = "done" => result[q] \subseteq told
  /\ q \in saysDisposed =>
       /\ at[q] \in {"retain", "result", "done", "naming", "forgetting", "reporting"}
       /\ at[q] \in {"forgetting", "reporting"} => op[q] = "snapshot" \/ q \notin background
       /\ at[q] = "result" /\ q \notin background => \A x \in result[q] : x[1] \notin DOMAIN Undo

Requests == \A q \in Req : Placed(q) /\ Argued(q) /\ Gated(q) /\ Resulting(q)

-----------------------------------------------------------------------------
(* Names                                                                   *)

Named(k, l) == <<k, l>> \in told \/ \E q \in Req : <<k, l>> \in result[q]

\* The kind of name that an operation takes.
KindOf(o) ==
  CASE o \in {"fork", "handoff", "fork_cancel"} -> "reservation"
    [] o \in {"handoff_release", "handoff_abandon"} -> "lease"
    [] o = "cleanup_status" -> "token"
    [] o \in {"snapshot", "db_close"} -> "database"
    [] o = "db_cleanup" -> "cleanup_handle"
    [] OTHER -> "none"

\* A name of l is known or being used.
Uses(k, l) == Named(k, l) \/ \E q \in Req : arg[q] = l /\ KindOf(op[q]) = k

\* What the startup on a lease leaves.
Late == {"lease", "database", "token", "cleanup_handle"}

\* No startup on l has completed; nobody but its request knows of l.
Early(l) == \A k \in Late : ~Uses(k, l)
Fresh(l) == Early(l) /\ ~Uses("reservation", l)

\* A request that may still make a lease or a database of its own.
Making(q) ==
  \/ at[q] = "idle"
  \/ op[q] \in {"start", "fork", "fork_reserve"} /\ arg[q] = NoReq /\ at[q] \notin {"result", "done"}

Naming ==
  /\ \A q \in Req : Making(q) => Fresh(q)
  /\ \A q \in Req : at[q] \in Starting => Early(Lease(q))
  /\ \A l \in Req : reservations[l] \in {"reserved", "starting"} => Early(l)

\* What a name stands for.
IsExport(l) ==
  /\ pc[l] = "held" /\ database[l] = "none" /\ l \notin dbs \cup retained
  /\ cleanup[l] \in {"none", "removal", "done"} /\ reservations[l] \in {"exported", "none"}

IsFailure(l) ==
  database[l] = "none" /\ cleanup[l] # "none" /\ reservations[l] = "none" /\ l \notin dbs

Means(k, l) ==
  /\ k = "reservation" => pc[l] = "held"
  /\ k = "lease" => IsExport(l)
  /\ k = "token" => IsFailure(l)
  /\ k = "database" => database[l] # "none"
  /\ k = "cleanup_handle" => database[l] = "closed"

Meanings == \A l \in Req : \A k \in Late \cup {"reservation"} : Uses(k, l) => Means(k, l)

-----------------------------------------------------------------------------
(* The life of a lease                                                     *)

Clean(l) ==
  /\ database[l] = "none" /\ cleanup[l] = "none"
  /\ l \notin dbs /\ l \notin retained /\ l \notin path /\ l \notin continuing /\ l \notin watchers

Slot(l) ==
  /\ l \in leases => pc[l] \in {"granted", "held"}
  /\ pc[l] \notin {"idle", "held"} => Clean(l) /\ reservations[l] = "none" /\ l \notin active
  /\ pc[l] = "held" /\ HasResources(l) => l \in leases /\ l \in active

Registry(l) ==
  /\ l \in path => database[l] = "none" /\ cleanup[l] \in {"none", "removal"} /\ pc[l] = "held"
  /\ database[l] = "serving" => cleanup[l] = "none" /\ l \in dbs
  /\ database[l] # "none" => /\ l \notin retained /\ reservations[l] = "none"
                             /\ cleanup[l] \in {"none", "closing", "done"}
  /\ l \in dbs => database[l] # "none"
  /\ l \in watchers \/ l \in continuing \/ l \in retained => cleanup[l] # "none"
  /\ reservations[l] # "none" => pc[l] = "held" /\ database[l] = "none" /\ l \notin retained
  /\ reservations[l] = "reserved" => Clean(l) /\ l \notin active
  /\ reservations[l] = "exported" => cleanup[l] \in {"none", "removal", "done"}
  /\ l \in dbs /\ database[l] = "closed" /\ cleanup[l] = "none" => gate[l] # NoReq

\* The gate of a database is held by a request that is inside.
Holder(l) == gate[l] # NoReq => arg[gate[l]] = l /\ at[gate[l]] \in Inside

Leases == \A l \in Req : Slot(l) /\ Registry(l) /\ Holder(l)

\* What a request has made of its lease so far.
Stage(q) ==
  LET l == Lease(q) IN
  /\ Making(q) /\ at[q] \in {"idle", "begun"} =>
       Clean(l) /\ pc[l] = "idle" /\ reservations[l] = "none" /\ l \notin active
  /\ at[q] = "acquiring" =>
       Clean(l) /\ pc[l] # "held" /\ reservations[l] = "none" /\ l \notin active
  /\ at[q] = "insert" =>
       Clean(l) /\ pc[l] = "held" /\ reservations[l] = "none" /\ l \notin active
  /\ at[q] \in {"locking", "rlocked"} => Clean(l) /\ pc[l] = "held" /\ l \notin active
  /\ at[q] = "creating" =>
       /\ Clean(l)
       /\ op[q] = "start" => pc[l] = "idle"
       /\ op[q] # "start" => pc[l] = "held" /\ l \in leases /\ l \in active
  /\ at[q] \in {"locking", "rlocked", "creating", "startFailed"} =>
       reservations[l] = (IF op[q] = "handoff" THEN "starting" ELSE "none")
  /\ at[q] \in Failed =>
       /\ database[l] = "none" /\ l \notin dbs /\ l \notin retained
       /\ cleanup[l] = "none" => l \notin path
       /\ pc[l] \in {"idle", "held"}
  /\ at[q] \in {"retaining", "retain"} => reservations[l] = "none"

\* ... and of the database it is inside of.
InsideStage(q) ==
  LET l == arg[q] IN
  /\ at[q] = "gated" /\ l \in dbs /\ database[l] = "closed" => cleanup[l] # "none"
  /\ at[q] \in Inside /\ at[q] # "gated" => database[l] = "closed"
  /\ at[q] \in {"reporting", "naming"} /\ op[q] # "snapshot" /\ l \in dbs => cleanup[l] # "none"
  /\ at[q] = "naming" /\ q \in background /\ q \in saysDisposed => Disposed(l)

Stages == \A q \in Req : Stage(q) /\ InsideStage(q)

OneStart ==
  \A q, r \in Req : at[q] \in Starting /\ at[r] \in Starting /\ Lease(q) = Lease(r) => q = r

-----------------------------------------------------------------------------
(* What is registered and known                                            *)

Registered(l) ==
  l \in path \/ cleanup[l] \in {"startup", "closing"} =>
    \/ l \in dbs \/ l \in retained \/ reservations[l] = "exported" \/ exitErr
    \/ \E q \in Req : at[q] \in Failed /\ Lease(q) = l

\* A request undoes, in the background, what it made under the name l.
Undoing(q, o, l) == q \in background /\ op[q] = o /\ arg[q] = l /\ at[q] \notin {"result", "done"}

KnownNames(l) ==
  /\ l \in dbs /\ HasResources(l) =>
       \/ Named("database", l) \/ Named("cleanup_handle", l)
       \/ \E q \in Req : Undoing(q, "db_close", l)
  /\ l \in retained => Named("token", l)
  /\ reservations[l] = "reserved" =>
       Named("reservation", l) \/ \E q \in Req : Undoing(q, "fork_cancel", l)
  /\ reservations[l] = "exported" => Named("lease", l)

Lists == \A l \in Req : Registered(l) /\ KnownNames(l)

SnapshotKnown(l) ==
  l \in snaps => Named("snapshot", l)
                   \/ \E q \in Req : Undoing(q, "snapshot_close", l) /\ at[q] = "begun"

SnapshotsKnown == \A l \in Req : SnapshotKnown(l)

-----------------------------------------------------------------------------
(* The host                                                                *)

Empty == dbs = {} /\ retained = {} /\ \A l \in Req : reservations[l] = "none"

Hosting ==
  /\ host \in {"idle", "cleaning", "releasing"} => Pending = {}
  /\ host = "idle" => Empty /\ snaps = {}
  /\ host = "releasing" => dbs = {} /\ snaps = {}
  /\ host = "exited" /\ ~exitErr => Empty /\ Pending = {} /\ baseClosed
  /\ host \in {"serving", "idle", "draining"} => ~exitErr

BaseKept ==
  \/ Base \in snaps \/ baseClosed
  \/ \E q \in Req : at[q] \in {"revoking", "sweeping", "queued"}

ManagerInvariant ==
  /\ Typed /\ PoolTyped /\ Requests /\ Naming /\ Meanings /\ Leases /\ Stages /\ OneStart
  /\ Lists /\ SnapshotsKnown /\ Hosting /\ BaseKept

-----------------------------------------------------------------------------
(* What a step leaves alone                                                *)

SameReq(q) ==
  /\ op'[q] = op[q] /\ arg'[q] = arg[q] /\ at'[q] = at[q] /\ result'[q] = result[q]
  /\ q \in background' <=> q \in background
  /\ q \in saysDisposed' <=> q \in saysDisposed

SameLease(l) ==
  /\ database'[l] = database[l] /\ cleanup'[l] = cleanup[l] /\ gate'[l] = gate[l]
  /\ reservations'[l] = reservations[l] /\ pc'[l] = pc[l]
  /\ l \in dbs' <=> l \in dbs
  /\ l \in retained' <=> l \in retained
  /\ l \in path' <=> l \in path
  /\ l \in continuing' <=> l \in continuing
  /\ l \in leases' <=> l \in leases
  /\ l \in active' <=> l \in active
  /\ l \in watchers' <=> l \in watchers

\* A request that has a lease of its own: the lease of an unfinished startup.
Own(q) == at[q] \in Starting \/ at[q] = "insert" \/ (Making(q) /\ at[q] \in {"idle", "begun"})

\* A request may change the lease of its startup, the lease or database that it
\* names and has entered, and the reservation that it claims.
Touches(r, l) ==
  \/ Own(r) /\ l = Lease(r)
  \/ /\ l = arg[r] /\ KindOf(op[r]) \in Late
     /\ op[r] \in DatabaseOps => at[r] \in Inside \/ (at[r] = "gating" /\ gate[l] = NoReq)
  \/ l = arg[r] /\ KindOf(op[r]) = "reservation" /\ reservations[l] = "reserved"

\* Nobody but r works on l.
Alone(r, l) ==
  \A q \in Req \ {r} : (Own(q) => Lease(q) # l) /\ (at[q] \in Inside => arg[q] # l)

\* A request that makes something of its own has no argument.
LEMMA OwnLease ==
  ASSUME ManagerInvariant, NEW q \in Req, Own(q)
  PROVE  /\ Lease(q) \in Req
         /\ at[q] \notin Starting => Lease(q) = q /\ Fresh(q)
         /\ at[q] \in Starting => Early(Lease(q))
         /\ at[q] = "acquiring" => Lease(q) = q /\ Fresh(q)
         /\ arg[q] # NoReq => at[q] \in Starting /\ op[q] \in {"fork", "handoff"} /\ arg[q] = Lease(q)
         /\ arg[q] = NoReq => Lease(q) = q
<1>1. Placed(q) /\ Argued(q) /\ Typed
  BY DEF ManagerInvariant, Requests
<1>2. Making(q) => Fresh(q)
  BY DEF ManagerInvariant, Naming
<1>3. at[q] \in Starting => Early(Lease(q))
  BY DEF ManagerInvariant, Naming
<1>4. at[q] \in {"idle", "insert", "acquiring"} => Making(q) /\ arg[q] = NoReq
  BY <1>1 DEF Making, Placed, Argued, Typed
<1>5. Making(q) => arg[q] = NoReq
  BY <1>1 DEF Making, Placed, Argued
<1>6. at[q] \in Starting => op[q] \in {"start", "fork", "handoff"}
  BY <1>1 DEF Starting, Placed
<1>7. arg[q] \in Req \cup {NoReq}
  <2>1. CASE at[q] \in Starting /\ op[q] = "handoff"
    BY <1>1, <2>1 DEF Argued
  <2>2. CASE at[q] \in Starting /\ op[q] # "handoff"
    BY <1>1, <1>6, <2>2 DEF Argued
  <2>3. CASE at[q] \notin Starting
    BY <1>4, <1>5, <2>3 DEF Own
  <2>4. QED
    BY <2>1, <2>2, <2>3
<1>8. QED
  BY <1>1, <1>2, <1>3, <1>4, <1>5, <1>6, <1>7, HandleAssumption DEF Own, Lease, Argued, Starting

\* Two requests never work on the same lease.
LEMMA Apart ==
  ASSUME ManagerInvariant, NEW r \in Req, NEW l \in Req, Touches(r, l)
  PROVE  Alone(r, l)
<1> SUFFICES ASSUME NEW q \in Req, q # r
             PROVE  (Own(q) => Lease(q) # l) /\ (at[q] \in Inside => arg[q] # l)
  BY DEF Alone
<1>1. /\ Registry(l) /\ Stage(q) /\ Gated(q) /\ Gated(r) /\ Placed(q) /\ Placed(r)
      /\ \A k \in Late \cup {"reservation"} : Uses(k, l) => Means(k, l)
  BY DEF ManagerInvariant, Leases, Stages, Requests, Meanings
<1>2. ASSUME at[q] \in Inside
      PROVE  /\ op[q] \in DatabaseOps /\ KindOf(op[q]) \in {"database", "cleanup_handle"}
             /\ gate[arg[q]] = q
  BY <1>1, <1>2 DEF Inside, Placed, Gated, KindOf, DatabaseOps
<1>3. ASSUME at[q] \in Inside, arg[q] = l
      PROVE  /\ \E k \in Late : Uses(k, l)
             /\ database[l] # "none" /\ reservations[l] = "none" /\ gate[l] = q
  <2>1. Uses(KindOf(op[q]), l)
    BY <1>3 DEF Uses
  <2>2. database[l] # "none"
    BY <1>1, <1>2, <1>3, <2>1 DEF Means, Late
  <2>3. QED
    BY <1>1, <1>2, <1>3, <2>1, <2>2 DEF Late, Registry
<1>4. CASE Own(r) /\ l = Lease(r)
  <2>1. /\ Early(l)
        /\ at[r] \notin Starting \/ at[r] = "acquiring" => l = r /\ Fresh(r)
        /\ arg[r] # NoReq => at[r] \in Starting /\ op[r] \in {"fork", "handoff"} /\ arg[r] = l
        /\ arg[r] = NoReq => l = r
    BY <1>4, OwnLease DEF Fresh
  <2>2. at[q] \in Inside => arg[q] # l
    BY <1>3, <2>1 DEF Early
  <2>3. ASSUME Own(q), Lease(q) = l PROVE FALSE
    <3>1. /\ at[q] \notin Starting \/ at[q] = "acquiring" => l = q /\ Fresh(q)
          /\ arg[q] # NoReq => at[q] \in Starting /\ op[q] \in {"fork", "handoff"} /\ arg[q] = l
          /\ arg[q] = NoReq => l = q
      BY <2>3, OwnLease
    <3>2. CASE at[q] \in Starting /\ at[r] \in Starting
      BY <1>4, <2>3, <3>2 DEF ManagerInvariant, OneStart
    <3>3. CASE at[q] \notin Starting
      <4>1. Fresh(q) /\ l = q
        BY <3>1, <3>3
      <4>2. arg[r] = q /\ op[r] \in {"fork", "handoff"}
        BY <2>1, <4>1
      <4>3. Uses("reservation", q)
        BY <4>2 DEF Uses, KindOf
      <4>4. QED
        BY <4>1, <4>3 DEF Fresh
    <3>4. CASE at[r] \notin Starting
      <4>1. Fresh(r) /\ l = r
        BY <2>1, <3>4
      <4>2. arg[q] = r /\ op[q] \in {"fork", "handoff"}
        BY <3>1, <4>1
      <4>3. Uses("reservation", r)
        BY <4>2 DEF Uses, KindOf
      <4>4. QED
        BY <4>1, <4>3 DEF Fresh
    <3>5. QED
      BY <3>2, <3>3, <3>4
  <2>4. QED
    BY <2>2, <2>3
<1>5. CASE /\ l = arg[r] /\ KindOf(op[r]) \in Late
           /\ op[r] \in DatabaseOps => at[r] \in Inside \/ (at[r] = "gating" /\ gate[l] = NoReq)
  <2>1. Uses(KindOf(op[r]), l)
    BY <1>5 DEF Uses
  <2>2. Own(q) => Lease(q) # l
    BY <1>5, <2>1, OwnLease DEF Early, Fresh
  <2>3. ASSUME at[q] \in Inside, arg[q] = l PROVE FALSE
    <3>1. KindOf(op[r]) \in {"database", "cleanup_handle"}
      BY <1>1, <1>3, <1>5, <2>1, <2>3 DEF Means, IsExport, IsFailure, Late
    <3>2. op[r] \in DatabaseOps
      BY <3>1 DEF KindOf, DatabaseOps
    <3>3. QED
      BY <1>1, <1>3, <1>5, <2>3, <3>2, HandleAssumption DEF Gated
  <2>4. QED
    BY <2>2, <2>3
<1>6. CASE l = arg[r] /\ KindOf(op[r]) = "reservation" /\ reservations[l] = "reserved"
  <2>1. Uses("reservation", l)
    BY <1>6 DEF Uses
  <2>2. Early(l)
    BY <1>6 DEF ManagerInvariant, Naming
  <2>3. at[q] \in Inside => arg[q] # l
    BY <1>3, <1>6
  <2>4. ASSUME Own(q), Lease(q) = l PROVE FALSE
    <3>1. at[q] \in Starting \ {"acquiring"}
      BY <2>1, <2>4, OwnLease DEF Fresh
    <3>2. QED
      BY <1>1, <1>6, <2>4, <3>1 DEF Stage, Starting, Failed
  <2>5. QED
    BY <2>3, <2>4
<1>7. QED
  BY <1>4, <1>5, <1>6 DEF Touches

-----------------------------------------------------------------------------
(* A step of one request on one lease                                      *)

\* Other requests and other leases stay what they are.
Local(r, l) == (\A q \in Req \ {r} : SameReq(q)) /\ (\A m \in Req \ {l} : SameLease(m))

\* The stages of a request whose lease did not change.
LEMMA StageSame ==
  ASSUME NEW q \in Req, SameReq(q), Own(q) => Lease(q) \in Req /\ SameLease(Lease(q)), Stage(q)
  PROVE  Stage(q)'
<1>1. Lease(q)' = Lease(q) /\ Making(q)' = Making(q) /\ at'[q] = at[q] /\ op'[q] = op[q]
  BY DEF SameReq, Lease, Making
<1>2. CASE Own(q)
  BY <1>1, <1>2 DEF Stage, SameLease, Clean
<1>3. CASE ~Own(q)
  BY <1>1, <1>3 DEF Stage, Own, Starting, Failed
<1>4. QED
  BY <1>2, <1>3

\* ... and of one inside a database that did not change.
LEMMA InsideSame ==
  ASSUME NEW q \in Req, SameReq(q), at[q] \in Inside => SameLease(arg[q]), InsideStage(q)
  PROVE  InsideStage(q)'
<1>1. CASE at[q] \in Inside
  BY <1>1 DEF InsideStage, SameReq, SameLease, Disposed, PendingCleanup
<1>2. CASE at[q] \notin Inside
  BY <1>2 DEF InsideStage, SameReq, Inside
<1>3. QED
  BY <1>1, <1>2

\* What other requests have reached is not disturbed.
LEMMA LocalStages ==
  ASSUME ManagerInvariant, NEW r \in Req, NEW l \in Req, Local(r, l),
         Alone(r, l) \/ SameLease(l), Stage(r)', InsideStage(r)'
  PROVE  Stages'
<1> SUFFICES ASSUME NEW q \in Req PROVE Stage(q)' /\ InsideStage(q)'
  BY DEF Stages
<1>1. CASE q # r
  <2>1. SameReq(q) /\ Stage(q) /\ InsideStage(q) /\ Placed(q) /\ Argued(q)
    BY <1>1 DEF Local, ManagerInvariant, Stages, Requests
  <2>2. at[q] \in Inside => arg[q] \in Req
    BY <2>1 DEF Inside, Placed, Argued, DatabaseOps
  <2>3. Own(q) => Lease(q) \in Req /\ SameLease(Lease(q))
    BY <1>1, OwnLease DEF Alone, Local
  <2>4. at[q] \in Inside => SameLease(arg[q])
    BY <1>1, <2>2 DEF Alone, Local
  <2>5. QED
    BY <2>1, <2>3, <2>4, StageSame, InsideSame
<1>2. QED
  BY <1>1

\* The requests themselves.
LEMMA LocalRequests ==
  ASSUME ManagerInvariant, NEW r \in Req, NEW l \in Req, Local(r, l),
         Alone(r, l) \/ SameLease(l), told \subseteq told',
         Placed(r)', Argued(r)', Gated(r)', Resulting(r)'
  PROVE  Requests'
<1> SUFFICES ASSUME NEW q \in Req, q # r
             PROVE  Placed(q)' /\ Argued(q)' /\ Gated(q)' /\ Resulting(q)'
  BY DEF Requests
<1>1. SameReq(q) /\ Placed(q) /\ Argued(q) /\ Gated(q) /\ Resulting(q)
  BY DEF Local, ManagerInvariant, Requests
<1>2. at[q] \in Inside => arg[q] \in Req
  BY <1>1 DEF Inside, Placed, Argued, DatabaseOps
<1>3. at[q] \in Inside => gate'[arg[q]] = gate[arg[q]]
  BY <1>2 DEF Alone, Local, SameLease
<1>4. Placed(q)' /\ Argued(q)' /\ Gated(q)'
  BY <1>1, <1>3 DEF SameReq, Placed, Argued, Gated
<1>5. Resulting(q)'
  BY <1>1 DEF SameReq, Resulting
<1>6. QED
  BY <1>4, <1>5

\* The leases.
LEMMA LocalLeases ==
  ASSUME ManagerInvariant, NEW r \in Req, NEW l \in Req, Local(r, l),
         at[r] \in Inside => arg[r] = l, Slot(l)', Registry(l)', Holder(l)'
  PROVE  Leases'
<1> SUFFICES ASSUME NEW m \in Req, m # l PROVE Slot(m)' /\ Registry(m)' /\ Holder(m)'
  BY DEF Leases
<1>1. SameLease(m) /\ Slot(m) /\ Registry(m) /\ Holder(m)
  BY DEF Local, ManagerInvariant, Leases
<1>2. Slot(m)' /\ Registry(m)'
  BY <1>1 DEF SameLease, Slot, Registry, Clean, HasResources
<1>3. ASSUME gate[m] # NoReq PROVE arg'[gate[m]] = m /\ at'[gate[m]] \in Inside
  <2>1. gate[m] \in Req /\ arg[gate[m]] = m /\ at[gate[m]] \in Inside
    BY <1>1, <1>3 DEF Holder, ManagerInvariant, Typed
  <2>2. gate[m] # r
    BY <2>1
  <2>3. SameReq(gate[m])
    BY <2>1, <2>2 DEF Local
  <2>4. QED
    BY <2>1, <2>3 DEF SameReq
<1>4. QED
  BY <1>1, <1>2, <1>3 DEF SameLease, Holder

\* A startup begins on a lease that no startup is on.
LEMMA LocalStart ==
  ASSUME ManagerInvariant, NEW r \in Req, NEW l \in Req, Local(r, l),
         at'[r] \in Starting => Lease(r)' = l /\ Alone(r, l)
  PROVE  OneStart'
<1> SUFFICES ASSUME NEW q \in Req, NEW s \in Req, q # s, at'[q] \in Starting, at'[s] \in Starting,
                    Lease(q)' = Lease(s)'
             PROVE  FALSE
  BY DEF OneStart
<1>1. ASSUME NEW x \in Req, x # r, at'[x] \in Starting
      PROVE  at[x] \in Starting /\ Lease(x)' = Lease(x)
  BY <1>1 DEF Local, SameReq, Lease
<1>2. CASE q # r /\ s # r
  BY <1>1, <1>2 DEF ManagerInvariant, OneStart
<1>3. CASE q = r
  BY <1>1, <1>3 DEF Alone, Own
<1>4. CASE s = r
  BY <1>1, <1>4 DEF Alone, Own
<1>5. QED
  BY <1>2, <1>3, <1>4

-----------------------------------------------------------------------------
(* What a step does to the names                                           *)

\* Only names of l, of the kinds in K, are new.
NewNames(l, K) ==
  \A k \in Late \cup {"reservation"}, m \in Req : Uses(k, m)' => Uses(k, m) \/ (m = l /\ k \in K)

\* Names that stay known.
OldNames == \A k \in Kinds, m \in Req : Named(k, m) => Named(k, m)'

\* Names that nobody may use yet are still not used.
LEMMA LocalNaming ==
  ASSUME ManagerInvariant, NEW r \in Req, NEW l \in Req, NEW K, Local(r, l), NewNames(l, K),
         K = {} \/ Alone(r, l),
         Making(r)' => Making(r) /\ (l # r \/ K = {}),
         at'[r] \in Starting => Lease(r)' = l /\ Early(l) /\ K \cap Late = {},
         reservations'[l] \in {"reserved", "starting"} => Early(l) /\ K \cap Late = {}
  PROVE  Naming'
<1>1. \A m \in Req : (m # l \/ K \cap Late = {}) /\ Early(m) => Early(m)'
  BY DEF NewNames, Early, Late
<1>2. \A m \in Req : (m # l \/ K = {}) /\ Fresh(m) => Fresh(m)'
  BY <1>1 DEF NewNames, Fresh
<1>3. ASSUME NEW q \in Req, Making(q)' PROVE Fresh(q)'
  <2>1. CASE q = r
    BY <1>2, <1>3, <2>1 DEF ManagerInvariant, Naming
  <2>2. CASE q # r
    <3>1. Making(q) /\ SameReq(q)
      BY <1>3, <2>2 DEF Local, SameReq, Making
    <3>2. Placed(q) /\ Argued(q) /\ Typed
      BY DEF ManagerInvariant, Requests
    <3>3. K # {} => q # l
      <4>1. at[q] \in {"idle", "begun", "insert"} \cup Starting
        BY <3>1, <3>2 DEF Making, Placed, Typed, Places, Starting, DatabaseOps
      <4>2. Own(q)
        BY <3>1, <4>1 DEF Own
      <4>3. arg[q] = NoReq
        BY <3>1, <3>2 DEF Making, Placed, Argued
      <4>4. QED
        BY <2>2, <4>2, <4>3 DEF Alone, Lease
    <3>4. QED
      BY <1>2, <3>1, <3>3 DEF ManagerInvariant, Naming
  <2>3. QED
    BY <2>1, <2>2
<1>4. ASSUME NEW q \in Req, at'[q] \in Starting PROVE Early(Lease(q))'
  <2>1. CASE q = r
    BY <1>1, <1>4, <2>1
  <2>2. CASE q # r
    <3>1. at[q] \in Starting /\ Lease(q)' = Lease(q)
      BY <1>4, <2>2 DEF Local, SameReq, Lease
    <3>2. Own(q)
      BY <3>1 DEF Own
    <3>3. Lease(q) \in Req /\ Early(Lease(q)) /\ (K # {} => Lease(q) # l)
      BY <2>2, <3>2, <3>1, OwnLease DEF Alone
    <3>4. PICK m \in Req : m = Lease(q)
      BY <3>3
    <3>5. Early(m)'
      BY <1>1, <3>3, <3>4
    <3>6. QED
      BY <3>1, <3>4, <3>5 DEF Early, Uses, Named
  <2>3. QED
    BY <2>1, <2>2
<1>5. ASSUME NEW m \in Req, reservations'[m] \in {"reserved", "starting"} PROVE Early(m)'
  <2>1. m # l => reservations'[m] = reservations[m]
    BY DEF Local, SameLease
  <2>2. QED
    BY <1>1, <1>5, <2>1 DEF ManagerInvariant, Naming
<1>6. QED
  BY <1>3, <1>4, <1>5 DEF Naming

\* Names keep their meaning.
LEMMA LocalMeanings ==
  ASSUME ManagerInvariant, NEW r \in Req, NEW l \in Req, NEW K, Local(r, l), NewNames(l, K),
         \A k \in Late \cup {"reservation"} : Uses(k, l) \/ k \in K => Means(k, l)'
  PROVE  Meanings'
<1> SUFFICES ASSUME NEW m \in Req, NEW k \in Late \cup {"reservation"}, Uses(k, m)'
             PROVE  Means(k, m)'
  BY DEF Meanings
<1>1. Uses(k, m) \/ (m = l /\ k \in K)
  BY DEF NewNames
<1>2. CASE m = l
  BY <1>1, <1>2
<1>3. CASE m # l
  <2>1. Means(k, m) /\ SameLease(m)
    BY <1>1, <1>3 DEF ManagerInvariant, Meanings, Local
  <2>2. QED
    BY <2>1 DEF Means, IsExport, IsFailure, SameLease
<1>4. QED
  BY <1>2, <1>3

\* A request that works for l is still there, or l needs it no more.
LEMMA LocalLists ==
  ASSUME ManagerInvariant, NEW r \in Req, NEW l \in Req, Local(r, l),
         exitErr => exitErr',
         \A k \in Late \cup {"reservation"}, m \in Req \ {l} : Named(k, m) => Named(k, m)',
         at[r] \in Failed => Lease(r) = l,
         r \in background /\ op[r] \in {"db_close", "fork_cancel"} => arg[r] = l,
         Registered(l)', KnownNames(l)'
  PROVE  Lists'
<1> SUFFICES ASSUME NEW m \in Req, m # l PROVE Registered(m)' /\ KnownNames(m)'
  BY DEF Lists
<1>1. SameLease(m) /\ Registered(m) /\ KnownNames(m)
  BY DEF Local, ManagerInvariant, Lists
<1>2. \A q \in Req : at[q] \in Failed /\ Lease(q) = m => at'[q] \in Failed /\ Lease(q)' = m
  BY DEF Local, SameReq, Lease
<1>3. Registered(m)'
  BY <1>1, <1>2 DEF Registered, SameLease
<1>4. \A o \in {"db_close", "fork_cancel"} : \A q \in Req :
         Undoing(q, o, m) => Undoing(q, o, m)'
  BY DEF Local, SameReq, Undoing
<1>5. KnownNames(m)'
  BY <1>1, <1>4 DEF KnownNames, SameLease, HasResources, Late
<1>6. QED
  BY <1>3, <1>5

-----------------------------------------------------------------------------
(* A step in the work of one request                                       *)

\* It stays one request with the same operation, and works on l.
Moves(r, l) ==
  /\ Running /\ at[r] \notin {"idle", "result", "done"}
  /\ UNCHANGED <<callVars, hostVars>>
  /\ Local(r, l)
  /\ result[r] \subseteq result'[r]
  /\ \A k \in Late \cup {"reservation"}, m \in Req :
       <<k, m>> \in result'[r] => <<k, m>> \in result[r] \/ m = l

\* It may work on l, and stays in order.
Works(r, l) ==
  /\ Touches(r, l) \/ (SameLease(l) /\ result'[r] = result[r])
  /\ at[r] \in Inside => arg[r] = l
  /\ at[r] \in Failed => Lease(r) = l
  /\ r \in background /\ op[r] \in {"db_close", "fork_cancel"} => arg[r] = l
  /\ at'[r] \in Starting => Lease(r) = l /\ Touches(r, l)
  /\ Placed(r)' /\ Gated(r)' /\ Resulting(r)' /\ Stage(r)' /\ InsideStage(r)'

\* What it leaves of l is in order and still known.
Leaves(r, l) ==
  /\ Slot(l)' /\ Registry(l)' /\ Holder(l)' /\ Registered(l)' /\ KnownNames(l)'
  /\ reservations'[l] \in {"reserved", "starting"} =>
       reservations[l] \in {"reserved", "starting"} \/ (Own(r) /\ Lease(r) = l)
  /\ \A k \in Late \cup {"reservation"} :
       (Uses(k, l) /\ Means(k, l)) \/ <<k, l>> \in result'[r] => Means(k, l)'

Revoking == {"revoking", "sweeping", "queued"}

\* Snapshots and the baseline are not lost.
Keeps(r) ==
  /\ \A m \in Req : m \in snaps' => m \in snaps \/ <<"snapshot", m>> \in result'[r]
  /\ at[r] = "begun" /\ op[r] = "snapshot_close" => arg[r] \notin snaps'
  /\ (Base \in snaps /\ Base \notin snaps') \/ at[r] \in Revoking =>
       at'[r] \in Revoking \/ baseClosed'
  /\ baseClosed => baseClosed'

\* Such a step preserves the invariant.
LEMMA MovesStep ==
  ASSUME ManagerInvariant, NEW r \in Req, NEW l \in Req, Typed', PoolTyped',
         Moves(r, l), Works(r, l), Leaves(r, l), Keeps(r)
  PROVE  ManagerInvariant'
<1> DEFINE K == {k \in Late \cup {"reservation"} : <<k, l>> \in result'[r] \ result[r]}
<1>1. /\ Typed /\ Requests /\ Naming /\ Meanings /\ Leases /\ Stages /\ OneStart
      /\ Lists /\ SnapshotsKnown /\ Hosting /\ BaseKept
  BY DEF ManagerInvariant
<1>2. /\ Local(r, l) /\ UNCHANGED <<op, arg, background, told, host, exitErr>>
      /\ \A q \in Req \ {r} : result'[q] = result[q]
  BY DEF Moves, callVars, hostVars, Local, SameReq
<1>3. K = {} \/ Alone(r, l)
  BY Apart DEF Works
<1>4. SameLease(l) \/ Alone(r, l)
  BY Apart DEF Works
<1>5. NewNames(l, K)
  BY <1>2 DEF Moves, NewNames, Uses, Named
<1>6. \A k, m : Named(k, m) => Named(k, m)'
  BY <1>2 DEF Moves, Named
<1>7. Placed(r) /\ Argued(r) /\ Gated(r) /\ Resulting(r)
  BY <1>1 DEF Requests
<1>8. Argued(r)'
  BY <1>2, <1>7 DEF Argued
<1>9. Requests'
  BY <1>2, <1>4, <1>8, LocalRequests DEF Works
<1>10. Leases'
  BY <1>2, LocalLeases DEF Works, Leaves
<1>11. Stages'
  BY <1>2, <1>4, LocalStages DEF Works
<1>12. Lease(r)' = Lease(r)
  BY <1>2 DEF Lease
<1>13. OneStart'
  BY <1>2, <1>12, Apart, LocalStart DEF Works
<1>14. Meanings'
  <2>1. \A k \in Late \cup {"reservation"} : Uses(k, l) \/ k \in K => Means(k, l)'
    BY <1>1 DEF Leaves, Meanings
  <2>2. QED
    BY <1>2, <1>5, <2>1, LocalMeanings
<1>15. at'[r] \notin {"result", "done"} => result'[r] = {} \/ r \in background
  BY <1>2 DEF Works, Resulting
<1>16. at'[r] \in Starting => op[r] \in {"start", "fork", "handoff"} /\ r \notin background
  BY <1>2, <1>7 DEF Works, Placed, Resulting, Starting
<1>17. Making(r) => r \notin background
  BY <1>7 DEF Making, Resulting, Placed
<1>18. Making(r)' => Making(r) /\ K = {}
  <2>1. at'[r] # "idle"
    BY <1>2, <1>7 DEF Works, Moves, Placed
  <2>2. Making(r)' => Making(r)
    BY <1>2, <2>1 DEF Making, Moves, Works, Resulting
  <2>3. QED
    BY <1>15, <1>17, <2>2 DEF Making, Works, Placed
<1>19. at'[r] \in Starting => Lease(r)' = l /\ Early(l) /\ K \cap Late = {}
  <2>1. ASSUME at'[r] \in Starting PROVE Early(l)
    <3>1. CASE Own(r) /\ l = Lease(r)
      BY <3>1, OwnLease DEF Fresh
    <3>2. CASE reservations[l] = "reserved"
      BY <1>1, <3>2 DEF Naming
    <3>3. QED
      BY <1>16, <2>1, <3>1, <3>2 DEF Works, Touches, KindOf, Late
  <2>2. at'[r] \in Starting => result'[r] = {}
    BY <1>15, <1>16 DEF Starting
  <2>3. QED
    BY <1>12, <2>1, <2>2 DEF Works
<1>20. reservations'[l] \in {"reserved", "starting"} => Early(l) /\ K \cap Late = {}
  <2>1. ASSUME reservations'[l] \in {"reserved", "starting"} PROVE Early(l)
    BY <1>1, <2>1, OwnLease DEF Leaves, Naming, Fresh, Own, Starting
  <2>2. ASSUME NEW k \in K \cap Late PROVE reservations'[l] \notin {"reserved", "starting"}
    <3>1. Means(k, l)' /\ Registry(l)'
      BY DEF Leaves
    <3>2. QED
      BY <3>1 DEF Means, IsExport, IsFailure, Registry, Late
  <2>3. QED
    BY <2>1, <2>2
<1>21. Naming'
  BY <1>2, <1>3, <1>5, <1>18, <1>19, <1>20, LocalNaming
<1>22. Lists'
  BY <1>2, <1>6, LocalLists DEF Works, Leaves
<1>23. SnapshotsKnown'
  <2> SUFFICES ASSUME NEW m \in Req, m \in snaps'
               PROVE  \/ Named("snapshot", m)'
                      \/ \E q \in Req : (Undoing(q, "snapshot_close", m) /\ at[q] = "begun")'
    BY DEF SnapshotsKnown, SnapshotKnown
  <2>1. CASE <<"snapshot", m>> \in result'[r]
    BY <2>1 DEF Named
  <2>2. CASE m \in snaps
    <3>1. CASE Named("snapshot", m)
      BY <1>6, <3>1
    <3>2. ASSUME NEW q \in Req, Undoing(q, "snapshot_close", m), at[q] = "begun"
          PROVE  (Undoing(q, "snapshot_close", m) /\ at[q] = "begun")'
      <4>1. q # r
        BY <3>2 DEF Keeps, Undoing
      <4>2. QED
        BY <1>2, <3>2, <4>1 DEF Local, SameReq, Undoing
    <3>3. QED
      BY <1>1, <2>2, <3>1, <3>2 DEF SnapshotsKnown, SnapshotKnown
  <2>3. QED
    BY <2>1, <2>2 DEF Keeps
<1>24. Hosting'
  <2>1. r \in Pending /\ host \in {"serving", "draining"} /\ exitErr = FALSE
    BY <1>1 DEF Moves, Pending, Hosting, Running, Typed
  <2>2. QED
    BY <1>2, <2>1 DEF Hosting
<1>25. BaseKept'
  <2>1. \A q \in Req \ {r} : at'[q] = at[q]
    BY <1>2 DEF Local, SameReq
  <2>2. QED
    BY <1>1, <2>1 DEF BaseKept, Keeps, Revoking
<1>26. QED
  BY <1>9, <1>10, <1>11, <1>13, <1>14, <1>21, <1>22, <1>23, <1>24, <1>25 DEF ManagerInvariant
-----------------------------------------------------------------------------
(* Steps that change no lease                                              *)

\* A request that has a lease keeps it, one inside a database stays inside, and one
\* that undoes its own result has nothing left to undo when it is complete.
Quiet(r, l) ==
  /\ Moves(r, l) /\ SameLease(l) /\ result'[r] = result[r]
  /\ at[r] \in Inside => arg[r] = l /\ at'[r] \in Inside
  /\ at[r] \in Failed => Lease(r) = l /\ at'[r] \in Failed
  /\ r \in background /\ op[r] \in {"db_close", "fork_cancel"} =>
       /\ arg[r] = l
       /\ at'[r] \in {"result", "done"} /\ op[r] = "db_close" => l \notin dbs
       /\ at'[r] \in {"result", "done"} /\ op[r] = "fork_cancel" => reservations[l] # "reserved"
  /\ at'[r] \in Starting => Lease(r) = l /\ Touches(r, l)
  /\ Placed(r)' /\ Resulting(r)' /\ Stage(r)' /\ InsideStage(r)'

\* Such a step preserves the invariant.
LEMMA QuietStep ==
  ASSUME ManagerInvariant, NEW r \in Req, NEW l \in Req, Typed', PoolTyped', Quiet(r, l),
         at'[r] \in Inside => at[r] \in Inside, Keeps(r)
  PROVE  ManagerInvariant'
<1>1. /\ Slot(l) /\ Registry(l) /\ Holder(l) /\ Registered(l) /\ KnownNames(l) /\ Gated(r) /\ Typed
      /\ Placed(r) /\ Argued(r)
  BY DEF ManagerInvariant, Leases, Lists, Requests
<1>2. /\ Moves(r, l) /\ SameLease(l) /\ Local(r, l)
      /\ UNCHANGED <<op, arg, background, told, host, exitErr>> /\ result'[r] = result[r]
      /\ \A q \in Req \ {r} : SameReq(q)
      /\ \A q \in Req : result'[q] = result[q]
  BY DEF Quiet, Moves, Local, callVars, hostVars, SameReq
<1>3. Slot(l)' /\ Registry(l)'
  BY <1>1, <1>2 DEF SameLease, Slot, Registry, Clean, HasResources
<1>4. Gated(r)'
  BY <1>1, <1>2 DEF Quiet, SameLease, Gated
<1>5. Holder(l)'
  <2>1. ASSUME gate[l] # NoReq
        PROVE  arg'[gate[l]] = l /\ at'[gate[l]] \in Inside
    <3>1. gate[l] \in Req /\ arg[gate[l]] = l /\ at[gate[l]] \in Inside
      BY <1>1, <2>1 DEF Holder, Typed
    <3>2. CASE gate[l] = r
      BY <1>2, <3>1, <3>2 DEF Quiet
    <3>3. CASE gate[l] # r
      BY <1>2, <3>1, <3>3 DEF SameReq
    <3>4. QED
      BY <3>2, <3>3
  <2>2. QED
    BY <1>2, <2>1 DEF SameLease, Holder
<1>6. \A q \in Req : at[q] \in Failed /\ Lease(q) = l => at'[q] \in Failed /\ Lease(q)' = l
  BY <1>2 DEF SameReq, Quiet, Lease
<1>7. Registered(l)'
  BY <1>1, <1>2, <1>6 DEF Registered, SameLease
<1>8. \A k, m : Named(k, m) => Named(k, m)'
  BY <1>2 DEF Named
<1>9. \A q \in Req :
        /\ Undoing(q, "db_close", l) => Undoing(q, "db_close", l)' \/ l \notin dbs
        /\ Undoing(q, "fork_cancel", l) =>
             Undoing(q, "fork_cancel", l)' \/ reservations[l] # "reserved"
  BY <1>2 DEF Undoing, SameReq, Quiet
<1>10. KnownNames(l)'
  BY <1>1, <1>2, <1>8, <1>9 DEF KnownNames, SameLease, HasResources
<1>11. \A k \in Late \cup {"reservation"} : Means(k, l) => Means(k, l)'
  BY <1>2 DEF SameLease, Means, IsExport, IsFailure
<1>12. \A k \in Late \cup {"reservation"} : <<k, l>> \in result'[r] => Means(k, l)
  BY <1>2 DEF Uses, Named, ManagerInvariant, Meanings
<1>13. Leaves(r, l)
  BY <1>2, <1>3, <1>5, <1>7, <1>10, <1>11, <1>12 DEF Leaves, SameLease
<1>14. Works(r, l)
  BY <1>2, <1>4 DEF Quiet, Works
<1>15. QED
  BY <1>2, <1>13, <1>14, MovesStep

\* What the invariant says of one request.
LEMMA RequestFacts ==
  ASSUME ManagerInvariant, NEW r \in Req
  PROVE  /\ Typed /\ PoolTyped
         /\ Placed(r) /\ Argued(r) /\ Gated(r) /\ Resulting(r) /\ Stage(r) /\ InsideStage(r)
BY DEF ManagerInvariant, Requests, Stages

\* ... and of one lease.
LEMMA LeaseFacts ==
  ASSUME ManagerInvariant, NEW l \in Req
  PROVE  Slot(l) /\ Registry(l) /\ Holder(l) /\ Registered(l) /\ KnownNames(l)
BY DEF ManagerInvariant, Leases, Lists

\* The request r goes to another place.
Goes(r, to) ==
  /\ Running /\ at[r] \notin {"idle", "result", "done"}
  /\ at' = [at EXCEPT ![r] = to]
  /\ UNCHANGED <<callVars, hostVars>>

\* ... and this is all, but for what it reports and the baseline.
Only(r, to) ==
  /\ Goes(r, to)
  /\ UNCHANGED <<pc, leases, active, watchers, ownVars, reservations, dbs, retained, gate, result>>
  /\ saysDisposed' \in {saysDisposed, saysDisposed \cup {r}}

\* Such a step changes no lease.
LEMMA OnlyMoves ==
  ASSUME Typed, PoolTyped, NEW r \in Req, NEW l \in Req, NEW to \in Places, Only(r, to),
         snaps' \subseteq snaps, baseClosed' \in BOOLEAN
  PROVE  /\ Typed' /\ PoolTyped' /\ Moves(r, l) /\ SameLease(l)
         /\ at'[r] = to /\ result'[r] = result[r] /\ op'[r] = op[r] /\ arg'[r] = arg[r]
         /\ r \in background' <=> r \in background
         /\ Lease(r)' = Lease(r)
         /\ told' = told
<1>1. /\ UNCHANGED <<pc, leases, active, watchers, database, cleanup, continuing, path>>
      /\ UNCHANGED <<reservations, dbs, retained, gate, result, op, arg, background>>
      /\ UNCHANGED <<told, host, exitErr>>
      /\ Running /\ at[r] \notin {"idle", "result", "done"}
      /\ at' = [at EXCEPT ![r] = to]
      /\ saysDisposed' \in {saysDisposed, saysDisposed \cup {r}}
  BY DEF Only, Goes, callVars, hostVars, ownVars
<1>2. Typed' /\ at'[r] = to
  BY <1>1 DEF Typed
<1>3. PoolTyped'
  BY <1>1 DEF PoolTyped
<1>4. \A m \in Req : SameLease(m)
  BY <1>1 DEF SameLease
<1>5. \A q \in Req \ {r} : SameReq(q)
  BY <1>1 DEF SameReq, Typed
<1>6. Moves(r, l)
  BY <1>1, <1>4, <1>5 DEF Moves, Local, callVars, hostVars
<1>7. QED
  BY <1>1, <1>2, <1>3, <1>4, <1>6 DEF Lease

-----------------------------------------------------------------------------

\* handoff_release looks its lease up under manager.mu.
LEMMA ReleaseChecksStep ==
  ASSUME ManagerInvariant, NEW r \in Req, ReleaseChecks(r)
  PROVE  ManagerInvariant'
<1> DEFINE l == arg[r]
           to == IF reservations[arg[r]] = "exported" THEN "removing" ELSE "result"
<1>1. /\ Typed /\ PoolTyped
      /\ Placed(r) /\ Argued(r) /\ Gated(r) /\ Resulting(r) /\ Stage(r) /\ InsideStage(r)
  BY RequestFacts
<1>2. op[r] = "handoff_release" /\ at[r] = "begun" /\ l \in Req /\ to \in Places
  BY <1>1 DEF ReleaseChecks, Step, Argued, Places
<1>3. Only(r, to) /\ snaps' = snaps /\ baseClosed' = baseClosed
  BY <1>2 DEF ReleaseChecks, SaysUnknown, Step, Only, Goes, poolVars, mapVars
<1>4. /\ Typed' /\ PoolTyped' /\ Moves(r, l) /\ SameLease(l)
      /\ at'[r] = to /\ result'[r] = result[r] /\ op'[r] = op[r] /\ arg'[r] = arg[r]
      /\ r \in background' <=> r \in background
      /\ Lease(r)' = Lease(r) /\ told' = told
  BY <1>1, <1>2, <1>3, OnlyMoves DEF Typed
<1> HIDE DEF l
<1>a. Placed(r)' /\ InsideStage(r)'
  BY <1>1, <1>2, <1>4 DEF Placed, Inside, InsideStage
<1>b. r \in saysDisposed' => at'[r] = "result"
  BY <1>1, <1>2, <1>4 DEF ReleaseChecks, SaysUnknown, Resulting
<1>c. Resulting(r)'
  BY <1>1, <1>2, <1>4, <1>b DEF Resulting
<1>5. Placed(r)' /\ Resulting(r)' /\ InsideStage(r)'
  BY <1>a, <1>c
<1>6. Stage(r)'
  BY <1>2, <1>4 DEF Stage, Making, Starting, Failed
<1>7. Quiet(r, l)
  BY <1>2, <1>4, <1>5, <1>6 DEF Quiet, Inside, Failed, Starting
<1>8. Keeps(r) /\ (at'[r] \in Inside => at[r] \in Inside)
  BY <1>2, <1>3, <1>4 DEF Keeps, Revoking, Inside
<1>9. QED
  BY <1>2, <1>4, <1>7, <1>8, QuietStep

\* A fork without a reservation looks the baseline up.
LEMMA ForkLooksUpStep ==
  ASSUME ManagerInvariant, NEW r \in Req, ForkLooksUp(r)
  PROVE  ManagerInvariant'
<1> DEFINE to == IF Base \in snaps THEN "acquiring" ELSE "result"
<1>1. /\ Typed /\ PoolTyped
      /\ Placed(r) /\ Argued(r) /\ Gated(r) /\ Resulting(r) /\ Stage(r) /\ InsideStage(r)
  BY RequestFacts
<1>2. op[r] = "fork" /\ arg[r] = NoReq /\ at[r] = "begun" /\ to \in Places
  BY <1>1 DEF ForkLooksUp, Step, Places
<1>3. Only(r, to) /\ snaps' = snaps /\ baseClosed' = baseClosed /\ saysDisposed' = saysDisposed
  BY <1>2 DEF ForkLooksUp, Step, Only, Goes, poolVars, mapVars, resultVars
<1>4. /\ Typed' /\ PoolTyped' /\ Moves(r, r) /\ SameLease(r)
      /\ at'[r] = to /\ result'[r] = result[r] /\ op'[r] = op[r] /\ arg'[r] = arg[r]
      /\ r \in background' <=> r \in background
      /\ Lease(r)' = Lease(r) /\ told' = told
  BY <1>1, <1>2, <1>3, OnlyMoves DEF Typed
<1>5. Placed(r)' /\ Resulting(r)' /\ InsideStage(r)'
  BY <1>1, <1>2, <1>3, <1>4 DEF Placed, Resulting, Inside, InsideStage
<1>6. Making(r) /\ Lease(r) = r
  BY <1>2 DEF Making, Lease
<1>7. Stage(r)'
  BY <1>1, <1>2, <1>4, <1>6 DEF Stage, Making, Starting, Failed, SameLease, Clean
<1>8. Quiet(r, r)
  BY <1>2, <1>4, <1>5, <1>6, <1>7 DEF Quiet, Inside, Failed, Touches, Own
<1>9. Keeps(r) /\ (at'[r] \in Inside => at[r] \in Inside)
  BY <1>2, <1>3, <1>4 DEF Keeps, Revoking, Inside
<1>10. QED
  BY <1>4, <1>8, <1>9, QuietStep

\* start makes a database without a lease of a pool.
LEMMA StartBeginsStep ==
  ASSUME ManagerInvariant, NEW r \in Req, StartBegins(r)
  PROVE  ManagerInvariant'
<1>1. /\ Typed /\ PoolTyped
      /\ Placed(r) /\ Argued(r) /\ Gated(r) /\ Resulting(r) /\ Stage(r) /\ InsideStage(r)
  BY RequestFacts
<1>2. op[r] = "start" /\ arg[r] = NoReq /\ at[r] = "begun" /\ "creating" \in Places
  BY <1>1 DEF StartBegins, Step, Places, Argued
<1>3. /\ Only(r, "creating") /\ snaps' = snaps /\ baseClosed' = baseClosed
      /\ saysDisposed' = saysDisposed
  BY <1>2 DEF StartBegins, Step, Only, Goes, poolVars, mapVars, resultVars
<1>4. /\ Typed' /\ PoolTyped' /\ Moves(r, r) /\ SameLease(r)
      /\ at'[r] = "creating" /\ result'[r] = result[r] /\ op'[r] = op[r] /\ arg'[r] = arg[r]
      /\ r \in background' <=> r \in background
      /\ Lease(r)' = Lease(r) /\ told' = told
  BY <1>1, <1>2, <1>3, OnlyMoves DEF Typed
<1>5. Placed(r)' /\ Resulting(r)' /\ InsideStage(r)'
  BY <1>1, <1>2, <1>3, <1>4 DEF Placed, Resulting, Inside, InsideStage
<1>6. Making(r) /\ Lease(r) = r
  BY <1>2 DEF Making, Lease
<1>7. Stage(r)'
  BY <1>1, <1>2, <1>4, <1>6 DEF Stage, Making, Starting, Failed, SameLease, Clean
<1>8. Quiet(r, r)
  BY <1>2, <1>4, <1>5, <1>6, <1>7 DEF Quiet, Inside, Failed, Touches, Own
<1>9. Keeps(r) /\ (at'[r] \in Inside => at[r] \in Inside)
  BY <1>2, <1>3, <1>4 DEF Keeps, Revoking, Inside
<1>10. QED
  BY <1>4, <1>8, <1>9, QuietStep

\* retainFailure asks for its report whether the cleanup is pending.
LEMMA RetainReportsStep ==
  ASSUME ManagerInvariant, NEW r \in Req, RetainReports(r)
  PROVE  ManagerInvariant'
<1> DEFINE l == Lease(r)
<1>1. /\ Typed /\ PoolTyped
      /\ Placed(r) /\ Argued(r) /\ Gated(r) /\ Resulting(r) /\ Stage(r) /\ InsideStage(r)
  BY RequestFacts
<1>2. at[r] = "retaining" /\ "retain" \in Places /\ op[r] \in {"start", "fork", "handoff"}
  BY <1>1 DEF RetainReports, Step, Places, Placed
<1>3. Own(r) /\ l \in Req
  BY <1>2, OwnLease DEF Own, Starting
<1>4. Only(r, "retain") /\ snaps' = snaps /\ baseClosed' = baseClosed
  BY <1>2 DEF RetainReports, Step, Only, Goes, poolVars, mapVars
<1> HIDE DEF l
<1>5. /\ Typed' /\ PoolTyped' /\ Moves(r, l) /\ SameLease(l)
      /\ at'[r] = "retain" /\ result'[r] = result[r] /\ op'[r] = op[r] /\ arg'[r] = arg[r]
      /\ r \in background' <=> r \in background
      /\ Lease(r)' = Lease(r) /\ told' = told
  BY <1>1, <1>2, <1>3, <1>4, OnlyMoves DEF Typed
<1>6. Placed(r)' /\ Resulting(r)' /\ InsideStage(r)'
  BY <1>1, <1>2, <1>5 DEF Placed, Resulting, Inside, InsideStage
<1>7. Stage(r)'
  BY <1>1, <1>2, <1>5 DEF l, Stage, Making, Starting, Failed, SameLease, Clean
<1>8. Quiet(r, l)
  BY <1>2, <1>3, <1>5, <1>6, <1>7 DEF l, Quiet, Inside, Failed, Touches
<1>9. Keeps(r) /\ (at'[r] \in Inside => at[r] \in Inside)
  BY <1>2, <1>4, <1>5 DEF Keeps, Revoking, Inside
<1>10. QED
  BY <1>3, <1>5, <1>8, <1>9, QuietStep

\* A database handle is looked up before its gate is asked for.
LEMMA DatabaseCallStep ==
  ASSUME ManagerInvariant, NEW r \in Req, DatabaseCall(r)
  PROVE  ManagerInvariant'
<1> DEFINE l == arg[r]
           to == IF arg[r] \in dbs THEN "gating" ELSE "result"
<1>1. /\ Typed /\ PoolTyped
      /\ Placed(r) /\ Argued(r) /\ Gated(r) /\ Resulting(r) /\ Stage(r) /\ InsideStage(r)
  BY RequestFacts
<1>2. op[r] \in DatabaseOps /\ at[r] = "begun" /\ l \in Req /\ to \in Places
  BY <1>1 DEF DatabaseCall, Step, Argued, Places, DatabaseOps
<1>3. Only(r, to) /\ snaps' = snaps /\ baseClosed' = baseClosed
  BY <1>2 DEF DatabaseCall, Step, Only, Goes, poolVars, mapVars
<1>4. /\ Typed' /\ PoolTyped' /\ Moves(r, l) /\ SameLease(l)
      /\ at'[r] = to /\ result'[r] = result[r] /\ op'[r] = op[r] /\ arg'[r] = arg[r]
      /\ r \in background' <=> r \in background
      /\ Lease(r)' = Lease(r) /\ told' = told
  BY <1>1, <1>2, <1>3, OnlyMoves DEF Typed
<1>5. Placed(r)' /\ InsideStage(r)'
  BY <1>1, <1>2, <1>4 DEF Placed, Inside, InsideStage, DatabaseOps
<1>6. r \in saysDisposed' => at'[r] = "result"
  BY <1>1, <1>2, <1>4 DEF DatabaseCall, Resulting
<1>7. Resulting(r)'
  BY <1>1, <1>2, <1>4, <1>6 DEF Resulting
<1>8. Stage(r)'
  BY <1>2, <1>4 DEF Stage, Making, Starting, Failed
<1>9. l \notin dbs <=> at'[r] = "result"
  BY <1>4
<1> HIDE DEF l, to
<1>10. op[r] # "fork_cancel" /\ reservations[l] # "reserved"
  <2>1. Uses(KindOf(op[r]), l)
    BY <1>2 DEF l, Uses
  <2>2. database[l] # "none" /\ Registry(l)
    BY <1>2, <2>1, LeaseFacts DEF KindOf, DatabaseOps, ManagerInvariant, Meanings, Means, Late
  <2>3. QED
    BY <1>2, <2>2 DEF Registry, DatabaseOps
<1>11. Quiet(r, l)
  BY <1>2, <1>4, <1>5, <1>7, <1>8, <1>9, <1>10 DEF Quiet, Inside, Failed, Starting, to, l
<1>12. Keeps(r) /\ (at'[r] \in Inside => at[r] \in Inside)
  BY <1>2, <1>3, <1>4 DEF Keeps, Revoking, Inside, to, DatabaseOps
<1>13. QED
  BY <1>2, <1>4, <1>11, <1>12, QuietStep

\* snapshot_close takes the snapshot out of the map.
LEMMA SnapshotTakenStep ==
  ASSUME ManagerInvariant, NEW r \in Req, SnapshotTaken(r)
  PROVE  ManagerInvariant'
<1> DEFINE to == IF arg[r] = Base /\ Base \in snaps THEN "revoking" ELSE "result"
<1>1. /\ Typed /\ PoolTyped
      /\ Placed(r) /\ Argued(r) /\ Gated(r) /\ Resulting(r) /\ Stage(r) /\ InsideStage(r)
  BY RequestFacts
<1>2. op[r] = "snapshot_close" /\ at[r] = "begun" /\ to \in Places
  BY <1>1 DEF SnapshotTaken, Step, Places
<1>3. /\ Only(r, to) /\ snaps' = snaps \ {arg[r]} /\ baseClosed' = baseClosed
      /\ saysDisposed' = saysDisposed
  BY <1>2 DEF SnapshotTaken, Step, Only, Goes, poolVars, resultVars
<1>4. /\ Typed' /\ PoolTyped' /\ Moves(r, r) /\ SameLease(r)
      /\ at'[r] = to /\ result'[r] = result[r] /\ op'[r] = op[r] /\ arg'[r] = arg[r]
      /\ r \in background' <=> r \in background
      /\ Lease(r)' = Lease(r) /\ told' = told
  BY <1>1, <1>2, <1>3, OnlyMoves DEF Typed
<1>5. Placed(r)' /\ Resulting(r)' /\ InsideStage(r)'
  BY <1>1, <1>2, <1>3, <1>4 DEF Placed, Resulting, Inside, InsideStage
<1>6. Stage(r)'
  BY <1>2, <1>4 DEF Stage, Making, Starting, Failed
<1>7. Quiet(r, r)
  BY <1>2, <1>4, <1>5, <1>6 DEF Quiet, Inside, Failed, Starting
<1>8. Keeps(r) /\ (at'[r] \in Inside => at[r] \in Inside)
  BY <1>2, <1>3, <1>4 DEF Keeps, Revoking, Inside
<1>9. QED
  BY <1>4, <1>7, <1>8, QuietStep

\* The baseline is closed under its write lock.
LEMMA SnapshotClosesStep ==
  ASSUME ManagerInvariant, NEW r \in Req, SnapshotCloses(r)
  PROVE  ManagerInvariant'
<1>1. /\ Typed /\ PoolTyped
      /\ Placed(r) /\ Argued(r) /\ Gated(r) /\ Resulting(r) /\ Stage(r) /\ InsideStage(r)
  BY RequestFacts
<1>2. at[r] = "queued" /\ "result" \in Places /\ op[r] = "snapshot_close"
  BY <1>1 DEF SnapshotCloses, Step, Places, Placed
<1>3. /\ Only(r, "result") /\ snaps' = snaps /\ baseClosed' = TRUE
      /\ saysDisposed' = saysDisposed
  BY <1>2 DEF SnapshotCloses, Step, Only, Goes, poolVars, mapVars, resultVars
<1>4. /\ Typed' /\ PoolTyped' /\ Moves(r, r) /\ SameLease(r)
      /\ at'[r] = "result" /\ result'[r] = result[r] /\ op'[r] = op[r] /\ arg'[r] = arg[r]
      /\ r \in background' <=> r \in background
      /\ Lease(r)' = Lease(r) /\ told' = told
  BY <1>1, <1>2, <1>3, OnlyMoves DEF Typed
<1>5. Placed(r)' /\ Resulting(r)' /\ InsideStage(r)'
  BY <1>1, <1>2, <1>3, <1>4 DEF Placed, Resulting, Inside, InsideStage
<1>6. Stage(r)'
  BY <1>2, <1>4 DEF Stage, Making, Starting, Failed
<1>7. Quiet(r, r)
  BY <1>2, <1>4, <1>5, <1>6 DEF Quiet, Inside, Failed, Starting
<1>8. Keeps(r) /\ (at'[r] \in Inside => at[r] \in Inside)
  BY <1>2, <1>3, <1>4 DEF Keeps, Revoking, Inside
<1>9. QED
  BY <1>4, <1>7, <1>8, QuietStep
-----------------------------------------------------------------------------
(* Steps on the lease of a startup or of a reservation                     *)

\* What a method of the lease l does to the slots.
LEMMA PoolEffects ==
  ASSUME NEW l \in Req
  PROVE  /\ Pool!Settle(l, TRUE) => leases' = leases \ {l} /\ active' = active
         /\ Pool!Cancel(l) =>
              /\ leases' = IF l \in active THEN leases ELSE leases \ {l}
              /\ active' = active
         /\ Pool!TrackCleanup(l, TRUE) =>
              /\ leases' = leases
              /\ active' \in {active, active \cup {l}}
              /\ watchers' \in {watchers, watchers \cup {l}}
         /\ Pool!Settle(l, FALSE) => leases' = leases /\ active' \in {active, active \cup {l}}
         /\ Pool!Activate(l) /\ Pool!CanActivate(l) =>
              l \in leases /\ leases' = leases /\ active' = active \cup {l}
BY DEF Pool!Settle, Pool!Cancel, Pool!TrackCleanup, Pool!Activate, Pool!CanActivate, Pool!Release,
       Pool!Stop, Pool!NoEffect, Pool!poolVars

\* A request that goes elsewhere, and does what it does to l.
LEMMA GoesMoves ==
  ASSUME Typed, NEW r \in Req, NEW l \in Req, NEW to \in Places, Goes(r, to),
         \A m \in Req \ {l} : SameLease(m),
         \A q \in Req \ {r} : result'[q] = result[q] /\ (q \in saysDisposed' <=> q \in saysDisposed),
         result[r] \subseteq result'[r],
         \A x \in result'[r] \ result[r] : x[2] = l \/ x[1] = "snapshot"
  PROVE  /\ Moves(r, l) /\ Lease(r)' = Lease(r)
         /\ at'[r] = to /\ op'[r] = op[r] /\ arg'[r] = arg[r] /\ told' = told
         /\ at' \in [Req -> Places]
         /\ r \in background' <=> r \in background
         /\ UNCHANGED <<op, arg, background, told, host, exitErr>>
<1>1. /\ UNCHANGED <<op, arg, background, told, host, exitErr>>
      /\ Running /\ at[r] \notin {"idle", "result", "done"}
      /\ at' = [at EXCEPT ![r] = to]
  BY DEF Goes, callVars, hostVars
<1>2. at'[r] = to /\ at' \in [Req -> Places]
  BY <1>1 DEF Typed
<1>3. \A q \in Req \ {r} : SameReq(q)
  BY <1>1 DEF SameReq, Typed
<1>4. \A k \in Late \cup {"reservation"}, m \in Req :
       <<k, m>> \in result'[r] => <<k, m>> \in result[r] \/ m = l
  <2> SUFFICES ASSUME NEW k \in Late \cup {"reservation"}, NEW m \in Req,
                      <<k, m>> \in result'[r], <<k, m>> \notin result[r]
               PROVE  m = l
    OBVIOUS
  <2>1. <<k, m>>[2] = l \/ <<k, m>>[1] = "snapshot"
    OBVIOUS
  <2>2. QED
    BY <2>1 DEF Late
<1>5. Moves(r, l)
  BY <1>1, <1>3, <1>4 DEF Moves, Local, callVars, hostVars
<1>6. QED
  BY <1>1, <1>2, <1>5 DEF Lease

\* Nobody is inside what is not a database.
LEMMA NoGate ==
  ASSUME ManagerInvariant, NEW l \in Req, database[l] = "none"
  PROVE  gate[l] = NoReq
<1> SUFFICES ASSUME gate[l] # NoReq PROVE FALSE
  OBVIOUS
<1>1. gate[l] \in Req /\ arg[gate[l]] = l /\ at[gate[l]] \in Inside
  BY LeaseFacts, RequestFacts DEF Holder, ManagerInvariant, Typed
<1>2. op[gate[l]] \in DatabaseOps
  BY <1>1, RequestFacts DEF Placed, Inside, DatabaseOps
<1>3. Uses(KindOf(op[gate[l]]), l) /\ KindOf(op[gate[l]]) \in {"database", "cleanup_handle"}
  BY <1>1, <1>2 DEF Uses, KindOf, DatabaseOps
<1>4. QED
  BY <1>3 DEF ManagerInvariant, Meanings, Means, Late

\* Claim takes an unused reservation.
LEMMA ClaimStep ==
  ASSUME ManagerInvariant, NEW r \in Req, Claim(r)
  PROVE  ManagerInvariant'
<1>1. /\ Typed /\ PoolTyped
      /\ Placed(r) /\ Argued(r) /\ Gated(r) /\ Resulting(r) /\ Stage(r) /\ InsideStage(r)
  BY RequestFacts
<1>a. PICK l \in Req : l = arg[r]
  BY <1>1 DEF Claim, Argued
<1> DEFINE to == IF reservations[l] = "reserved" THEN "locking" ELSE "result"
           new == IF op[r] = "handoff" THEN "starting" ELSE "none"
<1>2. op[r] \in {"fork", "handoff"} /\ at[r] = "begun" /\ l = arg[r] /\ l # NoReq /\ to \in Places
  BY <1>1, <1>a, HandleAssumption DEF Claim, Step, Places
<1>3. Slot(l) /\ Registry(l) /\ Holder(l) /\ Registered(l) /\ KnownNames(l)
  BY <1>2, LeaseFacts
<1>4. /\ Goes(r, to) /\ UNCHANGED <<result, saysDisposed, database, cleanup, continuing, path>>
      /\ UNCHANGED <<dbs, snaps, retained, gate, baseClosed, pc, leases, active, watchers>>
  BY <1>2 DEF Claim, Step, Goes, poolVars, resultVars, ownVars
<1>5. /\ reservations[l] # "reserved" => reservations' = reservations
      /\ reservations[l] = "reserved" => reservations' = [reservations EXCEPT ![l] = new]
  BY <1>1, <1>2 DEF Claim, Typed
<1>6. Keeps(r) /\ Lease(r) = l
  BY <1>2, <1>4 DEF Keeps, Revoking, Lease
<1>7. result[r] = {} /\ r \notin background /\ r \notin saysDisposed
  BY <1>1, <1>2 DEF Resulting
<1> HIDE DEF to, new
<1>8. CASE reservations[l] # "reserved"
  <2>1. Only(r, to) /\ snaps' \subseteq snaps /\ baseClosed' \in BOOLEAN
    BY <1>1, <1>4, <1>5, <1>8 DEF Only, ownVars, Typed
  <2>2. /\ Typed' /\ PoolTyped' /\ Moves(r, l) /\ SameLease(l)
        /\ at'[r] = to /\ result'[r] = result[r] /\ op'[r] = op[r] /\ arg'[r] = arg[r]
        /\ r \in background' <=> r \in background
        /\ Lease(r)' = Lease(r) /\ told' = told
    BY <1>1, <1>2, <2>1, OnlyMoves
  <2>3. to = "result"
    BY <1>8 DEF to
  <2>4. Placed(r)' /\ Resulting(r)' /\ InsideStage(r)' /\ Stage(r)'
    BY <1>1, <1>2, <1>4, <1>7, <2>2, <2>3
    DEF Placed, Resulting, Inside, InsideStage, Stage, Making, Starting, Failed
  <2>5. Quiet(r, l)
    BY <1>2, <1>7, <2>2, <2>3, <2>4 DEF Quiet, Inside, Failed, Starting
  <2>6. QED
    BY <1>2, <1>6, <2>2, <2>3, <2>5, QuietStep DEF Inside
<1>9. CASE reservations[l] = "reserved"
  <2>1. to = "locking" /\ reservations' = [reservations EXCEPT ![l] = new]
    BY <1>5, <1>9 DEF to
  <2>2. Clean(l) /\ l \notin active /\ pc[l] = "held" /\ Early(l) /\ gate[l] = NoReq
    BY <1>2, <1>3, <1>9, NoGate DEF Registry, Clean, ManagerInvariant, Naming
  <2>3. reservations'[l] = new /\ \A m \in Req \ {l} : SameLease(m)
    BY <1>1, <1>2, <1>4, <2>1 DEF SameLease, Typed
  <2>4. /\ Moves(r, l) /\ at'[r] = to /\ op'[r] = op[r] /\ arg'[r] = arg[r] /\ told' = told
        /\ at' \in [Req -> Places] /\ Lease(r)' = Lease(r)
        /\ r \in background' <=> r \in background
        /\ UNCHANGED <<op, arg, background, told, host, exitErr>>
    BY <1>1, <1>2, <1>4, <2>3, GoesMoves
  <2>5. Typed' /\ PoolTyped'
    BY <1>1, <1>2, <1>4, <2>1, <2>4 DEF Typed, PoolTyped, new
  <2>6. Touches(r, l)
    BY <1>2, <1>9 DEF Touches, KindOf
  <2>7. Placed(r)' /\ Resulting(r)' /\ InsideStage(r)' /\ Gated(r)'
    BY <1>1, <1>2, <1>4, <1>7, <2>1, <2>4 DEF Placed, Resulting, Inside, InsideStage, Gated
  <2>8. Clean(l)' /\ pc'[l] = "held" /\ l \notin active' /\ l \notin dbs' /\ l \notin retained'
    BY <1>4, <2>2 DEF Clean
  <2>9. Stage(r)'
    BY <1>2, <1>6, <2>1, <2>3, <2>4, <2>8 DEF Stage, Making, Starting, Failed, new
  <2>10. Works(r, l)
    BY <1>2, <1>4, <1>6, <1>7, <2>1, <2>4, <2>6, <2>7, <2>9 DEF Works, Inside, Failed
  <2>11. Slot(l)' /\ Registry(l)' /\ Registered(l)' /\ KnownNames(l)' /\ Holder(l)'
    BY <1>4, <2>2, <2>3, <2>8
    DEF Slot, Registry, Registered, KnownNames, Holder, HasResources, Clean, new
  <2>12. Leaves(r, l)
    BY <1>4, <1>7, <1>9, <2>2, <2>8, <2>11 DEF Leaves, Early, Means, Late
  <2>13. QED
    BY <1>2, <1>6, <2>4, <2>5, <2>10, <2>12, MovesStep
<1>10. QED
  BY <1>8, <1>9

\* The lease of an unfinished startup: what the invariant says of it.
LEMMA OwnFacts ==
  ASSUME ManagerInvariant, NEW r \in Req, at[r] \in Starting
  PROVE  /\ Lease(r) \in Req /\ Touches(r, Lease(r)) /\ Own(r) /\ Early(Lease(r))
         /\ op[r] \in {"start", "fork", "handoff"}
         /\ r \notin background
         /\ result[r] = {}
         /\ at[r] # "retain" => r \notin saysDisposed
         /\ database[Lease(r)] = "none" /\ gate[Lease(r)] = NoReq
         /\ Lease(r) \notin dbs /\ Lease(r) \notin retained
<1>1. Own(r)
  BY DEF Own
<1>2. Lease(r) \in Req /\ Early(Lease(r))
  BY <1>1, OwnLease
<1>3. Placed(r) /\ Resulting(r) /\ Stage(r)
  BY RequestFacts
<1>4. op[r] \in {"start", "fork", "handoff"} /\ r \notin background
  BY <1>3 DEF Placed, Resulting, Starting
<1>5. database[Lease(r)] = "none" /\ Lease(r) \notin dbs /\ Lease(r) \notin retained
  BY <1>3 DEF Stage, Starting, Failed, Clean
<1>6. QED
  BY <1>1, <1>2, <1>3, <1>4, <1>5, NoGate DEF Touches, Resulting, Starting

\* A startup that is rejected before it creates anything gives its slot back.
LEMMA RejectStep ==
  ASSUME ManagerInvariant, NEW r \in Req, at[r] \in {"locking", "rlocked"}, Goes(r, "result"),
         Reject(r),
         UNCHANGED <<result, database, cleanup, continuing, path,
                     dbs, snaps, retained, gate, baseClosed>>
  PROVE  ManagerInvariant'
<1>1. /\ Typed /\ PoolTyped
      /\ Placed(r) /\ Argued(r) /\ Gated(r) /\ Resulting(r) /\ Stage(r) /\ InsideStage(r)
  BY RequestFacts
<1>2. at[r] \in Starting /\ "result" \in Places
  BY DEF Starting, Places
<1>3. PICK l \in Req : l = Lease(r)
  BY <1>2, OwnFacts
<1>4. /\ Touches(r, l) /\ Own(r) /\ Early(l) /\ op[r] \in {"start", "fork", "handoff"}
      /\ r \notin background /\ result[r] = {} /\ r \notin saysDisposed /\ gate[l] = NoReq
  BY <1>2, <1>3, OwnFacts
<1>5. Slot(l) /\ Registry(l) /\ Holder(l) /\ Registered(l) /\ KnownNames(l)
  BY LeaseFacts
<1>6. Clean(l) /\ pc[l] = "held" /\ l \notin active
  BY <1>1, <1>3 DEF Stage
<1>7. /\ leases' = leases \ {l} /\ active' = active /\ UNCHANGED <<watchers, pc>>
      /\ reservations' = [reservations EXCEPT ![l] = "none"]
  BY <1>3, <1>6, PoolEffects DEF Reject
<1>s. saysDisposed' \in {saysDisposed, saysDisposed \cup {r}}
  BY DEF Reject
<1>8. reservations'[l] = "none" /\ \A m \in Req \ {l} : SameLease(m)
  BY <1>1, <1>7 DEF SameLease, Typed
<1>9. /\ Moves(r, l) /\ at'[r] = "result" /\ op'[r] = op[r] /\ arg'[r] = arg[r] /\ told' = told
      /\ at' \in [Req -> Places] /\ Lease(r)' = Lease(r)
      /\ r \in background' <=> r \in background
      /\ UNCHANGED <<op, arg, background, told, host, exitErr>>
  BY <1>1, <1>2, <1>8, <1>s, GoesMoves
<1>10. Typed' /\ PoolTyped'
  BY <1>1, <1>7, <1>9, <1>s DEF Typed, PoolTyped
<1>11. Placed(r)' /\ Resulting(r)' /\ InsideStage(r)' /\ Gated(r)' /\ Stage(r)'
  BY <1>1, <1>4, <1>9
  DEF Placed, Resulting, Inside, InsideStage, Gated, Stage, Making, Starting, Failed
<1>12. Works(r, l)
  BY <1>4, <1>9, <1>11 DEF Works, Inside, Failed, Starting
<1>13. Clean(l)' /\ pc'[l] = "held" /\ l \notin active' /\ l \notin dbs' /\ l \notin retained'
  BY <1>6, <1>7 DEF Clean
<1>14. Slot(l)' /\ Registry(l)' /\ Registered(l)' /\ KnownNames(l)' /\ Holder(l)'
  BY <1>4, <1>7, <1>8, <1>13
  DEF Slot, Registry, Registered, KnownNames, Holder, HasResources, Clean
<1>15. Leaves(r, l)
  BY <1>4, <1>8, <1>13, <1>14 DEF Leaves, Early, Means, Late
<1>16. Keeps(r)
  BY DEF Keeps, Revoking
<1>17. QED
  BY <1>9, <1>10, <1>12, <1>15, <1>16, MovesStep

\* A startup takes the read lock of the baseline, or finds it closed and gives its lease back.
LEMMA StartLocksStep ==
  ASSUME ManagerInvariant, NEW r \in Req, StartLocks(r)
  PROVE  ManagerInvariant'
<1>1. /\ Typed /\ PoolTyped
      /\ Placed(r) /\ Argued(r) /\ Gated(r) /\ Resulting(r) /\ Stage(r) /\ InsideStage(r)
  BY RequestFacts
<1>2. /\ at[r] = "locking" /\ at[r] \in Starting /\ "rlocked" \in Places
      /\ UNCHANGED <<result, database, cleanup, continuing, path,
                     dbs, snaps, retained, gate, baseClosed>>
  BY DEF StartLocks, Step, Starting, Places, resultVars, ownVars
<1>3. CASE Goes(r, "result") /\ Reject(r)
  BY <1>2, <1>3, RejectStep
<1>4. CASE Goes(r, "rlocked") /\ UNCHANGED <<poolVars, reservations, saysDisposed>>
  <2>1. PICK l \in Req : l = Lease(r)
    BY <1>2, OwnFacts
  <2>2. /\ Touches(r, l) /\ Own(r) /\ op[r] \in {"start", "fork", "handoff"}
        /\ r \notin background /\ result[r] = {} /\ r \notin saysDisposed
    BY <1>2, <2>1, OwnFacts
  <2>3. Only(r, "rlocked")
    BY <1>2, <1>4 DEF Only, poolVars, ownVars
  <2>4. /\ Typed' /\ PoolTyped' /\ Moves(r, l) /\ SameLease(l)
        /\ at'[r] = "rlocked" /\ result'[r] = result[r] /\ op'[r] = op[r] /\ arg'[r] = arg[r]
        /\ r \in background' <=> r \in background
        /\ Lease(r)' = Lease(r) /\ told' = told
    BY <1>1, <1>2, <2>3, OnlyMoves DEF Typed
  <2>5. Placed(r)' /\ Resulting(r)' /\ InsideStage(r)'
    BY <1>1, <1>2, <1>4, <2>2, <2>4 DEF Placed, Resulting, Inside, InsideStage
  <2>6. Stage(r)'
    BY <1>1, <1>2, <2>1, <2>4 DEF Stage, Making, Starting, Failed, SameLease, Clean
  <2>7. Quiet(r, l)
    BY <1>2, <2>1, <2>2, <2>4, <2>5, <2>6 DEF Quiet, Inside, Failed
  <2>8. Keeps(r) /\ (at'[r] \in Inside => at[r] \in Inside)
    BY <1>2, <2>4 DEF Keeps, Revoking, Inside
  <2>9. QED
    BY <2>4, <2>7, <2>8, QuietStep
<1>5. QED
  BY <1>2, <1>3, <1>4 DEF StartLocks, Step, Goes

\* Under the read lock it activates its lease, or finds it revoked.
LEMMA StartActivatesStep ==
  ASSUME ManagerInvariant, NEW r \in Req, StartActivates(r)
  PROVE  ManagerInvariant'
<1>1. /\ Typed /\ PoolTyped
      /\ Placed(r) /\ Argued(r) /\ Gated(r) /\ Resulting(r) /\ Stage(r) /\ InsideStage(r)
  BY RequestFacts
<1>2. /\ at[r] = "rlocked" /\ at[r] \in Starting /\ "creating" \in Places
      /\ UNCHANGED <<result, database, cleanup, continuing, path,
                     dbs, snaps, retained, gate, baseClosed>>
  BY DEF StartActivates, Step, Starting, Places, resultVars, ownVars
<1>3. CASE Goes(r, "result") /\ Reject(r)
  BY <1>2, <1>3, RejectStep
<1>4. CASE /\ Goes(r, "creating") /\ Pool!CanActivate(Lease(r)) /\ Pool!Activate(Lease(r))
           /\ UNCHANGED <<watchers, pc, reservations, saysDisposed>>
  <2>1. PICK l \in Req : l = Lease(r)
    BY <1>2, OwnFacts
  <2>2. /\ Touches(r, l) /\ Own(r) /\ Early(l) /\ op[r] \in {"start", "fork", "handoff"}
        /\ r \notin background /\ result[r] = {} /\ r \notin saysDisposed /\ gate[l] = NoReq
    BY <1>2, <2>1, OwnFacts
  <2>3. op[r] # "start" /\ Clean(l) /\ pc[l] = "held" /\ Registry(l)
    BY <1>1, <1>2, <2>1, LeaseFacts DEF Stage, Placed
  <2>4. l \in leases /\ leases' = leases /\ active' = active \cup {l}
    BY <1>4, <2>1, PoolEffects
  <2>5. \A m \in Req \ {l} : SameLease(m)
    BY <1>2, <1>4, <2>4 DEF SameLease
  <2>6. /\ Moves(r, l) /\ at'[r] = "creating" /\ op'[r] = op[r] /\ arg'[r] = arg[r]
        /\ at' \in [Req -> Places] /\ Lease(r)' = Lease(r) /\ told' = told
        /\ r \in background' <=> r \in background
        /\ UNCHANGED <<op, arg, background, told, host, exitErr>>
    BY <1>1, <1>2, <1>4, <2>5, GoesMoves
  <2>7. Typed' /\ PoolTyped'
    BY <1>1, <1>2, <1>4, <2>4, <2>6 DEF Typed, PoolTyped
  <2>8. Placed(r)' /\ Resulting(r)' /\ InsideStage(r)' /\ Gated(r)'
    BY <1>1, <1>2, <1>4, <2>2, <2>6 DEF Placed, Resulting, Inside, InsideStage, Gated
  <2>9. Stage(r)'
    BY <1>1, <1>2, <1>4, <2>1, <2>3, <2>4, <2>6 DEF Stage, Making, Starting, Failed, Clean
  <2>10. Works(r, l)
    BY <1>2, <2>1, <2>2, <2>6, <2>8, <2>9 DEF Works, Inside, Failed
  <2>11. reservations[l] \in {"none", "starting"}
    BY <1>1, <1>2, <2>1 DEF Stage
  <2>12. Slot(l)' /\ Registry(l)' /\ Registered(l)' /\ KnownNames(l)' /\ Holder(l)'
    BY <1>2, <1>4, <2>2, <2>3, <2>4, <2>11
    DEF Slot, Registry, Registered, KnownNames, Holder, HasResources, Clean
  <2>13. Leaves(r, l)
    BY <1>2, <1>4, <2>2, <2>3, <2>12 DEF Leaves, Early, Means, Late
  <2>14. Keeps(r)
    BY <1>2 DEF Keeps, Revoking
  <2>15. QED
    BY <2>6, <2>7, <2>10, <2>13, <2>14, MovesStep
<1>5. QED
  BY <1>2, <1>3, <1>4 DEF StartActivates, Step, Goes

\* A started database is registered under the lease that it was given.
LEMMA CreateSucceedsStep ==
  ASSUME ManagerInvariant, NEW r \in Req, CreateSucceeds(r)
  PROVE  ManagerInvariant'
<1>1. /\ Typed /\ PoolTyped
      /\ Placed(r) /\ Argued(r) /\ Gated(r) /\ Resulting(r) /\ Stage(r) /\ InsideStage(r)
  BY RequestFacts
<1>2. /\ op[r] \in {"start", "fork"} /\ at[r] = "creating" /\ at[r] \in Starting
      /\ "result" \in Places /\ Goes(r, "result")
      /\ UNCHANGED <<saysDisposed, cleanup, continuing, path, reservations, snaps, retained>>
      /\ UNCHANGED <<gate, baseClosed, pc, leases, active, watchers>>
  BY DEF CreateSucceeds, Step, Starting, Places, Goes, poolVars
<1>3. PICK l \in Req : l = Lease(r)
  BY <1>2, OwnFacts
<1>4. /\ Touches(r, l) /\ Own(r) /\ Early(l)
      /\ r \notin background /\ result[r] = {} /\ r \notin saysDisposed /\ gate[l] = NoReq
  BY <1>2, <1>3, OwnFacts
<1>5. /\ database' = [database EXCEPT ![l] = "serving"] /\ dbs' = dbs \cup {l}
      /\ result' = [result EXCEPT ![r] = {<<"database", l>>}]
  BY <1>3 DEF CreateSucceeds
<1>6. /\ Clean(l) /\ reservations[l] = "none"
      /\ op[r] = "start" => pc[l] = "idle"
      /\ op[r] # "start" => pc[l] = "held" /\ l \in leases /\ l \in active
  BY <1>1, <1>2, <1>3 DEF Stage
<1>7. /\ database'[l] = "serving" /\ result'[r] = {<<"database", l>>}
      /\ \A m \in Req \ {l} : SameLease(m)
      /\ \A q \in Req \ {r} : result'[q] = result[q]
  BY <1>1, <1>2, <1>5 DEF SameLease, Typed
<1>8. /\ Moves(r, l) /\ at'[r] = "result" /\ op'[r] = op[r] /\ arg'[r] = arg[r] /\ told' = told
      /\ at' \in [Req -> Places] /\ Lease(r)' = Lease(r)
      /\ r \in background' <=> r \in background
      /\ UNCHANGED <<op, arg, background, told, host, exitErr>>
  <2>1. \A x \in result'[r] \ result[r] : x[2] = l
    BY <1>7
  <2>2. QED
    BY <1>1, <1>2, <1>4, <1>7, <2>1, GoesMoves
<1>9. Typed' /\ PoolTyped'
  <2>1. result' \in [Req -> SUBSET (Kinds \X Req)]
    BY <1>1, <1>5 DEF Typed, Kinds
  <2>2. QED
    BY <1>1, <1>2, <1>5, <1>8, <2>1 DEF Typed, PoolTyped
<1>10. Placed(r)' /\ Resulting(r)' /\ InsideStage(r)' /\ Gated(r)' /\ Stage(r)'
  BY <1>1, <1>2, <1>4, <1>8
  DEF Placed, Resulting, Inside, InsideStage, Gated, Stage, Making, Starting, Failed
<1>11. Works(r, l)
  BY <1>2, <1>4, <1>8, <1>10 DEF Works, Inside, Failed, Starting
<1>12. Slot(l)' /\ Registry(l)' /\ Registered(l)' /\ Holder(l)'
  BY <1>2, <1>4, <1>5, <1>6, <1>7, LeaseFacts
  DEF Slot, Registry, Registered, Holder, HasResources, Clean
<1>13. KnownNames(l)'
  BY <1>2, <1>6, <1>7 DEF KnownNames, Named, Clean
<1>14. \A k \in Late \cup {"reservation"} : <<k, l>> \in result'[r] => k = "database"
  BY <1>7
<1>15. Leaves(r, l)
  BY <1>2, <1>4, <1>6, <1>7, <1>12, <1>13, <1>14 DEF Leaves, Early, Means, Late
<1>16. Keeps(r)
  BY <1>2 DEF Keeps, Revoking
<1>17. QED
  BY <1>8, <1>9, <1>11, <1>15, <1>16, MovesStep

\* An exported directory is registered under the reservation that it used.
LEMMA ExportSucceedsStep ==
  ASSUME ManagerInvariant, NEW r \in Req, ExportSucceeds(r)
  PROVE  ManagerInvariant'
<1>1. /\ Typed /\ PoolTyped
      /\ Placed(r) /\ Argued(r) /\ Gated(r) /\ Resulting(r) /\ Stage(r) /\ InsideStage(r)
  BY RequestFacts
<1>2. /\ op[r] = "handoff" /\ at[r] = "creating" /\ at[r] \in Starting
      /\ "result" \in Places /\ Goes(r, "result")
      /\ UNCHANGED <<saysDisposed, database, cleanup, continuing, dbs, snaps, retained>>
      /\ UNCHANGED <<gate, baseClosed, pc, leases, active, watchers>>
  BY DEF ExportSucceeds, Step, Starting, Places, Goes, poolVars
<1>3. PICK l \in Req : l = Lease(r)
  BY <1>2, OwnFacts
<1>4. /\ Touches(r, l) /\ Own(r) /\ Early(l)
      /\ r \notin background /\ result[r] = {} /\ r \notin saysDisposed /\ gate[l] = NoReq
  BY <1>2, <1>3, OwnFacts
<1>5. /\ path' = path \cup {l} /\ reservations' = [reservations EXCEPT ![l] = "exported"]
      /\ result' = [result EXCEPT ![r] = {<<"lease", l>>}]
  BY <1>3 DEF ExportSucceeds
<1>6. Clean(l) /\ pc[l] = "held" /\ l \in leases /\ l \in active
  BY <1>1, <1>2, <1>3 DEF Stage
<1>7. /\ reservations'[l] = "exported" /\ result'[r] = {<<"lease", l>>}
      /\ \A m \in Req \ {l} : SameLease(m)
      /\ \A q \in Req \ {r} : result'[q] = result[q]
  BY <1>1, <1>2, <1>5 DEF SameLease, Typed
<1>8. /\ Moves(r, l) /\ at'[r] = "result" /\ op'[r] = op[r] /\ arg'[r] = arg[r] /\ told' = told
      /\ at' \in [Req -> Places] /\ Lease(r)' = Lease(r)
      /\ r \in background' <=> r \in background
      /\ UNCHANGED <<op, arg, background, told, host, exitErr>>
  <2>1. \A x \in result'[r] \ result[r] : x[2] = l
    BY <1>7
  <2>2. QED
    BY <1>1, <1>2, <1>4, <1>7, <2>1, GoesMoves
<1>9. Typed' /\ PoolTyped'
  <2>1. result' \in [Req -> SUBSET (Kinds \X Req)]
    BY <1>1, <1>5 DEF Typed, Kinds
  <2>2. QED
    BY <1>1, <1>2, <1>5, <1>8, <2>1 DEF Typed, PoolTyped
<1>10. Placed(r)' /\ Resulting(r)' /\ InsideStage(r)' /\ Gated(r)' /\ Stage(r)'
  BY <1>1, <1>2, <1>4, <1>8
  DEF Placed, Resulting, Inside, InsideStage, Gated, Stage, Making, Starting, Failed
<1>11. Works(r, l)
  BY <1>2, <1>4, <1>8, <1>10 DEF Works, Inside, Failed, Starting
<1>12. Slot(l)' /\ Registry(l)' /\ Registered(l)' /\ Holder(l)'
  BY <1>2, <1>4, <1>5, <1>6, <1>7
  DEF Slot, Registry, Registered, Holder, HasResources, Clean
<1>13. KnownNames(l)'
  BY <1>2, <1>6, <1>7 DEF KnownNames, Named, Clean
<1>14. \A k \in Late \cup {"reservation"} : <<k, l>> \in result'[r] => k = "lease"
  BY <1>7
<1>15. Leaves(r, l)
  BY <1>2, <1>4, <1>6, <1>7, <1>12, <1>13, <1>14 DEF Leaves, Early, Means, Late, IsExport, Clean
<1>16. Keeps(r)
  BY <1>2 DEF Keeps, Revoking
<1>17. QED
  BY <1>8, <1>9, <1>11, <1>15, <1>16, MovesStep

\* A failed startup or export may leave an owner for what it could not dispose of.
LEMMA CreateFailsStep ==
  ASSUME ManagerInvariant, NEW r \in Req, CreateFails(r)
  PROVE  ManagerInvariant'
<1>1. /\ Typed /\ PoolTyped
      /\ Placed(r) /\ Argued(r) /\ Gated(r) /\ Resulting(r) /\ Stage(r) /\ InsideStage(r)
  BY RequestFacts
<1>2. /\ at[r] = "creating" /\ at[r] \in Starting /\ "startFailed" \in Places
      /\ Goes(r, "startFailed")
      /\ UNCHANGED <<result, saysDisposed, database, reservations, dbs, snaps, retained>>
      /\ UNCHANGED <<gate, baseClosed, pc, leases, active, watchers>>
  BY DEF CreateFails, Step, Starting, Places, Goes, poolVars, resultVars, mapVars
<1>3. PICK l \in Req : l = Lease(r)
  BY <1>2, OwnFacts
<1>4. /\ Touches(r, l) /\ Own(r) /\ Early(l) /\ op[r] \in {"start", "fork", "handoff"}
      /\ r \notin background /\ result[r] = {} /\ r \notin saysDisposed /\ gate[l] = NoReq
  BY <1>2, <1>3, OwnFacts
<1>5. /\ cleanup' = cleanup /\ continuing' = continuing /\ path' = path
      \/ /\ cleanup' \in {[cleanup EXCEPT ![l] = c] :
                            c \in IF op[r] = "handoff" THEN {"removal"} ELSE {"startup", "closing"}}
         /\ continuing' = continuing \cup {l}
         /\ path' = IF op[r] = "handoff" THEN path \cup {l} ELSE path
  BY <1>3 DEF CreateFails
<1>6. /\ Clean(l)
      /\ op[r] = "start" => pc[l] = "idle"
      /\ op[r] # "start" => pc[l] = "held" /\ l \in leases /\ l \in active
      /\ reservations[l] = IF op[r] = "handoff" THEN "starting" ELSE "none"
  BY <1>1, <1>2, <1>3 DEF Stage
<1>7. /\ \A m \in Req \ {l} : SameLease(m)
      /\ cleanup' \in [Req -> Owned \cup {"none", "done"}]
      /\ continuing' \subseteq Req /\ path' \subseteq Req
      /\ \/ cleanup'[l] = "none" /\ l \notin continuing' /\ l \notin path'
         \/ op[r] = "handoff" /\ cleanup'[l] = "removal"
         \/ op[r] # "handoff" /\ cleanup'[l] \in {"startup", "closing"} /\ l \notin path'
  BY <1>1, <1>2, <1>5, <1>6 DEF SameLease, Typed, Owned, Clean
<1>8. /\ Moves(r, l) /\ at'[r] = "startFailed" /\ op'[r] = op[r] /\ arg'[r] = arg[r]
      /\ at' \in [Req -> Places] /\ Lease(r)' = Lease(r) /\ told' = told
      /\ r \in background' <=> r \in background
      /\ UNCHANGED <<op, arg, background, told, host, exitErr>>
  BY <1>1, <1>2, <1>7, GoesMoves
<1>9. Typed' /\ PoolTyped'
  BY <1>1, <1>2, <1>7, <1>8 DEF Typed, PoolTyped
<1>10. Placed(r)' /\ Resulting(r)' /\ InsideStage(r)' /\ Gated(r)'
  BY <1>1, <1>2, <1>4, <1>8 DEF Placed, Resulting, Inside, InsideStage, Gated
<1>11. Stage(r)'
  BY <1>2, <1>3, <1>4, <1>6, <1>7, <1>8 DEF Stage, Making, Starting, Failed, Clean
<1>12. Works(r, l)
  BY <1>2, <1>3, <1>4, <1>8, <1>10, <1>11 DEF Works, Inside, Failed
<1>13. Slot(l)' /\ Registry(l)' /\ Holder(l)'
  <2>1. Slot(l)'
    BY <1>2, <1>6, LeaseFacts DEF Slot, HasResources, Clean
  <2>2. Registry(l)'
    BY <1>2, <1>6, <1>7 DEF Registry, Clean
  <2>3. Holder(l)'
    BY <1>2, <1>4 DEF Holder
  <2>4. QED
    BY <2>1, <2>2, <2>3
<1>14. Registered(l)' /\ KnownNames(l)'
  BY <1>2, <1>3, <1>6, <1>8 DEF Registered, KnownNames, Failed, Clean
<1>15. Leaves(r, l)
  BY <1>2, <1>4, <1>13, <1>14 DEF Leaves, Early, Means, Late
<1>16. Keeps(r)
  BY <1>2 DEF Keeps, Revoking
<1>17. QED
  BY <1>8, <1>9, <1>12, <1>15, <1>16, MovesStep

\* settleStartup gives the slot back, or has the pool track the owner.
LEMMA StartSettlesStep ==
  ASSUME ManagerInvariant, NEW r \in Req, StartSettles(r)
  PROVE  ManagerInvariant'
<1>1. /\ Typed /\ PoolTyped
      /\ Placed(r) /\ Argued(r) /\ Gated(r) /\ Resulting(r) /\ Stage(r) /\ InsideStage(r)
  BY RequestFacts
<1>2. /\ at[r] = "startFailed" /\ at[r] \in Starting /\ "retaining" \in Places
      /\ Goes(r, "retaining")
      /\ UNCHANGED <<result, saysDisposed, database, cleanup, continuing, path, dbs, snaps>>
      /\ UNCHANGED <<retained, gate, baseClosed, pc>>
  BY DEF StartSettles, Step, Starting, Places, Goes, resultVars, ownVars
<1>3. PICK l \in Req : l = Lease(r)
  BY <1>2, OwnFacts
<1>4. /\ Touches(r, l) /\ Own(r) /\ Early(l) /\ op[r] \in {"start", "fork", "handoff"}
      /\ r \notin background /\ result[r] = {} /\ r \notin saysDisposed /\ gate[l] = NoReq
      /\ database[l] = "none" /\ l \notin dbs /\ l \notin retained
  BY <1>2, <1>3, OwnFacts
<1>5. Slot(l) /\ Registry(l)
  BY LeaseFacts
<1>6. /\ cleanup[l] = "none" => l \notin path
      /\ pc[l] \in {"idle", "held"}
  BY <1>1, <1>2, <1>3 DEF Stage, Failed
<1>7. /\ reservations' = [reservations EXCEPT ![l] = "none"]
      /\ \/ /\ PendingCleanup(l)
            /\ leases' = leases
            /\ active' \in {active, active \cup {l}}
            /\ watchers' \in {watchers, watchers \cup {l}}
         \/ /\ ~PendingCleanup(l)
            /\ leases' = leases \ {l} /\ active' = active /\ watchers' = watchers
  BY <1>3, PoolEffects DEF StartSettles
<1>8. reservations'[l] = "none" /\ \A m \in Req \ {l} : SameLease(m)
  BY <1>1, <1>2, <1>7 DEF SameLease, Typed
<1>9. /\ Moves(r, l) /\ at'[r] = "retaining" /\ op'[r] = op[r] /\ arg'[r] = arg[r]
      /\ at' \in [Req -> Places] /\ Lease(r)' = Lease(r) /\ told' = told
      /\ r \in background' <=> r \in background
      /\ UNCHANGED <<op, arg, background, told, host, exitErr>>
  BY <1>1, <1>2, <1>8, GoesMoves
<1>10. Typed' /\ PoolTyped'
  BY <1>1, <1>2, <1>7, <1>9 DEF Typed, PoolTyped
<1>11. Placed(r)' /\ Resulting(r)' /\ InsideStage(r)' /\ Gated(r)'
  BY <1>1, <1>2, <1>4, <1>9 DEF Placed, Resulting, Inside, InsideStage, Gated
<1>12. Stage(r)'
  BY <1>2, <1>3, <1>4, <1>6, <1>8, <1>9 DEF Stage, Making, Starting, Failed
<1>13. Works(r, l)
  BY <1>2, <1>3, <1>4, <1>9, <1>11, <1>12 DEF Works, Inside, Failed
<1>14. Slot(l)'
  <2>1. CASE PendingCleanup(l)
    BY <1>2, <1>5, <1>6, <1>7, <2>1 DEF Slot, HasResources, PendingCleanup
  <2>2. CASE ~PendingCleanup(l)
    <3>1. ~HasResources(l)
      BY <1>1, <1>4, <1>5, <1>6, <2>2
      DEF HasResources, PendingCleanup, Owned, Registry, Typed
    <3>2. QED
      BY <1>2, <1>5, <1>6, <1>7, <2>2, <3>1 DEF Slot, HasResources
  <2>3. QED
    BY <2>1, <2>2
<1>15. Registry(l)' /\ Holder(l)'
  BY <1>2, <1>4, <1>5, <1>7, <1>8 DEF Registry, Holder, PendingCleanup, Owned
<1>16. Registered(l)' /\ KnownNames(l)'
  BY <1>2, <1>3, <1>4, <1>8, <1>9 DEF Registered, KnownNames, Failed
<1>17. Leaves(r, l)
  BY <1>2, <1>4, <1>8, <1>14, <1>15, <1>16 DEF Leaves, Early, Means, Late
<1>18. Keeps(r)
  BY <1>2 DEF Keeps, Revoking
<1>19. QED
  BY <1>9, <1>10, <1>13, <1>17, <1>18, MovesStep

\* retainFailure keeps the error and names a token while the cleanup is pending.
LEMMA RetainFailureStep ==
  ASSUME ManagerInvariant, NEW r \in Req, RetainFailure(r)
  PROVE  ManagerInvariant'
<1>1. /\ Typed /\ PoolTyped
      /\ Placed(r) /\ Argued(r) /\ Gated(r) /\ Resulting(r) /\ Stage(r) /\ InsideStage(r)
  BY RequestFacts
<1>2. /\ at[r] = "retain" /\ at[r] \in Starting /\ "result" \in Places
      /\ Goes(r, "result")
      /\ UNCHANGED <<saysDisposed, database, cleanup, continuing, path, reservations, dbs, snaps>>
      /\ UNCHANGED <<gate, baseClosed, pc, leases, active, watchers>>
  BY DEF RetainFailure, Step, Starting, Places, Goes, ownVars, poolVars
<1>3. PICK l \in Req : l = Lease(r)
  BY <1>2, OwnFacts
<1>4. /\ Touches(r, l) /\ Own(r) /\ Early(l) /\ op[r] \in {"start", "fork", "handoff"}
      /\ r \notin background /\ result[r] = {} /\ gate[l] = NoReq
      /\ database[l] = "none" /\ l \notin dbs /\ l \notin retained
  BY <1>2, <1>3, OwnFacts
<1>5. Slot(l) /\ Registry(l)
  BY LeaseFacts
<1>6. /\ cleanup[l] = "none" => l \notin path
      /\ reservations[l] = "none"
  BY <1>1, <1>2, <1>3 DEF Stage, Failed
<1>7. \/ /\ PendingCleanup(l)
         /\ retained' = retained \cup {l}
         /\ result' = [result EXCEPT ![r] = {<<"token", l>>}]
      \/ /\ ~PendingCleanup(l)
         /\ retained' = retained /\ result' = result
  BY <1>3 DEF RetainFailure
<1>8. /\ result'[r] \in {{}, {<<"token", l>>}}
      /\ l \in retained' => result'[r] = {<<"token", l>>} /\ cleanup[l] # "none"
      /\ result'[r] # {} => cleanup[l] # "none"
      /\ \A m \in Req \ {l} : SameLease(m)
      /\ \A q \in Req \ {r} : result'[q] = result[q]
  BY <1>1, <1>2, <1>4, <1>7 DEF SameLease, Typed, PendingCleanup, Owned
<1>9. /\ Moves(r, l) /\ at'[r] = "result" /\ op'[r] = op[r] /\ arg'[r] = arg[r]
      /\ at' \in [Req -> Places] /\ Lease(r)' = Lease(r) /\ told' = told
      /\ r \in background' <=> r \in background
      /\ UNCHANGED <<op, arg, background, told, host, exitErr>>
  <2>1. \A x \in result'[r] \ result[r] : x[2] = l
    BY <1>8
  <2>2. QED
    BY <1>1, <1>2, <1>4, <1>8, <2>1, GoesMoves
<1>10. Typed' /\ PoolTyped'
  <2>1. result' \in [Req -> SUBSET (Kinds \X Req)]
    BY <1>1, <1>7 DEF Typed, Kinds
  <2>2. retained' \subseteq Req
    BY <1>1, <1>7 DEF Typed
  <2>3. QED
    BY <1>1, <1>2, <1>9, <2>1, <2>2 DEF Typed, PoolTyped
<1>11. Placed(r)' /\ InsideStage(r)' /\ Gated(r)' /\ Stage(r)'
  BY <1>1, <1>2, <1>4, <1>9
  DEF Placed, Inside, InsideStage, Gated, Stage, Making, Starting, Failed
<1>12. Resulting(r)'
  <2>1. \A x \in result'[r] : x[1] \notin DOMAIN Undo
    BY <1>8 DEF Undo
  <2>2. QED
    BY <1>4, <1>9, <2>1 DEF Resulting
<1>13. Works(r, l)
  BY <1>2, <1>3, <1>4, <1>9, <1>11, <1>12 DEF Works, Inside, Failed, Starting
<1>14. Slot(l)' /\ Registry(l)' /\ Holder(l)'
  BY <1>2, <1>4, <1>5, <1>6, <1>8 DEF Slot, Registry, Holder, HasResources, Clean
<1>15. Registered(l)'
  <2>1. ~PendingCleanup(l) => l \notin path /\ cleanup[l] \notin {"startup", "closing"}
    BY <1>1, <1>5, <1>6 DEF PendingCleanup, Owned, Registry, Typed
  <2>2. PendingCleanup(l) => l \in retained'
    BY <1>7
  <2>3. QED
    BY <1>2, <2>1, <2>2 DEF Registered
<1>16. KnownNames(l)'
  BY <1>2, <1>4, <1>6, <1>8 DEF KnownNames, Named
<1>17. \A k \in Late \cup {"reservation"} :
         <<k, l>> \in result'[r] => k = "token" /\ cleanup[l] # "none"
  BY <1>8
<1>18. Leaves(r, l)
  BY <1>2, <1>4, <1>6, <1>8, <1>14, <1>15, <1>16, <1>17
  DEF Leaves, Early, Means, Late, IsFailure
<1>19. Keeps(r)
  BY <1>2 DEF Keeps, Revoking
<1>20. QED
  BY <1>9, <1>10, <1>13, <1>18, <1>19, MovesStep
-----------------------------------------------------------------------------
(* Steps on a reservation, an exported directory or an unfinished cleanup  *)

\* What the name that a request uses stands for.
LEMMA NameFacts ==
  ASSUME ManagerInvariant, NEW r \in Req, NEW l \in Req, arg[r] = l
  PROVE  /\ op[r] \in {"handoff_release", "handoff_abandon"} => IsExport(l) /\ Touches(r, l)
         /\ op[r] = "cleanup_status" => IsFailure(l) /\ Touches(r, l)
         /\ op[r] \in {"snapshot", "db_close"} => database[l] # "none"
         /\ op[r] = "db_cleanup" => database[l] = "closed"
<1>1. KindOf(op[r]) \in Late \cup {"reservation"} => Means(KindOf(op[r]), l)
  BY DEF Uses, ManagerInvariant, Meanings
<1>2. QED
  BY <1>1 DEF KindOf, Late, Means, Touches, DatabaseOps

\* fork_reserve takes a slot without waiting.
LEMMA ReserveSlotStep ==
  ASSUME ManagerInvariant, NEW r \in Req, ReserveSlot(r)
  PROVE  ManagerInvariant'
<1>1. /\ Typed /\ PoolTyped
      /\ Placed(r) /\ Argued(r) /\ Gated(r) /\ Resulting(r) /\ Stage(r) /\ InsideStage(r)
  BY RequestFacts
<1>2. /\ op[r] = "fork_reserve" /\ at[r] = "begun" /\ arg[r] = NoReq
      /\ {"insert", "result"} \subseteq Places
      /\ UNCHANGED <<result, saysDisposed, database, cleanup, continuing, path>>
      /\ UNCHANGED <<reservations, dbs, snaps, retained, gate, baseClosed>>
  BY <1>1 DEF ReserveSlot, Step, Places, Argued, resultVars, ownVars, mapVars
<1>3. /\ Making(r) /\ Own(r) /\ Lease(r) = r /\ Fresh(r) /\ Touches(r, r)
      /\ result[r] = {} /\ r \notin background /\ r \notin saysDisposed
  BY <1>1, <1>2, OwnLease DEF Making, Own, Lease, Starting, Touches, Resulting
<1>4. Clean(r) /\ pc[r] = "idle" /\ reservations[r] = "none" /\ r \notin active
  BY <1>1, <1>2, <1>3 DEF Stage
<1>5. CASE Goes(r, "result") /\ UNCHANGED poolVars
  <2>1. Only(r, "result")
    BY <1>2, <1>5 DEF Only, poolVars, ownVars
  <2>2. /\ Typed' /\ PoolTyped' /\ Moves(r, r) /\ SameLease(r)
        /\ at'[r] = "result" /\ result'[r] = result[r] /\ op'[r] = op[r] /\ arg'[r] = arg[r]
        /\ r \in background' <=> r \in background
        /\ Lease(r)' = Lease(r) /\ told' = told
    BY <1>1, <1>2, <2>1, OnlyMoves DEF Typed
  <2>3. Placed(r)' /\ Resulting(r)' /\ InsideStage(r)' /\ Stage(r)'
    BY <1>1, <1>2, <1>3, <2>2
    DEF Placed, Resulting, Inside, InsideStage, Stage, Making, Starting, Failed
  <2>4. Quiet(r, r)
    BY <1>2, <1>3, <2>2, <2>3 DEF Quiet, Inside, Failed, Starting
  <2>5. Keeps(r) /\ (at'[r] \in Inside => at[r] \in Inside)
    BY <1>2, <2>2 DEF Keeps, Revoking, Inside
  <2>6. QED
    BY <2>2, <2>4, <2>5, QuietStep
<1>6. CASE Goes(r, "insert") /\ Pool!Verdict(FALSE) = "ok" /\ Pool!TryAcquire(r, FALSE)
  <2>1. /\ pc' = [pc EXCEPT ![r] = "held"] /\ leases' = leases \cup {r}
        /\ UNCHANGED <<active, watchers>>
    BY <1>6 DEF Pool!TryAcquire, Pool!Goto, Pool!Admit
  <2>2. pc'[r] = "held" /\ \A m \in Req \ {r} : SameLease(m)
    BY <1>1, <1>2, <2>1 DEF SameLease, PoolTyped
  <2>3. /\ Moves(r, r) /\ at'[r] = "insert" /\ op'[r] = op[r] /\ arg'[r] = arg[r]
        /\ at' \in [Req -> Places] /\ Lease(r)' = Lease(r) /\ told' = told
        /\ r \in background' <=> r \in background
        /\ UNCHANGED <<op, arg, background, told, host, exitErr>>
    BY <1>1, <1>2, <1>6, <2>2, GoesMoves
  <2>4. Typed' /\ PoolTyped'
    BY <1>1, <1>2, <2>1, <2>3 DEF Typed, PoolTyped, Pool!Locations
  <2>5. Placed(r)' /\ Resulting(r)' /\ InsideStage(r)' /\ Gated(r)'
    BY <1>1, <1>2, <1>3, <2>3 DEF Placed, Resulting, Inside, InsideStage, Gated
  <2>6. Clean(r)' /\ reservations'[r] = "none" /\ r \notin active'
    BY <1>2, <1>4, <2>1 DEF Clean
  <2>7. Stage(r)'
    BY <1>2, <1>3, <2>2, <2>3, <2>6 DEF Stage, Making, Starting, Failed
  <2>8. Works(r, r)
    BY <1>2, <1>3, <2>3, <2>5, <2>7 DEF Works, Inside, Failed, Starting
  <2>9. Slot(r)' /\ Registry(r)' /\ Registered(r)' /\ KnownNames(r)'
    BY <2>2, <2>6 DEF Slot, Registry, Registered, KnownNames, HasResources, Clean
  <2>10. Holder(r)'
    BY <1>2, <1>4, NoGate DEF Holder, Clean
  <2>11. Leaves(r, r)
    BY <1>2, <1>3, <2>6, <2>9, <2>10 DEF Leaves, Fresh, Early
  <2>12. Keeps(r)
    BY <1>2 DEF Keeps, Revoking
  <2>13. QED
    BY <2>3, <2>4, <2>8, <2>11, <2>12, MovesStep
<1>7. QED
  BY <1>2, <1>5, <1>6 DEF ReserveSlot, Step, Goes

\* The reservation is inserted and its token becomes the result.
LEMMA ReserveInsertsStep ==
  ASSUME ManagerInvariant, NEW r \in Req, ReserveInserts(r)
  PROVE  ManagerInvariant'
<1>1. /\ Typed /\ PoolTyped
      /\ Placed(r) /\ Argued(r) /\ Gated(r) /\ Resulting(r) /\ Stage(r) /\ InsideStage(r)
  BY RequestFacts
<1>2. /\ at[r] = "insert" /\ "result" \in Places /\ Goes(r, "result") /\ op[r] = "fork_reserve"
      /\ UNCHANGED <<saysDisposed, database, cleanup, continuing, path, dbs, snaps, retained>>
      /\ UNCHANGED <<gate, baseClosed, pc, leases, active, watchers>>
  BY <1>1 DEF ReserveInserts, Step, Places, Goes, poolVars, ownVars, Placed
<1>3. /\ Own(r) /\ Lease(r) = r /\ Fresh(r) /\ Touches(r, r)
      /\ result[r] = {} /\ r \notin background /\ r \notin saysDisposed
  BY <1>1, <1>2, OwnLease DEF Own, Starting, Touches, Resulting
<1>4. Clean(r) /\ pc[r] = "held" /\ reservations[r] = "none" /\ r \notin active
  BY <1>1, <1>2, <1>3 DEF Stage
<1>5. /\ reservations' = [reservations EXCEPT ![r] = "reserved"]
      /\ result' = [result EXCEPT ![r] = {<<"reservation", r>>}]
  BY DEF ReserveInserts
<1>6. /\ reservations'[r] = "reserved" /\ result'[r] = {<<"reservation", r>>}
      /\ \A m \in Req \ {r} : SameLease(m)
      /\ \A q \in Req \ {r} : result'[q] = result[q]
  BY <1>1, <1>2, <1>5 DEF SameLease, Typed
<1>7. /\ Moves(r, r) /\ at'[r] = "result" /\ op'[r] = op[r] /\ arg'[r] = arg[r] /\ told' = told
      /\ at' \in [Req -> Places] /\ Lease(r)' = Lease(r)
      /\ r \in background' <=> r \in background
      /\ UNCHANGED <<op, arg, background, told, host, exitErr>>
  <2>1. \A x \in result'[r] \ result[r] : x[2] = r
    BY <1>6
  <2>2. QED
    BY <1>1, <1>2, <1>3, <1>6, <2>1, GoesMoves
<1>8. Typed' /\ PoolTyped'
  <2>1. result' \in [Req -> SUBSET (Kinds \X Req)]
    BY <1>1, <1>5 DEF Typed, Kinds
  <2>2. QED
    BY <1>1, <1>2, <1>5, <1>7, <2>1 DEF Typed, PoolTyped
<1>9. Placed(r)' /\ Resulting(r)' /\ InsideStage(r)' /\ Gated(r)' /\ Stage(r)'
  BY <1>1, <1>2, <1>3, <1>7
  DEF Placed, Resulting, Inside, InsideStage, Gated, Stage, Making, Starting, Failed
<1>10. Works(r, r)
  BY <1>2, <1>3, <1>7, <1>9 DEF Works, Inside, Failed, Starting
<1>11. Clean(r)'
  BY <1>2, <1>4 DEF Clean
<1>12. Slot(r)' /\ Registry(r)' /\ Registered(r)'
  BY <1>2, <1>4, <1>6, <1>11 DEF Slot, Registry, Registered, HasResources, Clean
<1>13. Holder(r)'
  BY <1>2, <1>4, NoGate DEF Holder, Clean
<1>14. KnownNames(r)'
  BY <1>6, <1>11 DEF KnownNames, Named, Clean
<1>15. \A k \in Late \cup {"reservation"} : <<k, r>> \in result'[r] => k = "reservation"
  BY <1>6
<1>16. Leaves(r, r)
  BY <1>2, <1>3, <1>4, <1>12, <1>13, <1>14, <1>15 DEF Leaves, Fresh, Early, Means, Late
<1>17. Keeps(r)
  BY <1>2 DEF Keeps, Revoking
<1>18. QED
  BY <1>7, <1>8, <1>10, <1>16, <1>17, MovesStep

\* fork_cancel gives up a reservation that nothing claimed.
LEMMA ForkCancelStep ==
  ASSUME ManagerInvariant, NEW r \in Req, ForkCancel(r)
  PROVE  ManagerInvariant'
<1>1. /\ Typed /\ PoolTyped
      /\ Placed(r) /\ Argued(r) /\ Gated(r) /\ Resulting(r) /\ Stage(r) /\ InsideStage(r)
  BY RequestFacts
<1>2. PICK l \in Req : l = arg[r]
  BY <1>1 DEF ForkCancel, Argued
<1>3. /\ op[r] = "fork_cancel" /\ at[r] = "begun" /\ "result" \in Places /\ Goes(r, "result")
      /\ UNCHANGED <<result, database, cleanup, continuing, path>>
      /\ saysDisposed' \in {saysDisposed, saysDisposed \cup {r}}
      /\ UNCHANGED <<dbs, snaps, retained, gate, baseClosed>>
  BY DEF ForkCancel, SaysUnknown, Step, Places, Goes, ownVars
<1>4. /\ r \notin saysDisposed /\ (r \notin background => result[r] = {})
      /\ Keeps(r)
  BY <1>1, <1>3 DEF Resulting, Keeps, Revoking
<1>5. CASE reservations[l] # "reserved"
  <2>1. Only(r, "result") /\ reservations' = reservations
    BY <1>2, <1>3, <1>5 DEF ForkCancel, Only, poolVars, ownVars
  <2>2. /\ Typed' /\ PoolTyped' /\ Moves(r, l) /\ SameLease(l)
        /\ at'[r] = "result" /\ result'[r] = result[r] /\ op'[r] = op[r] /\ arg'[r] = arg[r]
        /\ r \in background' <=> r \in background
        /\ Lease(r)' = Lease(r) /\ told' = told
    BY <1>1, <1>3, <2>1, OnlyMoves DEF Typed
  <2>3. Placed(r)' /\ Resulting(r)' /\ InsideStage(r)' /\ Stage(r)'
    BY <1>1, <1>3, <1>4, <2>2
    DEF Placed, Resulting, Inside, InsideStage, Stage, Making, Starting, Failed
  <2>4. Quiet(r, l)
    BY <1>2, <1>3, <1>5, <2>2, <2>3 DEF Quiet, Inside, Failed, Starting
  <2>5. QED
    BY <1>4, <2>2, <2>4, QuietStep DEF Inside
<1>6. CASE reservations[l] = "reserved"
  <2>1. Clean(l) /\ l \notin active /\ pc[l] = "held" /\ Early(l) /\ gate[l] = NoReq
    BY <1>6, LeaseFacts, NoGate DEF Registry, Clean, ManagerInvariant, Naming
  <2>2. /\ reservations' = [reservations EXCEPT ![l] = "none"]
        /\ leases' = leases \ {l} /\ UNCHANGED <<active, watchers, pc>>
    BY <1>2, <1>6, <2>1, PoolEffects DEF ForkCancel
  <2>3. reservations'[l] = "none" /\ \A m \in Req \ {l} : SameLease(m)
    BY <1>1, <1>3, <2>2 DEF SameLease, Typed
  <2>4. /\ Moves(r, l) /\ at'[r] = "result" /\ op'[r] = op[r] /\ arg'[r] = arg[r]
        /\ at' \in [Req -> Places] /\ Lease(r)' = Lease(r) /\ told' = told
        /\ r \in background' <=> r \in background
        /\ UNCHANGED <<op, arg, background, told, host, exitErr>>
    BY <1>1, <1>3, <2>3, GoesMoves
  <2>5. Typed' /\ PoolTyped'
    BY <1>1, <1>3, <2>2, <2>4 DEF Typed, PoolTyped
  <2>6. Touches(r, l)
    BY <1>2, <1>3, <1>6 DEF Touches, KindOf
  <2>7. Placed(r)' /\ Resulting(r)' /\ InsideStage(r)' /\ Gated(r)' /\ Stage(r)'
    BY <1>1, <1>3, <1>4, <2>4
    DEF Placed, Resulting, Inside, InsideStage, Gated, Stage, Making, Starting, Failed
  <2>8. Works(r, l)
    BY <1>2, <1>3, <2>4, <2>6, <2>7 DEF Works, Inside, Failed, Starting
  <2>9. Clean(l)' /\ pc'[l] = "held" /\ l \notin active'
    BY <1>3, <2>1, <2>2 DEF Clean
  <2>10. Slot(l)' /\ Registry(l)' /\ Registered(l)' /\ KnownNames(l)' /\ Holder(l)'
    BY <1>3, <2>1, <2>2, <2>3, <2>9
    DEF Slot, Registry, Registered, KnownNames, Holder, HasResources, Clean
  <2>11. \A k \in Late : <<k, l>> \notin result'[r]
    BY <1>3, <2>1 DEF Early, Uses, Named
  <2>12. Leaves(r, l)
    BY <2>1, <2>3, <2>9, <2>10, <2>11 DEF Leaves, Early, Means, Late
  <2>13. QED
    BY <1>4, <2>4, <2>5, <2>8, <2>12, MovesStep
<1>7. QED
  BY <1>5, <1>6

\* handoff_abandon stops the pool and keeps the exported lease.
LEMMA HandoffAbandonStep ==
  ASSUME ManagerInvariant, NEW r \in Req, HandoffAbandon(r)
  PROVE  ManagerInvariant'
<1>1. /\ Typed /\ PoolTyped
      /\ Placed(r) /\ Argued(r) /\ Gated(r) /\ Resulting(r) /\ Stage(r) /\ InsideStage(r)
  BY RequestFacts
<1>2. PICK l \in Req : l = arg[r]
  BY <1>1 DEF HandoffAbandon, Argued
<1>3. /\ op[r] = "handoff_abandon" /\ at[r] = "begun" /\ "result" \in Places /\ Goes(r, "result")
      /\ UNCHANGED <<result, database, cleanup, continuing, path>>
      /\ saysDisposed' \in {saysDisposed, saysDisposed \cup {r}}
      /\ UNCHANGED <<reservations, dbs, snaps, retained, gate, baseClosed>>
  BY DEF HandoffAbandon, SaysUnknown, Step, Places, Goes, ownVars, mapVars
<1>4. /\ r \notin saysDisposed /\ r \notin background /\ result[r] = {}
      /\ Keeps(r) /\ IsExport(l) /\ Touches(r, l)
  BY <1>1, <1>2, <1>3, NameFacts DEF Resulting, Keeps, Revoking
<1>5. leases' = leases /\ active' \in {active, active \cup {l}} /\ UNCHANGED <<watchers, pc>>
  BY <1>2, PoolEffects DEF HandoffAbandon, poolVars
<1>6. \A m \in Req \ {l} : SameLease(m)
  BY <1>3, <1>5 DEF SameLease
<1>7. /\ Moves(r, l) /\ at'[r] = "result" /\ op'[r] = op[r] /\ arg'[r] = arg[r]
      /\ at' \in [Req -> Places] /\ Lease(r)' = Lease(r) /\ told' = told
      /\ r \in background' <=> r \in background
      /\ UNCHANGED <<op, arg, background, told, host, exitErr>>
  BY <1>1, <1>3, <1>6, GoesMoves
<1>8. Typed' /\ PoolTyped'
  BY <1>1, <1>3, <1>5, <1>7 DEF Typed, PoolTyped
<1>9. Placed(r)' /\ Resulting(r)' /\ InsideStage(r)' /\ Gated(r)' /\ Stage(r)'
  BY <1>1, <1>3, <1>4, <1>7
  DEF Placed, Resulting, Inside, InsideStage, Gated, Stage, Making, Starting, Failed
<1>10. Works(r, l)
  BY <1>2, <1>3, <1>4, <1>7, <1>9 DEF Works, Inside, Failed, Starting
<1>11. Slot(l)' /\ Registry(l)' /\ KnownNames(l)'
  <2>1. Slot(l)'
    BY <1>3, <1>4, <1>5, LeaseFacts DEF Slot, IsExport, HasResources
  <2>2. Registry(l)'
    BY <1>3, <1>4, <1>5, LeaseFacts DEF Registry, IsExport
  <2>3. reservations[l] = "exported" => Named("lease", l)
    BY LeaseFacts DEF KnownNames
  <2>4. Named("lease", l) => Named("lease", l)'
    BY <1>3, <1>7 DEF Named
  <2>5. KnownNames(l)'
    BY <1>3, <1>4, <2>3, <2>4 DEF KnownNames, IsExport
  <2>6. QED
    BY <2>1, <2>2, <2>5
<1>12. Holder(l)'
  BY <1>3, <1>4, NoGate DEF Holder, IsExport
<1>13. Registered(l)'
  <2>1. \A q \in Req : at[q] \in Failed /\ Lease(q) = l => at'[q] \in Failed /\ Lease(q)' = l
    BY <1>3, <1>7 DEF Failed, Moves, Local, SameReq, Lease
  <2>2. QED
    BY <1>3, <1>7, <2>1, LeaseFacts DEF Registered
<1>14. Leaves(r, l)
  BY <1>3, <1>4, <1>5, <1>11, <1>12, <1>13
  DEF Leaves, Means, Late, IsExport, IsFailure
<1>15. QED
  BY <1>4, <1>7, <1>8, <1>10, <1>14, MovesStep

\* A step after which l is registered as it was.
LEMMA StillRegistered ==
  ASSUME ManagerInvariant, NEW r \in Req, NEW l \in Req, Moves(r, l), at[r] \notin Failed,
         l \in path' => l \in path,
         cleanup'[l] \in {"startup", "closing"} => cleanup[l] \in {"startup", "closing"},
         l \in dbs => l \in dbs', l \in retained => l \in retained',
         reservations'[l] = reservations[l]
  PROVE  Registered(l)'
<1>1. \A q \in Req : at[q] \in Failed /\ Lease(q) = l => at'[q] \in Failed /\ Lease(q)' = l
  BY DEF Failed, Moves, Local, SameReq, Lease
<1>2. exitErr' = exitErr
  BY DEF Moves, hostVars
<1>3. QED
  BY <1>1, <1>2, LeaseFacts DEF Registered

\* handoff_release removes the directory and settles the slot, or leaves an owner.
LEMMA ReleaseRemovesStep ==
  ASSUME ManagerInvariant, NEW r \in Req, ReleaseRemoves(r)
  PROVE  ManagerInvariant'
<1>1. /\ Typed /\ PoolTyped
      /\ Placed(r) /\ Argued(r) /\ Gated(r) /\ Resulting(r) /\ Stage(r) /\ InsideStage(r)
  BY RequestFacts
<1>2. /\ op[r] = "handoff_release" /\ at[r] = "removing" /\ "result" \in Places
      /\ Goes(r, "result")
      /\ UNCHANGED <<result, database, dbs, snaps, retained, gate, baseClosed, pc>>
  BY <1>1 DEF ReleaseRemoves, Step, Places, Goes, Placed, poolVars
<1>3. PICK l \in Req : l = arg[r]
  BY <1>1, <1>2 DEF Argued
<1>4. /\ r \notin background => result[r] = {}
      /\ r \notin saysDisposed /\ Keeps(r) /\ IsExport(l) /\ Touches(r, l)
  BY <1>1, <1>2, <1>3, NameFacts DEF Resulting, Keeps, Revoking
<1>5. Slot(l) /\ Registry(l) /\ KnownNames(l) /\ Registered(l)
  BY LeaseFacts
<1>6. \/ /\ path' = path \ {l}
         /\ leases' = leases \ {l} /\ UNCHANGED <<active, watchers, cleanup, continuing>>
         /\ reservations' = [reservations EXCEPT ![l] = "none"]
         /\ saysDisposed' = saysDisposed \cup {r}
      \/ /\ l \in path /\ cleanup' = [cleanup EXCEPT ![l] = "removal"]
         /\ continuing' = continuing \cup {l}
         /\ leases' = leases /\ active' \in {active, active \cup {l}}
         /\ watchers' \in {watchers, watchers \cup {l}}
         /\ UNCHANGED <<path, reservations, saysDisposed>>
      \/ /\ l \in path /\ path' \in {path, path \ {l}}
         /\ UNCHANGED <<leases, active, watchers, cleanup, continuing, reservations>>
         /\ saysDisposed' = saysDisposed
  BY <1>3, PoolEffects DEF ReleaseRemoves, poolVars
<1>7. /\ \A m \in Req \ {l} : SameLease(m)
      /\ \A q \in Req \ {r} : q \in saysDisposed' <=> q \in saysDisposed
  BY <1>1, <1>2, <1>6 DEF SameLease, Typed
<1>8. /\ Moves(r, l) /\ at'[r] = "result" /\ op'[r] = op[r] /\ arg'[r] = arg[r]
      /\ at' \in [Req -> Places] /\ Lease(r)' = Lease(r) /\ told' = told
      /\ r \in background' <=> r \in background
      /\ UNCHANGED <<op, arg, background, told, host, exitErr>>
  BY <1>1, <1>2, <1>7, GoesMoves
<1>9. Typed' /\ PoolTyped'
  <2>1. /\ cleanup' \in [Req -> Owned \cup {"none", "done"}]
        /\ reservations' \in [Req -> {"none", "reserved", "starting", "exported"}]
        /\ continuing' \subseteq Req /\ path' \subseteq Req /\ saysDisposed' \subseteq Req
    BY <1>1, <1>6 DEF Typed, Owned
  <2>2. leases' \subseteq Req /\ active' \subseteq Req /\ watchers' \subseteq Req
    BY <1>1, <1>6 DEF PoolTyped
  <2>3. QED
    BY <1>1, <1>2, <1>8, <2>1, <2>2 DEF Typed, PoolTyped
<1>10. Placed(r)' /\ InsideStage(r)' /\ Gated(r)' /\ Stage(r)'
  BY <1>1, <1>2, <1>8
  DEF Placed, Inside, InsideStage, Gated, Stage, Making, Starting, Failed
<1>11. Resulting(r)'
  BY <1>1, <1>2, <1>4, <1>8 DEF Resulting
<1>12. Works(r, l)
  BY <1>2, <1>3, <1>4, <1>8, <1>10, <1>11 DEF Works, Inside, Failed, Starting
<1>13. /\ cleanup'[l] \in {"none", "removal", "done"}
       /\ cleanup[l] # "none" => cleanup'[l] # "none"
       /\ l \in path' => l \in path
       /\ \/ reservations'[l] = reservations[l]
          \/ reservations'[l] = "none" /\ l \notin path'
       /\ l \in path /\ l \in leases => l \in leases' \/ l \notin path'
       /\ l \in active => l \in active'
  BY <1>1, <1>4, <1>6 DEF IsExport, Typed
<1>14. Slot(l)'
  BY <1>2, <1>4, <1>5, <1>6, <1>13 DEF Slot, HasResources, IsExport
<1>15. Registry(l)'
  <2>1. CASE cleanup' = cleanup /\ continuing' = continuing /\ watchers' = watchers
    BY <1>2, <1>4, <1>5, <1>6, <1>13, <2>1 DEF Registry, IsExport, Clean
  <2>2. CASE cleanup'[l] = "removal" /\ reservations' = reservations /\ path' = path
    BY <1>2, <1>4, <1>5, <1>13, <2>2 DEF Registry, IsExport
  <2>3. QED
    BY <1>1, <1>6, <2>1, <2>2 DEF Typed
<1>16. Holder(l)'
  BY <1>2, <1>4, NoGate DEF Holder, IsExport
<1>17. Registered(l)'
  <2>1. CASE l \in path'
    <3>1. reservations'[l] = reservations[l]
      BY <1>13, <2>1
    <3>2. QED
      BY <1>2, <1>8, <1>13, <3>1, StillRegistered DEF Failed
  <2>2. CASE l \notin path'
    BY <1>13, <2>2 DEF Registered
  <2>3. QED
    BY <2>1, <2>2
<1>18. KnownNames(l)'
  <2>1. Named("lease", l) => Named("lease", l)'
    BY <1>2, <1>8 DEF Named
  <2>2. QED
    BY <1>2, <1>4, <1>5, <1>13, <2>1 DEF KnownNames, IsExport
<1>19. \A k \in Late \cup {"reservation"} : Means(k, l) => Means(k, l)'
  BY <1>2, <1>4, <1>13 DEF Means, Late, IsExport, IsFailure
<1>20. \A k \in Late \cup {"reservation"} : <<k, l>> \in result'[r] => Means(k, l)
  BY <1>2 DEF ManagerInvariant, Meanings, Uses, Named
<1>21. Leaves(r, l)
  BY <1>13, <1>14, <1>15, <1>16, <1>17, <1>18, <1>19, <1>20 DEF Leaves
<1>22. QED
  BY <1>4, <1>8, <1>9, <1>12, <1>21, MovesStep

\* What a failed retry does to the owner of l.
LEMMA RetryEffects ==
  ASSUME Typed, NEW l \in Req, RetryFails(l)
  PROVE  /\ PendingCleanup(l) /\ cleanup' \in [Req -> Owned \cup {"none", "done"}]
         /\ \A m \in Req \ {l} : cleanup'[m] = cleanup[m]
         /\ cleanup'[l] = cleanup[l] \/ (cleanup[l] = "startup" /\ cleanup'[l] = "closing")
BY DEF Typed, RetryFails, Owned

\* cleanup_status retries what a failed startup left and forgets it when it is done.
LEMMA CleanupStatusStep ==
  ASSUME ManagerInvariant, NEW r \in Req, CleanupStatus(r)
  PROVE  ManagerInvariant'
<1>1. /\ Typed /\ PoolTyped
      /\ Placed(r) /\ Argued(r) /\ Gated(r) /\ Resulting(r) /\ Stage(r) /\ InsideStage(r)
  BY RequestFacts
<1>2. /\ op[r] = "cleanup_status" /\ at[r] = "begun" /\ "result" \in Places
      /\ Goes(r, "result")
      /\ UNCHANGED <<result, database, continuing, reservations, dbs, snaps, gate, baseClosed>>
      /\ UNCHANGED <<pc, leases, active, watchers>>
  BY <1>1 DEF CleanupStatus, Step, Places, Goes, poolVars
<1>3. PICK l \in Req : l = arg[r]
  BY <1>1, <1>2 DEF Argued
<1>4. /\ r \notin background /\ result[r] = {}
      /\ r \notin saysDisposed /\ Keeps(r) /\ IsFailure(l) /\ Touches(r, l)
  BY <1>1, <1>2, <1>3, NameFacts DEF Resulting, Keeps, Revoking
<1>5. Slot(l) /\ Registry(l) /\ KnownNames(l) /\ Registered(l)
  BY LeaseFacts
<1>6. \/ /\ cleanup' = [cleanup EXCEPT ![l] = "done"]
         /\ path' = path \ {l} /\ retained' = retained \ {l}
         /\ saysDisposed' = saysDisposed \cup {r}
      \/ RetryFails(l) /\ path' = path /\ retained' = retained /\ saysDisposed' = saysDisposed
  BY <1>3 DEF CleanupStatus
<1>7. /\ cleanup' \in [Req -> Owned \cup {"none", "done"}]
      /\ path' \subseteq Req /\ retained' \subseteq Req /\ saysDisposed' \subseteq Req
      /\ \A m \in Req \ {l} : SameLease(m)
      /\ \A q \in Req \ {r} : q \in saysDisposed' <=> q \in saysDisposed
  BY <1>1, <1>2, <1>6, RetryEffects DEF SameLease, Typed
<1>8. /\ Moves(r, l) /\ at'[r] = "result" /\ op'[r] = op[r] /\ arg'[r] = arg[r]
      /\ at' \in [Req -> Places] /\ Lease(r)' = Lease(r) /\ told' = told
      /\ r \in background' <=> r \in background
      /\ UNCHANGED <<op, arg, background, told, host, exitErr>>
  BY <1>1, <1>2, <1>7, GoesMoves
<1>9. Typed' /\ PoolTyped'
  BY <1>1, <1>2, <1>7, <1>8 DEF Typed, PoolTyped
<1>10. Placed(r)' /\ InsideStage(r)' /\ Gated(r)' /\ Stage(r)' /\ Resulting(r)'
  BY <1>1, <1>2, <1>4, <1>8
  DEF Placed, Inside, InsideStage, Gated, Stage, Making, Starting, Failed, Resulting
<1>11. Works(r, l)
  BY <1>2, <1>3, <1>4, <1>8, <1>10 DEF Works, Inside, Failed, Starting
<1>12. /\ \/ cleanup'[l] = "done" /\ l \notin path' /\ l \notin retained'
          \/ /\ cleanup'[l] = cleanup[l] \/ (cleanup[l] = "startup" /\ cleanup'[l] = "closing")
             /\ path' = path /\ retained' = retained
       /\ cleanup'[l] # "none"
  BY <1>1, <1>4, <1>6, RetryEffects DEF IsFailure, Typed
<1>13. Slot(l)'
  BY <1>2, <1>4, <1>5, <1>12 DEF Slot, HasResources, IsFailure, Clean
<1>14. Registry(l)'
  BY <1>2, <1>4, <1>5, <1>12 DEF Registry, IsFailure
<1>15. Holder(l)'
  BY <1>2, <1>4, NoGate DEF Holder, IsFailure
<1>16. Registered(l)'
  <2>1. CASE cleanup'[l] = "done" /\ l \notin path'
    BY <2>1 DEF Registered
  <2>2. CASE path' = path /\ retained' = retained
             /\ (cleanup'[l] = cleanup[l] \/ cleanup[l] = "startup")
    BY <1>2, <1>8, <2>2, StillRegistered DEF Failed
  <2>3. QED
    BY <1>12, <2>1, <2>2
<1>17. KnownNames(l)'
  <2>1. Named("token", l) => Named("token", l)'
    BY <1>2, <1>8 DEF Named
  <2>2. QED
    BY <1>2, <1>4, <1>5, <1>12, <2>1 DEF KnownNames, IsFailure
<1>18. \A k \in Late \cup {"reservation"} : Means(k, l) /\ Uses(k, l) => Means(k, l)'
  <2>1. IsFailure(l)'
    BY <1>2, <1>4, <1>12 DEF IsFailure
  <2>2. IsExport(l) => IsExport(l)'
    BY <1>2, <1>12 DEF IsExport
  <2>3. QED
    BY <1>2, <2>1, <2>2 DEF Means
<1>19. Leaves(r, l)
  BY <1>2, <1>4, <1>13, <1>14, <1>15, <1>16, <1>17, <1>18 DEF Leaves
<1>20. QED
  BY <1>4, <1>8, <1>9, <1>11, <1>19, MovesStep

\* Acquire changes only the lease it acquires.
LEMMA AcquireEffects ==
  ASSUME PoolTyped, NEW r \in Req, Pool!AcquireBegin(r) \/ Pool!AcquireStep(r)
  PROVE  /\ UNCHANGED <<active, watchers>>
         /\ \E p \in Pool!Locations \ {"idle"} : pc' = [pc EXCEPT ![r] = p]
         /\ leases' \subseteq leases \cup {r} /\ leases \ {r} \subseteq leases'
         /\ (r \in leases => pc[r] = "granted") => (r \in leases' => pc'[r] \in {"granted", "held"})
<1>1. CASE Pool!AcquireBegin(r)
  BY <1>1 DEF PoolTyped, Pool!AcquireBegin, Pool!Goto, Pool!poolVars, Pool!Locations
<1>2. CASE Pool!AcquireCheckContext(r)
  BY <1>2 DEF PoolTyped, Pool!AcquireCheckContext, Pool!Goto, Pool!poolVars, Pool!Locations
<1>3. CASE Pool!AcquireAdmit(r)
  BY <1>3 DEF PoolTyped, Pool!AcquireAdmit, Pool!Goto, Pool!poolVars, Pool!Locations, Pool!Admit
<1>4. CASE Pool!AcquireGranted(r)
  BY <1>4, PoolEffects
  DEF PoolTyped, Pool!AcquireGranted, Pool!Goto, Pool!poolVars, Pool!Locations, Pool!NoEffect
<1>5. CASE Pool!AcquireWoken(r)
  BY <1>5 DEF PoolTyped, Pool!AcquireWoken, Pool!Goto, Pool!poolVars, Pool!Locations
<1>6. CASE Pool!AcquireCancelled(r)
  BY <1>6 DEF PoolTyped, Pool!AcquireCancelled, Pool!Goto, Pool!poolVars, Pool!Locations
<1>7. QED
  BY <1>1, <1>2, <1>3, <1>4, <1>5, <1>6 DEF Pool!AcquireStep

\* A fork waits in Acquire for a slot of its own.
LEMMA ForkAcquiresStep ==
  ASSUME ManagerInvariant, NEW r \in Req, ForkAcquires(r)
  PROVE  ManagerInvariant'
<1>1. /\ Typed /\ PoolTyped
      /\ Placed(r) /\ Argued(r) /\ Gated(r) /\ Resulting(r) /\ Stage(r) /\ InsideStage(r)
  BY RequestFacts
<1>2. /\ at[r] = "acquiring" /\ op[r] = "fork" /\ arg[r] = NoReq /\ at[r] \in Starting
      /\ Running /\ UNCHANGED <<callVars, hostVars>>
      /\ UNCHANGED <<result, saysDisposed, database, cleanup, continuing, path>>
      /\ UNCHANGED <<reservations, dbs, snaps, retained, gate, baseClosed>>
  BY <1>1 DEF ForkAcquires, Placed, Starting, resultVars, ownVars, mapVars
<1>3. /\ Own(r) /\ Lease(r) = r /\ Fresh(r) /\ Touches(r, r) /\ gate[r] = NoReq
      /\ result[r] = {} /\ r \notin background /\ r \notin saysDisposed
  BY <1>2, OwnFacts, OwnLease
<1>4. Clean(r) /\ pc[r] # "held" /\ reservations[r] = "none" /\ r \notin active
  BY <1>1, <1>2, <1>3 DEF Stage
<1>5. PICK p \in Pool!Locations \ {"idle"} : pc' = [pc EXCEPT ![r] = p]
  BY <1>1, AcquireEffects DEF ForkAcquires
<1>6. /\ UNCHANGED <<active, watchers>>
      /\ leases' \subseteq leases \cup {r} /\ leases \ {r} \subseteq leases'
      /\ r \in leases' => pc'[r] \in {"granted", "held"}
  <2>1. r \in leases => pc[r] = "granted"
    BY <1>4, LeaseFacts DEF Slot
  <2>2. QED
    BY <1>1, <2>1, AcquireEffects DEF ForkAcquires
<1>7. pc'[r] = p
  BY <1>1, <1>5 DEF PoolTyped
<1> DEFINE to == CASE p = "held" -> "locking" [] p = "refused" -> "result" [] OTHER -> "acquiring"
<1>8. to \in Places /\ Goes(r, to)
  <2>1. to \in Places
    BY DEF Places
  <2>2. at' = [at EXCEPT ![r] = to]
    BY <1>2, <1>7 DEF ForkAcquires
  <2>3. QED
    BY <1>2, <2>1, <2>2 DEF Goes
<1>9. /\ to \in {"locking", "result", "acquiring"}
      /\ to = "locking" => p = "held"
      /\ to = "acquiring" => p # "held"
  OBVIOUS
<1> HIDE DEF to
<1>10. \A m \in Req \ {r} : SameLease(m)
  BY <1>1, <1>2, <1>5, <1>6 DEF SameLease, PoolTyped
<1>11. /\ Moves(r, r) /\ at'[r] = to /\ op'[r] = op[r] /\ arg'[r] = arg[r]
       /\ at' \in [Req -> Places] /\ Lease(r)' = Lease(r) /\ told' = told
       /\ r \in background' <=> r \in background
       /\ UNCHANGED <<op, arg, background, told, host, exitErr>>
  BY <1>1, <1>2, <1>8, <1>10, GoesMoves
<1>12. Typed' /\ PoolTyped'
  <2>1. Typed'
    BY <1>1, <1>2, <1>11 DEF Typed
  <2>2. PoolTyped'
    BY <1>1, <1>5, <1>6 DEF PoolTyped
  <2>3. QED
    BY <2>1, <2>2
<1>13. Placed(r)' /\ Resulting(r)' /\ InsideStage(r)' /\ Gated(r)'
  BY <1>1, <1>2, <1>3, <1>9, <1>11 DEF Placed, Resulting, Inside, InsideStage, Gated
<1>14. Clean(r)' /\ reservations'[r] = "none" /\ r \notin active'
  BY <1>2, <1>4, <1>6 DEF Clean
<1>15. Stage(r)'
  BY <1>2, <1>3, <1>7, <1>9, <1>11, <1>14 DEF Stage, Making, Starting, Failed
<1>16. Works(r, r)
  BY <1>2, <1>3, <1>9, <1>11, <1>13, <1>15 DEF Works, Inside, Failed
<1>17. Slot(r)' /\ Registry(r)' /\ Registered(r)' /\ KnownNames(r)' /\ Holder(r)'
  BY <1>2, <1>3, <1>6, <1>14
  DEF Slot, Registry, Registered, KnownNames, Holder, HasResources, Clean
<1>18. Leaves(r, r)
  BY <1>2, <1>3, <1>14, <1>17 DEF Leaves, Fresh, Early
<1>19. Keeps(r)
  BY <1>2 DEF Keeps, Revoking
<1>20. QED
  BY <1>11, <1>12, <1>16, <1>18, <1>19, MovesStep
-----------------------------------------------------------------------------
(* Steps on a database                                                     *)

\* The database that a request waits for or is inside of.
LEMMA DatabaseFacts ==
  ASSUME ManagerInvariant, NEW r \in Req, at[r] = "gating" \/ at[r] \in Inside
  PROVE  /\ arg[r] \in Req /\ op[r] \in DatabaseOps
         /\ database[arg[r]] \in {"serving", "closed"}
         /\ reservations[arg[r]] = "none" /\ arg[r] \notin retained /\ arg[r] \notin path
         /\ cleanup[arg[r]] \in {"none", "closing", "done"}
         /\ database[arg[r]] = "serving" => arg[r] \in dbs /\ cleanup[arg[r]] = "none"
         /\ at[r] \in Inside \/ gate[arg[r]] = NoReq => Touches(r, arg[r])
         /\ at[r] \in Inside => gate[arg[r]] = r
         /\ at[r] \in {"forgetting", "reporting"} /\ op[r] # "snapshot" /\ r \in background =>
              r \notin saysDisposed
         /\ at[r] \in {"gating", "gated", "settling"} => r \notin saysDisposed
         /\ r \notin background => result[r] = {}
         /\ Lease(r) = arg[r]
<1>1. /\ Typed /\ Placed(r) /\ Argued(r) /\ Gated(r) /\ Resulting(r)
  BY RequestFacts
<1>2. op[r] \in DatabaseOps
  BY <1>1 DEF Placed, Inside, DatabaseOps
<1>3. arg[r] \in Req
  BY <1>1, <1>2 DEF Argued, DatabaseOps
<1>4. database[arg[r]] # "none"
  BY <1>2, <1>3, NameFacts DEF DatabaseOps
<1>5. Registry(arg[r])
  BY <1>3, LeaseFacts
<1>6. database[arg[r]] \in {"serving", "closed"}
  BY <1>1, <1>3, <1>4 DEF Typed
<1>7. /\ reservations[arg[r]] = "none" /\ arg[r] \notin retained /\ arg[r] \notin path
      /\ cleanup[arg[r]] \in {"none", "closing", "done"}
      /\ database[arg[r]] = "serving" => arg[r] \in dbs /\ cleanup[arg[r]] = "none"
  BY <1>4, <1>5 DEF Registry
<1>8. at[r] \in Inside \/ gate[arg[r]] = NoReq => Touches(r, arg[r])
  BY <1>2 DEF Touches, KindOf, DatabaseOps, Late
<1>9. /\ at[r] \in {"forgetting", "reporting"} /\ op[r] # "snapshot" /\ r \in background =>
           r \notin saysDisposed
      /\ at[r] \in {"gating", "gated", "settling"} => r \notin saysDisposed
      /\ r \notin background => result[r] = {}
  BY <1>1 DEF Resulting, Inside
<1>10. Lease(r) = arg[r] /\ (at[r] \in Inside => gate[arg[r]] = r)
  BY <1>1, <1>3, HandleAssumption DEF Lease, Gated
<1>11. QED
  BY <1>2, <1>3, <1>6, <1>7, <1>8, <1>9, <1>10

\* Names still mean the same of a database that is not served again.
LEMMA DatabaseLeaves ==
  ASSUME ManagerInvariant, NEW r \in Req, NEW l \in Req, database[l] # "none",
         database'[l] = database[l] \/ database'[l] = "closed",
         pc'[l] = pc[l], reservations'[l] = reservations[l],
         \A x \in result'[r] \ result[r] :
           x[1] \in {"cleanup_handle", "snapshot"} /\ database'[l] = "closed",
         Slot(l)', Registry(l)', Holder(l)', Registered(l)', KnownNames(l)'
  PROVE  Leaves(r, l)
<1>1. \A k \in Late \cup {"reservation"} : Means(k, l) => Means(k, l)'
  BY DEF Means, IsExport, IsFailure
<1>2. ASSUME NEW k \in Late \cup {"reservation"}, <<k, l>> \in result'[r]
      PROVE  Means(k, l)'
  <2>1. CASE <<k, l>> \in result[r]
    BY <1>1, <2>1 DEF ManagerInvariant, Meanings, Uses, Named
  <2>2. CASE <<k, l>> \notin result[r]
    <3>1. <<k, l>>[1] \in {"cleanup_handle", "snapshot"} /\ database'[l] = "closed"
      BY <1>2, <2>2
    <3>2. k = "cleanup_handle" /\ database'[l] = "closed"
      BY <3>1 DEF Late
    <3>3. QED
      BY <3>2 DEF Means
  <2>3. QED
    BY <2>1, <2>2
<1>3. QED
  BY <1>1, <1>2 DEF Leaves

\* A step after which a database is known as it was.
LEMMA StillKnown ==
  ASSUME ManagerInvariant, NEW r \in Req, NEW l \in Req, Moves(r, l),
         l \in dbs' => l \in dbs, HasResources(l)' => HasResources(l),
         l \notin retained', reservations'[l] = "none",
         r \in background /\ op[r] = "db_close" /\ at'[r] \in {"result", "done"} =>
           l \notin dbs' \/ ~HasResources(l)' \/ Named("cleanup_handle", l)'
  PROVE  KnownNames(l)'
<1>1. /\ UNCHANGED <<op, arg, background, told>>
      /\ \A q \in Req \ {r} : SameReq(q)
      /\ result[r] \subseteq result'[r]
  BY DEF Moves, Local, callVars, hostVars
<1>2. \A k, m : Named(k, m) => Named(k, m)'
  BY <1>1 DEF Named, SameReq
<1>3. ASSUME NEW q \in Req, Undoing(q, "db_close", l)
      PROVE  \/ Undoing(q, "db_close", l)'
             \/ l \notin dbs' \/ ~HasResources(l)' \/ Named("cleanup_handle", l)'
  BY <1>1, <1>3 DEF Undoing, SameReq
<1>4. ASSUME l \in dbs', HasResources(l)'
      PROVE  \/ Named("database", l)' \/ Named("cleanup_handle", l)'
             \/ \E q \in Req : Undoing(q, "db_close", l)'
  BY <1>2, <1>3, <1>4, LeaseFacts DEF KnownNames
<1>5. QED
  BY <1>4 DEF KnownNames

\* A request enters the gate of a database, or its context ends.
LEMMA DatabaseLocksStep ==
  ASSUME ManagerInvariant, NEW r \in Req, DatabaseLocks(r)
  PROVE  ManagerInvariant'
<1>1. /\ Typed /\ PoolTyped
      /\ Placed(r) /\ Argued(r) /\ Gated(r) /\ Resulting(r) /\ Stage(r) /\ InsideStage(r)
  BY RequestFacts
<1>2. /\ at[r] = "gating" /\ {"gated", "result"} \subseteq Places
      /\ UNCHANGED <<result, saysDisposed, database, cleanup, continuing, path, baseClosed>>
      /\ UNCHANGED <<reservations, dbs, snaps, retained, pc, leases, active, watchers>>
  BY DEF DatabaseLocks, Step, Places, poolVars, resultVars, ownVars, mapVars
<1>3. PICK l \in Req : l = arg[r]
  BY <1>2, DatabaseFacts
<1>4. /\ op[r] \in DatabaseOps /\ database[l] \in {"serving", "closed"}
      /\ gate[l] = NoReq => Touches(r, l)
      /\ reservations[l] = "none" /\ l \notin retained
      /\ r \notin saysDisposed /\ (r \notin background => result[r] = {})
  BY <1>2, <1>3, DatabaseFacts
<1>5. Keeps(r)
  BY <1>2 DEF Keeps, Revoking
<1>6. CASE Goes(r, "result") /\ r \notin background /\ UNCHANGED gate
  <2>1. Only(r, "result")
    BY <1>2, <1>6 DEF Only, ownVars
  <2>2. /\ Typed' /\ PoolTyped' /\ Moves(r, l) /\ SameLease(l)
        /\ at'[r] = "result" /\ result'[r] = result[r] /\ op'[r] = op[r] /\ arg'[r] = arg[r]
        /\ r \in background' <=> r \in background
        /\ Lease(r)' = Lease(r) /\ told' = told
    BY <1>1, <1>2, <2>1, OnlyMoves DEF Typed
  <2>3. Placed(r)' /\ Resulting(r)' /\ InsideStage(r)' /\ Stage(r)'
    BY <1>1, <1>2, <1>4, <1>6, <2>2
    DEF Placed, Resulting, Inside, InsideStage, Stage, Making, Starting, Failed
  <2>4. Quiet(r, l)
    BY <1>2, <1>6, <2>2, <2>3 DEF Quiet, Inside, Failed, Starting
  <2>5. QED
    BY <1>5, <2>2, <2>4, QuietStep DEF Inside
<1>7. CASE Goes(r, "gated") /\ gate[l] = NoReq /\ gate' = [gate EXCEPT ![l] = r]
  <2>1. gate'[l] = r /\ \A m \in Req \ {l} : SameLease(m)
    BY <1>1, <1>2, <1>7 DEF SameLease, Typed
  <2>2. /\ Moves(r, l) /\ at'[r] = "gated" /\ op'[r] = op[r] /\ arg'[r] = arg[r]
        /\ at' \in [Req -> Places] /\ Lease(r)' = Lease(r) /\ told' = told
        /\ r \in background' <=> r \in background
        /\ UNCHANGED <<op, arg, background, told, host, exitErr>>
    BY <1>1, <1>2, <1>7, <2>1, GoesMoves
  <2>3. Typed' /\ PoolTyped'
    BY <1>1, <1>2, <1>7, <2>2 DEF Typed, PoolTyped
  <2>4. Slot(l) /\ Registry(l) /\ Registered(l) /\ KnownNames(l)
    BY LeaseFacts
  <2>5. InsideStage(r)'
    BY <1>2, <1>3, <1>7, <2>2, <2>4 DEF InsideStage, Registry
  <2>6. Placed(r)' /\ Resulting(r)' /\ Gated(r)' /\ Stage(r)'
    BY <1>1, <1>2, <1>3, <1>4, <2>1, <2>2
    DEF Placed, Resulting, Gated, Stage, Making, Starting, Failed
  <2>7. Works(r, l)
    BY <1>2, <1>3, <1>4, <1>7, <2>2, <2>5, <2>6 DEF Works, Inside, Failed, Starting
  <2>8. Slot(l)' /\ Registry(l)' /\ Holder(l)'
    <3>1. r # NoReq
      BY HandleAssumption
    <3>2. Slot(l)'
      BY <1>2, <2>4 DEF Slot, HasResources, Clean
    <3>3. Registry(l)'
      BY <1>2, <2>1, <2>4, <3>1 DEF Registry, Clean
    <3>4. Holder(l)'
      BY <1>3, <2>1, <2>2 DEF Holder, Inside
    <3>5. QED
      BY <3>2, <3>3, <3>4
  <2>9. Registered(l)'
    BY <1>2, <2>2, StillRegistered DEF Failed
  <2>10. KnownNames(l)'
    BY <1>2, <1>4, <2>2, StillKnown DEF HasResources
  <2>11. Leaves(r, l)
    BY <1>2, <1>4, <2>8, <2>9, <2>10, DatabaseLeaves
  <2>12. QED
    BY <1>5, <2>2, <2>3, <2>7, <2>11, MovesStep
<1>8. QED
  BY <1>2, <1>3, <1>6, <1>7 DEF DatabaseLocks, Step, Goes

\* The server of a database is stopped.
LEMMA StoppedStep ==
  ASSUME ManagerInvariant, NEW r \in Req, at[r] = "gated", op[r] \in {"snapshot", "db_close"},
         Goes(r, "settling"), database[arg[r]] = "serving", Stopped(arg[r]),
         UNCHANGED <<result, saysDisposed, path, reservations, dbs, snaps, retained, gate>>,
         UNCHANGED <<baseClosed, pc, leases, active, watchers>>
  PROVE  ManagerInvariant'
<1>1. /\ Typed /\ PoolTyped
      /\ Placed(r) /\ Argued(r) /\ Gated(r) /\ Resulting(r) /\ Stage(r) /\ InsideStage(r)
  BY RequestFacts
<1>2. at[r] \in Inside /\ "settling" \in Places
  BY DEF Inside, Places
<1>3. PICK l \in Req : l = arg[r]
  BY <1>2, DatabaseFacts
<1>4. /\ database[l] = "serving" /\ Touches(r, l) /\ gate[l] = r
      /\ reservations[l] = "none" /\ l \notin retained /\ l \notin path /\ l \in dbs
      /\ cleanup[l] = "none"
      /\ r \notin saysDisposed /\ (r \notin background => result[r] = {})
  BY <1>2, <1>3, DatabaseFacts
<1>5. Keeps(r) /\ r # NoReq
  BY HandleAssumption DEF Keeps, Revoking
<1>6. /\ database' = [database EXCEPT ![l] = "closed"]
      /\ \/ cleanup' = cleanup /\ continuing' = continuing
         \/ cleanup' = [cleanup EXCEPT ![l] = "closing"] /\ continuing' = continuing \cup {l}
  BY <1>3 DEF Stopped
<1>7. /\ database'[l] = "closed"
      /\ \/ cleanup'[l] = "none" /\ continuing' = continuing
         \/ cleanup'[l] = "closing"
      /\ cleanup' \in [Req -> Owned \cup {"none", "done"}] /\ continuing' \subseteq Req
      /\ \A m \in Req \ {l} : SameLease(m)
  BY <1>1, <1>4, <1>6 DEF SameLease, Typed, Owned
<1>8. /\ Moves(r, l) /\ at'[r] = "settling" /\ op'[r] = op[r] /\ arg'[r] = arg[r]
      /\ at' \in [Req -> Places] /\ Lease(r)' = Lease(r) /\ told' = told
      /\ r \in background' <=> r \in background
      /\ UNCHANGED <<op, arg, background, told, host, exitErr>>
  BY <1>1, <1>2, <1>7, GoesMoves
<1>9. Typed' /\ PoolTyped'
  BY <1>1, <1>6, <1>7, <1>8 DEF Typed, PoolTyped
<1>10. Placed(r)' /\ Resulting(r)' /\ Gated(r)' /\ Stage(r)' /\ InsideStage(r)'
  BY <1>1, <1>3, <1>4, <1>7, <1>8
  DEF Placed, Resulting, Gated, Stage, InsideStage, Making, Starting, Failed
<1>11. Works(r, l)
  BY <1>3, <1>4, <1>8, <1>10 DEF Works, Inside, Failed, Starting
<1>12. Slot(l) /\ Registry(l)
  BY LeaseFacts
<1>13. Slot(l)' /\ Registry(l)' /\ Holder(l)'
  <2>1. Slot(l)'
    BY <1>4, <1>7, <1>12 DEF Slot, HasResources, Clean
  <2>2. Registry(l)'
    BY <1>4, <1>5, <1>7, <1>12 DEF Registry
  <2>3. Holder(l)'
    BY <1>3, <1>4, <1>8 DEF Holder, Inside
  <2>4. QED
    BY <2>1, <2>2, <2>3
<1>14. Registered(l)'
  BY <1>4 DEF Registered
<1>15. KnownNames(l)'
  BY <1>4, <1>8, StillKnown DEF HasResources
<1>16. Leaves(r, l)
  BY <1>4, <1>7, <1>13, <1>14, <1>15, DatabaseLeaves
<1>17. QED
  BY <1>5, <1>8, <1>9, <1>11, <1>16, MovesStep

\* db_close stops the server, or finds it stopped.
LEMMA DbCloseStep ==
  ASSUME ManagerInvariant, NEW r \in Req, DbClose(r)
  PROVE  ManagerInvariant'
<1>1. /\ Typed /\ PoolTyped
      /\ Placed(r) /\ Argued(r) /\ Gated(r) /\ Resulting(r) /\ Stage(r) /\ InsideStage(r)
  BY RequestFacts
<1>2. /\ at[r] = "gated" /\ at[r] \in Inside /\ "forgetting" \in Places /\ op[r] = "db_close"
      /\ UNCHANGED <<result, saysDisposed, path, reservations, dbs, snaps, retained, gate>>
      /\ UNCHANGED <<baseClosed, pc, leases, active, watchers>>
  BY DEF DbClose, Step, Inside, Places, poolVars, resultVars, mapVars
<1>3. PICK l \in Req : l = arg[r]
  BY <1>2, DatabaseFacts
<1>4. CASE database[l] = "serving" /\ Goes(r, "settling") /\ Stopped(l)
  BY <1>2, <1>3, <1>4, StoppedStep
<1>5. CASE /\ database[l] = "closed" /\ Goes(r, "forgetting")
           /\ UNCHANGED <<database, cleanup, continuing>>
  <2>1. /\ r \notin saysDisposed /\ (r \notin background => result[r] = {})
    BY <1>2, DatabaseFacts
  <2>2. Only(r, "forgetting")
    BY <1>2, <1>5 DEF Only, ownVars
  <2>3. /\ Typed' /\ PoolTyped' /\ Moves(r, l) /\ SameLease(l)
        /\ at'[r] = "forgetting" /\ result'[r] = result[r] /\ op'[r] = op[r] /\ arg'[r] = arg[r]
        /\ r \in background' <=> r \in background
        /\ Lease(r)' = Lease(r) /\ told' = told
    BY <1>1, <1>2, <2>2, OnlyMoves DEF Typed
  <2>4. Placed(r)' /\ Resulting(r)' /\ InsideStage(r)' /\ Stage(r)'
    BY <1>1, <1>2, <1>3, <1>5, <2>1, <2>3
    DEF Placed, Resulting, Inside, InsideStage, Stage, Making, Starting, Failed, DatabaseOps
  <2>5. Quiet(r, l)
    BY <1>2, <1>3, <2>3, <2>4 DEF Quiet, Inside, Failed, Starting
  <2>6. Keeps(r)
    BY <1>2 DEF Keeps, Revoking
  <2>7. QED
    BY <1>2, <2>3, <2>5, <2>6, QuietStep
<1>6. QED
  BY <1>2, <1>3, <1>4, <1>5 DEF DbClose, Step, Goes

\* db_cleanup asks the owners again and settles the lease when they are done.
LEMMA DbCleanupStep ==
  ASSUME ManagerInvariant, NEW r \in Req, DbCleanup(r)
  PROVE  ManagerInvariant'
<1>1. /\ Typed /\ PoolTyped
      /\ Placed(r) /\ Argued(r) /\ Gated(r) /\ Resulting(r) /\ Stage(r) /\ InsideStage(r)
  BY RequestFacts
<1>2. /\ at[r] = "gated" /\ at[r] \in Inside /\ "forgetting" \in Places /\ op[r] = "db_cleanup"
      /\ Goes(r, "forgetting")
      /\ UNCHANGED <<result, saysDisposed, path, reservations, dbs, snaps, retained, gate>>
      /\ UNCHANGED <<baseClosed, database, continuing>>
  BY DEF DbCleanup, Step, Goes, Inside, Places, resultVars, mapVars
<1>3. PICK l \in Req : l = arg[r]
  BY <1>2, DatabaseFacts
<1>4. /\ database[l] = "closed" /\ Touches(r, l) /\ gate[l] = r
      /\ reservations[l] = "none" /\ l \notin retained /\ l \notin path
      /\ r \notin saysDisposed /\ (r \notin background => result[r] = {}) /\ Keeps(r)
  BY <1>2, <1>3, DatabaseFacts, NameFacts DEF Keeps, Revoking
<1>5. \/ /\ cleanup' = [cleanup EXCEPT ![l] = "done"]
         /\ leases' = leases \ {l} /\ UNCHANGED <<active, watchers, pc>>
      \/ UNCHANGED <<cleanup, leases, active, watchers, pc>>
  BY <1>3, PoolEffects DEF DbCleanup, poolVars
<1>6. \A m \in Req \ {l} : SameLease(m)
  BY <1>1, <1>2, <1>5 DEF SameLease, Typed
<1>7. /\ Moves(r, l) /\ at'[r] = "forgetting" /\ op'[r] = op[r] /\ arg'[r] = arg[r]
      /\ at' \in [Req -> Places] /\ Lease(r)' = Lease(r) /\ told' = told
      /\ r \in background' <=> r \in background
      /\ UNCHANGED <<op, arg, background, told, host, exitErr>>
  BY <1>1, <1>2, <1>6, GoesMoves
<1>8. Typed' /\ PoolTyped'
  BY <1>1, <1>2, <1>5, <1>7 DEF Typed, PoolTyped
<1>9. Placed(r)' /\ Resulting(r)' /\ Gated(r)' /\ Stage(r)' /\ InsideStage(r)'
  BY <1>1, <1>2, <1>3, <1>4, <1>7
  DEF Placed, Resulting, Gated, Stage, InsideStage, Making, Starting, Failed, DatabaseOps
<1>10. Works(r, l)
  BY <1>2, <1>3, <1>4, <1>7, <1>9 DEF Works, Inside, Failed, Starting
<1>11. Slot(l) /\ Registry(l)
  BY LeaseFacts
<1>12. /\ UNCHANGED pc
       /\ \/ cleanup'[l] = "done" /\ leases' = leases \ {l} /\ UNCHANGED <<active, watchers>>
          \/ UNCHANGED <<cleanup, leases, active, watchers>>
  BY <1>1, <1>5 DEF Typed
<1>13. Slot(l)'
  BY <1>2, <1>4, <1>11, <1>12 DEF Slot, HasResources, Clean
<1>14. Registry(l)'
  BY <1>2, <1>4, <1>11, <1>12 DEF Registry
<1>15. Holder(l)'
  BY <1>2, <1>3, <1>4, <1>7 DEF Holder, Inside
<1>16. HasResources(l)' => HasResources(l)
  BY <1>2, <1>4, <1>12 DEF HasResources
<1>17. Registered(l)' /\ KnownNames(l)'
  BY <1>2, <1>4, <1>7, <1>12, <1>16, StillRegistered, StillKnown DEF Failed
<1>18. Leaves(r, l)
  BY <1>2, <1>4, <1>12, <1>13, <1>14, <1>15, <1>17, DatabaseLeaves
<1>19. QED
  BY <1>4, <1>7, <1>8, <1>10, <1>18, MovesStep

\* A capture is refused, consumes the database, or fails and stops it.
LEMMA SnapshotCapturesStep ==
  ASSUME ManagerInvariant, NEW r \in Req, SnapshotCaptures(r)
  PROVE  ManagerInvariant'
<1>1. /\ Typed /\ PoolTyped
      /\ Placed(r) /\ Argued(r) /\ Gated(r) /\ Resulting(r) /\ Stage(r) /\ InsideStage(r)
  BY RequestFacts
<1>2. /\ at[r] = "gated" /\ at[r] \in Inside /\ "result" \in Places /\ op[r] = "snapshot"
      /\ UNCHANGED <<saysDisposed, path, reservations, retained, baseClosed>>
  BY DEF SnapshotCaptures, Step, Inside, Places
<1>3. PICK l \in Req : l = arg[r]
  BY <1>2, DatabaseFacts
<1>4. /\ Touches(r, l) /\ gate[l] = r /\ database[l] \in {"serving", "closed"}
      /\ reservations[l] = "none" /\ l \notin retained /\ l \notin path
      /\ database[l] = "serving" => l \in dbs /\ cleanup[l] = "none"
      /\ r \notin saysDisposed /\ r \notin background /\ result[r] = {}
  BY <1>1, <1>2, <1>3, DatabaseFacts DEF Resulting
<1>5. Slot(l) /\ Registry(l)
  BY LeaseFacts
<1>6. CASE /\ database[l] = "serving" /\ Goes(r, "settling") /\ Stopped(l)
           /\ UNCHANGED <<poolVars, dbs, snaps, result, gate>>
  BY <1>2, <1>3, <1>6, StoppedStep DEF poolVars
<1>7. CASE /\ Goes(r, "result") /\ gate' = [gate EXCEPT ![l] = NoReq]
           /\ UNCHANGED <<poolVars, database, cleanup, continuing, dbs, snaps, result>>
  <2>1. UNCHANGED <<pc, leases, active, watchers>>
    BY <1>7 DEF poolVars
  <2>2. gate'[l] = NoReq /\ \A m \in Req \ {l} : SameLease(m)
    BY <1>1, <1>2, <1>7, <2>1 DEF SameLease, Typed
  <2>3. /\ Moves(r, l) /\ at'[r] = "result" /\ op'[r] = op[r] /\ arg'[r] = arg[r]
        /\ at' \in [Req -> Places] /\ Lease(r)' = Lease(r) /\ told' = told
        /\ r \in background' <=> r \in background
        /\ UNCHANGED <<op, arg, background, told, host, exitErr>>
    BY <1>1, <1>2, <1>7, <2>2, GoesMoves
  <2>4. Typed' /\ PoolTyped'
    BY <1>1, <1>2, <1>7, <2>1, <2>3 DEF Typed, PoolTyped
  <2>5. Placed(r)' /\ Resulting(r)' /\ Gated(r)' /\ Stage(r)' /\ InsideStage(r)'
    BY <1>1, <1>2, <1>4, <1>7, <2>3
    DEF Placed, Resulting, Gated, Stage, InsideStage, Making, Starting, Failed, Inside
  <2>6. Works(r, l)
    BY <1>2, <1>3, <1>4, <2>3, <2>5 DEF Works, Failed, Starting
  <2>7. Slot(l)' /\ Holder(l)'
    BY <1>2, <1>5, <1>7, <2>1, <2>2 DEF Slot, Holder, HasResources, Clean
  <2>8. l \in dbs /\ database[l] = "closed" => cleanup[l] # "none"
    BY <1>1, <1>2, <1>3 DEF InsideStage
  <2>9. Registry(l)'
    BY <1>2, <1>5, <1>7, <2>1, <2>8 DEF Registry, Clean
  <2>10. Registered(l)' /\ KnownNames(l)'
    BY <1>2, <1>4, <1>7, <2>3, StillRegistered, StillKnown DEF Failed, HasResources
  <2>11. Leaves(r, l)
    BY <1>2, <1>4, <1>7, <2>1, <2>7, <2>9, <2>10, DatabaseLeaves
  <2>12. Keeps(r)
    BY <1>2, <1>7 DEF Keeps, Revoking
  <2>13. QED
    BY <2>3, <2>4, <2>6, <2>11, <2>12, MovesStep
<1>8. CASE /\ database[l] = "serving" /\ Goes(r, "result")
           /\ database' = [database EXCEPT ![l] = "closed"]
           /\ Pool!Settle(l, TRUE) /\ UNCHANGED <<watchers, pc>>
           /\ dbs' = dbs \ {l}
           /\ snaps' = snaps \cup {r}
           /\ result' = [result EXCEPT ![r] = {<<"snapshot", r>>}]
           /\ gate' = [gate EXCEPT ![l] = NoReq]
           /\ UNCHANGED <<cleanup, continuing>>
  <2>1. leases' = leases \ {l} /\ active' = active
    BY <1>8, PoolEffects
  <2>2. /\ gate'[l] = NoReq /\ database'[l] = "closed" /\ result'[r] = {<<"snapshot", r>>}
        /\ \A m \in Req \ {l} : SameLease(m)
        /\ \A q \in Req \ {r} : result'[q] = result[q]
    BY <1>1, <1>2, <1>8, <2>1 DEF SameLease, Typed
  <2>3. /\ Moves(r, l) /\ at'[r] = "result" /\ op'[r] = op[r] /\ arg'[r] = arg[r]
        /\ at' \in [Req -> Places] /\ Lease(r)' = Lease(r) /\ told' = told
        /\ r \in background' <=> r \in background
        /\ UNCHANGED <<op, arg, background, told, host, exitErr>>
    <3>1. \A x \in result'[r] \ result[r] : x[1] = "snapshot"
      BY <2>2
    <3>2. QED
      BY <1>1, <1>2, <1>4, <1>8, <2>2, <3>1, GoesMoves
  <2>4. Typed' /\ PoolTyped'
    <3>1. result' \in [Req -> SUBSET (Kinds \X Req)]
      BY <1>1, <1>8 DEF Typed, Kinds
    <3>2. QED
      BY <1>1, <1>2, <1>8, <2>1, <2>3, <3>1 DEF Typed, PoolTyped
  <2>5. Placed(r)' /\ Resulting(r)' /\ Gated(r)' /\ Stage(r)' /\ InsideStage(r)'
    BY <1>1, <1>2, <1>4, <2>3
    DEF Placed, Resulting, Gated, Stage, InsideStage, Making, Starting, Failed, Inside
  <2>6. Works(r, l)
    BY <1>2, <1>3, <1>4, <2>3, <2>5 DEF Works, Failed, Starting
  <2>7. ~HasResources(l)' /\ l \notin dbs'
    BY <1>2, <1>4, <1>8, <2>2 DEF HasResources
  <2>8. Slot(l)' /\ Holder(l)'
    BY <1>2, <1>5, <1>8, <2>1, <2>2, <2>7 DEF Slot, Holder, HasResources, Clean
  <2>9. Registry(l)'
    BY <1>2, <1>4, <1>5, <1>8, <2>1, <2>2, <2>7 DEF Registry
  <2>10. Registered(l)' /\ KnownNames(l)'
    BY <1>2, <1>4, <2>7 DEF Registered, KnownNames, HasResources
  <2>11. Leaves(r, l)
    <3>1. \A x \in result'[r] \ result[r] :
            x[1] \in {"cleanup_handle", "snapshot"} /\ database'[l] = "closed"
      BY <2>2
    <3>2. QED
      BY <1>2, <1>4, <1>8, <2>2, <2>8, <2>9, <2>10, <3>1, DatabaseLeaves
  <2>12. Keeps(r)
    BY <1>2, <1>8, <2>2 DEF Keeps, Revoking
  <2>13. QED
    BY <2>3, <2>4, <2>6, <2>11, <2>12, MovesStep
<1>9. QED
  BY <1>2, <1>3, <1>6, <1>7, <1>8 DEF SnapshotCaptures, Step, Goes

\* db.settle frees the slot only when the close left no owner.
LEMMA DbSettlesStep ==
  ASSUME ManagerInvariant, NEW r \in Req, DbSettles(r)
  PROVE  ManagerInvariant'
<1> DEFINE to == IF op[r] = "snapshot" THEN "reporting" ELSE "forgetting"
<1>1. /\ Typed /\ PoolTyped
      /\ Placed(r) /\ Argued(r) /\ Gated(r) /\ Resulting(r) /\ Stage(r) /\ InsideStage(r)
  BY RequestFacts
<1>2. /\ at[r] = "settling" /\ at[r] \in Inside /\ to \in Places /\ op[r] \in {"snapshot", "db_close"}
      /\ to \in {"reporting", "forgetting"} /\ (to = "reporting" => op[r] = "snapshot")
      /\ Goes(r, to)
      /\ UNCHANGED <<result, saysDisposed, database, cleanup, continuing, path>>
      /\ UNCHANGED <<reservations, dbs, snaps, retained, gate, baseClosed, pc>>
  BY <1>1 DEF DbSettles, Step, Goes, Inside, Places, Placed, resultVars, ownVars, mapVars
<1> HIDE DEF to
<1>3. PICK l \in Req : l = arg[r]
  BY <1>2, DatabaseFacts
<1>4. /\ Touches(r, l) /\ gate[l] = r /\ database[l] = "closed"
      /\ reservations[l] = "none" /\ l \notin retained /\ l \notin path
      /\ cleanup[l] \in {"none", "closing", "done"}
      /\ r \notin saysDisposed /\ (r \notin background => result[r] = {}) /\ Keeps(r)
  BY <1>1, <1>2, <1>3, DatabaseFacts DEF InsideStage, Keeps, Revoking
<1>5. Slot(l) /\ Registry(l)
  BY LeaseFacts
<1>6. \/ /\ PendingCleanup(l)
         /\ leases' = leases
         /\ active' \in {active, active \cup {l}}
         /\ watchers' \in {watchers, watchers \cup {l}}
      \/ /\ ~PendingCleanup(l)
         /\ leases' = leases \ {l} /\ active' = active /\ watchers' = watchers
  BY <1>3, PoolEffects DEF DbSettles
<1>7. \A m \in Req \ {l} : SameLease(m)
  BY <1>1, <1>2, <1>6 DEF SameLease
<1>8. /\ Moves(r, l) /\ at'[r] = to /\ op'[r] = op[r] /\ arg'[r] = arg[r]
      /\ at' \in [Req -> Places] /\ Lease(r)' = Lease(r) /\ told' = told
      /\ r \in background' <=> r \in background
      /\ UNCHANGED <<op, arg, background, told, host, exitErr>>
  BY <1>1, <1>2, <1>7, GoesMoves
<1>9. Typed' /\ PoolTyped'
  BY <1>1, <1>2, <1>6, <1>8 DEF Typed, PoolTyped
<1>10. Placed(r)' /\ Resulting(r)' /\ Gated(r)' /\ Stage(r)' /\ InsideStage(r)'
  BY <1>1, <1>2, <1>3, <1>4, <1>8
  DEF Placed, Resulting, Gated, Stage, InsideStage, Making, Starting, Failed, DatabaseOps
<1>11. Works(r, l)
  BY <1>2, <1>3, <1>4, <1>8, <1>10 DEF Works, Inside, Failed, Starting
<1>12. Slot(l)'
  <2>1. CASE PendingCleanup(l)
    BY <1>2, <1>4, <1>5, <1>6, <2>1 DEF Slot, HasResources, PendingCleanup, Clean
  <2>2. CASE ~PendingCleanup(l)
    BY <1>2, <1>4, <1>5, <1>6, <2>2 DEF Slot, HasResources, PendingCleanup, Owned, Clean
  <2>3. QED
    BY <2>1, <2>2
<1>13. Registry(l)'
  BY <1>2, <1>4, <1>5, <1>6 DEF Registry, PendingCleanup, Owned
<1>14. Holder(l)'
  BY <1>2, <1>3, <1>4, <1>8 DEF Holder, Inside
<1>15. Registered(l)' /\ KnownNames(l)'
  BY <1>2, <1>4, <1>8, StillRegistered, StillKnown DEF Failed, HasResources
<1>16. Leaves(r, l)
  BY <1>2, <1>4, <1>12, <1>13, <1>14, <1>15, DatabaseLeaves
<1>17. QED
  BY <1>4, <1>8, <1>9, <1>11, <1>16, MovesStep

\* A request that leaves the database, or names it, or forgets it, when that is right.
LEMMA LeavingStep ==
  ASSUME ManagerInvariant, NEW r \in Req, at[r] \in Inside, at[r] # "gated",
         NEW to \in Places, Goes(r, to),
         UNCHANGED <<database, cleanup, continuing, path, reservations, snaps, retained>>,
         UNCHANGED <<baseClosed, pc, leases, active, watchers>>,
         dbs' = dbs \/ (dbs' = dbs \ {arg[r]} /\ Disposed(arg[r])),
         result' = result \/ Names(r),
         gate' = gate \/ Unlock(r),
         saysDisposed' = saysDisposed \/ saysDisposed' = saysDisposed \cup {r},
         gate' = gate => to \in Inside /\ to # "gated",
         Unlock(r) => to \notin Inside,
         to \notin Starting \cup Revoking \cup {"idle", "begun", "insert", "done"},
         arg[r] \in dbs' => cleanup[arg[r]] # "none" \/ gate' = gate,
         r \in background /\ op[r] = "db_close" /\ to = "result" =>
           ~HasResources(arg[r]) \/ Names(r),
         Placed(r)', Resulting(r)', InsideStage(r)'
  PROVE  ManagerInvariant'
<1>1. /\ Typed /\ PoolTyped
      /\ Placed(r) /\ Argued(r) /\ Gated(r) /\ Resulting(r) /\ Stage(r) /\ InsideStage(r)
  BY RequestFacts
<1>2. PICK l \in Req : l = arg[r]
  BY DatabaseFacts
<1>3. /\ Touches(r, l) /\ gate[l] = r /\ database[l] = "closed" /\ r # NoReq
      /\ reservations[l] = "none" /\ l \notin retained /\ l \notin path
      /\ op[r] \in DatabaseOps
      /\ (r \notin background => result[r] = {}) /\ Keeps(r)
  BY <1>1, <1>2, DatabaseFacts, HandleAssumption
  DEF InsideStage, Keeps, Revoking, Inside
<1>4. Slot(l) /\ Registry(l)
  BY LeaseFacts
<1>5. /\ gate' \in [Req -> Req \cup {NoReq}]
      /\ \/ gate'[l] = r /\ to \in Inside
         \/ gate'[l] = NoReq /\ to \notin Inside /\ (l \in dbs' => cleanup[l] # "none")
      /\ l \in dbs' => l \in dbs
      /\ \A m \in Req \ {l} : SameLease(m)
  BY <1>1, <1>2, <1>3 DEF SameLease, Typed, Unlock
<1>6. /\ result' \in [Req -> SUBSET (Kinds \X Req)]
      /\ result'[r] \in {result[r], result[r] \cup {<<"cleanup_handle", l>>}}
      /\ \A q \in Req \ {r} : result'[q] = result[q]
  BY <1>1, <1>2 DEF Typed, Names, Kinds
<1>7. /\ Moves(r, l) /\ at'[r] = to /\ op'[r] = op[r] /\ arg'[r] = arg[r]
      /\ at' \in [Req -> Places] /\ Lease(r)' = Lease(r) /\ told' = told
      /\ r \in background' <=> r \in background
      /\ UNCHANGED <<op, arg, background, told, host, exitErr>>
  <2>1. \A x \in result'[r] \ result[r] : x[2] = l
    BY <1>6
  <2>2. result[r] \subseteq result'[r]
    BY <1>6
  <2>3. QED
    BY <1>1, <1>5, <1>6, <2>1, <2>2, GoesMoves
<1>8. Typed' /\ PoolTyped'
  BY <1>1, <1>5, <1>6, <1>7 DEF Typed, PoolTyped
<1>9. Gated(r)' /\ Stage(r)'
  BY <1>2, <1>3, <1>5, <1>7 DEF Gated, Stage, Making, Starting, Failed, Inside, DatabaseOps
<1>10. Works(r, l)
  BY <1>2, <1>3, <1>7, <1>9 DEF Works, Inside, Failed, Starting
<1>11. Slot(l)'
  BY <1>4 DEF Slot, HasResources, Clean
<1>12. Registry(l)'
  BY <1>3, <1>4, <1>5 DEF Registry, Clean
<1>13. Holder(l)'
  BY <1>2, <1>5, <1>7 DEF Holder
<1>14. Disposed(l) => ~HasResources(l)
  BY <1>1, <1>3, <1>4 DEF Disposed, PendingCleanup, Owned, HasResources, Typed
<1>15. Registered(l)'
  <2>1. CASE dbs' = dbs
    BY <1>7, <2>1, StillRegistered DEF Failed, Inside
  <2>2. CASE Disposed(l)
    BY <1>14, <2>2 DEF Registered, HasResources
  <2>3. QED
    BY <1>2, <2>1, <2>2
<1>16. KnownNames(l)'
  <2>1. Names(r) => Named("cleanup_handle", l)'
    BY <1>1, <1>2 DEF Names, Named, Typed
  <2>2. HasResources(l)' <=> HasResources(l)
    BY DEF HasResources
  <2>3. QED
    BY <1>2, <1>3, <1>5, <1>7, <2>1, <2>2, StillKnown
<1>17. Leaves(r, l)
  <2>1. \A x \in result'[r] \ result[r] :
          x[1] \in {"cleanup_handle", "snapshot"} /\ database'[l] = "closed"
    BY <1>3, <1>6
  <2>2. QED
    BY <1>3, <1>11, <1>12, <1>13, <1>15, <1>16, <2>1, DatabaseLeaves
<1>18. QED
  BY <1>3, <1>7, <1>8, <1>10, <1>17, MovesStep

\* Only a disposed database leaves the map; a failed capture names what stays.
LEMMA DbForgetsStep ==
  ASSUME ManagerInvariant, NEW r \in Req, DbForgets(r)
  PROVE  ManagerInvariant'
<1> DEFINE to == IF op[r] = "snapshot" THEN "result" ELSE "reporting"
<1>1. /\ Typed /\ PoolTyped
      /\ Placed(r) /\ Argued(r) /\ Gated(r) /\ Resulting(r) /\ Stage(r) /\ InsideStage(r)
  BY RequestFacts
<1>2. /\ at[r] = "forgetting" /\ at[r] \in Inside /\ to \in Places /\ Goes(r, to)
      /\ UNCHANGED <<database, cleanup, continuing, path, reservations, snaps, retained>>
      /\ UNCHANGED <<baseClosed, pc, leases, active, watchers, saysDisposed>>
      /\ op[r] \in DatabaseOps /\ database[arg[r]] = "closed" /\ arg[r] \in Req
  BY <1>1, DatabaseFacts
  DEF DbForgets, Step, Goes, Inside, Places, ownVars, poolVars, Placed, InsideStage
<1>3. /\ dbs' = IF Disposed(arg[r]) THEN dbs \ {arg[r]} ELSE dbs
      /\ IF op[r] = "snapshot" /\ ~Disposed(arg[r]) THEN Names(r) ELSE UNCHANGED result
      /\ IF op[r] = "snapshot" THEN Unlock(r) ELSE UNCHANGED gate
  BY DEF DbForgets
<1>4. /\ \/ op[r] = "snapshot" /\ to = "result"
         \/ op[r] # "snapshot" /\ to = "reporting"
      /\ at'[r] = to
      /\ UNCHANGED <<op, arg, background, told>>
  BY <1>1, <1>2 DEF Goes, Typed, callVars, hostVars
<1> HIDE DEF to
<1>5. gate[arg[r]] = r /\ r # NoReq /\ (r \notin background => result[r] = {})
  BY <1>2, DatabaseFacts, HandleAssumption
<1>6. Unlock(r) => gate' # gate
  BY <1>1, <1>2, <1>5 DEF Unlock, Typed
<1>7. arg[r] \in dbs' => cleanup[arg[r]] # "none"
  BY <1>2, <1>3 DEF Disposed, PendingCleanup, Owned
<1>8. Placed(r)'
  BY <1>2, <1>4 DEF Placed, DatabaseOps
<1>9. InsideStage(r)'
  BY <1>2, <1>4, <1>7 DEF InsideStage, Inside
<1>10. Resulting(r)'
  <2>1. CASE op[r] = "snapshot"
    <3>1. r \notin background /\ result[r] = {}
      BY <1>1, <1>5, <2>1 DEF Resulting
    <3>2. \A x \in result'[r] : x[1] \notin DOMAIN Undo
      BY <1>1, <1>3, <3>1 DEF Names, Undo, Typed
    <3>3. QED
      BY <1>2, <1>4, <2>1, <3>1, <3>2 DEF Resulting
  <2>2. CASE op[r] # "snapshot"
    BY <1>1, <1>2, <1>3, <1>4, <2>2 DEF Resulting
  <2>3. QED
    BY <2>1, <2>2
<1>11. to \notin Starting \cup Revoking \cup {"idle", "begun", "insert", "done"}
  BY <1>4 DEF Starting, Revoking
<1>12. /\ gate' = gate => to \in Inside /\ to # "gated"
       /\ Unlock(r) => to \notin Inside
  BY <1>3, <1>4, <1>6 DEF Inside
<1>13. QED
  BY <1>2, <1>3, <1>4, <1>7, <1>8, <1>9, <1>10, <1>11, <1>12, LeavingStep

\* The report says whether the database is disposed.
LEMMA DbReportsStep ==
  ASSUME ManagerInvariant, NEW r \in Req, DbReports(r)
  PROVE  ManagerInvariant'
<1> DEFINE to == CASE op[r] = "snapshot" -> "forgetting"
                   [] op[r] = "db_close" -> "naming"
                   [] op[r] = "db_cleanup" -> "result"
<1>1. /\ Typed /\ PoolTyped
      /\ Placed(r) /\ Argued(r) /\ Gated(r) /\ Resulting(r) /\ Stage(r) /\ InsideStage(r)
  BY RequestFacts
<1>2. /\ at[r] = "reporting" /\ at[r] \in Inside /\ op[r] \in DatabaseOps
      /\ database[arg[r]] = "closed" /\ arg[r] \in Req
  BY <1>1, DatabaseFacts DEF DbReports, Step, Inside, InsideStage
<1>3. /\ \/ op[r] = "snapshot" /\ to = "forgetting"
         \/ op[r] = "db_close" /\ to = "naming"
         \/ op[r] = "db_cleanup" /\ to = "result"
      /\ to \in Places
  BY <1>2 DEF DatabaseOps, Places
<1>4. /\ Goes(r, to)
      /\ UNCHANGED <<database, cleanup, continuing, path, reservations, snaps, retained>>
      /\ UNCHANGED <<baseClosed, pc, leases, active, watchers, dbs, result>>
      /\ saysDisposed' = IF Disposed(arg[r]) THEN saysDisposed \cup {r} ELSE saysDisposed
      /\ IF op[r] = "db_cleanup" THEN Unlock(r) ELSE UNCHANGED gate
  BY <1>2 DEF DbReports, Step, Goes, poolVars, ownVars, mapVars
<1>5. at'[r] = to /\ UNCHANGED <<op, arg, background, told>>
  BY <1>1, <1>3, <1>4 DEF Goes, Typed, callVars, hostVars
<1> HIDE DEF to
<1>6. /\ gate[arg[r]] = r /\ r # NoReq /\ (r \notin background => result[r] = {})
      /\ op[r] # "snapshot" /\ r \in background => r \notin saysDisposed
  BY <1>2, DatabaseFacts, HandleAssumption
<1>7. Unlock(r) => gate' # gate
  BY <1>1, <1>2, <1>6 DEF Unlock, Typed
<1>8. op[r] # "snapshot" /\ arg[r] \in dbs => cleanup[arg[r]] # "none"
  BY <1>1, <1>2 DEF InsideStage
<1>9. Placed(r)'
  BY <1>3, <1>5 DEF Placed, DatabaseOps
<1>10. InsideStage(r)'
  <2>1. Disposed(arg[r])' <=> Disposed(arg[r])
    BY <1>4, <1>5 DEF Disposed, PendingCleanup
  <2>2. r \in saysDisposed' /\ r \in background /\ op[r] # "snapshot" => Disposed(arg[r])
    BY <1>4, <1>6
  <2>3. QED
    BY <1>2, <1>3, <1>4, <1>5, <1>8, <2>1, <2>2 DEF InsideStage, Inside
<1>11. Resulting(r)'
  BY <1>1, <1>2, <1>3, <1>4, <1>5, <1>6 DEF Resulting
<1>12. to \notin Starting \cup Revoking \cup {"idle", "begun", "insert", "done"}
  BY <1>3 DEF Starting, Revoking
<1>13. /\ gate' = gate => to \in Inside /\ to # "gated"
       /\ Unlock(r) => to \notin Inside
  BY <1>3, <1>4, <1>7 DEF Inside
<1>14. /\ dbs' = dbs /\ result' = result /\ (gate' = gate \/ Unlock(r))
       /\ saysDisposed' = saysDisposed \/ saysDisposed' = saysDisposed \cup {r}
       /\ arg[r] \in dbs' => cleanup[arg[r]] # "none" \/ gate' = gate
       /\ ~(op[r] = "db_close" /\ to = "result")
  BY <1>3, <1>4, <1>8
<1>15. QED
  BY <1>2, <1>3, <1>4, <1>9, <1>10, <1>11, <1>12, <1>13, <1>14, LeavingStep

\* db_close names the handle of a database that is not disposed.
LEMMA DbNamesStep ==
  ASSUME ManagerInvariant, NEW r \in Req, DbNames(r)
  PROVE  ManagerInvariant'
<1>1. /\ Typed /\ PoolTyped
      /\ Placed(r) /\ Argued(r) /\ Gated(r) /\ Resulting(r) /\ Stage(r) /\ InsideStage(r)
  BY RequestFacts
<1>2. /\ at[r] = "naming" /\ at[r] \in Inside /\ "result" \in Places /\ Goes(r, "result")
      /\ UNCHANGED <<database, cleanup, continuing, path, reservations, snaps, retained>>
      /\ UNCHANGED <<baseClosed, pc, leases, active, watchers, saysDisposed, dbs>>
      /\ op[r] = "db_close" /\ database[arg[r]] = "closed" /\ arg[r] \in Req /\ arg[r] \notin path
  BY <1>1, DatabaseFacts
  DEF DbNames, Step, Goes, Inside, Places, ownVars, poolVars, mapVars, Placed, InsideStage
<1>3. /\ IF IF r \in background THEN r \in saysDisposed ELSE Disposed(arg[r])
         THEN UNCHANGED result ELSE Names(r)
      /\ Unlock(r)
  BY DEF DbNames
<1>4. at'[r] = "result" /\ UNCHANGED <<op, arg, background, told>>
  BY <1>1, <1>2 DEF Goes, Typed, callVars, hostVars
<1>5. gate[arg[r]] = r /\ r # NoReq /\ (r \notin background => result[r] = {})
  BY <1>2, DatabaseFacts, HandleAssumption
<1>6. gate' # gate
  BY <1>1, <1>2, <1>3, <1>5 DEF Unlock, Typed
<1>7. arg[r] \in dbs' => cleanup[arg[r]] # "none"
  BY <1>1, <1>2 DEF InsideStage
<1>8. Placed(r)' /\ InsideStage(r)'
  BY <1>2, <1>4 DEF Placed, InsideStage, Inside
<1>9. Resulting(r)'
  <2>1. r \notin background => \A x \in result'[r] : x[1] \notin DOMAIN Undo
    BY <1>1, <1>3, <1>5 DEF Names, Undo, Typed
  <2>2. QED
    BY <1>2, <1>4, <2>1 DEF Resulting
<1>10. r \in background => ~HasResources(arg[r]) \/ Names(r)
  <2>1. CASE r \in background /\ r \in saysDisposed
    <3>1. Disposed(arg[r])
      BY <1>1, <1>2, <2>1 DEF InsideStage
    <3>2. ~HasResources(arg[r])
      BY <1>2, <3>1 DEF Disposed, PendingCleanup, Owned, HasResources
    <3>3. QED
      BY <3>2
  <2>2. CASE r \in background /\ r \notin saysDisposed
    BY <1>3, <2>2
  <2>3. QED
    BY <2>1, <2>2
<1>11. "result" \notin Starting \cup Revoking \cup {"idle", "begun", "insert", "done"} \cup Inside
  BY DEF Starting, Revoking, Inside
<1>12. result' = result \/ Names(r)
  BY <1>3
<1>13. QED
  BY <1>2, <1>3, <1>6, <1>7, <1>8, <1>9, <1>10, <1>11, <1>12, LeavingStep
-----------------------------------------------------------------------------
(* Steps that ask, undo and reply                                          *)

\* A request that begins or ends changes no lease and uses only names that are known;
\* a name that it forgets is the one it begins to undo.
LEMMA AskStep ==
  ASSUME ManagerInvariant, NEW r \in Req, at[r] \in {"idle", "result"}, at'[r] \in {"begun", "done"},
         \A q \in Req \ {r} : SameReq(q), \A m \in Req : SameLease(m),
         UNCHANGED <<snaps, baseClosed, host, exitErr>>, told \subseteq told',
         Typed', PoolTyped', Placed(r)', Argued(r)', Resulting(r)', Stage(r)',
         NewNames(r, {}), Making(r)' => Making(r), host \in {"serving", "draining"},
         \A k \in Kinds, m \in Req : Named(k, m) =>
           \/ Named(k, m)'
           \/ k \in DOMAIN Undo \ {"lease"} /\ Undoing(r, Undo[k], m)' /\ at'[r] = "begun"
  PROVE  ManagerInvariant'
<1>1. /\ Typed /\ Requests /\ Naming /\ Meanings /\ Leases /\ Stages /\ OneStart
      /\ Lists /\ SnapshotsKnown /\ Hosting /\ BaseKept
  BY DEF ManagerInvariant
<1>2. Local(r, r) /\ SameLease(r)
  BY DEF Local
<1>3. Requests'
  BY <1>2, LocalRequests DEF Gated, Inside
<1>4. Stages'
  BY <1>2, LocalStages DEF InsideStage, Inside
<1>5. at[r] \notin Inside \cup Failed \cup Starting /\ at'[r] \notin Inside \cup Failed \cup Starting
  BY DEF Inside, Failed, Starting
<1>6. Leases'
  <2>1. Slot(r) /\ Registry(r) /\ Holder(r)
    BY LeaseFacts
  <2>2. Slot(r)' /\ Registry(r)'
    BY <1>2, <2>1 DEF SameLease, Slot, Registry, Clean, HasResources
  <2>3. Holder(r)'
    <3>1. ASSUME gate[r] # NoReq PROVE arg'[gate[r]] = r /\ at'[gate[r]] \in Inside
      <4>1. gate[r] \in Req /\ arg[gate[r]] = r /\ at[gate[r]] \in Inside
        BY <1>1, <2>1, <3>1 DEF Holder, Typed
      <4>2. SameReq(gate[r])
        BY <1>5, <4>1
      <4>3. QED
        BY <4>1, <4>2 DEF SameReq
    <3>2. QED
      BY <1>2, <3>1 DEF SameLease, Holder
  <2>4. QED
    BY <1>2, <1>5, <2>2, <2>3, LocalLeases
<1>7. OneStart'
  BY <1>2, <1>5, LocalStart
<1>8. Naming'
  <2>1. reservations'[r] \in {"reserved", "starting"} => Early(r)
    BY <1>1, <1>2 DEF Naming, SameLease
  <2>2. QED
    BY <1>2, <1>5, <2>1, LocalNaming
<1>9. Meanings'
  <2>1. \A k \in Late \cup {"reservation"} : Uses(k, r) \/ k \in {} => Means(k, r)'
    BY <1>1, <1>2 DEF Meanings, Means, SameLease, IsExport, IsFailure
  <2>2. QED
    BY <1>2, <2>1, LocalMeanings
<1>10. Lists'
  <2> SUFFICES ASSUME NEW m \in Req PROVE Registered(m)' /\ KnownNames(m)'
    BY DEF Lists
  <2>1. SameLease(m) /\ Registered(m) /\ KnownNames(m)
    BY LeaseFacts
  <2>2. \A q \in Req : at[q] \in Failed /\ Lease(q) = m => at'[q] \in Failed /\ Lease(q)' = m
    BY <1>5 DEF SameReq, Lease
  <2>3. Registered(m)'
    BY <2>1, <2>2 DEF Registered, SameLease
  <2>4. \A q \in Req : \A o \in {"db_close", "fork_cancel"} : Undoing(q, o, m) =>
          q # r /\ Undoing(q, o, m)'
    <3>1. Placed(r) /\ Resulting(r)
      BY <1>1 DEF Requests
    <3>2. \A o : ~Undoing(r, o, m)
      BY <3>1 DEF Undoing, Placed, Resulting
    <3>3. QED
      BY <3>2 DEF SameReq, Undoing
  <2>5. /\ Named("database", m) => Named("database", m)' \/ Undoing(r, "db_close", m)'
        /\ Named("reservation", m) => Named("reservation", m)' \/ Undoing(r, "fork_cancel", m)'
        /\ Named("cleanup_handle", m) => Named("cleanup_handle", m)'
        /\ Named("token", m) => Named("token", m)'
        /\ Named("lease", m) => Named("lease", m)'
    BY DEF Kinds, Undo
  <2>6. HasResources(m)' <=> HasResources(m)
    BY <2>1 DEF SameLease, HasResources
  <2>7. KnownNames(m)'
    BY <2>1, <2>4, <2>5, <2>6 DEF KnownNames, SameLease
  <2>8. QED
    BY <2>3, <2>7
<1>11. SnapshotsKnown'
  <2> SUFFICES ASSUME NEW m \in Req, m \in snaps
               PROVE  \/ Named("snapshot", m)'
                      \/ \E q \in Req : (Undoing(q, "snapshot_close", m) /\ at[q] = "begun")'
    BY DEF SnapshotsKnown, SnapshotKnown
  <2>1. Named("snapshot", m) =>
          Named("snapshot", m)' \/ (Undoing(r, "snapshot_close", m)' /\ at'[r] = "begun")
    BY DEF Kinds, Undo
  <2>2. \A q \in Req : Undoing(q, "snapshot_close", m) /\ at[q] = "begun" =>
          Undoing(q, "snapshot_close", m)' /\ at'[q] = "begun"
    BY DEF SameReq, Undoing
  <2>3. QED
    BY <1>1, <2>1, <2>2 DEF SnapshotsKnown, SnapshotKnown
<1>12. Hosting'
  BY <1>1 DEF Hosting
<1>13. BaseKept'
  BY <1>1 DEF BaseKept, SameReq
<1>14. QED
  BY <1>3, <1>4, <1>6, <1>7, <1>8, <1>9, <1>10, <1>11, <1>12, <1>13 DEF ManagerInvariant

\* A request of the owner starts: it uses names that replies have told.
LEMMA ReceiveStep ==
  ASSUME ManagerInvariant, NEW r \in Req, Receive(r)
  PROVE  ManagerInvariant'
<1>1. /\ Typed /\ PoolTyped
      /\ Placed(r) /\ Argued(r) /\ Gated(r) /\ Resulting(r) /\ Stage(r) /\ InsideStage(r)
  BY RequestFacts
<1>2. /\ host = "serving" /\ at[r] = "idle" /\ at' = [at EXCEPT ![r] = "begun"]
      /\ UNCHANGED <<background, result, saysDisposed, database, cleanup, continuing, path>>
      /\ UNCHANGED <<reservations, dbs, snaps, retained, gate, baseClosed, told, host, exitErr>>
      /\ UNCHANGED <<pc, leases, active, watchers>>
  BY DEF Receive, Step, poolVars, resultVars, ownVars, mapVars, hostVars
<1>3. PICK o \in Ops : \E a \in Arguments(o) :
        op' = [op EXCEPT ![r] = o] /\ arg' = [arg EXCEPT ![r] = a]
  BY Zenon DEF Receive
<1>4. PICK a \in Arguments(o) : op' = [op EXCEPT ![r] = o] /\ arg' = [arg EXCEPT ![r] = a]
  BY <1>3
<1>5. o \in AllOps
  BY OpsAssumption
<1>6. /\ a \in Req \cup {NoReq, Base}
      /\ o \in {"start", "fork_reserve"} => a = NoReq
      /\ o = "fork" => a \in Req \cup {NoReq}
      /\ o = "snapshot_close" => a \in Req \cup {Base}
      /\ o \notin {"start", "fork_reserve", "fork", "snapshot_close"} => a \in Req
      /\ a \in Req /\ KindOf(o) # "none" => <<KindOf(o), a>> \in told
  BY <1>5, HandleAssumption DEF Arguments, AllOps, KindOf
<1>7. at'[r] = "begun" /\ op'[r] = o /\ arg'[r] = a
  BY <1>1, <1>2, <1>4 DEF Typed
<1>8. \A q \in Req \ {r} : SameReq(q)
  BY <1>1, <1>2, <1>4 DEF SameReq, Typed
<1>9. \A m \in Req : SameLease(m)
  BY <1>2 DEF SameLease
<1>10. Typed' /\ PoolTyped'
  <2>1. at' \in [Req -> Places]
    BY <1>1, <1>2 DEF Typed, Places
  <2>2. op' \in [Req -> AllOps \cup {"none"}] /\ arg' \in [Req -> Req \cup {NoReq, Base}]
    BY <1>1, <1>4, <1>5, <1>6 DEF Typed
  <2>3. QED
    BY <1>1, <1>2, <2>1, <2>2 DEF Typed, PoolTyped
<1>11. result[r] = {} /\ r \notin background /\ r \notin saysDisposed
  BY <1>1, <1>2 DEF Placed, Resulting
<1>12. Placed(r)' /\ Argued(r)' /\ Resulting(r)'
  BY <1>2, <1>5, <1>6, <1>7, <1>11 DEF Placed, Argued, Resulting, AllOps
<1>13. Making(r) /\ Lease(r) = r
  BY <1>1, <1>2 DEF Making, Placed, Argued, Lease
<1>14. Making(r)' => Lease(r)' = r
  BY <1>7 DEF Making, Lease
<1>15. Stage(r)'
  BY <1>1, <1>2, <1>7, <1>13, <1>14 DEF Stage, Clean, Starting, Failed
<1>16. \A k, m : Named(k, m)' <=> Named(k, m)
  BY <1>2 DEF Named
<1>17. NewNames(r, {})
  <2> SUFFICES ASSUME NEW k \in Late \cup {"reservation"}, NEW m \in Req, Uses(k, m)'
               PROVE  Uses(k, m)
    BY DEF NewNames
  <2>1. CASE Named(k, m)'
    BY <1>16, <2>1 DEF Uses
  <2>2. ASSUME NEW q \in Req, arg'[q] = m, KindOf(op'[q]) = k PROVE Uses(k, m)
    <3>1. CASE q = r
      BY <1>6, <1>7, <2>2, <3>1 DEF Uses, Named, Late
    <3>2. CASE q # r
      BY <1>8, <2>2, <3>2 DEF Uses, SameReq
    <3>3. QED
      BY <3>1, <3>2
  <2>3. QED
    BY <2>1, <2>2 DEF Uses
<1>18. QED
  BY <1>2, <1>7, <1>8, <1>9, <1>10, <1>12, <1>13, <1>15, <1>16, <1>17, AskStep

\* A cancelled request begins to undo what its result names.
LEMMA CompensateStep ==
  ASSUME ManagerInvariant, NEW r \in Req, Compensate(r)
  PROVE  ManagerInvariant'
<1>1. /\ Typed /\ PoolTyped
      /\ Placed(r) /\ Argued(r) /\ Gated(r) /\ Resulting(r) /\ Stage(r) /\ InsideStage(r)
  BY RequestFacts
<1>2. /\ r \notin background /\ Running /\ at[r] = "result" /\ at' = [at EXCEPT ![r] = "begun"]
      /\ background' = background \cup {r}
      /\ UNCHANGED <<saysDisposed, database, cleanup, continuing, path>>
      /\ UNCHANGED <<reservations, dbs, snaps, retained, gate, baseClosed, told, host, exitErr>>
      /\ UNCHANGED <<pc, leases, active, watchers>>
  BY DEF Compensate, Step, poolVars, resultVars, ownVars, mapVars, hostVars
<1>3. PICK x \in result[r] :
        /\ x[1] \in DOMAIN Undo
        /\ op' = [op EXCEPT ![r] = Undo[x[1]]]
        /\ arg' = [arg EXCEPT ![r] = x[2]]
        /\ result' = [result EXCEPT ![r] = IF x[1] = "lease" THEN @ ELSE @ \ {x}]
  BY Zenon DEF Compensate
<1>4. PICK k \in Kinds, l \in Req : x = <<k, l>>
  BY <1>1 DEF Typed
<1>5. k \in DOMAIN Undo /\ k \in {"reservation", "lease", "database", "snapshot"}
  BY <1>3, <1>4 DEF Undo
<1>6. /\ op' = [op EXCEPT ![r] = Undo[k]] /\ arg' = [arg EXCEPT ![r] = l]
      /\ result' = [result EXCEPT ![r] = IF k = "lease" THEN @ ELSE @ \ {<<k, l>>}]
  BY <1>3, <1>4
<1>7. /\ at'[r] = "begun" /\ op'[r] = Undo[k] /\ arg'[r] = l
      /\ result'[r] = IF k = "lease" THEN result[r] ELSE result[r] \ {<<k, l>>}
  BY <1>1, <1>2, <1>6 DEF Typed
<1>8. /\ Undo[k] \in {"fork_cancel", "handoff_release", "db_close", "snapshot_close"}
      /\ KindOf(Undo[k]) \in {k, "none"}
  BY <1>5 DEF Undo, KindOf
<1>9. \A q \in Req \ {r} : SameReq(q)
  BY <1>1, <1>2, <1>6 DEF SameReq, Typed
<1>10. \A m \in Req : SameLease(m)
  BY <1>2 DEF SameLease
<1>11. Typed' /\ PoolTyped'
  <2>1. at' \in [Req -> Places]
    BY <1>1, <1>2 DEF Typed, Places
  <2>2. op' \in [Req -> AllOps \cup {"none"}] /\ arg' \in [Req -> Req \cup {NoReq, Base}]
    BY <1>1, <1>6, <1>8 DEF Typed, AllOps
  <2>3. result' \in [Req -> SUBSET (Kinds \X Req)]
    BY <1>1, <1>6 DEF Typed
  <2>4. QED
    BY <1>1, <1>2, <2>1, <2>2, <2>3 DEF Typed, PoolTyped
<1>12. r \notin saysDisposed
  BY <1>1, <1>2, <1>3 DEF Resulting
<1>13. Placed(r)' /\ Argued(r)' /\ Resulting(r)'
  BY <1>2, <1>7, <1>8, <1>12 DEF Placed, Argued, Resulting
<1>14. ~Making(r)' /\ at'[r] = "begun"
  BY <1>7, <1>8 DEF Making
<1>15. Stage(r)'
  BY <1>14 DEF Stage, Starting, Failed
<1>16. NewNames(r, {})
  <2> SUFFICES ASSUME NEW j \in Late \cup {"reservation"}, NEW m \in Req, Uses(j, m)'
               PROVE  Uses(j, m)
    BY DEF NewNames
  <2>1. CASE <<j, m>> \in told'
    BY <1>2, <2>1 DEF Uses, Named
  <2>2. ASSUME NEW q \in Req, <<j, m>> \in result'[q] PROVE Uses(j, m)
    BY <1>7, <1>9, <2>2 DEF SameReq, Uses, Named
  <2>3. ASSUME NEW q \in Req, arg'[q] = m, KindOf(op'[q]) = j PROVE Uses(j, m)
    <3>1. CASE q = r
      BY <1>3, <1>4, <1>7, <1>8, <2>3, <3>1 DEF Uses, Named, Late
    <3>2. CASE q # r
      BY <1>9, <2>3, <3>2 DEF Uses, SameReq
    <3>3. QED
      BY <3>1, <3>2
  <2>4. QED
    BY <2>1, <2>2, <2>3 DEF Uses, Named
<1>17. ASSUME NEW j \in Kinds, NEW m \in Req, Named(j, m)
       PROVE  \/ Named(j, m)'
              \/ j \in DOMAIN Undo \ {"lease"} /\ Undoing(r, Undo[j], m)' /\ at'[r] = "begun"
  <2>1. CASE j = k /\ m = l /\ k # "lease"
    BY <1>2, <1>5, <1>7, <2>1 DEF Undoing
  <2>2. CASE ~(j = k /\ m = l /\ k # "lease")
    <3>1. <<j, m>> \in result[r] => <<j, m>> \in result'[r]
      BY <1>7, <2>2
    <3>2. QED
      BY <1>2, <1>9, <1>17, <3>1 DEF Named, SameReq
  <2>3. QED
    BY <2>1, <2>2
<1>18. host \in {"serving", "draining"}
  BY <1>1, <1>2 DEF ManagerInvariant, Hosting, Pending, Running, Typed
<1>19. QED
  BY <1>2, <1>7, <1>9, <1>10, <1>11, <1>13, <1>14, <1>15, <1>16, <1>17, <1>18, AskStep

\* A reply tells the owner the names in its result.
LEMMA ReplyStep ==
  ASSUME ManagerInvariant, NEW r \in Req, Reply(r)
  PROVE  ManagerInvariant'
<1>1. /\ Typed /\ PoolTyped
      /\ Placed(r) /\ Argued(r) /\ Gated(r) /\ Resulting(r) /\ Stage(r) /\ InsideStage(r)
  BY RequestFacts
<1>2. /\ Running /\ at[r] = "result" /\ at' = [at EXCEPT ![r] = "done"]
      /\ told' = told \cup result[r]
      /\ UNCHANGED <<op, arg, background, result, saysDisposed, database, cleanup, continuing, path>>
      /\ UNCHANGED <<reservations, dbs, snaps, retained, gate, baseClosed, host, exitErr>>
      /\ UNCHANGED <<pc, leases, active, watchers>>
  BY DEF Reply, Step, poolVars, callVars, resultVars, ownVars, mapVars
<1>3. at'[r] = "done" /\ at' \in [Req -> Places]
  BY <1>1, <1>2 DEF Typed, Places
<1>4. \A q \in Req \ {r} : SameReq(q)
  BY <1>1, <1>2 DEF SameReq, Typed
<1>5. \A m \in Req : SameLease(m)
  BY <1>2 DEF SameLease
<1>6. Typed' /\ PoolTyped'
  BY <1>1, <1>2, <1>3 DEF Typed, PoolTyped
<1>7. Placed(r)' /\ Argued(r)' /\ Resulting(r)'
  BY <1>1, <1>2, <1>3 DEF Placed, Argued, Resulting
<1>8. ~Making(r)' /\ Stage(r)'
  BY <1>2, <1>3 DEF Making, Stage, Starting, Failed
<1>9. \A k, m : Named(k, m)' <=> Named(k, m)
  BY <1>2 DEF Named
<1>10. NewNames(r, {})
  BY <1>2, <1>9 DEF NewNames, Uses
<1>11. host \in {"serving", "draining"}
  BY <1>1, <1>2 DEF ManagerInvariant, Hosting, Pending, Running, Typed
<1>12. QED
  BY <1>2, <1>3, <1>4, <1>5, <1>6, <1>7, <1>8, <1>9, <1>10, <1>11, AskStep

-----------------------------------------------------------------------------
(* Steps that belong to no single request                                  *)

\* Requests stay what they are; one that closes the baseline may go on.
Kept(q) ==
  \/ SameReq(q)
  \/ /\ at[q] \in Revoking /\ at'[q] \in Revoking
     /\ op'[q] = op[q] /\ arg'[q] = arg[q] /\ result'[q] = result[q]
     /\ q \in background' <=> q \in background
     /\ q \in saysDisposed' <=> q \in saysDisposed

AllKept == (\A q \in Req : Kept(q)) /\ told' = told /\ (exitErr => exitErr')

\* A request that is not about to revoke a pool does not change its role.
LEMMA KeptFacts ==
  ASSUME ManagerInvariant, AllKept, NEW q \in Req
  PROVE  /\ op'[q] = op[q] /\ arg'[q] = arg[q] /\ result'[q] = result[q] /\ Lease(q)' = Lease(q)
         /\ q \in background' <=> q \in background
         /\ SameReq(q) \/ (~Own(q) /\ at[q] \notin Inside /\ at[q] \in Revoking /\ at'[q] \in Revoking)
         /\ at'[q] \in Starting \cup Inside => SameReq(q)
         /\ Making(q)' => Making(q) /\ SameReq(q)
         /\ at[q] \in Failed \cup Starting => at'[q] = at[q]
         /\ Undoing(q, "db_close", arg[q]) => Undoing(q, "db_close", arg[q])'
         /\ Undoing(q, "fork_cancel", arg[q]) => Undoing(q, "fork_cancel", arg[q])'
         /\ Undoing(q, "snapshot_close", arg[q]) /\ at[q] = "begun" =>
              (Undoing(q, "snapshot_close", arg[q]) /\ at[q] = "begun")'
<1>1. Placed(q) /\ Kept(q)
  BY RequestFacts DEF AllKept
<1>2. CASE SameReq(q)
  BY <1>2 DEF SameReq, Lease, Making, Undoing, Starting, Failed
<1>3. CASE ~SameReq(q)
  <2>1. /\ at[q] \in Revoking /\ at'[q] \in Revoking /\ op[q] = "snapshot_close"
        /\ op'[q] = op[q] /\ arg'[q] = arg[q] /\ result'[q] = result[q]
        /\ q \in background' <=> q \in background
    BY <1>1, <1>3 DEF Kept, Placed, Revoking
  <2>2. ~Making(q) /\ ~Making(q)' /\ ~Own(q)
    BY <2>1 DEF Making, Own, Revoking, Starting
  <2>3. /\ at[q] \notin Inside \cup Starting \cup Failed \cup {"begun"}
        /\ at'[q] \notin Inside \cup Starting
    BY <2>1 DEF Revoking, Inside, Starting, Failed
  <2>4. QED
    BY <2>1, <2>2, <2>3 DEF Lease, Undoing
<1>4. QED
  BY <1>2, <1>3

\* What is known of a lease, and who works for it, stays.
LEMMA KeptNames ==
  ASSUME ManagerInvariant, AllKept
  PROVE  /\ \A k, m : Named(k, m)' <=> Named(k, m)
         /\ \A k, m : Uses(k, m)' <=> Uses(k, m)
         /\ \A m \in Req, q \in Req :
              /\ \A o \in {"db_close", "fork_cancel"} : Undoing(q, o, m) => Undoing(q, o, m)'
              /\ Undoing(q, "snapshot_close", m) /\ at[q] = "begun" =>
                   (Undoing(q, "snapshot_close", m) /\ at[q] = "begun")'
              /\ at[q] \in Failed /\ Lease(q) = m => at'[q] \in Failed /\ Lease(q)' = m
<1>1. \A q \in Req : op'[q] = op[q] /\ arg'[q] = arg[q] /\ result'[q] = result[q]
  BY KeptFacts
<1>2. \A k, m : Named(k, m)' <=> Named(k, m)
  BY <1>1 DEF Named, AllKept
<1>3. \A k, m : Uses(k, m)' <=> Uses(k, m)
  BY <1>1, <1>2 DEF Uses
<1>4. ASSUME NEW m \in Req, NEW q \in Req
      PROVE  /\ \A o \in {"db_close", "fork_cancel"} : Undoing(q, o, m) => Undoing(q, o, m)'
             /\ Undoing(q, "snapshot_close", m) /\ at[q] = "begun" =>
                  (Undoing(q, "snapshot_close", m) /\ at[q] = "begun")'
             /\ at[q] \in Failed /\ Lease(q) = m => at'[q] \in Failed /\ Lease(q)' = m
  BY KeptFacts DEF Undoing
<1>5. QED
  BY <1>2, <1>3, <1>4

\* A lease that does not change stays in order, registered and known.
LEMMA LeaseKept ==
  ASSUME ManagerInvariant, AllKept, NEW m \in Req, SameLease(m)
  PROVE  /\ Slot(m)' /\ Registry(m)' /\ Registered(m)' /\ KnownNames(m)'
         /\ \A k \in Late \cup {"reservation"} : Means(k, m) => Means(k, m)'
<1>1. Slot(m) /\ Registry(m) /\ Registered(m) /\ KnownNames(m)
  BY LeaseFacts
<1>2. Slot(m)' /\ Registry(m)'
  BY <1>1 DEF SameLease, Slot, Registry, Clean, HasResources
<1>3. Registered(m)'
  BY <1>1, KeptNames DEF Registered, SameLease, AllKept
<1>4. KnownNames(m)'
  BY <1>1, KeptNames DEF KnownNames, SameLease, HasResources
<1>5. \A k \in Late \cup {"reservation"} : Means(k, m) => Means(k, m)'
  BY DEF SameLease, Means, IsExport, IsFailure
<1>6. QED
  BY <1>2, <1>3, <1>4, <1>5

\* What requests have reached stays when the leases they work on do not change.
LEMMA StageKept ==
  ASSUME ManagerInvariant, AllKept, NEW q \in Req,
         Own(q) => SameLease(Lease(q)), at[q] \in Inside => SameLease(arg[q])
  PROVE  Stage(q)' /\ InsideStage(q)'
<1>1. Stage(q) /\ InsideStage(q) /\ Placed(q)
  BY RequestFacts
<1>2. CASE SameReq(q)
  BY <1>1, <1>2, OwnLease, StageSame, InsideSame
<1>3. CASE ~SameReq(q)
  <2>1. at'[q] \in Revoking /\ op'[q] = op[q] /\ at[q] \in Revoking
    BY <1>3, KeptFacts
  <2>2. QED
    BY <1>1, <2>1 DEF Stage, InsideStage, Making, Placed, Revoking, Failed, Inside
<1>4. QED
  BY <1>2, <1>3

\* A step that keeps the requests, and every lease in order, preserves the invariant.
LEMMA OutsideStep ==
  ASSUME ManagerInvariant, Typed', PoolTyped', AllKept, gate' = gate, snaps' \subseteq snaps,
         \A m \in Req : Slot(m)' /\ Registry(m)' /\ Registered(m)' /\ KnownNames(m)',
         \A m \in Req : reservations'[m] \in {reservations[m], "none"},
         \A m \in Req : \A k \in Late \cup {"reservation"} :
           Uses(k, m) /\ Means(k, m) => Means(k, m)',
         \A q \in Req : Stage(q)' /\ InsideStage(q)',
         Hosting', BaseKept'
  PROVE  ManagerInvariant'
<1>1. /\ Typed /\ Requests /\ Naming /\ Meanings /\ Leases /\ Stages /\ OneStart
      /\ Lists /\ SnapshotsKnown /\ Hosting /\ BaseKept
  BY DEF ManagerInvariant
<1>2. ASSUME NEW q \in Req PROVE Placed(q)' /\ Argued(q)' /\ Gated(q)' /\ Resulting(q)'
  <2>1. Placed(q) /\ Argued(q) /\ Gated(q) /\ Resulting(q) /\ Kept(q)
    BY RequestFacts DEF AllKept
  <2>2. CASE SameReq(q)
    BY <2>1, <2>2 DEF SameReq, Placed, Argued, Gated, Resulting, AllKept
  <2>3. CASE ~SameReq(q)
    BY <2>1, <2>3 DEF Kept, Revoking, Placed, Argued, Gated, Resulting, Inside
  <2>4. QED
    BY <2>2, <2>3
<1>3. Requests'
  BY <1>2 DEF Requests
<1>4. Naming'
  <2>1. \A m \in Req : (Early(m) => Early(m)') /\ (Fresh(m) => Fresh(m)')
    BY KeptNames DEF Early, Fresh
  <2>2. \A q \in Req : Making(q)' => Fresh(q)'
    BY <1>1, <2>1, KeptFacts DEF Naming
  <2>3. ASSUME NEW q \in Req, at'[q] \in Starting PROVE Early(Lease(q))'
    <3>1. at[q] \in Starting /\ Lease(q)' = Lease(q)
      BY <2>3, KeptFacts DEF SameReq
    <3>2. Lease(q) \in Req /\ Early(Lease(q))
      BY <3>1, OwnLease DEF Own
    <3>3. PICK m \in Req : m = Lease(q)
      BY <3>2
    <3>4. Early(m)'
      BY <2>1, <3>2, <3>3
    <3>5. QED
      BY <3>1, <3>3, <3>4 DEF Early, Uses, Named
  <2>4. \A m \in Req : reservations'[m] \in {"reserved", "starting"} => Early(m)'
    BY <1>1, <2>1 DEF Naming
  <2>5. QED
    BY <2>2, <2>3, <2>4 DEF Naming
<1>5. Meanings'
  BY <1>1, KeptNames DEF Meanings
<1>6. Leases'
  <2> SUFFICES ASSUME NEW m \in Req PROVE Holder(m)'
    BY DEF Leases
  <2>1. ASSUME gate[m] # NoReq PROVE arg'[gate[m]] = m /\ at'[gate[m]] \in Inside
    <3>1. gate[m] \in Req /\ arg[gate[m]] = m /\ at[gate[m]] \in Inside
      BY <1>1, <2>1 DEF Leases, Holder, Typed
    <3>2. SameReq(gate[m])
      BY <3>1, KeptFacts
    <3>3. QED
      BY <3>1, <3>2 DEF SameReq
  <2>2. QED
    BY <2>1 DEF Holder
<1>7. OneStart'
  <2> SUFFICES ASSUME NEW q \in Req, NEW r \in Req, at'[q] \in Starting, at'[r] \in Starting,
                      Lease(q)' = Lease(r)'
               PROVE  q = r
    BY DEF OneStart
  <2>1. at[q] \in Starting /\ at[r] \in Starting /\ Lease(q) = Lease(r)
    BY KeptFacts DEF SameReq
  <2>2. QED
    BY <1>1, <2>1 DEF OneStart
<1>8. SnapshotsKnown'
  <2> SUFFICES ASSUME NEW m \in Req, m \in snaps' PROVE SnapshotKnown(m)'
    BY DEF SnapshotsKnown, SnapshotKnown
  <2>1. SnapshotKnown(m) /\ m \in snaps
    BY <1>1 DEF SnapshotsKnown
  <2>2. QED
    BY <2>1, KeptNames DEF SnapshotKnown
<1>9. Stages' /\ Lists'
  BY DEF Stages, Lists
<1>10. QED
  BY <1>3, <1>4, <1>5, <1>6, <1>7, <1>8, <1>9 DEF ManagerInvariant

\* So does one that changes no lease at all.
LEMMA HostStep ==
  ASSUME ManagerInvariant, Typed', PoolTyped', AllKept, gate' = gate, snaps' \subseteq snaps,
         \A m \in Req : SameLease(m), Hosting', BaseKept'
  PROVE  ManagerInvariant'
<1>1. \A m \in Req : reservations'[m] = reservations[m]
  BY DEF SameLease
<1>2. \A q \in Req : at[q] \in Inside => arg[q] \in Req
  BY RequestFacts DEF Inside, Placed, Argued, DatabaseOps
<1>3. \A q \in Req : Stage(q)' /\ InsideStage(q)'
  BY <1>2, StageKept, OwnLease
<1>4. QED
  BY <1>1, <1>3, LeaseKept, OutsideStep

\* Requests and leases that a step leaves alone.
LEMMA AllSame ==
  ASSUME UNCHANGED <<callVars, resultVars, at, told>>, exitErr => exitErr'
  PROVE  AllKept
BY DEF AllKept, Kept, SameReq, callVars, resultVars

\* The end of a context changes nothing that the manager keeps.
LEMMA CancelRequestStep ==
  ASSUME ManagerInvariant, NEW r \in Req, CancelRequest(r)
  PROVE  ManagerInvariant'
<1>1. /\ Typed /\ PoolTyped /\ Hosting /\ BaseKept
  BY DEF ManagerInvariant
<1>2. /\ UNCHANGED <<pc, leases, active, watchers>>
      /\ UNCHANGED <<callVars, resultVars, at, ownVars, mapVars, gate, baseClosed, hostVars>>
  BY DEF CancelRequest, Pool!ContextEnds, Pool!poolVars
<1>3. AllKept
  BY <1>2, AllSame DEF hostVars
<1>4. \A m \in Req : SameLease(m)
  BY <1>2 DEF SameLease, ownVars, mapVars
<1>5. Typed' /\ PoolTyped' /\ snaps' \subseteq snaps
  BY <1>1, <1>2 DEF Typed, PoolTyped, callVars, resultVars, ownVars, mapVars, hostVars
<1>6. Hosting' /\ BaseKept'
  BY <1>1, <1>2 DEF Hosting, BaseKept, Empty, Pending, mapVars, hostVars
<1>7. QED
  BY <1>2, <1>3, <1>4, <1>5, <1>6, HostStep

\* A step of the host that changes no map.
LEMMA LoopStep ==
  ASSUME ManagerInvariant,
         UNCHANGED <<poolVars, callVars, resultVars, at, ownVars, mapVars, gate, baseClosed, told>>,
         host' \in {"serving", "idle", "draining", "cleaning", "releasing", "exited"},
         exitErr' \in {exitErr, TRUE}, Hosting'
  PROVE  ManagerInvariant'
<1>1. /\ Typed /\ PoolTyped /\ BaseKept
  BY DEF ManagerInvariant
<1>2. AllKept
  <2>1. exitErr => exitErr'
    OBVIOUS
  <2>2. QED
    BY <2>1, AllSame
<1>3. \A m \in Req : SameLease(m)
  BY DEF SameLease, ownVars, mapVars, poolVars
<1>4. Typed' /\ PoolTyped' /\ snaps' \subseteq snaps
  BY <1>1 DEF Typed, PoolTyped, callVars, resultVars, ownVars, mapVars, poolVars
<1>5. BaseKept'
  BY <1>1 DEF BaseKept, mapVars
<1>6. QED
  BY <1>2, <1>3, <1>4, <1>5, HostStep

\* The host stops reading requests, gives up, or is done.
LEMMA LoopSteps ==
  ASSUME ManagerInvariant, Shutdown \/ OwnerEnds \/ FinalEnds \/ FinalTimesOut
  PROVE  ManagerInvariant'
<1>1. /\ Typed /\ Hosting /\ BaseKept
  BY DEF ManagerInvariant
<1>2. CASE Shutdown
  <2>1. /\ host = "serving" /\ host' = "idle" /\ exitErr' = exitErr
        /\ Pending = {} /\ Empty /\ snaps = {}
    BY <1>2 DEF Shutdown, Idle, Empty
  <2>2. UNCHANGED <<poolVars, callVars, resultVars, at, ownVars, mapVars, gate, baseClosed, told>>
    BY <1>2 DEF Shutdown
  <2>3. Hosting'
    BY <1>1, <2>1, <2>2 DEF Hosting, Empty, Pending, mapVars
  <2>4. QED
    BY <2>1, <2>2, <2>3, LoopStep
<1>3. CASE OwnerEnds
  <2>1. host = "serving" /\ host' = "draining" /\ exitErr' = exitErr
    BY <1>3 DEF OwnerEnds
  <2>2. UNCHANGED <<poolVars, callVars, resultVars, at, ownVars, mapVars, gate, baseClosed, told>>
    BY <1>3 DEF OwnerEnds
  <2>3. Hosting'
    BY <1>1, <2>1 DEF Hosting
  <2>4. QED
    BY <2>1, <2>2, <2>3, LoopStep
<1>4. CASE FinalEnds
  <2>1. /\ host = "releasing" /\ host' = "exited" /\ exitErr' = exitErr
        /\ retained = {} /\ \A l \in Req : reservations[l] = "none"
    BY <1>4 DEF FinalEnds
  <2>2. UNCHANGED <<poolVars, callVars, resultVars, at, ownVars, mapVars, gate, baseClosed, told>>
    BY <1>4 DEF FinalEnds
  <2>3. Pending = {} /\ dbs = {} /\ snaps = {}
    BY <1>1, <2>1 DEF Hosting
  <2>4. baseClosed
    BY <1>1, <2>3 DEF BaseKept, Pending
  <2>5. Hosting'
    BY <2>1, <2>2, <2>3, <2>4 DEF Hosting, Empty, Pending, mapVars
  <2>6. QED
    BY <2>1, <2>2, <2>5, LoopStep
<1>5. CASE FinalTimesOut
  <2>1. host' = "exited" /\ exitErr' = TRUE
    BY <1>5 DEF FinalTimesOut
  <2>2. UNCHANGED <<poolVars, callVars, resultVars, at, ownVars, mapVars, gate, baseClosed, told>>
    BY <1>5 DEF FinalTimesOut
  <2>3. Hosting'
    BY <2>1 DEF Hosting
  <2>4. QED
    BY <2>1, <2>2, <2>3, LoopStep
<1>6. QED
  BY <1>2, <1>3, <1>4, <1>5

\* When no request is pending, the others have nothing or a clean lease of their own.
LEMMA NobodyWorks ==
  ASSUME ManagerInvariant, Pending = {}
  PROVE  /\ \A q \in Req : at[q] \in {"idle", "done"} /\ at[q] \notin Inside \cup Starting \cup Failed
         /\ \A q \in Req : Own(q) => at[q] = "idle" /\ Lease(q) = q /\ Clean(q) /\ pc[q] = "idle"
                                      /\ reservations[q] = "none" /\ q \notin active
         /\ \A l \in Req : gate[l] = NoReq
<1>1. \A q \in Req : at[q] \in {"idle", "done"} /\ at[q] \notin Inside \cup Starting \cup Failed
  BY DEF Pending, Inside, Starting, Failed
<1>2. ASSUME NEW q \in Req, Own(q)
      PROVE  /\ at[q] = "idle" /\ Lease(q) = q /\ Clean(q) /\ pc[q] = "idle"
             /\ reservations[q] = "none" /\ q \notin active
  <2>1. Stage(q) /\ at[q] = "idle" /\ Lease(q) = q /\ Making(q)
    BY <1>1, <1>2, OwnLease, RequestFacts DEF Own, Making
  <2>2. QED
    BY <2>1 DEF Stage
<1>3. ASSUME NEW l \in Req, gate[l] # NoReq PROVE FALSE
  <2>1. gate[l] \in Req /\ at[gate[l]] \in Inside
    BY <1>3, LeaseFacts, RequestFacts DEF Holder, Typed
  <2>2. QED
    BY <1>1, <2>1
<1>4. QED
  BY <1>1, <1>2, <1>3

\* Closing the pool revokes only leases that nothing was started on.
LEMMA CloseEffects ==
  ASSUME Pool!Close, PoolTyped
  PROVE  leases' \in {leases, leases \cap active} /\ UNCHANGED <<active, watchers, pc>> /\ PoolTyped'
<1>1. leases' \in {leases, leases \cap active} /\ UNCHANGED <<active, watchers, pc>>
  BY DEF Pool!Close, Pool!PoolClose
<1>2. QED
  BY <1>1 DEF PoolTyped

\* Closing the pool of the baseline disturbs no lease that has resources.
LEMMA RevokedStep ==
  ASSUME ManagerInvariant, Typed', Pool!Close, AllKept, Hosting', BaseKept',
         UNCHANGED <<ownVars, mapVars, gate>>
  PROVE  ManagerInvariant'
<1>1. /\ PoolTyped /\ PoolTyped' /\ UNCHANGED <<active, watchers, pc>>
      /\ leases' \in {leases, leases \cap active}
      /\ UNCHANGED <<database, cleanup, continuing, path, reservations, dbs, retained, snaps>>
  BY CloseEffects DEF ManagerInvariant, ownVars, mapVars
<1>2. ASSUME NEW m \in Req
      PROVE  /\ Slot(m)' /\ Registry(m)' /\ Registered(m)' /\ KnownNames(m)'
             /\ \A k \in Late \cup {"reservation"} : Means(k, m) => Means(k, m)'
  <2>1. Slot(m) /\ Registry(m) /\ Registered(m) /\ KnownNames(m)
    BY LeaseFacts
  <2>2. Slot(m)' /\ Registry(m)'
    BY <1>1, <2>1 DEF Slot, Registry, Clean, HasResources
  <2>3. Registered(m)'
    BY <1>1, <2>1, KeptNames DEF Registered, AllKept
  <2>4. KnownNames(m)'
    BY <1>1, <2>1, KeptNames DEF KnownNames, HasResources
  <2>5. \A k \in Late \cup {"reservation"} : Means(k, m) => Means(k, m)'
    BY <1>1 DEF Means, IsExport, IsFailure
  <2>6. QED
    BY <2>2, <2>3, <2>4, <2>5
<1>3. ASSUME NEW q \in Req PROVE Stage(q)' /\ InsideStage(q)'
  <2>1. Stage(q) /\ InsideStage(q) /\ Placed(q)
    BY RequestFacts
  <2>2. CASE SameReq(q)
    <3>1. Lease(q)' = Lease(q) /\ Making(q)' = Making(q) /\ at'[q] = at[q] /\ op'[q] = op[q]
          /\ arg'[q] = arg[q] /\ (q \in background' <=> q \in background)
          /\ (q \in saysDisposed' <=> q \in saysDisposed)
      BY <2>2 DEF SameReq, Lease, Making
    <3>2. QED
      BY <1>1, <2>1, <3>1 DEF Stage, InsideStage, Clean, Disposed, PendingCleanup
  <2>3. CASE ~SameReq(q)
    <3>1. at'[q] \in Revoking /\ op'[q] = op[q] /\ at[q] \in Revoking
      BY <2>3, KeptFacts
    <3>2. QED
      BY <2>1, <3>1 DEF Stage, InsideStage, Making, Placed, Revoking, Failed, Inside
  <2>4. QED
    BY <2>2, <2>3
<1>4. QED
  BY <1>1, <1>2, <1>3, OutsideStep

\* snapshot_close revokes the reservations of the baseline.
LEMMA SnapshotRevokesStep ==
  ASSUME ManagerInvariant, NEW r \in Req, SnapshotRevokes(r)
  PROVE  ManagerInvariant'
<1>1. /\ Typed /\ PoolTyped /\ Hosting /\ BaseKept
  BY DEF ManagerInvariant
<1>2. /\ Running /\ at[r] = "revoking" /\ at' = [at EXCEPT ![r] = "sweeping"] /\ Pool!Close
      /\ UNCHANGED <<callVars, resultVars, ownVars, mapVars, gate, baseClosed, hostVars>>
  BY DEF SnapshotRevokes, Step
<1>3. at'[r] = "sweeping" /\ \A q \in Req \ {r} : at'[q] = at[q]
  BY <1>1, <1>2 DEF Typed
<1>4. AllKept
  BY <1>2, <1>3 DEF AllKept, Kept, SameReq, Revoking, callVars, resultVars, hostVars
<1>5. Typed'
  <2>1. at' \in [Req -> Places]
    BY <1>1, <1>2 DEF Typed, Places
  <2>2. QED
    BY <1>1, <1>2, <2>1 DEF Typed, callVars, resultVars, ownVars, mapVars, hostVars
<1>6. Hosting'
  <2>1. r \in Pending
    BY <1>2 DEF Pending
  <2>2. QED
    BY <1>1, <1>2, <2>1 DEF Hosting, Running, Typed, hostVars
<1>7. BaseKept'
  BY <1>3 DEF BaseKept
<1>8. QED
  BY <1>2, <1>4, <1>5, <1>6, <1>7, RevokedStep

\* The final cleanup begins when every request has returned.
LEMMA FinalBeginsStep ==
  ASSUME ManagerInvariant, FinalBegins
  PROVE  ManagerInvariant'
<1>1. /\ Typed /\ PoolTyped /\ Hosting /\ BaseKept
  BY DEF ManagerInvariant
<1>2. /\ Pending = {} /\ host' = "cleaning"
      /\ IF Base \in snaps THEN Pool!Close ELSE UNCHANGED poolVars
      /\ UNCHANGED <<callVars, resultVars, at, ownVars, mapVars, gate, baseClosed, told, exitErr>>
  BY DEF FinalBegins
<1>3. AllKept
  BY <1>2, AllSame
<1>4. Typed'
  BY <1>1, <1>2 DEF Typed, callVars, resultVars, ownVars, mapVars
<1>5. Hosting' /\ BaseKept'
  BY <1>1, <1>2 DEF Hosting, BaseKept, Pending, mapVars
<1>6. CASE Pool!Close
  BY <1>2, <1>3, <1>4, <1>5, <1>6, RevokedStep
<1>7. CASE UNCHANGED poolVars
  BY <1>2, <1>5, <1>7, LoopStep
<1>8. QED
  BY <1>2, <1>6, <1>7

-----------------------------------------------------------------------------
(* Background disposal and the final cleanup of one lease                  *)

\* A step that changes one lease, and leaves it in order, preserves the invariant.
LEMMA OneLeaseStep ==
  ASSUME ManagerInvariant, NEW l \in Req, Typed', PoolTyped', AllKept, gate' = gate,
         snaps' \subseteq snaps, \A q \in Req : SameReq(q), \A m \in Req \ {l} : SameLease(m),
         Slot(l)', Registry(l)', Registered(l)', KnownNames(l)',
         reservations'[l] \in {reservations[l], "none"},
         \A k \in Late \cup {"reservation"} : Uses(k, l) /\ Means(k, l) => Means(k, l)',
         \A q \in Req : Own(q) /\ Lease(q) = l => Stage(q)',
         \A q \in Req : at[q] \in Inside /\ arg[q] = l => InsideStage(q)',
         Hosting', BaseKept'
  PROVE  ManagerInvariant'
<1>1. ASSUME NEW q \in Req PROVE Stage(q)' /\ InsideStage(q)'
  <2>1. Stage(q) /\ InsideStage(q) /\ Placed(q) /\ Argued(q) /\ SameReq(q)
    BY RequestFacts
  <2>2. at[q] \in Inside => arg[q] \in Req /\ ~Own(q)
    BY <2>1 DEF Inside, Placed, Argued, DatabaseOps, Own, Starting
  <2>3. CASE Own(q) /\ Lease(q) = l
    <3>1. at'[q] \notin Inside
      BY <2>1, <2>2, <2>3 DEF SameReq
    <3>2. QED
      BY <2>3, <3>1 DEF InsideStage, Inside
  <2>4. CASE at[q] \in Inside /\ arg[q] = l
    <3>1. Stage(q)'
      BY <2>1, <2>2, <2>4, StageSame
    <3>2. QED
      BY <2>4, <3>1
  <2>5. CASE ~(Own(q) /\ Lease(q) = l) /\ ~(at[q] \in Inside /\ arg[q] = l)
    BY <2>1, <2>2, <2>5, OwnLease, StageSame, InsideSame
  <2>6. QED
    BY <2>3, <2>4, <2>5
<1>2. ASSUME NEW m \in Req
      PROVE  /\ Slot(m)' /\ Registry(m)' /\ Registered(m)' /\ KnownNames(m)'
             /\ reservations'[m] \in {reservations[m], "none"}
             /\ \A k \in Late \cup {"reservation"} : Uses(k, m) /\ Means(k, m) => Means(k, m)'
  <2>1. CASE m = l
    BY <2>1
  <2>2. CASE m # l
    BY <2>2, LeaseKept DEF SameLease
  <2>3. QED
    BY <2>1, <2>2
<1>3. QED
  BY <1>1, <1>2, OutsideStep

\* The background goroutine of an owner tries once.
LEMMA OwnerContinuesStep ==
  ASSUME ManagerInvariant, NEW l \in Req, OwnerContinues(l)
  PROVE  ManagerInvariant'
<1>1. /\ Typed /\ PoolTyped /\ Hosting /\ BaseKept
      /\ Slot(l) /\ Registry(l) /\ Registered(l) /\ KnownNames(l)
  BY LeaseFacts DEF ManagerInvariant
<1>2. /\ l \in continuing /\ continuing' = continuing \ {l}
      /\ \/ cleanup' = [cleanup EXCEPT ![l] = "done"] /\ path' = path \ {l}
         \/ RetryFails(l) /\ path' = path
      /\ UNCHANGED <<poolVars, callVars, resultVars, at, database, mapVars, gate, baseClosed, hostVars>>
  BY DEF OwnerContinues
<1>3. /\ UNCHANGED <<pc, leases, active, watchers, op, arg, background, result, saysDisposed>>
      /\ UNCHANGED <<at, database, reservations, dbs, retained, snaps, gate, baseClosed>>
      /\ UNCHANGED <<told, host, exitErr>>
  BY <1>2 DEF poolVars, callVars, resultVars, mapVars, hostVars
<1>4. /\ cleanup' \in [Req -> Owned \cup {"none", "done"}]
      /\ \A m \in Req \ {l} : cleanup'[m] = cleanup[m]
      /\ \/ cleanup'[l] = "done" /\ l \notin path'
         \/ /\ PendingCleanup(l) /\ path' = path
            /\ cleanup'[l] = cleanup[l] \/ (cleanup[l] = "startup" /\ cleanup'[l] = "closing")
      /\ path' \subseteq path /\ path \ {l} \subseteq path'
  <2>1. CASE cleanup' = [cleanup EXCEPT ![l] = "done"] /\ path' = path \ {l}
    BY <1>1, <2>1 DEF Typed
  <2>2. CASE RetryFails(l) /\ path' = path
    BY <1>1, <2>2, RetryEffects
  <2>3. QED
    BY <1>2, <2>1, <2>2
<1>5. Typed' /\ PoolTyped'
  BY <1>1, <1>2, <1>3, <1>4 DEF Typed, PoolTyped
<1>6. AllKept /\ \A q \in Req : SameReq(q)
  BY <1>3, AllSame DEF SameReq, callVars, resultVars
<1>7. \A m \in Req \ {l} : SameLease(m)
  BY <1>2, <1>3, <1>4 DEF SameLease
<1>8. /\ cleanup[l] # "none" /\ database[l] # "serving" /\ pc[l] \in {"idle", "held"}
      /\ ~Clean(l) /\ reservations[l] # "reserved" /\ cleanup'[l] # "none"
  BY <1>1, <1>2, <1>4 DEF Registry, Slot, Clean, PendingCleanup
<1>9. HasResources(l)' => HasResources(l)
  BY <1>3, <1>4 DEF HasResources
<1>10. Slot(l)'
  BY <1>1, <1>3, <1>8, <1>9 DEF Slot
<1>11. Registry(l)'
  BY <1>1, <1>3, <1>4, <1>8 DEF Registry
<1>12. Registered(l)'
  BY <1>1, <1>3, <1>4, <1>6, KeptNames DEF Registered
<1>13. KnownNames(l)'
  BY <1>1, <1>3, <1>6, <1>9, KeptNames DEF KnownNames
<1>14. \A k \in Late \cup {"reservation"} : Means(k, l) => Means(k, l)'
  BY <1>3, <1>4, <1>8 DEF Means, IsExport, IsFailure
<1>15. ASSUME NEW q \in Req, Own(q), Lease(q) = l PROVE Stage(q)'
  <2>1. Stage(q) /\ Lease(q)' = Lease(q) /\ Making(q)' = Making(q) /\ at'[q] = at[q]
        /\ op'[q] = op[q]
    BY <1>3, RequestFacts DEF Lease, Making
  <2>2. QED
    BY <1>3, <1>8, <1>15, <2>1 DEF Stage
<1>16. ASSUME NEW q \in Req, at[q] \in Inside, arg[q] = l PROVE InsideStage(q)'
  BY <1>3, <1>4, <1>8, <1>16, RequestFacts DEF InsideStage, Disposed, PendingCleanup, Owned
<1>17. Hosting' /\ BaseKept'
  BY <1>1, <1>3 DEF Hosting, BaseKept, Empty, Pending
<1>18. QED
  BY <1>3, <1>5, <1>6, <1>7, <1>10, <1>11, <1>12, <1>13, <1>14, <1>15, <1>16, <1>17, OneLeaseStep

\* The pool's watcher of a lease gives the slot back when its cleanup is done.
LEMMA WatcherSettlesStep ==
  ASSUME ManagerInvariant, NEW l \in Req, WatcherSettles(l)
  PROVE  ManagerInvariant'
<1>1. /\ Typed /\ PoolTyped /\ Hosting /\ BaseKept
      /\ Slot(l) /\ Registry(l) /\ Registered(l) /\ KnownNames(l)
  BY LeaseFacts DEF ManagerInvariant
<1>2. /\ l \in watchers /\ watchers' = watchers \ {l} /\ pc' = pc
      /\ active' = active /\ leases' \in {leases, leases \ {l}} /\ ~PendingCleanup(l)
      /\ UNCHANGED <<callVars, resultVars, at, ownVars, mapVars, gate, baseClosed, hostVars>>
  BY DEF WatcherSettles, Pool!WatcherSettles, Pool!Settle, Pool!Release, Pool!NoEffect, Pool!poolVars
<1>3. /\ UNCHANGED <<op, arg, background, result, saysDisposed, at, database, cleanup, continuing>>
      /\ UNCHANGED <<path, reservations, dbs, retained, snaps, gate, baseClosed>>
      /\ UNCHANGED <<told, host, exitErr>>
  BY <1>2 DEF callVars, resultVars, ownVars, mapVars, hostVars
<1>4. Typed' /\ PoolTyped'
  BY <1>1, <1>2, <1>3 DEF Typed, PoolTyped
<1>5. AllKept /\ \A q \in Req : SameReq(q)
  BY <1>3, AllSame DEF SameReq, callVars, resultVars
<1>6. \A m \in Req \ {l} : SameLease(m)
  BY <1>2, <1>3 DEF SameLease
<1>7. cleanup[l] = "done" /\ ~HasResources(l) /\ pc[l] \in {"idle", "held"} /\ ~Clean(l)
  BY <1>1, <1>2 DEF Registry, Slot, Clean, PendingCleanup, HasResources, Typed
<1>8. Slot(l)' /\ Registry(l)'
  BY <1>1, <1>2, <1>3, <1>7 DEF Slot, Registry, Clean, HasResources
<1>9. Registered(l)' /\ KnownNames(l)'
  BY <1>1, <1>3, <1>5, KeptNames DEF Registered, KnownNames, HasResources
<1>10. \A k \in Late \cup {"reservation"} : Means(k, l) => Means(k, l)'
  BY <1>2, <1>3 DEF Means, IsExport, IsFailure
<1>11. ASSUME NEW q \in Req, Own(q), Lease(q) = l PROVE Stage(q)'
  <2>1. Stage(q) /\ Lease(q)' = Lease(q) /\ Making(q)' = Making(q) /\ at'[q] = at[q]
        /\ op'[q] = op[q]
    BY <1>3, RequestFacts DEF Lease, Making
  <2>2. QED
    BY <1>2, <1>3, <1>7, <1>11, <2>1 DEF Stage
<1>12. ASSUME NEW q \in Req, at[q] \in Inside, arg[q] = l PROVE InsideStage(q)'
  BY <1>3, <1>12, RequestFacts DEF InsideStage, Disposed, PendingCleanup
<1>13. Hosting' /\ BaseKept'
  BY <1>1, <1>3 DEF Hosting, BaseKept, Empty, Pending
<1>14. QED
  BY <1>3, <1>4, <1>5, <1>6, <1>8, <1>9, <1>10, <1>11, <1>12, <1>13, OneLeaseStep

\* The final cleanup closes a database, or leaves it to its owner and reports an error.
LEMMA FinalDatabaseStep ==
  ASSUME ManagerInvariant, NEW l \in Req, FinalDatabase(l)
  PROVE  ManagerInvariant'
<1>1. /\ Typed /\ PoolTyped /\ Hosting /\ BaseKept
      /\ Slot(l) /\ Registry(l) /\ Registered(l) /\ KnownNames(l)
  BY LeaseFacts DEF ManagerInvariant
<1>2. /\ host = "cleaning" /\ l \in dbs /\ dbs' = dbs \ {l}
      /\ database' = [database EXCEPT ![l] = "closed"]
      /\ UNCHANGED <<callVars, resultVars, at, path, reservations, snaps, retained, gate,
                     baseClosed, told, host>>
  BY DEF FinalDatabase
<1>3. \/ /\ cleanup' = [cleanup EXCEPT ![l] = "done"] /\ Pool!Settle(l, TRUE)
         /\ UNCHANGED <<watchers, pc, continuing>> /\ exitErr' \in {exitErr, TRUE}
      \/ /\ cleanup[l] # "done" /\ cleanup' = [cleanup EXCEPT ![l] = "closing"]
         /\ continuing' = continuing \cup {l} /\ Pool!TrackCleanup(l, TRUE) /\ pc' = pc
         /\ exitErr' = TRUE
  BY DEF FinalDatabase
<1>4. UNCHANGED <<op, arg, background, result, saysDisposed>>
  BY <1>2 DEF callVars, resultVars
<1>5. /\ Pending = {} /\ gate[l] = NoReq
      /\ \A q \in Req : at[q] \notin Inside
      /\ \A q \in Req : Own(q) => Lease(q) = q /\ Clean(q) /\ at[q] = "idle"
  BY <1>1, <1>2, NobodyWorks DEF Hosting
<1>6. /\ database[l] # "none" /\ l \notin path /\ l \notin retained /\ reservations[l] = "none"
      /\ pc[l] \in {"idle", "held"}
      /\ cleanup[l] # "done" => HasResources(l)
  BY <1>1, <1>2, <1>5 DEF Registry, Slot, Clean, HasResources, Typed
<1>7. /\ pc' = pc /\ active \subseteq active' /\ active' \subseteq active \cup {l}
      /\ leases' \subseteq leases /\ leases \ {l} \subseteq leases'
      /\ watchers \subseteq watchers' /\ watchers' \subseteq watchers \cup {l}
      /\ continuing' \in {continuing, continuing \cup {l}}
      /\ exitErr' \in {exitErr, TRUE} /\ (exitErr => exitErr')
      /\ cleanup' \in [Req -> Owned \cup {"none", "done"}]
      /\ \A m \in Req \ {l} : cleanup'[m] = cleanup[m]
      /\ \/ cleanup'[l] = "done"
         \/ cleanup'[l] = "closing" /\ leases' = leases /\ exitErr' /\ cleanup[l] # "done"
  <2>1. CASE /\ cleanup' = [cleanup EXCEPT ![l] = "done"] /\ Pool!Settle(l, TRUE)
             /\ UNCHANGED <<watchers, pc, continuing>> /\ exitErr' \in {exitErr, TRUE}
    <3>1. leases' = leases \ {l} /\ active' = active
      BY <2>1, PoolEffects
    <3>2. /\ cleanup' \in [Req -> Owned \cup {"none", "done"}] /\ cleanup'[l] = "done"
          /\ \A m \in Req \ {l} : cleanup'[m] = cleanup[m]
      BY <1>1, <2>1 DEF Typed
    <3>3. exitErr => exitErr'
      BY <2>1
    <3>4. QED
      BY <2>1, <3>1, <3>2, <3>3
  <2>2. CASE /\ cleanup[l] # "done" /\ cleanup' = [cleanup EXCEPT ![l] = "closing"]
             /\ continuing' = continuing \cup {l} /\ Pool!TrackCleanup(l, TRUE) /\ pc' = pc
             /\ exitErr' = TRUE
    <3>1. /\ leases' = leases /\ active' \in {active, active \cup {l}}
          /\ watchers' \in {watchers, watchers \cup {l}}
      BY <2>2, PoolEffects
    <3>2. QED
      BY <1>1, <2>2, <3>1 DEF Typed, Owned
  <2>3. QED
    BY <1>3, <2>1, <2>2
<1>8. Typed' /\ PoolTyped'
  BY <1>1, <1>2, <1>4, <1>7 DEF Typed, PoolTyped
<1>9. AllKept /\ \A q \in Req : SameReq(q)
  BY <1>2, <1>4, <1>7, AllSame DEF SameReq
<1>10. \A m \in Req \ {l} : SameLease(m)
  BY <1>1, <1>2, <1>7 DEF SameLease, Typed
<1>11. database'[l] = "closed" /\ l \notin dbs'
  BY <1>1, <1>2 DEF Typed
<1>12. Slot(l)' /\ Registry(l)'
  BY <1>1, <1>2, <1>6, <1>7, <1>11 DEF Slot, Registry, HasResources
<1>13. Registered(l)' /\ KnownNames(l)'
  BY <1>2, <1>6, <1>7, <1>11 DEF Registered, KnownNames
<1>14. \A k \in Late \cup {"reservation"} : Means(k, l) => Means(k, l)'
  BY <1>6, <1>7, <1>11 DEF Means, IsExport, IsFailure
<1>15. ASSUME NEW q \in Req, Own(q), Lease(q) = l PROVE Stage(q)'
  BY <1>5, <1>6, <1>15 DEF Clean
<1>16. Hosting' /\ BaseKept'
  BY <1>1, <1>2, <1>5 DEF Hosting, BaseKept, Pending
<1>17. QED
  BY <1>2, <1>5, <1>8, <1>9, <1>10, <1>12, <1>13, <1>14, <1>15, <1>16, OneLeaseStep

\* The final cleanup gives up a reservation or removes an exported directory.
LEMMA FinalReservationStep ==
  ASSUME ManagerInvariant, NEW l \in Req, FinalReservation(l)
  PROVE  ManagerInvariant'
<1>1. /\ Typed /\ PoolTyped /\ Hosting /\ BaseKept
      /\ Slot(l) /\ Registry(l) /\ Registered(l) /\ KnownNames(l)
  BY LeaseFacts DEF ManagerInvariant
<1>2. /\ host = "releasing" /\ reservations[l] # "none"
      /\ reservations' = [reservations EXCEPT ![l] = "none"]
      /\ Pool!Cancel(l) /\ UNCHANGED <<watchers, pc, ctxDone>>
      /\ \/ path' = path \ {l} /\ exitErr' = exitErr
         \/ path' = path /\ exitErr' = TRUE
      /\ UNCHANGED <<callVars, resultVars, at, database, cleanup, continuing, dbs, snaps, retained,
                     gate, baseClosed, told, host>>
  BY DEF FinalReservation
<1>3. UNCHANGED <<op, arg, background, result, saysDisposed>>
  BY <1>2 DEF callVars, resultVars
<1>4. /\ Pending = {} /\ dbs = {} /\ snaps = {} /\ \A q \in Req : at[q] \notin Inside \cup Failed
      /\ \A q \in Req : Own(q) => Lease(q) = q /\ reservations[q] = "none"
  BY <1>1, <1>2, NobodyWorks DEF Hosting
<1>5. /\ leases' = (IF l \in active THEN leases ELSE leases \ {l}) /\ active' = active
  BY <1>2, PoolEffects
<1>6. Typed' /\ PoolTyped'
  BY <1>1, <1>2, <1>3, <1>5 DEF Typed, PoolTyped
<1>7. AllKept /\ \A q \in Req : SameReq(q)
  BY <1>2, <1>3, AllSame DEF SameReq
<1>8. \A m \in Req \ {l} : SameLease(m)
  BY <1>1, <1>2, <1>5 DEF SameLease, Typed
<1>9. reservations'[l] = "none"
  BY <1>1, <1>2 DEF Typed
<1>10. /\ HasResources(l)' => HasResources(l)
       /\ pc[l] = "held" /\ database[l] = "none" /\ l \notin retained /\ l \notin dbs
  BY <1>1, <1>2, <1>4 DEF HasResources, Registry
<1>11. Slot(l)' /\ Registry(l)'
  BY <1>1, <1>2, <1>5, <1>9, <1>10 DEF Slot, Registry
<1>12. Registered(l)'
  <2>1. cleanup[l] \in {"startup", "closing"} => exitErr
    BY <1>1, <1>4, <1>10 DEF Registered, Registry
  <2>2. l \in path' => exitErr'
    BY <1>2
  <2>3. QED
    BY <1>2, <2>1, <2>2 DEF Registered
<1>13. KnownNames(l)'
  BY <1>2, <1>9, <1>10 DEF KnownNames
<1>14. \A k \in Late \cup {"reservation"} : Means(k, l) => Means(k, l)'
  BY <1>2, <1>9 DEF Means, IsExport, IsFailure
<1>15. ASSUME NEW q \in Req, Own(q), Lease(q) = l PROVE Stage(q)'
  BY <1>2, <1>4, <1>15
<1>16. Hosting' /\ BaseKept'
  BY <1>1, <1>2, <1>4 DEF Hosting, BaseKept, Pending
<1>17. QED
  BY <1>2, <1>4, <1>6, <1>7, <1>8, <1>9, <1>11, <1>12, <1>13, <1>14, <1>15, <1>16, OneLeaseStep

\* The final cleanup retries what a failed startup or export left.
LEMMA FinalRetainedStep ==
  ASSUME ManagerInvariant, NEW l \in Req, FinalRetained(l)
  PROVE  ManagerInvariant'
<1>1. /\ Typed /\ PoolTyped /\ Hosting /\ BaseKept
      /\ Slot(l) /\ Registry(l) /\ Registered(l) /\ KnownNames(l)
  BY LeaseFacts DEF ManagerInvariant
<1>2. /\ host = "releasing" /\ l \in retained /\ retained' = retained \ {l}
      /\ \/ cleanup' = [cleanup EXCEPT ![l] = "done"] /\ path' = path \ {l} /\ exitErr' = exitErr
         \/ RetryFails(l) /\ exitErr' = TRUE /\ path' = path
      /\ UNCHANGED <<poolVars, callVars, resultVars, at, database, continuing, reservations, dbs,
                     snaps, gate, baseClosed, told, host>>
  BY DEF FinalRetained
<1>3. UNCHANGED <<pc, leases, active, watchers, op, arg, background, result, saysDisposed>>
  BY <1>2 DEF poolVars, callVars, resultVars
<1>4. /\ Pending = {} /\ dbs = {} /\ snaps = {} /\ \A q \in Req : at[q] \notin Inside \cup Failed
      /\ \A q \in Req : Own(q) => Lease(q) = q /\ Clean(q)
  BY <1>1, <1>2, NobodyWorks DEF Hosting
<1>5. /\ cleanup' \in [Req -> Owned \cup {"none", "done"}]
      /\ \A m \in Req \ {l} : cleanup'[m] = cleanup[m]
      /\ \/ cleanup'[l] = "done" /\ l \notin path' /\ exitErr' = exitErr
         \/ /\ PendingCleanup(l) /\ path' = path /\ exitErr' = TRUE
            /\ cleanup'[l] = cleanup[l] \/ (cleanup[l] = "startup" /\ cleanup'[l] = "closing")
      /\ path' \subseteq path /\ path \ {l} \subseteq path'
  <2>1. CASE cleanup' = [cleanup EXCEPT ![l] = "done"] /\ path' = path \ {l} /\ exitErr' = exitErr
    BY <1>1, <2>1 DEF Typed
  <2>2. CASE RetryFails(l) /\ exitErr' = TRUE /\ path' = path
    BY <1>1, <2>2, RetryEffects
  <2>3. QED
    BY <1>2, <2>1, <2>2
<1>6. Typed' /\ PoolTyped'
  BY <1>1, <1>2, <1>3, <1>5 DEF Typed, PoolTyped
<1>7. AllKept /\ \A q \in Req : SameReq(q)
  BY <1>2, <1>3, <1>5, AllSame DEF SameReq
<1>8. \A m \in Req \ {l} : SameLease(m)
  BY <1>2, <1>3, <1>5 DEF SameLease
<1>9. /\ database[l] = "none" /\ reservations[l] = "none" /\ ~Clean(l) /\ l \notin dbs
      /\ pc[l] \in {"idle", "held"} /\ cleanup[l] # "none" /\ cleanup'[l] # "none"
      /\ l \notin retained' /\ (HasResources(l)' => HasResources(l))
  BY <1>1, <1>2, <1>4, <1>5 DEF Registry, Slot, Clean, HasResources, PendingCleanup, Owned
<1>10. Slot(l)' /\ Registry(l)'
  BY <1>1, <1>2, <1>3, <1>5, <1>9 DEF Slot, Registry
<1>11. Registered(l)' /\ KnownNames(l)'
  BY <1>2, <1>5, <1>9 DEF Registered, KnownNames
<1>12. \A k \in Late \cup {"reservation"} : Means(k, l) => Means(k, l)'
  BY <1>2, <1>3, <1>9 DEF Means, IsExport, IsFailure
<1>13. ASSUME NEW q \in Req, Own(q), Lease(q) = l PROVE Stage(q)'
  BY <1>4, <1>9, <1>13
<1>14. Hosting' /\ BaseKept'
  BY <1>1, <1>2, <1>4 DEF Hosting, BaseKept, Pending
<1>15. QED
  BY <1>2, <1>3, <1>4, <1>6, <1>7, <1>8, <1>10, <1>11, <1>12, <1>13, <1>14, OneLeaseStep

\* The final cleanup closes the backings.
LEMMA FinalSnapshotsStep ==
  ASSUME ManagerInvariant, FinalSnapshots
  PROVE  ManagerInvariant'
<1>1. /\ Typed /\ PoolTyped /\ Hosting /\ BaseKept
  BY DEF ManagerInvariant
<1>2. /\ host = "cleaning" /\ dbs = {} /\ host' = "releasing"
      /\ baseClosed' = (baseClosed \/ Base \in snaps) /\ snaps' = {}
      /\ UNCHANGED <<poolVars, callVars, resultVars, at, ownVars, reservations, dbs, retained, gate,
                     told, exitErr>>
  BY DEF FinalSnapshots
<1>3. AllKept
  BY <1>2, AllSame
<1>4. \A m \in Req : SameLease(m)
  BY <1>2 DEF SameLease, poolVars, ownVars
<1>5. Typed' /\ PoolTyped'
  <2>1. baseClosed' \in BOOLEAN
    BY <1>1, <1>2 DEF Typed
  <2>2. QED
    BY <1>1, <1>2, <2>1 DEF Typed, PoolTyped, poolVars, callVars, resultVars, ownVars
<1>6. Pending = {}
  BY <1>1, <1>2 DEF Hosting
<1>7. Hosting'
  BY <1>2, <1>6 DEF Hosting, Pending
<1>8. BaseKept'
  <2>1. Base \in snaps \/ baseClosed
    BY <1>1, <1>6 DEF BaseKept, Pending
  <2>2. QED
    BY <1>2, <2>1 DEF BaseKept
<1>9. QED
  BY <1>2, <1>3, <1>4, <1>5, <1>7, <1>8, HostStep

\* Unused reservations of a revoked pool are forgotten.
LEMMA CancelReservationsStep ==
  ASSUME ManagerInvariant, NEW r \in Req, CancelReservations(r)
  PROVE  ManagerInvariant'
<1>1. /\ Typed /\ PoolTyped /\ Hosting /\ BaseKept
  BY DEF ManagerInvariant
<1>2. /\ Running /\ at[r] = "sweeping" /\ at' = [at EXCEPT ![r] = "queued"]
      /\ reservations' = [l \in Req |->
           IF reservations[l] = "reserved" THEN "none" ELSE reservations[l]]
      /\ UNCHANGED <<poolVars, callVars, resultVars, ownVars, dbs, snaps, retained, gate,
                     baseClosed, hostVars>>
  BY DEF CancelReservations, Step
<1>3. /\ UNCHANGED <<pc, leases, active, watchers, op, arg, background, result, saysDisposed>>
      /\ UNCHANGED <<database, cleanup, continuing, path, told, host, exitErr>>
  BY <1>2 DEF poolVars, callVars, resultVars, ownVars, hostVars
<1>4. at'[r] = "queued" /\ \A q \in Req \ {r} : at'[q] = at[q]
  BY <1>1, <1>2 DEF Typed
<1>5. AllKept
  BY <1>2, <1>3, <1>4 DEF AllKept, Kept, SameReq, Revoking
<1>6. Typed' /\ PoolTyped'
  <2>1. at' \in [Req -> Places]
    BY <1>1, <1>2 DEF Typed, Places
  <2>2. reservations' \in [Req -> {"none", "reserved", "starting", "exported"}]
    BY <1>1, <1>2 DEF Typed
  <2>3. QED
    BY <1>1, <1>2, <1>3, <2>1, <2>2 DEF Typed, PoolTyped
<1>7. ASSUME NEW m \in Req
      PROVE  reservations'[m] = (IF reservations[m] = "reserved" THEN "none" ELSE reservations[m])
  BY <1>2
<1>8. ASSUME NEW m \in Req
      PROVE  /\ Slot(m)' /\ Registry(m)' /\ Registered(m)' /\ KnownNames(m)'
             /\ \A k \in Late \cup {"reservation"} : Means(k, m) => Means(k, m)'
  <2>1. Slot(m) /\ Registry(m) /\ Registered(m) /\ KnownNames(m)
    BY LeaseFacts
  <2>2. Slot(m)' /\ Registry(m)'
    BY <1>2, <1>3, <1>7, <2>1 DEF Slot, Registry, Clean, HasResources
  <2>3. Registered(m)'
    BY <1>2, <1>3, <1>5, <1>7, <2>1, KeptNames DEF Registered
  <2>4. KnownNames(m)'
    BY <1>2, <1>3, <1>5, <1>7, <2>1, KeptNames DEF KnownNames, HasResources
  <2>5. \A k \in Late \cup {"reservation"} : Means(k, m) => Means(k, m)'
    BY <1>2, <1>3, <1>7 DEF Means, IsExport, IsFailure
  <2>6. QED
    BY <2>2, <2>3, <2>4, <2>5
<1>9. ASSUME NEW q \in Req PROVE Stage(q)' /\ InsideStage(q)'
  <2>1. Stage(q) /\ InsideStage(q) /\ Placed(q)
    BY RequestFacts
  <2>2. CASE SameReq(q)
    <3>1. Lease(q)' = Lease(q) /\ Making(q)' = Making(q) /\ at'[q] = at[q] /\ op'[q] = op[q]
          /\ arg'[q] = arg[q] /\ (q \in background' <=> q \in background)
          /\ (q \in saysDisposed' <=> q \in saysDisposed)
      BY <2>2 DEF SameReq, Lease, Making
    <3>2. InsideStage(q)'
      BY <1>2, <1>3, <2>1, <3>1 DEF InsideStage, Disposed, PendingCleanup
    <3>3. CASE Own(q)
      <4>1. PICK m \in Req : m = Lease(q)
        BY <3>3, OwnLease
      <4>2. reservations[m] \in {"none", "starting"} => reservations'[m] = reservations[m]
        BY <1>7
      <4>3. Stage(q)'
        BY <1>2, <1>3, <1>7, <2>1, <3>1, <4>1, <4>2 DEF Stage, Clean
      <4>4. QED
        BY <3>2, <4>3
    <3>4. CASE ~Own(q)
      <4>1. Stage(q)'
        BY <3>1, <3>4 DEF Stage, Own, Starting, Failed
      <4>2. QED
        BY <3>2, <4>1
    <3>5. QED
      BY <3>3, <3>4
  <2>3. CASE ~SameReq(q)
    <3>1. at'[q] \in Revoking /\ op'[q] = op[q] /\ at[q] \in Revoking
      BY <1>5, <2>3, KeptFacts
    <3>2. QED
      BY <2>1, <3>1 DEF Stage, InsideStage, Making, Placed, Revoking, Failed, Inside
  <2>4. QED
    BY <2>2, <2>3
<1>10. Hosting'
  <2>1. r \in Pending
    BY <1>2 DEF Pending
  <2>2. QED
    BY <1>1, <1>2, <1>3, <2>1 DEF Hosting, Running, Typed
<1>11. BaseKept'
  BY <1>4 DEF BaseKept
<1>12. \A m \in Req : reservations'[m] \in {reservations[m], "none"}
  BY <1>7
<1>13. QED
  BY <1>2, <1>5, <1>6, <1>8, <1>9, <1>10, <1>11, <1>12, OutsideStep

-----------------------------------------------------------------------------
(* The theorem                                                             *)

\* A new host keeps the baseline and nothing else.
LEMMA InitInvariant == Init => ManagerInvariant
<1> SUFFICES ASSUME Init PROVE ManagerInvariant
  OBVIOUS
<1>1. /\ op = [r \in Req |-> "none"] /\ arg = [r \in Req |-> NoReq]
      /\ at = [r \in Req |-> "idle"] /\ result = [r \in Req |-> {}]
      /\ background = {} /\ saysDisposed = {} /\ reservations = [r \in Req |-> "none"]
      /\ dbs = {} /\ snaps = {Base} /\ retained = {} /\ database = [r \in Req |-> "none"]
      /\ gate = [r \in Req |-> NoReq] /\ cleanup = [r \in Req |-> "none"]
      /\ continuing = {} /\ path = {} /\ baseClosed = FALSE
      /\ told = {} /\ host = "serving" /\ exitErr = FALSE
  BY DEF Init
<1>2. /\ pc = [c \in Req |-> "idle"] /\ leases = {} /\ active = {} /\ watchers = {}
  BY DEF Init, Pool!Init
<1>3. Typed
  BY <1>1 DEF Typed, Places
<1>4. PoolTyped
  BY <1>2 DEF PoolTyped, Pool!Locations
<1>5. \A q \in Req : at[q] = "idle" /\ op[q] = "none" /\ arg[q] = NoReq /\ result[q] = {}
                     /\ Lease(q) = q
  BY <1>1 DEF Lease
<1>6. Requests
  BY <1>1, <1>5 DEF Requests, Placed, Argued, Gated, Resulting, Inside
<1>7. \A k, l : ~Named(k, l)
  BY <1>1, <1>5 DEF Named
<1>8. \A k \in Late \cup {"reservation"}, l \in Req : ~Uses(k, l)
  BY <1>5, <1>7, HandleAssumption DEF Uses
<1>9. Naming /\ Meanings
  BY <1>1, <1>5, <1>8 DEF Naming, Meanings, Fresh, Early, Starting, Late
<1>10. \A l \in Req : Clean(l) /\ pc[l] = "idle" /\ reservations[l] = "none" /\ gate[l] = NoReq
                      /\ l \notin active /\ l \notin leases /\ ~HasResources(l)
  BY <1>1, <1>2 DEF Clean, HasResources
<1>11. Leases
  BY <1>10 DEF Leases, Slot, Registry, Holder, Clean
<1>12. Stages
  BY <1>5, <1>10 DEF Stages, Stage, InsideStage, Failed, Inside
<1>13. OneStart
  BY <1>5 DEF OneStart, Starting
<1>14. Lists
  BY <1>1, <1>10 DEF Lists, Registered, KnownNames, Clean
<1>15. SnapshotsKnown
  BY <1>1, HandleAssumption DEF SnapshotsKnown, SnapshotKnown
<1>16. Hosting /\ BaseKept
  BY <1>1 DEF Hosting, BaseKept
<1>17. QED
  BY <1>3, <1>4, <1>6, <1>9, <1>11, <1>12, <1>13, <1>14, <1>15, <1>16 DEF ManagerInvariant

\* Every step of a request's goroutine preserves the invariant.
LEMMA RequestSteps ==
  ASSUME ManagerInvariant, NEW r \in Req, RequestStep(r)
  PROVE  ManagerInvariant'
<1>1. CASE Compensate(r) \/ Reply(r)
  BY <1>1, CompensateStep, ReplyStep
<1>2. CASE ReserveSlot(r) \/ ReserveInserts(r) \/ ForkCancel(r) \/ HandoffAbandon(r)
  BY <1>2, ReserveSlotStep, ReserveInsertsStep, ForkCancelStep, HandoffAbandonStep
<1>3. CASE ReleaseChecks(r) \/ ReleaseRemoves(r) \/ CleanupStatus(r)
  BY <1>3, ReleaseChecksStep, ReleaseRemovesStep, CleanupStatusStep
<1>4. CASE Claim(r) \/ ForkLooksUp(r) \/ ForkAcquires(r) \/ StartLocks(r) \/ StartActivates(r)
  BY <1>4, ClaimStep, ForkLooksUpStep, ForkAcquiresStep, StartLocksStep, StartActivatesStep
<1>5. CASE StartBegins(r) \/ CreateSucceeds(r) \/ ExportSucceeds(r) \/ CreateFails(r)
  BY <1>5, StartBeginsStep, CreateSucceedsStep, ExportSucceedsStep, CreateFailsStep
<1>6. CASE StartSettles(r) \/ RetainReports(r) \/ RetainFailure(r)
  BY <1>6, StartSettlesStep, RetainReportsStep, RetainFailureStep
<1>7. CASE DatabaseCall(r) \/ DatabaseLocks(r) \/ DbClose(r) \/ DbCleanup(r) \/ SnapshotCaptures(r)
  BY <1>7, DatabaseCallStep, DatabaseLocksStep, DbCloseStep, DbCleanupStep, SnapshotCapturesStep
<1>8. CASE DbSettles(r) \/ DbForgets(r) \/ DbReports(r) \/ DbNames(r)
  BY <1>8, DbSettlesStep, DbForgetsStep, DbReportsStep, DbNamesStep
<1>9. CASE SnapshotTaken(r) \/ SnapshotRevokes(r) \/ CancelReservations(r) \/ SnapshotCloses(r)
  BY <1>9, SnapshotTakenStep, SnapshotRevokesStep, CancelReservationsStep, SnapshotClosesStep
<1>10. QED
  BY <1>1, <1>2, <1>3, <1>4, <1>5, <1>6, <1>7, <1>8, <1>9 DEF RequestStep

\* So does every step of the host, and one that changes nothing.
LEMMA NextInvariant == ManagerInvariant /\ [Next]_vars => ManagerInvariant'
<1> SUFFICES ASSUME ManagerInvariant, [Next]_vars PROVE ManagerInvariant'
  OBVIOUS
<1>1. ASSUME NEW r \in Req, Receive(r) \/ CancelRequest(r) \/ RequestStep(r) \/ OwnerContinues(r)
                            \/ WatcherSettles(r)
      PROVE  ManagerInvariant'
  BY <1>1, ReceiveStep, CancelRequestStep, RequestSteps, OwnerContinuesStep, WatcherSettlesStep
<1>2. CASE Shutdown \/ OwnerEnds \/ FinalTimesOut
  BY <1>2, LoopSteps
<1>3. CASE FinalStep
  <2>1. CASE FinalBegins \/ FinalSnapshots \/ FinalEnds
    BY <2>1, FinalBeginsStep, FinalSnapshotsStep, LoopSteps
  <2>2. ASSUME NEW l \in Req, FinalDatabase(l) \/ FinalReservation(l) \/ FinalRetained(l)
        PROVE  ManagerInvariant'
    BY <2>2, FinalDatabaseStep, FinalReservationStep, FinalRetainedStep
  <2>3. QED
    BY <1>3, <2>1, <2>2 DEF FinalStep
<1>4. CASE UNCHANGED vars
  <2>1. /\ UNCHANGED <<poolVars, callVars, resultVars, at, ownVars, mapVars, gate, baseClosed>>
        /\ UNCHANGED <<told, host, exitErr>>
    BY <1>4 DEF vars, hostVars
  <2>2. Typed /\ Hosting
    BY DEF ManagerInvariant
  <2>3. Hosting'
    BY <2>1, <2>2 DEF Hosting, Empty, Pending, mapVars
  <2>4. QED
    BY <2>1, <2>2, <2>3, LoopStep DEF Typed
<1>5. QED
  BY <1>1, <1>2, <1>3, <1>4 DEF Next

\* The invariant of the shared host holds in every reachable state, whatever the
\* owner asks for and however its requests interleave.
THEOREM ManagerInvariantHolds == Spec => []ManagerInvariant
<1>1. QED
  BY InitInvariant, NextInvariant, PTL DEF Spec

\* Every variable of the host has its type, and a gate is held by the request inside.
THEOREM TypeCorrect == Spec => []TypeOK
<1>1. ASSUME ManagerInvariant PROVE TypeOK
  <2>1. Typed /\ Leases
    BY <1>1 DEF ManagerInvariant
  <2>2. \A l \in Req : gate[l] = NoReq \/ (arg[gate[l]] = l /\ at[gate[l]] \in
          {"gated", "settling", "forgetting", "reporting", "naming"})
    BY <2>1 DEF Leases, Holder, Inside
  <2>3. QED
    BY <2>1, <2>2 DEF Typed, TypeOK
<1>2. QED
  BY <1>1, ManagerInvariantHolds, PTL

\* A lease keeps its slot while the host has a server, a directory or an unfinished
\* cleanup for it, through startups, handoffs, releases, abandons and late disposal.
THEOREM SlotUntilDisposedHolds == Spec => []SlotUntilDisposed
<1>1. ManagerInvariant => SlotUntilDisposed
  BY DEF ManagerInvariant, Leases, Slot, SlotUntilDisposed
<1>2. QED
  BY <1>1, ManagerInvariantHolds, PTL

\* A reservation serves one startup or export, however often its token is used.
THEOREM ClaimedOnceHolds == Spec => []ClaimedOnce
<1>1. ASSUME ManagerInvariant PROVE ClaimedOnce
  <2>1. OneStart
    BY <1>1 DEF ManagerInvariant
  <2>2. ASSUME NEW r \in Req, op[r] \in {"fork", "handoff"}, at[r] \in {"locking", "rlocked", "creating"}
        PROVE  database[Lease(r)] = "none" /\ Lease(r) \notin path
    BY <1>1, <2>2, RequestFacts DEF Stage, Clean
  <2>3. QED
    BY <2>1, <2>2 DEF ClaimedOnce, OneStart, Starting
<1>2. QED
  BY <1>1, ManagerInvariantHolds, PTL

\* Whatever the host has for a lease is in one of its maps or in the hands of a
\* pending request, until the final cleanup reports an error.
THEOREM NothingLostHolds == Spec => []NothingLost
<1>1. ASSUME ManagerInvariant PROVE NothingLost
  <2> SUFFICES ASSUME NEW l \in Req, HasResources(l)
               PROVE  \/ l \in dbs \/ l \in retained \/ reservations[l] = "exported"
                      \/ Handled(l) \/ exitErr
    BY DEF NothingLost
  <2>1. Registry(l) /\ Registered(l)
    BY <1>1, LeaseFacts
  <2>2. \A q \in Req : at[q] \in Failed => q \in Pending
    BY DEF Failed, Pending
  <2>3. QED
    BY <2>1, <2>2 DEF HasResources, Registry, Registered, Handled
<1>2. QED
  BY <1>1, ManagerInvariantHolds, PTL

\* What needs another request of the owner has a name that the owner knows, or will
\* know when a pending request replies.
THEOREM OwnerCanReleaseHolds == Spec => []OwnerCanRelease
<1>1. ASSUME ManagerInvariant PROVE OwnerCanRelease
  <2>1. ASSUME NEW K, NEW k \in K, NEW l \in Req, Named(k, l) PROVE Known(K, l)
    <3>1. CASE <<k, l>> \in told
      BY <3>1 DEF Known
    <3>2. ASSUME NEW q \in Req, <<k, l>> \in result[q], <<k, l>> \notin told PROVE Known(K, l)
      <4>1. q \in Pending
        BY <1>1, <3>2, RequestFacts DEF Pending, Resulting, Placed
      <4>2. QED
        BY <3>2, <4>1 DEF Known
    <3>3. QED
      BY <2>1, <3>1, <3>2 DEF Named
  <2>2. ASSUME NEW K, NEW o, NEW l \in Req, NEW q \in Req, Undoing(q, o, l) PROVE Known(K, l)
    <3>1. q \in Pending
      BY <1>1, <2>2, RequestFacts DEF Pending, Undoing, Resulting, Placed
    <3>2. Lease(q) = l
      BY <2>2, HandleAssumption DEF Undoing, Lease
    <3>3. QED
      BY <3>1, <3>2 DEF Known, Handled
  <2> SUFFICES ASSUME NEW l \in Req
               PROVE  /\ l \in dbs /\ HasResources(l) => Known({"database", "cleanup_handle"}, l)
                      /\ l \in retained => Known({"token"}, l)
                      /\ reservations[l] = "reserved" => Known({"reservation"}, l)
                      /\ reservations[l] = "exported" => Known({"lease"}, l)
                      /\ l \in snaps => Known({"snapshot"}, l)
    BY DEF OwnerCanRelease
  <2>3. KnownNames(l) /\ SnapshotKnown(l)
    BY <1>1, LeaseFacts DEF ManagerInvariant, SnapshotsKnown
  <2>4. l \in dbs /\ HasResources(l) => Known({"database", "cleanup_handle"}, l)
    BY <2>1, <2>2, <2>3 DEF KnownNames
  <2>5. /\ l \in retained => Known({"token"}, l)
        /\ reservations[l] = "reserved" => Known({"reservation"}, l)
        /\ reservations[l] = "exported" => Known({"lease"}, l)
        /\ l \in snaps => Known({"snapshot"}, l)
    BY <2>1, <2>2, <2>3 DEF KnownNames, SnapshotKnown
  <2>6. QED
    BY <2>4, <2>5
<1>2. QED
  BY <1>1, ManagerInvariantHolds, PTL

\* Nothing is left on a host that is idle, or has ended without an error.
LEMMA NothingLeft ==
  ASSUME ManagerInvariant, Pending = {}, Empty, ~exitErr
  PROVE  \A l \in Req : ~HasResources(l)
<1> SUFFICES ASSUME NEW l \in Req PROVE ~HasResources(l)
  OBVIOUS
<1>1. Registry(l) /\ Registered(l)
  BY LeaseFacts
<1>2. \A q \in Req : at[q] \notin Failed
  BY DEF Failed, Pending
<1>3. l \notin retained /\ l \notin dbs /\ reservations[l] = "none"
  BY DEF Empty
<1>4. QED
  BY <1>1, <1>2, <1>3 DEF Registered, HasResources, Registry

\* shutdown is acknowledged only when the baseline is closed and nothing is left.
THEOREM ShutdownIsIdleHolds == Spec => []ShutdownIsIdle
<1>1. ASSUME ManagerInvariant PROVE ShutdownIsIdle
  <2> SUFFICES ASSUME host = "idle" PROVE baseClosed /\ \A l \in Req : ~HasResources(l)
    BY DEF ShutdownIsIdle
  <2>1. Pending = {} /\ Empty /\ snaps = {} /\ ~exitErr
    BY <1>1 DEF ManagerInvariant, Hosting
  <2>2. baseClosed
    BY <1>1, <2>1 DEF ManagerInvariant, BaseKept, Pending
  <2>3. QED
    BY <1>1, <2>1, <2>2, NothingLeft
<1>2. QED
  BY <1>1, ManagerInvariantHolds, PTL

\* A host that exits without an error has closed and removed everything.
THEOREM CleanExitHolds == Spec => []CleanExit
<1>1. ASSUME ManagerInvariant PROVE CleanExit
  <2> SUFFICES ASSUME host = "exited", ~exitErr
               PROVE  baseClosed /\ \A l \in Req : ~HasResources(l)
    BY DEF CleanExit
  <2>1. Pending = {} /\ Empty /\ baseClosed
    BY <1>1 DEF ManagerInvariant, Hosting
  <2>2. QED
    BY <1>1, <2>1, NothingLeft
<1>2. QED
  BY <1>1, ManagerInvariantHolds, PTL

-----------------------------------------------------------------------------
(* Replies that say "disposed"                                             *)

\* The request l has not made its lease or database yet.
Beginning(l) ==
  \/ at[l] = "idle"
  \/ op[l] \in {"start", "fork", "fork_reserve"} /\ arg[l] = NoReq /\ at[l] \in {"begun", "insert"}

Opening == {"acquiring", "locking", "rlocked", "creating"}

\* Nothing of l is to come.
Past(l) ==
  /\ reservations[l] \notin {"reserved", "starting"}
  /\ ~Beginning(l)
  /\ \A q \in Req : at[q] \in Opening => Lease(q) # l

Spent(l) == Past(l) /\ ~HasResources(l)

\* Whatever a reply calls disposed is spent; fork_cancel speaks of the reservation.
SpentInvariant ==
  \A r \in saysDisposed : op[r] # "fork_cancel" => Lease(r) \in Req /\ Spent(Lease(r))

\* A step of r begins nothing on l unless it begins l or opens it.
LEMMA PastStep ==
  ASSUME Typed, NEW r \in Req, NEW l \in Req, NEW to \in Places \ {"idle"},
         at' = [at EXCEPT ![r] = to],
         \A q \in Req \ {r} : op'[q] = op[q] /\ arg'[q] = arg[q],
         to \in Opening => Lease(r)' # l,
         to \in {"begun", "insert"} /\ r = l => op'[r] \notin {"start", "fork", "fork_reserve"},
         reservations'[l] \notin {"reserved", "starting"},
         ~Beginning(l), \A q \in Req \ {r} : at[q] \in Opening => Lease(q) # l
  PROVE  Past(l)'
<1>1. at'[r] = to /\ \A q \in Req \ {r} : at'[q] = at[q] /\ Lease(q)' = Lease(q)
  BY DEF Typed, Lease
<1>2. ~Beginning(l)'
  BY <1>1 DEF Beginning
<1>3. \A q \in Req : at'[q] \in Opening => Lease(q)' # l
  BY <1>1
<1>4. QED
  BY <1>2, <1>3 DEF Past

\* A name that is given only when a startup is complete names something past.
LEMMA NamedIsPast ==
  ASSUME ManagerInvariant, NEW l \in Req, NEW k \in Late, Uses(k, l)
  PROVE  Past(l) /\ \A q \in Req : at[q] \in Starting => Lease(q) # l
<1>1. ~Early(l)
  BY DEF Early
<1>2. reservations[l] \notin {"reserved", "starting"}
  BY <1>1 DEF ManagerInvariant, Naming
<1>3. ~Making(l)
  BY <1>1 DEF ManagerInvariant, Naming, Fresh
<1>4. \A q \in Req : at[q] \in Starting => Lease(q) # l
  BY <1>1 DEF ManagerInvariant, Naming
<1>5. QED
  BY <1>2, <1>3, <1>4 DEF Past, Beginning, Making, Opening, Starting

\* A startup is no beginning any more, and is alone on its lease.
LEMMA StartIsAlone ==
  ASSUME ManagerInvariant, NEW r \in Req, at[r] \in Starting
  PROVE  /\ ~Beginning(Lease(r))
         /\ \A q \in Req \ {r} : at[q] \in Opening => Lease(q) # Lease(r)
<1>1. Lease(r) \in Req /\ Own(r)
  BY OwnFacts
<1>2. ASSUME arg[r] = NoReq PROVE ~Beginning(Lease(r))
  BY <1>2 DEF Lease, Beginning, Starting
<1>3. ASSUME arg[r] # NoReq PROVE ~Beginning(Lease(r))
  <2>1. op[r] \in {"fork", "handoff"} /\ arg[r] = Lease(r)
    BY <1>1, <1>3, OwnLease
  <2>2. Uses("reservation", Lease(r))
    BY <2>1 DEF Uses, KindOf
  <2>3. ~Making(Lease(r))
    BY <1>1, <2>2 DEF ManagerInvariant, Naming, Fresh
  <2>4. QED
    BY <2>3 DEF Beginning, Making
<1>4. \A q \in Req \ {r} : at[q] \in Opening => Lease(q) # Lease(r)
  BY DEF ManagerInvariant, OneStart, Opening, Starting
<1>5. QED
  BY <1>2, <1>3, <1>4

\* While a request is at work, the final cleanup has not begun.
LEMMA NoExitYet ==
  ASSUME ManagerInvariant, NEW r \in Req, r \in Pending, Running
  PROVE  ~exitErr
BY DEF ManagerInvariant, Typed, Hosting, Running

\* A failed retry gives l nothing.
LEMMA RetryKeepsSpent ==
  ASSUME Typed, NEW l \in Req, NEW m \in Req, cleanup[l] \notin {"startup", "closing"},
         RetryFails(m) \/ cleanup' = [cleanup EXCEPT ![m] = "done"]
  PROVE  cleanup'[l] \notin {"startup", "closing"}
BY DEF Typed, RetryFails

\* Steps that change no resource and no reservation, and begin nothing.
LEMMA CalmSteps ==
  ASSUME ManagerInvariant, NEW r \in Req, NEW l \in Req, Spent(l),
         \/ HandoffAbandon(r) \/ ReleaseChecks(r) \/ RetainReports(r) \/ RetainFailure(r)
         \/ DatabaseCall(r) \/ DatabaseLocks(r) \/ DbSettles(r) \/ DbForgets(r) \/ DbReports(r)
         \/ DbNames(r) \/ SnapshotTaken(r) \/ SnapshotRevokes(r) \/ SnapshotCloses(r) \/ Reply(r)
  PROVE  Spent(l)'
<1>1. UNCHANGED <<op, arg, database, cleanup, path, reservations>>
  BY DEF HandoffAbandon, ReleaseChecks, RetainReports, RetainFailure, DatabaseCall, DatabaseLocks,
     DbSettles, DbForgets, DbReports, DbNames, SnapshotTaken, SnapshotRevokes, SnapshotCloses,
     Reply, callVars, ownVars, mapVars
<1> DEFINE Calm == \E to \in Places \ (Opening \cup {"idle", "begun", "insert"}) :
                    at' = [at EXCEPT ![r] = to]
<1>2. ASSUME DbReports(r) PROVE Calm
  <2>1. op[r] \in DatabaseOps
    BY <1>2, RequestFacts DEF DbReports, Step, Placed
  <2>2. QED
    BY <1>2, <2>1 DEF DbReports, Step, Places, Opening, DatabaseOps
<1>3. ASSUME DatabaseCall(r) \/ DatabaseLocks(r) \/ DbSettles(r) \/ DbForgets(r) \/ DbNames(r)
      PROVE  Calm
  BY <1>3 DEF DatabaseCall, DatabaseLocks, DbSettles, DbForgets, DbNames, Step, Places, Opening
<1>4. ASSUME HandoffAbandon(r) \/ ReleaseChecks(r) \/ RetainReports(r) \/ RetainFailure(r) \/ Reply(r)
      PROVE  Calm
  BY <1>4 DEF HandoffAbandon, ReleaseChecks, RetainReports, RetainFailure, Reply, Step, Places, Opening
<1>5. ASSUME SnapshotTaken(r) \/ SnapshotRevokes(r) \/ SnapshotCloses(r)
      PROVE  Calm
  BY <1>5 DEF SnapshotTaken, SnapshotRevokes, SnapshotCloses, Step, Places, Opening
<1>6. Calm
  BY <1>2, <1>3, <1>4, <1>5
<1>7. Past(l)'
  BY <1>1, <1>6, PastStep, RequestFacts DEF Spent, Past
<1>8. QED
  BY <1>1, <1>7 DEF Spent, HasResources

\* Steps that begin something do not begin it on l.
LEMMA OpeningSteps ==
  ASSUME ManagerInvariant, NEW r \in Req, NEW l \in Req, Spent(l),
         \/ ReserveSlot(r) \/ ReserveInserts(r) \/ Claim(r) \/ ForkLooksUp(r) \/ ForkAcquires(r)
         \/ StartLocks(r) \/ StartActivates(r) \/ StartBegins(r)
  PROVE  Spent(l)'
<1>1. UNCHANGED <<op, arg, database, cleanup, path>>
  BY DEF ReserveSlot, ReserveInserts, Claim, ForkLooksUp, ForkAcquires, StartLocks, StartActivates,
     StartBegins, callVars, ownVars
<1>2. /\ Typed /\ Placed(r) /\ Argued(r) /\ Past(l)
      /\ at[r] = "insert" => op[r] = "fork_reserve"
      /\ op[r] \in {"start", "fork_reserve"} => arg[r] = NoReq
  BY RequestFacts DEF Placed, Argued, Spent
<1> DEFINE Goto(to) == /\ at' = [at EXCEPT ![r] = to] /\ to \in Places \ {"idle", "begun"}
                       /\ to \in Opening => Lease(r) # l
                       /\ to = "insert" => r # l
                       /\ reservations'[l] \notin {"reserved", "starting"}
<1>3. ASSUME ReserveSlot(r) PROVE \E to : Goto(to)
  <2>1. Lease(r) = r /\ r # l
    BY <1>2, <1>3 DEF ReserveSlot, Step, Lease, Past, Beginning
  <2>2. QED
    BY <1>2, <1>3, <2>1 DEF ReserveSlot, Step, Places, Opening, Past, mapVars
<1>4. ASSUME ReserveInserts(r) PROVE \E to : Goto(to)
  <2>1. r # l
    BY <1>2, <1>4 DEF ReserveInserts, Step, Past, Beginning
  <2>2. QED
    BY <1>2, <1>4, <2>1 DEF ReserveInserts, Step, Places, Opening, Past, Typed
<1>5. ASSUME Claim(r) PROVE \E to : Goto(to)
  <2>1. reservations[arg[r]] = "reserved" => Lease(r) # l
    BY <1>2, <1>5 DEF Claim, Lease, Past
  <2>2. reservations'[l] \notin {"reserved", "starting"}
    BY <1>2, <1>5, <2>1 DEF Claim, Lease, Past, Typed
  <2>3. QED
    <3>1. CASE reservations[arg[r]] = "reserved"
      BY <1>5, <2>1, <2>2, <3>1 DEF Claim, Step, Places
    <3>2. CASE reservations[arg[r]] # "reserved"
      BY <1>5, <2>2, <3>2 DEF Claim, Step, Places, Opening
    <3>3. QED
      BY <3>1, <3>2
<1>6. ASSUME ForkLooksUp(r) \/ StartBegins(r) PROVE \E to : Goto(to)
  <2>1. Lease(r) = r /\ r # l
    BY <1>2, <1>6 DEF ForkLooksUp, StartBegins, Step, Lease, Past, Beginning
  <2>2. QED
    BY <1>2, <1>6, <2>1 DEF ForkLooksUp, StartBegins, Step, Places, Opening, Past, mapVars
<1>7. ASSUME ForkAcquires(r) PROVE \E to : Goto(to)
  <2>1. Lease(r) # l /\ UNCHANGED reservations
    BY <1>2, <1>7 DEF ForkAcquires, Past, Opening, mapVars
  <2>2. \E to \in {"acquiring", "locking", "result"} : at' = [at EXCEPT ![r] = to]
    BY <1>2, <1>7 DEF ForkAcquires, Typed
  <2>3. QED
    BY <1>2, <2>1, <2>2 DEF Places, Opening, Past
<1>8. ASSUME StartLocks(r) \/ StartActivates(r) PROVE \E to : Goto(to)
  <2>1. Lease(r) # l
    BY <1>2, <1>8 DEF StartLocks, StartActivates, Step, Past, Opening
  <2>2. reservations'[l] \notin {"reserved", "starting"}
    BY <1>2, <1>8 DEF StartLocks, StartActivates, Reject, Past, Typed
  <2>3. QED
    BY <1>8, <2>1, <2>2 DEF StartLocks, StartActivates, Step, Places, Opening
<1>9. PICK to : Goto(to)
  BY <1>3, <1>4, <1>5, <1>6, <1>7, <1>8
<1>10. Past(l)'
  <2>1. Lease(r)' = Lease(r)
    BY <1>1 DEF Lease
  <2>2. QED
    BY <1>1, <1>2, <1>9, <2>1, PastStep DEF Past
<1>11. QED
  BY <1>1, <1>10 DEF Spent, HasResources

\* Steps that end something leave l as it is.
LEMMA EndingSteps ==
  ASSUME ManagerInvariant, NEW r \in Req, NEW l \in Req, Spent(l),
         ForkCancel(r) \/ StartSettles(r) \/ CancelReservations(r)
  PROVE  Spent(l)'
<1>1. Typed /\ Past(l) /\ UNCHANGED <<op, arg, database, cleanup, path>>
  BY RequestFacts DEF Spent, ForkCancel, StartSettles, CancelReservations, callVars, ownVars
<1>2. reservations'[l] \notin {"reserved", "starting"}
  BY <1>1 DEF ForkCancel, StartSettles, CancelReservations, Past, Typed
<1>3. \E to \in Places \ (Opening \cup {"idle", "begun", "insert"}) : at' = [at EXCEPT ![r] = to]
  BY DEF ForkCancel, StartSettles, CancelReservations, Step, Places, Opening
<1>4. Past(l)'
  BY <1>1, <1>2, <1>3, PastStep DEF Past
<1>5. QED
  BY <1>1, <1>4 DEF Spent, HasResources

\* A startup makes what it makes on a lease that is not spent.
LEMMA CreatingSteps ==
  ASSUME ManagerInvariant, NEW r \in Req, NEW l \in Req, Spent(l),
         CreateSucceeds(r) \/ ExportSucceeds(r) \/ CreateFails(r)
  PROVE  Spent(l)'
<1>1. Typed /\ Past(l) /\ at[r] = "creating" /\ UNCHANGED <<op, arg>>
  BY RequestFacts
  DEF Spent, CreateSucceeds, ExportSucceeds, CreateFails, Step, callVars
<1>2. Lease(r) # l
  BY <1>1 DEF Past, Opening
<1>3. /\ database'[l] = database[l] /\ cleanup'[l] = cleanup[l] /\ reservations'[l] = reservations[l]
      /\ l \in path' <=> l \in path
  BY <1>1, <1>2 DEF CreateSucceeds, ExportSucceeds, CreateFails, Typed, mapVars
<1>4. PICK to \in Places \ (Opening \cup {"idle", "begun", "insert"}) : at' = [at EXCEPT ![r] = to]
  BY DEF CreateSucceeds, ExportSucceeds, CreateFails, Step, Places, Opening
<1>5. Past(l)'
  BY <1>1, <1>3, <1>4, PastStep DEF Past
<1>6. QED
  BY <1>3, <1>5 DEF Spent, HasResources

\* Releases, retries and closes bring nothing back.
LEMMA ClosingSteps ==
  ASSUME ManagerInvariant, NEW r \in Req, NEW l \in Req, Spent(l),
         ReleaseRemoves(r) \/ CleanupStatus(r) \/ DbClose(r) \/ DbCleanup(r) \/ SnapshotCaptures(r)
  PROVE  Spent(l)'
<1>1. Typed /\ Past(l) /\ UNCHANGED <<op, arg>>
  BY RequestFacts DEF Spent, ReleaseRemoves, CleanupStatus, DbClose, DbCleanup, SnapshotCaptures, callVars
<1>2. database[l] # "serving" /\ l \notin path /\ cleanup[l] \notin {"startup", "closing"}
  BY DEF Spent, HasResources
<1>3. \E to \in Places \ (Opening \cup {"idle", "begun", "insert"}) : at' = [at EXCEPT ![r] = to]
  BY DEF ReleaseRemoves, CleanupStatus, DbClose, DbCleanup, SnapshotCaptures, Step, Places, Opening
<1>4. reservations'[l] \notin {"reserved", "starting"}
  BY <1>1 DEF ReleaseRemoves, CleanupStatus, DbClose, DbCleanup, SnapshotCaptures, Past, Typed, mapVars
<1>5. Past(l)'
  BY <1>1, <1>3, <1>4, PastStep DEF Past
<1>6. l \notin path' /\ database'[l] # "serving"
  BY <1>1, <1>2 DEF ReleaseRemoves, CleanupStatus, DbClose, DbCleanup, SnapshotCaptures, Stopped, Typed, ownVars
<1>7. cleanup'[l] \notin {"startup", "closing"}
  <2>1. CASE ReleaseRemoves(r) \/ DbCleanup(r)
    BY <1>1, <1>2, <2>1 DEF ReleaseRemoves, DbCleanup, Typed
  <2>2. CASE CleanupStatus(r)
    <3>1. arg[r] \in Req
      BY <2>2, RequestFacts DEF CleanupStatus, Argued
    <3>2. QED
      BY <1>1, <1>2, <2>2, <3>1, RetryKeepsSpent DEF CleanupStatus
  <2>3. CASE DbClose(r) \/ SnapshotCaptures(r)
    BY <1>1, <1>2, <2>3 DEF DbClose, SnapshotCaptures, Stopped, Typed
  <2>4. QED
    BY <2>1, <2>2, <2>3
<1>8. QED
  BY <1>5, <1>6, <1>7 DEF Spent, HasResources

\* A request that is received or undoes its result begins on another lease.
LEMMA AskingSteps ==
  ASSUME ManagerInvariant, NEW r \in Req, NEW l \in Req, Spent(l), Receive(r) \/ Compensate(r)
  PROVE  Spent(l)'
<1>1. Typed /\ Past(l) /\ UNCHANGED <<database, cleanup, path, reservations>>
  BY RequestFacts DEF Spent, Receive, Compensate, ownVars, mapVars
<1>2. /\ at' = [at EXCEPT ![r] = "begun"] /\ "begun" \in Places
      /\ \A q \in Req \ {r} : op'[q] = op[q] /\ arg'[q] = arg[q]
  BY <1>1 DEF Receive, Compensate, Step, Places, Typed
<1>3. r = l => op'[r] \notin {"start", "fork", "fork_reserve"}
  <2>1. CASE Receive(r)
    BY <1>1, <2>1 DEF Receive, Step, Past, Beginning
  <2>2. CASE Compensate(r)
    <3>1. PICK x \in result[r] : x[1] \in DOMAIN Undo /\ op' = [op EXCEPT ![r] = Undo[x[1]]]
      BY <2>2 DEF Compensate
    <3>2. op'[r] = Undo[x[1]]
      BY <1>1, <3>1 DEF Typed
    <3>3. QED
      BY <3>1, <3>2 DEF Undo
  <2>3. QED
    BY <2>1, <2>2
<1>4. Past(l)'
  BY <1>1, <1>2, <1>3, PastStep DEF Past, Opening
<1>5. QED
  BY <1>1, <1>4 DEF Spent, HasResources

\* Steps outside the requests leave what a lease is about to get alone.
LEMMA OuterSteps ==
  ASSUME ManagerInvariant, NEW l \in Req, Spent(l),
         \/ Shutdown \/ OwnerEnds \/ FinalTimesOut \/ FinalBegins \/ FinalSnapshots \/ FinalEnds
         \/ \E r \in Req : CancelRequest(r) \/ WatcherSettles(r)
         \/ UNCHANGED vars
  PROVE  Spent(l)'
<1>1. UNCHANGED <<op, arg, at, database, cleanup, path, reservations>>
  BY DEF Shutdown, OwnerEnds, FinalTimesOut, FinalBegins, FinalSnapshots, FinalEnds, CancelRequest,
     WatcherSettles, vars, callVars, ownVars, mapVars
<1>2. QED
  BY <1>1 DEF Spent, Past, Beginning, Lease, HasResources

\* Late and final cleanup brings nothing back.
LEMMA CleanupSteps ==
  ASSUME ManagerInvariant, NEW l \in Req, Spent(l), NEW m \in Req,
         OwnerContinues(m) \/ FinalDatabase(m) \/ FinalReservation(m) \/ FinalRetained(m)
  PROVE  Spent(l)'
<1>1. /\ Typed /\ Past(l) /\ Registry(l) /\ Holder(l)
      /\ database[l] # "serving" /\ l \notin path /\ cleanup[l] \notin {"startup", "closing"}
  BY RequestFacts, LeaseFacts DEF Spent, HasResources
<1>2. UNCHANGED <<op, arg, at>>
  BY DEF OwnerContinues, FinalDatabase, FinalReservation, FinalRetained, callVars
<1>3. reservations'[l] \notin {"reserved", "starting"}
  BY <1>1 DEF OwnerContinues, FinalDatabase, FinalReservation, FinalRetained, Past, Typed, mapVars
<1>4. Past(l)'
  BY <1>1, <1>2, <1>3 DEF Past, Beginning, Lease
<1>5. l \notin path' /\ database'[l] # "serving"
  BY <1>1 DEF OwnerContinues, FinalDatabase, FinalReservation, FinalRetained, Typed, ownVars
<1>6. cleanup'[l] \notin {"startup", "closing"}
  <2>1. CASE OwnerContinues(m) \/ FinalRetained(m)
    BY <1>1, <2>1, RetryKeepsSpent DEF OwnerContinues, FinalRetained
  <2>2. CASE FinalReservation(m)
    BY <1>1, <2>2 DEF FinalReservation
  <2>3. CASE FinalDatabase(m)
    <3>1. host = "cleaning" /\ m \in dbs
      BY <2>3 DEF FinalDatabase
    <3>2. gate[l] = NoReq
      BY <3>1, NobodyWorks DEF ManagerInvariant, Hosting
    <3>3. l \in dbs => cleanup[l] = "done"
      BY <1>1, <3>2 DEF Registry, Typed
    <3>4. QED
      BY <1>1, <2>3, <3>1, <3>3 DEF FinalDatabase, Typed
  <2>4. QED
    BY <2>1, <2>2, <2>3
<1>7. QED
  BY <1>4, <1>5, <1>6 DEF Spent, HasResources

\* What is spent stays spent.
LEMMA SpentStays ==
  ASSUME ManagerInvariant, NEW l \in Req, Spent(l), [Next]_vars
  PROVE  Spent(l)'
<1>1. ASSUME NEW r \in Req, RequestStep(r) PROVE Spent(l)'
  <2>1. CASE \/ HandoffAbandon(r) \/ ReleaseChecks(r) \/ RetainReports(r) \/ RetainFailure(r)
             \/ DatabaseCall(r) \/ DatabaseLocks(r) \/ DbSettles(r) \/ DbForgets(r) \/ DbReports(r)
             \/ DbNames(r) \/ SnapshotTaken(r) \/ SnapshotRevokes(r) \/ SnapshotCloses(r) \/ Reply(r)
    BY <2>1, CalmSteps
  <2>2. CASE \/ ReserveSlot(r) \/ ReserveInserts(r) \/ Claim(r) \/ ForkLooksUp(r) \/ ForkAcquires(r)
             \/ StartLocks(r) \/ StartActivates(r) \/ StartBegins(r)
    BY <2>2, OpeningSteps
  <2>3. CASE \/ ForkCancel(r) \/ StartSettles(r) \/ CancelReservations(r)
             \/ CreateSucceeds(r) \/ ExportSucceeds(r) \/ CreateFails(r)
             \/ ReleaseRemoves(r) \/ CleanupStatus(r) \/ DbClose(r) \/ DbCleanup(r)
             \/ SnapshotCaptures(r) \/ Compensate(r)
    BY <2>3, EndingSteps, CreatingSteps, ClosingSteps, AskingSteps
  <2>4. QED
    BY <1>1, <2>1, <2>2, <2>3 DEF RequestStep
<1>2. CASE FinalStep
  BY <1>2, OuterSteps, CleanupSteps DEF FinalStep
<1>3. CASE Shutdown \/ OwnerEnds \/ FinalTimesOut \/ UNCHANGED vars
  BY <1>3, OuterSteps
<1>4. ASSUME NEW r \in Req, Receive(r) \/ CancelRequest(r) \/ OwnerContinues(r) \/ WatcherSettles(r)
      PROVE  Spent(l)'
  BY <1>4, AskingSteps, OuterSteps, CleanupSteps
<1>5. QED
  BY <1>1, <1>2, <1>3, <1>4 DEF Next

\* A reply about a name whose object is out of the maps, or has just gone, is true.
LEMMA NamedReplies ==
  ASSUME ManagerInvariant, NEW r \in Req, r \in saysDisposed' \ saysDisposed,
         \/ HandoffAbandon(r) \/ ReleaseChecks(r) \/ ReleaseRemoves(r) \/ CleanupStatus(r)
         \/ DatabaseCall(r) \/ DbReports(r)
  PROVE  Lease(r)' \in Req /\ Spent(Lease(r))'
<1>1. /\ Typed /\ Placed(r) /\ Argued(r) /\ UNCHANGED <<op, arg>> /\ Running
      /\ at[r] \in {"begun", "removing", "reporting"}
  BY RequestFacts
  DEF HandoffAbandon, ReleaseChecks, ReleaseRemoves, CleanupStatus, DatabaseCall, DbReports, Step, callVars
<1>2. KindOf(op[r]) \in Late
  BY <1>1 DEF HandoffAbandon, ReleaseChecks, ReleaseRemoves, CleanupStatus, DatabaseCall, DbReports,
     Step, Placed, KindOf, Late, DatabaseOps
<1>3. PICK l \in Req : l = arg[r] /\ l = Lease(r) /\ l = Lease(r)'
  BY <1>1, <1>2, HandleAssumption DEF Argued, KindOf, Late, Lease, Typed
<1>4. Past(l) /\ \A q \in Req : at[q] \in Starting => Lease(q) # l
  BY <1>2, <1>3, NamedIsPast DEF Uses
<1>5. ~exitErr
  BY <1>1, NoExitYet DEF Pending
<1>6. Registry(l) /\ Registered(l)
  BY LeaseFacts
<1>7. l \in path \/ cleanup[l] \in {"startup", "closing"} =>
        l \in dbs \/ l \in retained \/ reservations[l] = "exported"
  BY <1>4, <1>5, <1>6 DEF Registered, Failed, Starting
<1>8. Past(l)'
  <2>1. \E to \in Places \ (Opening \cup {"idle", "begun", "insert"}) : at' = [at EXCEPT ![r] = to]
    <3>1. CASE DbReports(r)
      BY <1>1, <3>1 DEF DbReports, Step, Placed, Places, Opening, DatabaseOps
    <3>2. CASE \/ HandoffAbandon(r) \/ ReleaseChecks(r) \/ ReleaseRemoves(r) \/ CleanupStatus(r)
               \/ DatabaseCall(r)
      BY <3>2 DEF HandoffAbandon, ReleaseChecks, ReleaseRemoves, CleanupStatus, DatabaseCall, Step,
         Places, Opening
    <3>3. QED
      BY <3>1, <3>2
  <2>2. reservations'[l] \notin {"reserved", "starting"}
    BY <1>1, <1>4 DEF HandoffAbandon, ReleaseChecks, ReleaseRemoves, CleanupStatus, DatabaseCall,
       DbReports, Past, Typed, mapVars
  <2>3. QED
    BY <1>1, <1>4, <2>1, <2>2, PastStep DEF Past
<1>9. ~HasResources(l)'
  <2>1. ASSUME HandoffAbandon(r) \/ ReleaseChecks(r) PROVE ~HasResources(l)'
    <3>1. reservations[l] = "none" /\ UNCHANGED <<database, cleanup, path>>
      BY <1>1, <1>3, <2>1 DEF HandoffAbandon, ReleaseChecks, SaysUnknown, ownVars
    <3>2. IsExport(l)
      BY <1>3, <2>1, NameFacts DEF HandoffAbandon, ReleaseChecks
    <3>3. QED
      BY <1>7, <3>1, <3>2 DEF IsExport, HasResources
  <2>2. ASSUME ReleaseRemoves(r) PROVE ~HasResources(l)'
    <3>1. path' = path \ {l} /\ UNCHANGED <<database, cleanup>>
      BY <1>3, <2>2 DEF ReleaseRemoves
    <3>2. IsExport(l)
      BY <1>1, <1>3, <2>2, NameFacts DEF ReleaseRemoves, Step, Placed
    <3>3. QED
      BY <3>1, <3>2 DEF IsExport, HasResources
  <2>3. ASSUME CleanupStatus(r) PROVE ~HasResources(l)'
    <3>1. path' = path \ {l} /\ UNCHANGED database /\ cleanup'[l] = "done"
      BY <1>1, <1>3, <2>3 DEF CleanupStatus, Typed
    <3>2. IsFailure(l)
      BY <1>3, <2>3, NameFacts DEF CleanupStatus
    <3>3. QED
      BY <3>1, <3>2 DEF IsFailure, HasResources
  <2>4. ASSUME DatabaseCall(r) PROVE ~HasResources(l)'
    <3>1. l \notin dbs /\ op[r] \in {"db_close", "db_cleanup"} /\ UNCHANGED <<database, cleanup, path>>
      BY <1>3, <2>4 DEF DatabaseCall, ownVars
    <3>2. database[l] # "none"
      BY <1>3, <3>1, NameFacts
    <3>3. QED
      BY <1>6, <1>7, <3>1, <3>2 DEF Registry, HasResources
  <2>5. ASSUME DbReports(r) PROVE ~HasResources(l)'
    <3>1. Disposed(l) /\ UNCHANGED <<database, cleanup, path>>
      BY <1>3, <2>5 DEF DbReports, ownVars
    <3>2. QED
      BY <1>6, <3>1 DEF Registry, Disposed, PendingCleanup, Owned, HasResources
  <2>6. QED
    BY <2>1, <2>2, <2>3, <2>4, <2>5
<1>10. QED
  BY <1>3, <1>8, <1>9 DEF Spent

\* ... and so is one about a startup or export that failed.
LEMMA StartReplies ==
  ASSUME ManagerInvariant, NEW r \in Req, r \in saysDisposed' \ saysDisposed,
         StartLocks(r) \/ StartActivates(r) \/ RetainReports(r)
  PROVE  Lease(r)' \in Req /\ Spent(Lease(r))'
<1>1. /\ Typed /\ Stage(r) /\ UNCHANGED <<op, arg, database, cleanup, path>>
      /\ at[r] \in {"locking", "rlocked", "retaining"} /\ at[r] \in Starting
  BY RequestFacts DEF StartLocks, StartActivates, RetainReports, Step, Starting, callVars, ownVars
<1>2. PICK l \in Req : l = Lease(r) /\ l = Lease(r)'
  BY <1>1, OwnFacts DEF Lease
<1>3. ~Beginning(l) /\ \A q \in Req \ {r} : at[q] \in Opening => Lease(q) # l
  BY <1>1, <1>2, StartIsAlone
<1>4. /\ \E to \in {"result", "retain"} : at' = [at EXCEPT ![r] = to]
      /\ reservations'[l] = "none"
  <2>1. CASE StartLocks(r) \/ StartActivates(r)
    BY <1>1, <1>2, <2>1 DEF StartLocks, StartActivates, Reject, Step, Typed
  <2>2. CASE RetainReports(r)
    BY <1>1, <1>2, <2>2 DEF RetainReports, Step, Stage, mapVars
  <2>3. QED
    BY <2>1, <2>2
<1>5. Past(l)'
  BY <1>1, <1>3, <1>4, PastStep DEF Places, Opening
<1>6. ~HasResources(l)
  <2>1. CASE StartLocks(r) \/ StartActivates(r)
    <3>1. Clean(l)
      BY <1>1, <1>2, <2>1 DEF StartLocks, StartActivates, Step, Stage
    <3>2. QED
      BY <3>1 DEF Clean, HasResources
  <2>2. CASE RetainReports(r)
    <3>1. ~PendingCleanup(l) /\ database[l] = "none" /\ (cleanup[l] = "none" => l \notin path)
      BY <1>1, <1>2, <2>2 DEF RetainReports, Step, Stage, Failed
    <3>2. l \in path => cleanup[l] \in {"none", "removal"}
      BY LeaseFacts DEF Registry
    <3>3. QED
      BY <3>1, <3>2 DEF PendingCleanup, Owned, HasResources
  <2>3. QED
    BY <2>1, <2>2
<1>7. QED
  BY <1>1, <1>2, <1>5, <1>6 DEF Spent, HasResources

\* A reply that has been given speaks of the same lease for ever.
LEMMA SaidStays ==
  ASSUME ManagerInvariant, NEW r \in Req, r \in saysDisposed, [Next]_vars
  PROVE  op'[r] = op[r] /\ arg'[r] = arg[r]
<1>1. Typed /\ Resulting(r)
  BY RequestFacts
<1>2. CASE \E q \in Req : Receive(q)
  BY <1>1, <1>2 DEF Receive, Step, Resulting, Typed
<1>3. CASE \E q \in Req : Compensate(q)
  BY <1>1, <1>3 DEF Compensate, Step, Resulting, Typed
<1>4. ASSUME NEW q \in Req, RequestStep(q), ~Compensate(q) PROVE UNCHANGED <<op, arg>>
  <2>1. CASE \/ Reply(q) \/ ReserveSlot(q) \/ ReserveInserts(q) \/ ForkCancel(q) \/ HandoffAbandon(q)
             \/ ReleaseChecks(q) \/ ReleaseRemoves(q) \/ CleanupStatus(q)
             \/ Claim(q) \/ ForkLooksUp(q) \/ ForkAcquires(q) \/ StartLocks(q) \/ StartActivates(q)
    BY <2>1 DEF Reply, ReserveSlot, ReserveInserts, ForkCancel, HandoffAbandon, ReleaseChecks,
       ReleaseRemoves, CleanupStatus, Claim, ForkLooksUp, ForkAcquires, StartLocks, StartActivates,
       callVars
  <2>2. CASE \/ StartBegins(q) \/ CreateSucceeds(q) \/ ExportSucceeds(q) \/ CreateFails(q)
             \/ StartSettles(q) \/ RetainReports(q) \/ RetainFailure(q)
             \/ DatabaseCall(q) \/ DatabaseLocks(q) \/ DbClose(q) \/ DbCleanup(q)
    BY <2>2 DEF StartBegins, CreateSucceeds, ExportSucceeds, CreateFails, StartSettles, RetainReports,
       RetainFailure, DatabaseCall, DatabaseLocks, DbClose, DbCleanup, callVars
  <2>3. CASE \/ SnapshotCaptures(q) \/ DbSettles(q) \/ DbForgets(q) \/ DbReports(q) \/ DbNames(q)
             \/ SnapshotTaken(q) \/ SnapshotRevokes(q) \/ CancelReservations(q) \/ SnapshotCloses(q)
    BY <2>3 DEF SnapshotCaptures, DbSettles, DbForgets, DbReports, DbNames, SnapshotTaken,
       SnapshotRevokes, CancelReservations, SnapshotCloses, callVars
  <2>4. QED
    BY <1>4, <2>1, <2>2, <2>3 DEF RequestStep
<1>5. CASE \/ Shutdown \/ OwnerEnds \/ FinalStep \/ FinalTimesOut \/ UNCHANGED vars
           \/ \E q \in Req : CancelRequest(q) \/ OwnerContinues(q) \/ WatcherSettles(q)
  BY <1>5 DEF Shutdown, OwnerEnds, FinalStep, FinalTimesOut, FinalBegins, FinalSnapshots, FinalEnds,
     FinalDatabase, FinalReservation, FinalRetained, CancelRequest, OwnerContinues, WatcherSettles,
     vars, callVars
<1>6. QED
  BY <1>2, <1>3, <1>4, <1>5 DEF Next

\* Only these steps say of something that it is disposed of.
LEMMA WhoSays ==
  ASSUME ManagerInvariant, NEW r \in saysDisposed' \ saysDisposed, [Next]_vars
  PROVE  /\ r \in Req
         /\ \/ HandoffAbandon(r) \/ ReleaseChecks(r) \/ ReleaseRemoves(r) \/ CleanupStatus(r)
            \/ DatabaseCall(r) \/ DbReports(r) \/ StartLocks(r) \/ StartActivates(r)
            \/ RetainReports(r) \/ (ForkCancel(r) /\ op'[r] = "fork_cancel")
<1>1. CASE \/ Shutdown \/ OwnerEnds \/ FinalStep \/ FinalTimesOut \/ UNCHANGED vars
           \/ \E q \in Req : \/ Receive(q) \/ CancelRequest(q) \/ OwnerContinues(q)
                             \/ WatcherSettles(q)
  BY <1>1 DEF Shutdown, OwnerEnds, FinalStep, FinalTimesOut, FinalBegins, FinalSnapshots, FinalEnds,
     FinalDatabase, FinalReservation, FinalRetained, Receive, CancelRequest, OwnerContinues,
     WatcherSettles, vars, resultVars
<1>2. ASSUME NEW q \in Req,
             \/ Compensate(q) \/ Reply(q) \/ ReserveSlot(q) \/ ReserveInserts(q) \/ Claim(q)
             \/ ForkLooksUp(q) \/ ForkAcquires(q) \/ StartBegins(q) \/ CreateSucceeds(q)
             \/ ExportSucceeds(q) \/ CreateFails(q) \/ StartSettles(q) \/ RetainFailure(q)
      PROVE  FALSE
  BY <1>2 DEF Compensate, Reply, ReserveSlot, ReserveInserts, Claim, ForkLooksUp, ForkAcquires,
     StartBegins, CreateSucceeds, ExportSucceeds, CreateFails, StartSettles, RetainFailure, resultVars
<1>3. ASSUME NEW q \in Req,
             \/ DatabaseLocks(q) \/ DbClose(q) \/ DbCleanup(q) \/ SnapshotCaptures(q)
             \/ DbSettles(q) \/ DbForgets(q) \/ DbNames(q)
             \/ SnapshotTaken(q) \/ SnapshotRevokes(q) \/ CancelReservations(q) \/ SnapshotCloses(q)
      PROVE  FALSE
  BY <1>3 DEF DatabaseLocks, DbClose, DbCleanup, SnapshotCaptures, DbSettles, DbForgets, DbNames,
     SnapshotTaken, SnapshotRevokes, CancelReservations, SnapshotCloses, resultVars
<1>4. ASSUME NEW q \in Req,
             \/ HandoffAbandon(q) \/ ReleaseChecks(q) \/ ReleaseRemoves(q) \/ CleanupStatus(q)
             \/ DatabaseCall(q) \/ DbReports(q) \/ StartLocks(q) \/ StartActivates(q)
             \/ RetainReports(q) \/ ForkCancel(q)
      PROVE  q = r
  BY <1>4 DEF HandoffAbandon, ReleaseChecks, ReleaseRemoves, CleanupStatus, DatabaseCall, DbReports,
     StartLocks, StartActivates, RetainReports, ForkCancel, SaysUnknown, Reject
<1>5. ForkCancel(r) => op'[r] = "fork_cancel"
  BY DEF ForkCancel, callVars
<1>6. QED
  BY <1>1, <1>2, <1>3, <1>4, <1>5 DEF Next, RequestStep

\* A reply that says that something is disposed of is true and stays true: nothing of it is
\* left, and no concurrent request or late cleanup brings any of it back.
THEOREM DisposedIsTrueHolds == Spec => []DisposedIsTrue
<1>1. Init => SpentInvariant
  BY DEF Init, SpentInvariant
<1>2. ASSUME ManagerInvariant, SpentInvariant, [Next]_vars PROVE SpentInvariant'
  <2> SUFFICES ASSUME NEW r \in saysDisposed', op'[r] # "fork_cancel"
               PROVE  Lease(r)' \in Req /\ Spent(Lease(r))'
    BY DEF SpentInvariant
  <2>1. CASE r \in saysDisposed
    <3>1. r \in Req
      BY <1>2, <2>1 DEF ManagerInvariant, Typed
    <3>2. op'[r] = op[r] /\ Lease(r)' = Lease(r)
      BY <1>2, <2>1, <3>1, SaidStays DEF Lease
    <3>3. PICK l \in Req : l = Lease(r) /\ Spent(l)
      BY <1>2, <2>1, <3>2 DEF SpentInvariant
    <3>4. Spent(l)'
      BY <1>2, <3>3, SpentStays
    <3>5. QED
      BY <3>2, <3>3, <3>4
  <2>2. CASE r \notin saysDisposed
    BY <1>2, <2>2, WhoSays, NamedReplies, StartReplies
  <2>3. QED
    BY <2>1, <2>2
<1>3. SpentInvariant => DisposedIsTrue
  BY DEF SpentInvariant, Spent, DisposedIsTrue
<1>4. QED
  BY <1>1, <1>2, <1>3, ManagerInvariantHolds, PTL DEF Spec

-----------------------------------------------------------------------------
(* The pool of the baseline                                                *)

\* A method of a lease whose Acquire has returned is a step of the pool, or does nothing.
LEMMA MethodStep ==
  ASSUME NEW l \in Req, Slot(l), pc[l] \in {"idle", "held"}, UNCHANGED <<pc, ctxDone>>,
         \/ Pool!Settle(l, TRUE) /\ watchers' = watchers
         \/ Pool!Settle(l, FALSE) /\ watchers' = watchers
         \/ Pool!Cancel(l) /\ watchers' = watchers
         \/ Pool!TrackCleanup(l, TRUE)
         \/ Pool!Activate(l) /\ watchers' = watchers
  PROVE  Pool!Next \/ UNCHANGED poolVars
<1>1. CASE pc[l] = "held"
  <2>1. Pool!LeaseMethod(l)
    BY <1>1 DEF Pool!LeaseMethod
  <2>2. QED
    BY <2>1 DEF Pool!Next
<1>2. CASE pc[l] = "idle"
  <2>1. l \notin leases
    BY <1>2 DEF Slot
  <2>2. QED
    BY <2>1 DEF Pool!Settle, Pool!Cancel, Pool!TrackCleanup, Pool!Activate, Pool!CanActivate,
       Pool!NoEffect, Pool!poolVars, poolVars
<1>3. QED
  BY <1>1, <1>2

\* No method is called on a lease while its Acquire has not returned.
LEMMA MethodsAreReady ==
  ASSUME ManagerInvariant, NEW r \in Req
  PROVE  /\ arg[r] \in Req /\ op[r] = "fork_cancel" /\ reservations[arg[r]] # "none" =>
              pc[arg[r]] \in {"idle", "held"}
         /\ arg[r] \in Req /\ op[r] \in {"handoff_abandon", "handoff_release"} =>
              pc[arg[r]] \in {"idle", "held"}
         /\ at[r] \in {"locking", "rlocked", "startFailed"} =>
              Lease(r) \in Req /\ pc[Lease(r)] \in {"idle", "held"}
         /\ at[r] \in {"gated", "settling"} => arg[r] \in Req /\ pc[arg[r]] \in {"idle", "held"}
         /\ r \in dbs \/ reservations[r] # "none" => pc[r] \in {"idle", "held"}
<1>1. \A l \in Req : Slot(l) /\ Registry(l) /\ pc[l] \in Pool!Locations
  BY LeaseFacts DEF ManagerInvariant, PoolTyped
<1>2. \A l \in Req : reservations[l] # "none" \/ database[l] # "none" => pc[l] \in {"idle", "held"}
  BY <1>1 DEF Slot, Clean
<1>3. arg[r] \in Req /\ op[r] \in {"handoff_abandon", "handoff_release"} => pc[arg[r]] = "held"
  BY NameFacts DEF IsExport
<1>4. at[r] \in {"locking", "rlocked", "startFailed"} =>
        Lease(r) \in Req /\ pc[Lease(r)] \in {"idle", "held"}
  BY OwnFacts, RequestFacts DEF Stage, Starting, Failed
<1>5. at[r] \in {"gated", "settling"} => arg[r] \in Req /\ database[arg[r]] # "none"
  BY DatabaseFacts DEF Inside
<1>6. r \in dbs => database[r] # "none"
  BY <1>1 DEF Registry
<1>7. QED
  BY <1>2, <1>3, <1>4, <1>5, <1>6

\* Every step of the host is a step of the pool, or leaves the pool alone.
LEMMA StepIsPoolStep ==
  ASSUME ManagerInvariant, [Next]_vars
  PROVE  [Pool!Next]_(Pool!vars)
<1> SUFFICES Pool!Next \/ UNCHANGED poolVars
  BY DEF poolVars, Pool!vars
<1>1. ASSUME NEW r \in Req, CancelRequest(r) \/ WatcherSettles(r) \/ SnapshotRevokes(r)
      PROVE  Pool!Next
  BY <1>1 DEF CancelRequest, WatcherSettles, SnapshotRevokes, Pool!Next
<1>2. ASSUME NEW r \in Req, ReserveSlot(r) PROVE Pool!Next \/ UNCHANGED poolVars
  BY <1>2 DEF ReserveSlot, Pool!Next
<1>3. ASSUME NEW r \in Req, ForkAcquires(r) PROVE Pool!Next
  BY <1>3 DEF ForkAcquires, Pool!Next
<1>4. ASSUME NEW r \in Req, ForkCancel(r) PROVE Pool!Next \/ UNCHANGED poolVars
  <2>1. CASE reservations[arg[r]] = "reserved"
    <3>1. PICK l \in Req : l = arg[r]
      BY <1>4, RequestFacts DEF ForkCancel, Argued
    <3>2. op[r] = "fork_cancel" /\ Pool!Cancel(l) /\ UNCHANGED <<watchers, pc, ctxDone>>
      BY <1>4, <2>1, <3>1 DEF ForkCancel
    <3>3. Slot(l) /\ pc[l] \in {"idle", "held"}
      BY <2>1, <3>1, <3>2, LeaseFacts, MethodsAreReady
    <3>4. QED
      BY <3>2, <3>3, MethodStep
  <2>2. CASE reservations[arg[r]] # "reserved"
    BY <1>4, <2>2 DEF ForkCancel
  <2>3. QED
    BY <2>1, <2>2
<1>5. ASSUME NEW r \in Req, HandoffAbandon(r) \/ ReleaseRemoves(r)
      PROVE  Pool!Next \/ UNCHANGED poolVars
  <2>1. op[r] \in {"handoff_abandon", "handoff_release"}
    BY <1>5, RequestFacts DEF HandoffAbandon, ReleaseRemoves, Step, Placed
  <2>2. PICK l \in Req : l = arg[r]
    BY <2>1, RequestFacts DEF Argued
  <2>3. Slot(l) /\ pc[l] \in {"idle", "held"}
    BY <2>1, <2>2, LeaseFacts, MethodsAreReady
  <2>4. \/ /\ Pool!Settle(l, FALSE) \/ Pool!Settle(l, TRUE)
           /\ UNCHANGED <<watchers, pc, ctxDone>>
        \/ Pool!TrackCleanup(l, TRUE) /\ UNCHANGED <<pc, ctxDone>>
        \/ UNCHANGED poolVars
    BY <1>5, <2>2 DEF HandoffAbandon, ReleaseRemoves
  <2>5. QED
    BY <2>3, <2>4, MethodStep
<1>6. ASSUME NEW r \in Req, StartLocks(r) \/ StartActivates(r) \/ StartSettles(r)
      PROVE  Pool!Next \/ UNCHANGED poolVars
  <2>1. at[r] \in {"locking", "rlocked", "startFailed"}
    BY <1>6 DEF StartLocks, StartActivates, StartSettles, Step
  <2>2. PICK l \in Req : l = Lease(r)
    BY <2>1, MethodsAreReady
  <2>3. Slot(l) /\ pc[l] \in {"idle", "held"}
    BY <2>1, <2>2, LeaseFacts, MethodsAreReady
  <2>4. \/ /\ Pool!Cancel(l) \/ Pool!Activate(l) \/ Pool!Settle(l, TRUE)
           /\ UNCHANGED <<watchers, pc, ctxDone>>
        \/ Pool!TrackCleanup(l, TRUE) /\ UNCHANGED <<pc, ctxDone>>
        \/ UNCHANGED poolVars
    BY <1>6, <2>2 DEF StartLocks, StartActivates, StartSettles, Reject
  <2>5. QED
    BY <2>3, <2>4, MethodStep
<1>7. ASSUME NEW r \in Req, DbCleanup(r) \/ SnapshotCaptures(r) \/ DbSettles(r)
      PROVE  Pool!Next \/ UNCHANGED poolVars
  <2>1. at[r] \in {"gated", "settling"}
    BY <1>7 DEF DbCleanup, SnapshotCaptures, DbSettles, Step
  <2>2. PICK l \in Req : l = arg[r]
    BY <2>1, MethodsAreReady
  <2>3. Slot(l) /\ pc[l] \in {"idle", "held"}
    BY <2>1, <2>2, LeaseFacts, MethodsAreReady
  <2>4. \/ Pool!Settle(l, TRUE) /\ UNCHANGED <<watchers, pc, ctxDone>>
        \/ Pool!TrackCleanup(l, TRUE) /\ UNCHANGED <<pc, ctxDone>>
        \/ UNCHANGED poolVars
    BY <1>7, <2>2 DEF DbCleanup, SnapshotCaptures, DbSettles
  <2>5. QED
    BY <2>3, <2>4, MethodStep
<1>8. ASSUME NEW l \in Req, FinalDatabase(l) \/ FinalReservation(l)
      PROVE  Pool!Next \/ UNCHANGED poolVars
  <2>1. Slot(l) /\ pc[l] \in {"idle", "held"}
    BY <1>8, LeaseFacts, MethodsAreReady DEF FinalDatabase, FinalReservation
  <2>2. \/ /\ Pool!Cancel(l) \/ Pool!Settle(l, TRUE)
           /\ UNCHANGED <<watchers, pc, ctxDone>>
        \/ Pool!TrackCleanup(l, TRUE) /\ UNCHANGED <<pc, ctxDone>>
    BY <1>8 DEF FinalDatabase, FinalReservation
  <2>3. QED
    BY <2>1, <2>2, MethodStep
<1>9. CASE FinalBegins
  BY <1>9 DEF FinalBegins, Pool!Next
<1>10. ASSUME NEW r \in Req,
              \/ Receive(r) \/ Compensate(r) \/ Reply(r) \/ ReserveInserts(r) \/ ReleaseChecks(r)
              \/ CleanupStatus(r) \/ Claim(r) \/ ForkLooksUp(r) \/ StartBegins(r)
              \/ CreateSucceeds(r) \/ ExportSucceeds(r) \/ CreateFails(r) \/ RetainReports(r)
              \/ RetainFailure(r) \/ DatabaseCall(r) \/ DatabaseLocks(r) \/ DbClose(r)
       PROVE  UNCHANGED poolVars
  BY <1>10 DEF Receive, Compensate, Reply, ReserveInserts, ReleaseChecks, CleanupStatus, Claim,
     ForkLooksUp, StartBegins, CreateSucceeds, ExportSucceeds, CreateFails, RetainReports,
     RetainFailure, DatabaseCall, DatabaseLocks, DbClose
<1>11. ASSUME NEW r \in Req,
              \/ DbForgets(r) \/ DbReports(r) \/ DbNames(r) \/ SnapshotTaken(r)
              \/ CancelReservations(r) \/ SnapshotCloses(r) \/ OwnerContinues(r)
              \/ FinalRetained(r)
       PROVE  UNCHANGED poolVars
  BY <1>11 DEF DbForgets, DbReports, DbNames, SnapshotTaken, CancelReservations, SnapshotCloses,
     OwnerContinues, FinalRetained
<1>12. CASE Shutdown \/ OwnerEnds \/ FinalTimesOut \/ FinalSnapshots \/ FinalEnds
  BY <1>12 DEF Shutdown, OwnerEnds, FinalTimesOut, FinalSnapshots, FinalEnds
<1>13. CASE UNCHANGED vars
  BY <1>13 DEF vars
<1>14. ASSUME NEW r \in Req, RequestStep(r) PROVE Pool!Next \/ UNCHANGED poolVars
  BY <1>14, <1>1, <1>2, <1>3, <1>4, <1>5, <1>6, <1>7, <1>10, <1>11 DEF RequestStep
<1>15. CASE FinalStep
  BY <1>15, <1>8, <1>9, <1>11, <1>12 DEF FinalStep
<1>16. QED
  BY <1>1, <1>10, <1>11, <1>12, <1>13, <1>14, <1>15 DEF Next

\* The shared host implements the pool: it calls no method of a lease out of turn, so
\* whatever is proved of ForkLimit holds of the host's baseline.
THEOREM ImplementsPool == Spec => PoolSpec
<1>1. Init => Pool!Init
  BY DEF Init
<1>2. QED
  BY <1>1, StepIsPoolStep, ManagerInvariantHolds, PTL DEF Spec, PoolSpec, Pool!Spec

-----------------------------------------------------------------------------
(* The closed baseline                                                     *)

Reading == {"rlocked", "creating", "startFailed", "retaining", "retain"}

\* Why a closed baseline is released: the pool goes first, then the reservations, and
\* the backing only when nobody reads it; what is closed lets nobody in.
ClosedInvariant ==
  /\ closed => waiting = {} /\ leases \subseteq active
  /\ \A q \in Req : at[q] \in {"sweeping", "queued"} => closed
  /\ host = "cleaning" /\ Base \in snaps => closed
  /\ baseClosed => closed /\ Readers = {} /\ Pins = {}

\* A closed pool stays closed, admits no one and lets no one wait.
LEMMA PoolStaysClosed ==
  ASSUME closed => waiting = {} /\ leases \subseteq active, [Pool!Next]_(Pool!vars)
  PROVE  /\ closed => closed'
         /\ closed' => waiting' = {} /\ leases' \subseteq active'
<1>1. CASE Pool!Close
  BY <1>1 DEF Pool!Close, Pool!PoolClose, Pool!Signal
<1>2. ASSUME NEW c \in Req, Pool!LeaseMethod(c) \/ Pool!WatcherSettles(c)
      PROVE  closed' = closed /\ (closed => waiting' = {} /\ leases' \subseteq active')
  BY <1>2
  DEF Pool!LeaseMethod, Pool!WatcherSettles, Pool!Activate, Pool!CanActivate, Pool!Cancel,
      Pool!Settle, Pool!TrackCleanup, Pool!Release, Pool!Stop, Pool!Signal, Pool!NoEffect,
      Pool!poolVars
<1>3. ASSUME NEW c \in Req, Pool!AcquireStep(c)
      PROVE  closed' = closed /\ (closed => waiting' = {} /\ leases' \subseteq active')
  <2>1. CASE Pool!AcquireAdmit(c)
    BY <2>1 DEF Pool!AcquireAdmit, Pool!Verdict, Pool!Admit
  <2>2. CASE Pool!AcquireGranted(c)
    BY <2>2
    DEF Pool!AcquireGranted, Pool!Settle, Pool!Release, Pool!Stop, Pool!Signal, Pool!NoEffect,
        Pool!poolVars
  <2>3. CASE Pool!AcquireCheckContext(c) \/ Pool!AcquireWoken(c) \/ Pool!AcquireCancelled(c)
    BY <2>3
    DEF Pool!AcquireCheckContext, Pool!AcquireWoken, Pool!AcquireCancelled, Pool!poolVars
  <2>4. QED
    BY <1>3, <2>1, <2>2, <2>3 DEF Pool!AcquireStep
<1>4. ASSUME NEW c \in Req, NEW recover \in BOOLEAN, Pool!TryAcquire(c, recover)
      PROVE  closed' = closed /\ (closed => waiting' = {} /\ leases' \subseteq active')
  BY <1>4 DEF Pool!TryAcquire, Pool!Verdict, Pool!Admit
<1>5. ASSUME NEW c \in Req, Pool!AcquireBegin(c) \/ Pool!ContextEnds(c)
      PROVE  closed' = closed /\ (closed => waiting' = {} /\ leases' \subseteq active')
  BY <1>5 DEF Pool!AcquireBegin, Pool!ContextEnds, Pool!poolVars
<1>6. CASE UNCHANGED Pool!vars
  BY <1>6 DEF Pool!vars
<1>7. QED
  BY <1>1, <1>2, <1>3, <1>4, <1>5, <1>6 DEF Pool!Next

\* A request that does not come to read the backing adds no reader.
LEMMA NoReaderComes ==
  ASSUME Typed, Readers = {}, NEW r \in Req, NEW to \in Places,
         at' = [at EXCEPT ![r] = to],
         \A q \in Req \ {r} : op'[q] = op[q],
         to \in Reading => op'[r] \notin {"fork", "handoff"}
  PROVE  Readers' = {}
BY DEF Typed, Readers, Reading

\* Where the steps of a request lead: only the waiting writer goes on from the pool, and
\* only a startup that gets the read lock of an open baseline comes to read it.
LEMMA StepLeads ==
  ASSUME ManagerInvariant, NEW r \in Req, Receive(r) \/ RequestStep(r)
  PROVE  \E to \in Places :
           /\ at' = [at EXCEPT ![r] = to]
           /\ \A q \in Req \ {r} : op'[q] = op[q]
           /\ to \in Reading => /\ op'[r] = op[r]
                                /\ at[r] \in Reading \/ op[r] = "start" \/ ~baseClosed
           /\ to \in {"sweeping", "queued"} => SnapshotRevokes(r) \/ at[r] = "sweeping"
<1> DEFINE Leads(to) == /\ at' = [at EXCEPT ![r] = to]
                        /\ \A q \in Req \ {r} : op'[q] = op[q]
           Elsewhere == \E to \in Places \ (Reading \cup {"sweeping", "queued"}) : Leads(to)
<1>1. Typed
  BY DEF ManagerInvariant
<1>2. CASE Receive(r) \/ Compensate(r)
  <2>1. Elsewhere
    BY <1>1, <1>2 DEF Receive, Compensate, Step, Places, Reading, Typed
  <2>2. QED
    BY <2>1
<1>3. CASE \/ Reply(r) \/ ReserveSlot(r) \/ ReserveInserts(r) \/ ForkCancel(r)
           \/ HandoffAbandon(r) \/ ReleaseChecks(r) \/ ReleaseRemoves(r) \/ CleanupStatus(r)
           \/ Claim(r) \/ ForkLooksUp(r) \/ RetainFailure(r)
  <2>1. Elsewhere
    BY <1>3 DEF Reply, ReserveSlot, ReserveInserts, ForkCancel, HandoffAbandon, ReleaseChecks,
       ReleaseRemoves, CleanupStatus, Claim, ForkLooksUp, RetainFailure, Step, Places, Reading,
       callVars
  <2>2. QED
    BY <2>1
<1>4. CASE ForkAcquires(r)
  <2>1. Elsewhere
    BY <1>1, <1>4 DEF ForkAcquires, Places, Reading, Typed, callVars
  <2>2. QED
    BY <2>1
<1>5. CASE \/ DatabaseCall(r) \/ DatabaseLocks(r) \/ DbClose(r) \/ DbCleanup(r)
           \/ SnapshotCaptures(r) \/ DbSettles(r) \/ DbForgets(r) \/ DbNames(r)
  <2>1. Elsewhere
    BY <1>5 DEF DatabaseCall, DatabaseLocks, DbClose, DbCleanup, SnapshotCaptures, DbSettles,
       DbForgets, DbNames, Step, Places, Reading, callVars
  <2>2. QED
    BY <2>1
<1>6. CASE DbReports(r)
  <2>1. op[r] \in DatabaseOps
    BY <1>6, RequestFacts DEF DbReports, Step, Placed
  <2>2. Elsewhere
    BY <1>6, <2>1 DEF DbReports, Step, Places, Reading, DatabaseOps, callVars
  <2>3. QED
    BY <2>2
<1>7. CASE SnapshotTaken(r) \/ SnapshotCloses(r)
  <2>1. Elsewhere
    BY <1>7 DEF SnapshotTaken, SnapshotCloses, Step, Places, Reading, callVars
  <2>2. QED
    BY <2>1
<1>8. CASE SnapshotRevokes(r) \/ CancelReservations(r)
  <2>1. \E to \in {"sweeping", "queued"} : Leads(to)
    BY <1>8 DEF SnapshotRevokes, CancelReservations, Step, callVars
  <2>2. SnapshotRevokes(r) \/ at[r] = "sweeping"
    BY <1>8 DEF CancelReservations, Step
  <2>3. QED
    BY <2>1, <2>2 DEF Places, Reading
<1>9. CASE \/ StartLocks(r) \/ StartActivates(r) \/ CreateSucceeds(r) \/ ExportSucceeds(r)
           \/ CreateFails(r) \/ StartSettles(r) \/ RetainReports(r) \/ StartBegins(r)
  <2>1. op' = op /\ \E to \in Reading \cup {"result"} : Leads(to)
    BY <1>9 DEF StartLocks, StartActivates, CreateSucceeds, ExportSucceeds, CreateFails,
       StartSettles, RetainReports, StartBegins, Step, Reading, callVars
  <2>2. at[r] \in Reading \/ op[r] = "start" \/ ~baseClosed \/ (StartLocks(r) /\ Leads("result"))
    BY <1>9 DEF StartLocks, StartActivates, CreateSucceeds, ExportSucceeds, CreateFails,
       StartSettles, RetainReports, StartBegins, Step, Reading, callVars
  <2>3. QED
    BY <2>1, <2>2 DEF Places, Reading
<1>10. QED
  BY <1>2, <1>3, <1>4, <1>5, <1>6, <1>7, <1>8, <1>9 DEF RequestStep

\* Steps outside the requests move none.
LEMMA OtherSteps ==
  ASSUME \/ Shutdown \/ OwnerEnds \/ FinalStep \/ FinalTimesOut \/ UNCHANGED vars
         \/ \E r \in Req : CancelRequest(r) \/ OwnerContinues(r) \/ WatcherSettles(r)
  PROVE  UNCHANGED <<at, op>>
BY DEF Shutdown, OwnerEnds, FinalStep, FinalTimesOut, FinalBegins, FinalSnapshots,
   FinalEnds, FinalDatabase, FinalReservation, FinalRetained, CancelRequest, OwnerContinues,
   WatcherSettles, vars, callVars

\* Nobody comes to read the backing once it is closed.
LEMMA ReadersStayOut ==
  ASSUME ManagerInvariant, baseClosed, Readers = {}, [Next]_vars
  PROVE  Readers' = {}
<1>1. ASSUME NEW r \in Req, Receive(r) \/ RequestStep(r) PROVE Readers' = {}
  <2>1. PICK to \in Places :
          /\ at' = [at EXCEPT ![r] = to]
          /\ \A q \in Req \ {r} : op'[q] = op[q]
          /\ to \in Reading => op'[r] = op[r] /\ (at[r] \in Reading \/ op[r] = "start")
    BY <1>1, StepLeads
  <2>2. to \in Reading => op'[r] \notin {"fork", "handoff"}
    BY <2>1 DEF Readers, Reading
  <2>3. QED
    BY <2>1, <2>2, NoReaderComes DEF ManagerInvariant
<1>2. CASE UNCHANGED <<at, op>>
  BY <1>2 DEF Readers
<1>3. QED
  BY <1>1, <1>2, OtherSteps DEF Next

\* A request is behind the closed pool only if the pool is closed.
LEMMA WritersFollowThePool ==
  ASSUME ManagerInvariant, [Next]_vars, closed => closed',
         \A q \in Req : at[q] \in {"sweeping", "queued"} => closed
  PROVE  \A q \in Req : at'[q] \in {"sweeping", "queued"} => closed'
<1>1. ASSUME NEW r \in Req, Receive(r) \/ RequestStep(r), NEW q \in Req,
             at'[q] \in {"sweeping", "queued"}
      PROVE  closed'
  <2>1. PICK to \in Places :
          /\ at' = [at EXCEPT ![r] = to]
          /\ to \in {"sweeping", "queued"} => SnapshotRevokes(r) \/ at[r] = "sweeping"
    BY <1>1, StepLeads
  <2>2. SnapshotRevokes(r) => closed'
    BY DEF SnapshotRevokes, Pool!Close, Pool!PoolClose
  <2>3. q = r => at'[q] = to
    BY <2>1 DEF ManagerInvariant, Typed
  <2>4. q # r => at'[q] = at[q]
    BY <2>1 DEF ManagerInvariant, Typed
  <2>5. QED
    BY <1>1, <2>1, <2>2, <2>3, <2>4
<1>2. CASE UNCHANGED <<at, op>>
  BY <1>2
<1>3. QED
  BY <1>1, <1>2, OtherSteps DEF Next

\* No failed startup pins the backing once it is closed: nobody can fail any more.
LEMMA NoPinComes ==
  ASSUME ManagerInvariant, Readers = {}, Pins = {}, [Next]_vars
  PROVE  Pins' = {}
<1> SUFFICES ASSUME NEW l \in Req, cleanup'[l] = "startup", pc'[l] = "held"
             PROVE  FALSE
  BY DEF Pins
<1>1. Typed /\ PoolTyped /\ Slot(l) /\ Registry(l)
  BY LeaseFacts DEF ManagerInvariant
<1>2. ~(cleanup[l] = "startup" /\ pc[l] = "held")
  BY DEF Pins
<1>3. ASSUME cleanup[l] = "startup", pc'[l] = pc[l] PROVE FALSE
  BY <1>2, <1>3
<1>4. ASSUME NEW m \in Req, RetryFails(m) \/ cleanup' = [cleanup EXCEPT ![m] = "done"]
      PROVE  cleanup[l] = "startup"
  BY <1>1, <1>4, RetryEffects DEF Typed
<1>5. CASE \E r \in Req : CreateFails(r)
  <2>1. PICK r \in Req : CreateFails(r)
    BY <1>5
  <2>2. at[r] = "creating" /\ pc' = pc /\ cleanup[l] # "startup"
    BY <1>2, <2>1 DEF CreateFails, Step, poolVars
  <2>3. op[r] \notin {"fork", "handoff"} /\ Lease(r) = l
    BY <1>1, <2>1, <2>2 DEF Readers, CreateFails, Typed
  <2>4. op[r] = "start" /\ pc[l] = "idle"
    BY <2>2, <2>3, RequestFacts DEF Placed, Stage
  <2>5. QED
    BY <2>2, <2>4
<1>6. CASE \E r \in Req : ForkAcquires(r)
  <2>1. PICK r \in Req : ForkAcquires(r)
    BY <1>6
  <2>2. cleanup' = cleanup
    BY <2>1 DEF ForkAcquires, ownVars
  <2>3. at[r] = "acquiring" /\ Lease(r) = r
    BY <2>1, RequestFacts DEF ForkAcquires, Placed, Lease
  <2>4. cleanup[r] = "none" /\ \A m \in Req \ {r} : pc'[m] = pc[m]
    BY <1>1, <2>1, <2>3, RequestFacts, AcquireEffects DEF ForkAcquires, Stage, Clean, PoolTyped
  <2>5. QED
    BY <1>2, <2>2, <2>4
<1>7. CASE \E r \in Req : ReserveSlot(r)
  <2>1. PICK r \in Req : ReserveSlot(r)
    BY <1>7
  <2>2. cleanup' = cleanup /\ \A m \in Req \ {r} : pc'[m] = pc[m]
    BY <1>1, <2>1 DEF ReserveSlot, ownVars, poolVars, Pool!TryAcquire, Pool!Goto, PoolTyped
  <2>3. at[r] = "begun" /\ op[r] = "fork_reserve" /\ arg[r] = NoReq
    BY <2>1, RequestFacts DEF ReserveSlot, Step, Argued
  <2>4. cleanup[r] = "none"
    BY <2>3, RequestFacts DEF Making, Stage, Lease, Clean
  <2>5. QED
    BY <1>2, <2>2, <2>4
<1>8. CASE \E r \in Req : CleanupStatus(r) \/ DbCleanup(r)
  <2>1. PICK r \in Req : CleanupStatus(r) \/ DbCleanup(r)
    BY <1>8
  <2>2. arg[r] \in Req /\ pc' = pc
    BY <2>1, RequestFacts
    DEF CleanupStatus, DbCleanup, Step, Placed, Argued, DatabaseOps, poolVars, Pool!Settle
  <2>3. cleanup[l] = "startup"
    BY <1>4, <2>1, <2>2 DEF CleanupStatus, DbCleanup
  <2>4. QED
    BY <1>3, <2>2, <2>3
<1>9. CASE \E r \in Req : OwnerContinues(r) \/ FinalRetained(r)
  <2>1. cleanup[l] = "startup" /\ pc' = pc
    BY <1>4, <1>9 DEF OwnerContinues, FinalRetained, poolVars
  <2>2. QED
    BY <1>3, <2>1
<1>10. CASE \E r \in Req : \/ ReleaseRemoves(r) \/ DbClose(r) \/ SnapshotCaptures(r)
                           \/ FinalDatabase(r)
  <2>1. pc' = pc
    BY <1>10 DEF ReleaseRemoves, DbClose, SnapshotCaptures, FinalDatabase, poolVars
  <2>2. ASSUME NEW r \in Req, ReleaseRemoves(r) PROVE cleanup[l] = "startup"
    BY <1>1, <2>2 DEF ReleaseRemoves, Typed
  <2>3. ASSUME NEW r \in Req, DbClose(r) \/ SnapshotCaptures(r) PROVE cleanup[l] = "startup"
    BY <1>1, <2>3 DEF DbClose, SnapshotCaptures, Stopped, Typed
  <2>4. ASSUME NEW r \in Req, FinalDatabase(r) PROVE cleanup[l] = "startup"
    BY <1>1, <2>4 DEF FinalDatabase, Typed
  <2>5. QED
    BY <1>3, <1>10, <2>1, <2>2, <2>3, <2>4
<1>11. CASE UNCHANGED <<cleanup, pc>>
  BY <1>3, <1>11
<1>12. ASSUME NEW r \in Req,
              \/ Receive(r) \/ CancelRequest(r) \/ WatcherSettles(r) \/ Compensate(r) \/ Reply(r)
              \/ ReserveInserts(r) \/ ForkCancel(r) \/ HandoffAbandon(r) \/ ReleaseChecks(r)
              \/ Claim(r) \/ ForkLooksUp(r) \/ StartLocks(r) \/ StartActivates(r)
       PROVE  UNCHANGED <<cleanup, pc>>
  BY <1>12 DEF Receive, CancelRequest, WatcherSettles, Compensate, Reply, ReserveInserts,
     ForkCancel, HandoffAbandon, ReleaseChecks, Claim, ForkLooksUp, StartLocks, StartActivates,
     Reject, Pool!ContextEnds, Pool!WatcherSettles, ownVars, poolVars
<1>13. ASSUME NEW r \in Req,
              \/ StartBegins(r) \/ CreateSucceeds(r) \/ ExportSucceeds(r) \/ StartSettles(r)
              \/ RetainReports(r) \/ RetainFailure(r) \/ DatabaseCall(r) \/ DatabaseLocks(r)
              \/ DbSettles(r) \/ DbForgets(r) \/ DbReports(r) \/ DbNames(r)
       PROVE  UNCHANGED <<cleanup, pc>>
  BY <1>13 DEF StartBegins, CreateSucceeds, ExportSucceeds, StartSettles, RetainReports,
     RetainFailure, DatabaseCall, DatabaseLocks, DbSettles, DbForgets, DbReports, DbNames,
     ownVars, poolVars
<1>14. ASSUME NEW r \in Req,
              \/ SnapshotTaken(r) \/ SnapshotRevokes(r) \/ CancelReservations(r)
              \/ SnapshotCloses(r) \/ FinalReservation(r)
       PROVE  UNCHANGED <<cleanup, pc>>
  BY <1>14 DEF SnapshotTaken, SnapshotRevokes, CancelReservations, SnapshotCloses,
     FinalReservation, Pool!Close, ownVars, poolVars
<1>15. CASE \/ Shutdown \/ OwnerEnds \/ FinalBegins \/ FinalSnapshots \/ FinalEnds \/ FinalTimesOut
            \/ UNCHANGED vars
  BY <1>11, <1>15 DEF Shutdown, OwnerEnds, FinalBegins, FinalSnapshots, FinalEnds, FinalTimesOut,
     vars, Pool!Close, ownVars, poolVars
<1>16. CASE \E r \in Req : RequestStep(r)
  BY <1>5, <1>6, <1>7, <1>8, <1>10, <1>11, <1>12, <1>13, <1>14, <1>16 DEF RequestStep
<1>17. CASE FinalStep
  BY <1>9, <1>10, <1>11, <1>14, <1>15, <1>17 DEF FinalStep
<1>18. QED
  BY <1>9, <1>11, <1>12, <1>15, <1>16, <1>17 DEF Next

\* The backing is closed by these steps only; the final cleanup begins with the pool.
LEMMA WhoCloses ==
  ASSUME [Next]_vars, Base \notin Req
  PROVE  /\ baseClosed' # baseClosed => FinalSnapshots \/ \E r \in Req : SnapshotCloses(r)
         /\ host' = "cleaning" => host = "cleaning" \/ FinalBegins
         /\ Base \in snaps' => Base \in snaps
<1>1. ASSUME NEW r \in Req,
             \/ Receive(r) \/ CancelRequest(r) \/ WatcherSettles(r) \/ Compensate(r) \/ Reply(r)
             \/ ReserveSlot(r) \/ ReserveInserts(r) \/ ForkCancel(r) \/ HandoffAbandon(r)
             \/ ReleaseChecks(r) \/ ReleaseRemoves(r) \/ CleanupStatus(r)
      PROVE  UNCHANGED <<baseClosed, host, snaps>>
  BY <1>1 DEF Receive, CancelRequest, WatcherSettles, Compensate, Reply, ReserveSlot,
     ReserveInserts, ForkCancel, HandoffAbandon, ReleaseChecks, ReleaseRemoves, CleanupStatus,
     mapVars, hostVars
<1>2. ASSUME NEW r \in Req,
             \/ Claim(r) \/ ForkLooksUp(r) \/ ForkAcquires(r) \/ StartLocks(r)
             \/ StartActivates(r) \/ StartBegins(r) \/ CreateSucceeds(r) \/ ExportSucceeds(r)
             \/ CreateFails(r) \/ StartSettles(r) \/ RetainReports(r) \/ RetainFailure(r)
      PROVE  UNCHANGED <<baseClosed, host, snaps>>
  BY <1>2 DEF Claim, ForkLooksUp, ForkAcquires, StartLocks, StartActivates, StartBegins,
     CreateSucceeds, ExportSucceeds, CreateFails, StartSettles, RetainReports, RetainFailure,
     mapVars, hostVars
<1>3. ASSUME NEW r \in Req,
             \/ DatabaseCall(r) \/ DatabaseLocks(r) \/ DbClose(r) \/ DbCleanup(r)
             \/ DbSettles(r) \/ DbForgets(r) \/ DbReports(r) \/ DbNames(r)
             \/ SnapshotRevokes(r) \/ CancelReservations(r)
             \/ OwnerContinues(r) \/ FinalDatabase(r) \/ FinalReservation(r) \/ FinalRetained(r)
      PROVE  UNCHANGED <<baseClosed, host, snaps>>
  BY <1>3 DEF DatabaseCall, DatabaseLocks, DbClose, DbCleanup, DbSettles, DbForgets, DbReports,
     DbNames, SnapshotRevokes, CancelReservations, OwnerContinues, FinalDatabase,
     FinalReservation, FinalRetained, mapVars, hostVars
<1>4. ASSUME NEW r \in Req, SnapshotTaken(r) \/ SnapshotCaptures(r)
      PROVE  UNCHANGED <<baseClosed, host>> /\ snaps' \subseteq snaps \cup Req
  BY <1>4 DEF SnapshotTaken, SnapshotCaptures, mapVars, hostVars
<1>5. ASSUME NEW r \in Req, SnapshotCloses(r) PROVE UNCHANGED <<host, snaps>>
  BY <1>5 DEF SnapshotCloses, mapVars, hostVars
<1>6. CASE FinalBegins \/ FinalSnapshots
  BY <1>6 DEF FinalBegins, FinalSnapshots, mapVars
<1>7. CASE Shutdown \/ OwnerEnds \/ FinalEnds \/ FinalTimesOut \/ UNCHANGED vars
  BY <1>7 DEF Shutdown, OwnerEnds, FinalEnds, FinalTimesOut, vars, mapVars, hostVars
<1>8. ASSUME NEW r \in Req, RequestStep(r)
      PROVE  /\ baseClosed' # baseClosed => SnapshotCloses(r)
             /\ host' = host /\ snaps' \subseteq snaps \cup Req
  BY <1>1, <1>2, <1>3, <1>4, <1>5, <1>8 DEF RequestStep
<1>9. CASE FinalStep
  BY <1>3, <1>6, <1>7, <1>9 DEF FinalStep
<1>10. QED
  BY <1>1, <1>3, <1>7, <1>8, <1>9 DEF Next

\* Once the baseline is closed nobody waits for a slot of it, keeps one unused, or reads
\* its backing; neither a request that was on its way nor the final cleanup undoes this.
THEOREM ClosedIsReleasedHolds == Spec => []ClosedIsReleased
<1>1. Init => ClosedInvariant
  BY DEF Init, Pool!Init, ClosedInvariant
<1>2. ASSUME ManagerInvariant, ClosedInvariant, [Next]_vars PROVE ClosedInvariant'
  <2>1. (closed => closed') /\ (closed' => waiting' = {} /\ leases' \subseteq active')
    BY <1>2, StepIsPoolStep, PoolStaysClosed DEF ClosedInvariant
  <2>2. \A q \in Req : at'[q] \in {"sweeping", "queued"} => closed'
    BY <1>2, <2>1, WritersFollowThePool DEF ClosedInvariant
  <2>3. host' = "cleaning" /\ Base \in snaps' => closed'
    <3>1. FinalBegins /\ Base \in snaps => closed'
      BY DEF FinalBegins, Pool!Close, Pool!PoolClose
    <3>2. QED
      BY <1>2, <2>1, <3>1, WhoCloses, HandleAssumption DEF ClosedInvariant
  <2>4. CASE baseClosed
    BY <1>2, <2>1, <2>2, <2>3, <2>4, ReadersStayOut, NoPinComes DEF ClosedInvariant
  <2>5. CASE ~baseClosed /\ \E r \in Req : SnapshotCloses(r)
    <3>1. PICK r \in Req : SnapshotCloses(r)
      BY <2>5
    <3>2. at[r] = "queued" /\ Readers = {} /\ Pins = {}
      BY <3>1 DEF SnapshotCloses, Step
    <3>3. closed'
      BY <1>2, <2>1, <3>2 DEF ClosedInvariant
    <3>4. Readers' = {}
      <4>1. at' = [at EXCEPT ![r] = "result"] /\ op' = op
        BY <3>1 DEF SnapshotCloses, Step, callVars
      <4>2. QED
        BY <1>2, <3>2, <4>1, NoReaderComes DEF ManagerInvariant, Places, Reading
    <3>5. Pins' = {}
      BY <1>2, <3>2, NoPinComes
    <3>6. QED
      BY <2>1, <2>2, <2>3, <3>3, <3>4, <3>5 DEF ClosedInvariant
  <2>6. CASE ~baseClosed /\ FinalSnapshots /\ baseClosed'
    <3>1. Base \in snaps /\ host = "cleaning" /\ Pins = {} /\ UNCHANGED <<at, op>>
      BY <2>6 DEF FinalSnapshots, callVars
    <3>2. closed' /\ Readers = {}
      BY <1>2, <2>1, <3>1 DEF ClosedInvariant, ManagerInvariant, Hosting, Readers, Pending
    <3>3. Readers' = {}
      BY <3>1, <3>2 DEF Readers
    <3>4. Pins' = {}
      BY <1>2, <3>1, <3>2, NoPinComes
    <3>5. QED
      BY <2>1, <2>2, <2>3, <3>2, <3>3, <3>4 DEF ClosedInvariant
  <2>7. CASE ~baseClosed'
    BY <2>1, <2>2, <2>3, <2>7 DEF ClosedInvariant
  <2>8. QED
    BY <1>2, <2>4, <2>5, <2>6, <2>7, WhoCloses, HandleAssumption
<1>3. ClosedInvariant => ClosedIsReleased
  BY DEF ClosedInvariant, ClosedIsReleased
<1>4. QED
  BY <1>1, <1>2, <1>3, ManagerInvariantHolds, PTL DEF Spec
=============================================================================
