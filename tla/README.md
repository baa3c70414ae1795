# Verification of mariamem

mariamem runs MariaDB inside a Go process. A *database* is a guest (MariaDB
translated to Go) behind a small TCP server; a *snapshot* is a captured, read-only
backing from which databases are *forked*; a *live* endpoint keeps one address
while its database is replaced; a *shared host* offers all of it to Python over a
line protocol. What makes the program hard is not the data but the ownership of it:
every child owns a guest, goroutines, directories and a slot of its parent, each may
fail to go away, may go away late in the background, and may be asked about by
several callers at once. These modules state what that bookkeeping promises.

The generated MariaDB code (`src/internal/generatedgo/code/p*`, 3.4 of the repository's
3.49 million implementation lines) is outside the project; everything here is about the
hand-written Go around it and the hand-written C bridge in `src/guest`.

## The system

| part | state | operations | works with |
|---|---|---|---|
| Admission pool `internal/forklimit/pool.go` | closed, blocked, leases, the debt of each, one `changed` channel | Acquire, TryAcquire, Close; Activate, Cancel, Settle, TrackCleanup of a lease | called by snapshots, endpoints and the shared host; watches disposal owners |
| Disposal owners `internal/disposal` | per owner: gate, done, callback | Retry, Probe, Continue, Retain, After | hang in errors; retried by whoever holds the error and once in the background |
| Snapshot and database, Go API `snapshot.go`, `mariamem.go` | snapshot: closed, backing, pool; database: closed, closeErr, captureDebt, lease | Fork, Snapshot.Close, Close, Snapshot (capture), the watch goroutine | pool, disposal, host server |
| Host server `internal/host` | closing, clients, session slots, busy, transfer directory | start, accept/attach, SnapshotHeap, Close, finish, disposeAfter | guest, backing, disposal |
| Owned backing `internal/snapshot` | entries or root, closed, read/write lock | Acquire, Handoff, Import, Close | host server pins it while a startup reads it |
| Guest process `internal/guest` | pending calls, reader, exit | call, Abort, stop | host server |
| Live endpoint `internal/live`, `live.go` | status, child, retired, pending, relayed connections | accept/forward, Reset, Close, FinalCleanup | pool (two slots), database |
| Shared host `internal/control` | databases, snapshots, endpoints, reservations, retained failures, pending requests | twelve database requests, four live requests, cancel, shutdown, final cleanup | all of the above; peer of the Python package |
| Wire sessions `internal/mysqlwire`, `internal/preparedproto` | statement registry, long data, cached types | prepare, execute, close, reset, ... | guest sessions |
| Prepared files `internal/prepared` | copy-on-write blocks and roots | read, write, capture | guest file system |
| Platform check `internal/artifacts/platform_cache.go` | ready, inFlight | validate | startup |
| Fixtures `mariamemtest` | owned databases, pools, HTTP bindings | test helpers | Go API |
| Python package `python/mariamem` | session, remote children, handoff ledger | client of the shared host | shared host |

Hard behaviours: waiters and wakeups around one channel (pool, drain loop); a lock
taken after a lease was granted; a result of a background cleanup that arrives
between two looks at it; cleanup that fails, is retried, and is retried again by
someone else; requests cancelled after they created something; a reservation used,
cancelled, exported and released by concurrent requests; and everybody waiting for
a backing that a failed startup still reads. `PROJECT.json` lists them as hazards,
each at its line, with the properties that would catch it.

What makes the parts correct:

- *pool*: never more slots than the limit; no lost wakeup; uncertain cleanup stops
  admission until it is settled; Close revokes what was not used, and nothing else;
- *snapshot, database*: a slot is kept until the child's disposal is confirmed, and is
  given back then; the backing outlives its readers; nothing starts after Close;
- *guest process*: every call is answered once or told of the failure; an error of one call
  fails the instance for all; a stop that succeeds has joined the guest;
- *host server*: a slot is handed out clean; a capture finds no command at work and
  discards no transaction it was not told to; closing ends every worker;
- *endpoint*: a connection stays on the child it was accepted for; a failed Reset loses
  no child, keeps at most two, and is recoverable; Reset and Close end;
- *prepared statements*: host and guest agree on which statements exist and which parameters
  were streamed; no command of a client makes the host take the guest for broken;
- *prepared files*: a file reads as the bytes its own guest wrote, whoever shares its blocks;
  a root stays what was checked; a capture that was given up keeps nothing;
- *shared host*: whatever exists is registered; whoever has to release something knows
  its name, also after a cancellation; a reservation is used once; shutdown and exit
  tell the truth.

## Modules

| module | models | composes |
|---|---|---|
| `PoolConstants` | the limit and the names of calls, with their assumptions | - |
| `ForkLimit` | the admission pool: `Pool` and `Lease`, with `Acquire` step by step | extends `PoolConstants` |
| `ForkLimitProofs` | theorems about it | extends `ForkLimit` |
| `SnapshotFork` | Fork, Snapshot.Close, the life of a forked Database, its two disposal owners | instance of `ForkLimit` |
| `SnapshotForkProofs` | theorems about it | extends `SnapshotFork` |
| `LiveEndpoint` | relays, Reset, Close, FinalCleanup | - |
| `LivePool` | a Live on its parent's pool: reservation, settlement, watch, other Forks, Snapshot.Close | extends `LiveEndpoint`, instance of `ForkLimit` |
| `LiveEndpointProofs` | theorems about both | extends `LivePool` |
| `ControlManager` | the request loop and the database requests of the shared host | instance of `ForkLimit` |
| `ControlManagerProofs` | theorems about it | extends `ControlManager` |
| `GuestCalls` | what a caller of `guest.Process` may rely on | - |
| `GuestProcess` | the transport to the guest: calls, writes, reader, watcher, stops | implements `GuestCalls` |
| `GuestProcessProofs` | theorems about it | extends `GuestProcess` |
| `HostServer` | connections, session slots, `Serve`, Close, capture, disposal, WaitDisconnected | calls through an instance of `GuestCalls` |
| `HostServerProofs` | theorems about it | extends `HostServer` |
| `PreparedStatements` | the statements of a session in the host's registry and in the guest's list | - |
| `PreparedStatementsProofs` | theorems about it | extends `PreparedStatements` |
| `FileContents` | what a file is: a byte sequence of its own | - |
| `FileStore` | copy-on-write blocks, borrowed mapping, seal, capture, check, fork | implements `FileContents` |
| `FileStoreProofs` | theorems about it | extends `FileStore` |
| `MCControlManager`, `MCHostServer`, `MCFileStore` | symmetry sets and values for TLC | extend their module |

A definition headed `Defect:` is not part of a specification. It is the changed form
of the definition after it that a plausible mistake in the code would give; the
mutants of `PROJECT.json` put it in place to show that a property notices.

### ForkLimit

`leases`, `active`, `debt`, `tracking` are the map and the flags of its leases;
`blocked`/`cause` are the pool's error; `waiting` is the set of calls parked on the
*current* `changed` channel, so `Signal` (replace and close the channel) empties it.
A call is also the name of its lease: it is admitted at most once. `Acquire` is split
where it releases the mutex: check the context, ask (`Verdict`, `Admit`), give back a
grant whose context ended, wait, wake. `LeaseMethod` lets the holder of a lease call
any method in any order and repeatedly, as the callers in the repository may.

### SnapshotFork

A call is one `Fork` and the child it starts. `stage` is where it is, `guest` whether
its guest may run, `owner` the state of its two disposal owners (the *disposer* joins
the guest and removes the transfer directory, the *remover* then removes the temporary
directory), `owned` the owners its error carries, `continuing` those whose one
background retry is still to come. Startup, Close and capture follow the code from lock
to lock; `DisposalSampled` and `SettleFork` are separate steps because the code evaluates
`disposalComplete()` as an argument. `Closer` are concurrent callers of Snapshot.Close;
the read and the write lock of the snapshot and of the backing are explicit (`Readers`,
`WriterWaits`, `pins`; a waiting writer stops new readers, as `sync.RWMutex` does).
Closing a discarded root or heap backing has nothing that can fail in the present code;
`captureDebt` is defensive there, and the model lets it happen.

### LiveEndpoint

Reset and Close exclude each other with `Endpoint.gate`, so one program counter `at`
stands for whoever holds it. `life` says what became of each child (serving, dead,
debt after a failed Close, disposed); a Close of a child succeeds or leaves debt that
a later one may settle. The parent's reservation is granted or refused at will here;
`LivePool` says when.
Connections dial, relay and leave on their own; `parked` is Reset asleep in its drain
loop.

### LivePool

Every step of the endpoint is taken together with what its factory and its children do
to the pool: `BeginReset` asks `Factory.Check`, `ReserveSlot` is `TryAcquire` with
recovery, `StartOnSlot` is `forkReserved` (activate first, then allocate), and a step
that closes children settles their slots (`Closes`, `SettleSlots`); when Reset returns,
its deferred `Cancel` gives an unused slot back (`Unused`). Between these steps the pool
moves on its own: `Database.watch` closes a dead child behind the endpoint, owners
complete, another Fork waits, activates, is closed or leaves debt, and Snapshot.Close
closes the pool first and marks the snapshot later. A child has the name of its lease;
which unused name a lease gets is chosen once, since names are interchangeable.

`ResetFindsSlot` excludes an endpoint whose own child died and left debt. The code refuses
such a Reset with the pool's cleanup error and does not retry the cleanup, because it
retries only when the previous state is `failed`; the debt is settled by the child's
disposal owners or by Close.

### ControlManager

A request is the name of all it creates: lease, token, database, snapshot. `at` is
where its goroutine is, `result` the names its result holds, `told` the names that
were sent. `dbs`, `snaps`, `retained`, `reservations` are the manager's maps, `gate`
the per-database channel, `cleanup` the disposal owner of a lease or database
(`startup` pins the backing as well, `closing` is a server or log, `removal` a transfer
directory). The locks are split as the code splits them: looking a handle up, taking
its gate, closing, settling, deleting the handle, reporting and naming are separate
steps, and so are the three phases of `snapshot_close`. `Compensate` runs the undoing
request under a context that nothing cancels (`background`). The owner only uses
names it was told, in any order, any number of times and concurrently; `saysDisposed` are the requests whose
reply says that what they are about is disposed of, as a token that is no longer in the map is. All forks share one baseline; snapshots captured
in the run are not forked from. Not in this module: the `live_*` requests, a start from a
transferred backing, and `status`/`logs`, which only read.

### GuestCalls and GuestProcess

`GuestCalls` is the contract between the two layers: a call is accepted only by an
instance that neither failed nor stops, is answered or ends in an error, and an error
leaves the instance failed. `GuestProcess` models how `guest.go` and `linked.go` keep
it. `at` and `stopAt` are where each Call, Shutdown and Export is; `pending` the keys
of the map; `box` the response channels of capacity one, in which a second message is
the value `overfull`, that is a blocked sender; `gate` the holder of `writes`, and
`writers` the goroutines inside `writeAll`, which outlive a caller that gave up;
`frames` and `replies` are the two pipes; `holding` is the response the reader has
taken out of the map and not yet sent, for it sends without the lock. `fail`, `Abort`,
reading, delivering, joining, closing `done` and the last `fail` are separate steps of
separate goroutines, as are the guest's own (`guest/resident.inc`): it may answer in
any order, trap, send an invalid frame, or end at any point. The deadline of every
call, write and stop may end at any point too.

A call is the name of its request ID. IDs are 32 bits wide and a Process that survives
2^32 calls with one of them still waiting is outside the model. ID 0 is the ready
message and later the acknowledgement of an export, and is modelled as shared
(`Hello`).

### HostServer

A connection is served by one worker, whose place in `Serve` is `at`. `clients`, `slot`,
`busy`, `status`, `used` are the server's maps and session fields, changed only in steps
that hold its mutex; `fault` is the error Serve will return, `local` the status it keeps.
`op` is the one operation that ends the database (`Database.mu` admits one),
`closing`, `joined`, `transfer` its effects. Calls to the guest are steps of `GuestCalls`
(`GuestContract`, proved), so what is checked here holds of any transport that implements it, and
`GuestProcess` does. `live`, `working`, `tx` are what the guest knows of its slots.

Two reductions keep the state space small: between the result of one call and the
next call or packet a worker touches nothing shared, so one step takes the result and
begins the next call; and one configuring call stands for the flags and the database of
a handshake. Packets, authentication, statements and results are data. A capture that
is refused changes nothing and has no action. `Server.Snapshot`, which exports to
a directory and has no caller outside tests, is not modelled; `Export` is, in
`GuestProcess`.

`NoRefusal` has an exception that the code has too: a FOUND_ROWS session whose first
close was refused or failed is closed again on the way out, which the guest may
refuse; its error is set by then and aborts the instance.

### PreparedStatements

One slot, on which sessions follow each other. `entries`, `lastStatement`, `long`,
`longErrors`, `types`, `next`, `generation` are the host's (`Registry`, `preparedSession`),
`psEntries`, `psNext`, `psGeneration` the guest's (`guest/prepared_api.inc`). A client
command is one action, because one serial dispatcher owns the host's maps and one worker
the guest's; the action holds both sides' checks, and `fault` is set where the host meets
an answer it does not accept, which aborts the database. The client names statements by
any number, known, stale, 0 or the alias, and sends long data for any index.
`ReopenFoundRows` is the second open of a FOUND_ROWS session, which clears the guest's list
under a new generation. `MaxU32` stands for the largest 32-bit value: the counters are
exercised up to their end.

### FileContents and FileStore

`FileContents` has a status and a byte sequence per file: started empty, from the image or from a
kept one, written, resized, frozen, and then kept as the root of a snapshot or dropped. Only what
`TakeRoot` has handed over (`owned`) is kept, so a fork can start from nothing else. `FileStore` is the storage that pretends to be this: `file` holds
size, block descriptors, private set, borrowed mapping and its limit, `bytes` the arrays
that descriptors of several stores name. `WriteAt` copies a block that is not private,
`Resize` drops, shortens and clears, `Seal` copies what is still borrowed, `Fork` shares.
Around it, `pc` follows `startInstance` from start over the end of the guest to
`FreezeRoot`, `CompleteRoot` and the unmapping on exit, and `host` follows `SnapshotHeap`: request,
then either Discard, at any moment, or TakeRoot after the guest's exit, with `Root.Check`.
An instance has one file; names, directories and the counting of `RootMeter` are left out.

## Runs

| run | instance | shows |
|---|---|---|
| `snapshot_fork` | 2 forks, limit 1, 1 closer, fair | slots and backing; every step is a step of `ForkLimit` (`PoolSpec`); Snapshot.Close and waiting Forks return; tracked slots come back |
| `snapshot_fork_race` | 1 fork, fair | finding 1 |
| `live_pool` | 3 children (two resets), 1 connection, 2 slots, another Fork, fair | each child on a slot of its own, no slot leaks, Reset finds one or is told why not; nothing is started while the pool owes debt; Reset returns |
| `control_databases` | 3 requests, limit 1 | fork, snapshot, db_close, db_cleanup, snapshot_close; a reply that says disposed stays true; nothing of any other request is left at a baseline that snapshot_close has closed |
| `control_handoffs` | 4 requests, limit 1 | fork_reserve, fork_cancel, handoff, handoff_release, handoff_abandon, snapshot_close |
| `control_live` | 2 requests, all twelve operations, fair | a cancelled request is answered |
| `control_race` | 2 requests | finding 2 |
| `guest_process` | 2 calls, a Shutdown, an Export, fair | no call is lost or answered twice, the promise of `GuestCalls` is kept; a failure and the end of the guest reach everybody without a deadline |
| `host_sessions` | 2 connections, 2 slots, FOUND_ROWS | slots are handed out clean; Close and captures against handshakes, commands and cleanup |
| `host_ending` | 2 connections, 1 slot, a waiter, fair | closing drains, the end of the guest closes the database, WaitDisconnected returns |
| `prepared_statements` | counters up to 4, statements with 0 to 2 parameters | host and guest agree on statements, streams and deferred errors; the alias; only exhaustion breaks |
| `file_store` | 3 instances, blocks of 3 bytes, files up to 4, writes up to 2, 3 writes or resizes | every file is its own byte sequence (`FileContents`), roots pass their check, mapping and discarded captures |

Every liveness property is checked by a run and only there. The safety properties of the runs
are all proved as well; a run keeps those that a mistake in the code most plausibly breaks
(each has a mutant that shows it), because TLC is what finds the counterexample when the code
changes. Other proved properties need no run: the type invariants, all invariants of `ForkLimit`,
and `TwoSlotsSuffice`, `ReadyIsClean`, `NoLostDrain`, `ReplacedOnlyByCommit`, `ClosedIsFinal`,
`OneFrameAtATime`, `NoCallForgotten`, `FailedHasNoCalls`, `StopMeansExit`. `ForkLimit` has no run of its own:
its safety is proved, its actions are taken by the three runs that compose it
(`snapshot_fork`, `live_pool`, `control_databases`), and the return of its waiters is `ForkReturns`.
That `SnapshotFork` and `ControlManager` take no other step of it (`PoolSpec`), and that the workers of
`HostServer` call the guest as `GuestCalls` says (`GuestContract`), holds nearly by the way these modules
are composed; both are proved, and `snapshot_fork` keeps the first, which notices when a change of the module no
longer calls the pool. What a composition may get wrong with calls that are each in turn is left to properties
about it: `SlotUntilDisposed`, `StartsWithoutDebt`, `ClosedIsReleased`.

Why the bounds are enough. For safety the proofs hold for every value of the constants, so the
bounds decide only which liveness is checked and whether a mutant of the code is noticed. Two forks over
one slot are the least that compete for it while one child is
disposed of late. Three children allow a failed Reset, its recovery and a commit after
it, or two commits; two slots are the least that Live accepts, so a single other Fork
is already the one too many; so that each child has a slot of its own is already at stake. Three requests are two
that race over what a third one made, four are a whole handoff (reserve, export,
abandon, release after all), two of any kind are every pair; all operations with three
requests exceed what can be checked in minutes. Two calls are one that fails or gives up
beside one that must notice, and a second writer behind the gate. Two connections on two slots are two sessions at work during a capture, and on one slot
they are the second client that gets the slot of the first. A counter that ends at 4 leaves three
statement IDs beside 0 and the alias: two statements open at once, one replaced, and the
end reached. Files of four bytes over blocks of three have a block
that is whole and one with a tail, writes of two bytes cross the border, a resize
cuts at 0, inside, at the border and beyond; the first instance starts empty or from an image (one origin per behaviour), and
three instances are parent and two siblings or three generations. Three mutations
are a write of each, or cut, grow and write of one. Requests, forks and closers are
interchangeable, so runs without liveness use symmetry.

Deadlock is checked for the endpoint and its pool (`live_pool`), which always have an enabled
step. The other systems may stop: callers need not call, calls are used up, and the host exits.

Fairness. Goroutines that can run are scheduled (weak fairness of the steps inside
Acquire, Fork, Close, Reset and of a request), timers fire (`DrainExpires`), the one
background attempt of an owner and the goroutine of TrackCleanup run, and a guest that
was told to stop exits, which is what `guest.stop` waits for. `LivePool` assumes the
goroutine inside Reset or Close and its drain timer only, not the disposal owners nor the
other Fork. `GuestProcess` assumes
only that its goroutines run and that a write to a closed pipe returns, neither a deadline
nor a step of the guest. `HostServer` assumes the deadlines that the code sets: on calls
(`CallFails`), handshakes, reads after the first byte and replies (`WorkerStep`), and on the waits
of `finish`; and that `Database.watch` closes a database whose guest has exited. It
assumes nothing of the guest, and the read of an idle connection has no deadline. Nothing is assumed of clients, owners or callers: a
connection may stay for ever, a lease may never be given back, a removal may fail for
ever. `PreparedStatements` and `FileStore` promise nothing eventual and have no fairness. Hence the exceptions in `CloseReturns` and `CancelledReply`: a failed startup
whose removal also failed keeps the backing pinned until someone retries it.

## Findings

1. `snapshot_fork_race`: `settleFork(err, db.disposalComplete())` samples the disposal before
   it looks at the owners. If the background cleanup ends in between, the error is not
   pending and not confirmed, and a disposed child becomes permanent debt
   (`mariamem.go:208`, `snapshot.go:77,82`, `live.go:58`).
2. `control_race`: `db_close` asks `disposed()` once to delete the handle and once for its
   reply. If the background cleanup ends in between, the reply says disposed, names no
   cleanup handle, and the handle stays registered: shutdown is refused as busy from
   then on (`internal/control/shared.go:338,342`, the same at 349 and 354).

Not a violation, but worth knowing: the final cleanup of the host closes the snapshots
before it retries the retained failures (`shared.go:394-410`), so a failed startup that pins a
backing holds it until the 45 second limit, which the host reports as an error.

## Proofs

TLAPS checks the following for every value of the constants. The inductive invariants were
checked with TLC on the instances above before they were proved.

`ForkLimitProofs`, from `LimitAssumption` (a positive limit not above the largest
32-bit value, as New demands) and `NoCallAssumption`: `Spec => []PoolInvariant`, and from it
`Capacity`, `NoLostWakeup`, `DebtStopsAdmission`, `CloseRevokesReservations`,
`NeverReadmitted`, `ActivationNeedsSlot`. The properties are not inductive alone:
that a slot is never readmitted needs to know that a lease belongs to a call that was
admitted, and that only the holder of a lease was activated, owes or is tracked
(`HeldByCallers`). The argument is by the two effects that change slots, `Release` and
`Admit` (one lemma each; a release wakes everyone, so `NoLostWakeup` is vacuous after it, and an
admission happens only when nobody is parked), and by `Stop`, which adds debt.

`SnapshotForkProofs`, for any constants: `Spec => []ForkInvariant`, and from it
`SlotUntilDisposed` and `BackingOutlivesReaders`; and `Spec => PoolSpec`, that every step of a
Fork, a Database or a closer is a step of `ForkLimit` or leaves the pool alone. The invariant is one
formula per child (`Slots`, `Disposal`, `Pinned`, `SlotHeld`), so a step of one child is looked at for
that child (`OneChild`), and the others keep theirs (`SameKeeps`). `Disposal` says which
owners exist at each stage and that they end in their order; from it follows `DoneMeansDisposed`:
when no owner named by the error of an ended child is pending, nothing of the child is left, which is why
the settlement may free the slot. `TrackCleanup` frees it on the same ground.

`LiveEndpointProofs`, from `EndpointAssumption`: `Spec => []EndpointInvariant`, and from it
`ConnectionsStayOnChild`, `NoOrphanChild`, `TwoSlotsSuffice`, `ReadyIsClean`,
`NoLostDrain`, `ReplacedOnlyByCommit`, `ClosedIsFinal`. Here `ResetPhases` is the strengthening: what
Reset may rely on at each step (the state it published, nothing pending once it has
reserved, what it found is still so, the candidate is another child than the current
one). `TwoSlotsSuffice` follows because only Start brings a child to life, and at that
step the current child is the only other one. A step of `LivePool` is a step of the endpoint or leaves it
alone, so the same module proves for `LiveSpec`, over the endpoint's invariant, `SlotInvariant` and from
it `SlotPerChild` and `ResetFindsSlot`: a serving child has its slot, a disposed one has given it
back, and of those not started only the reservation of the running Reset may have one. The action
property `StartsWithoutDebt` rests on a second, smaller one, `DebtInvariant`: a debt on a slot that is held has
stopped the pool, which then activates no reservation and admits nobody. What can go wrong is a settlement or a
recovery that lifts the stop too early, so `SettlingStops` and `ReserveStops` are about those.

`GuestProcessProofs`, from `GuestAssumption` (names are distinct; at most one Export, which
`Server.closing` ensures): `Spec => []ProcessInvariant`, and from it `OneResponse`, `NoCallForgotten`,
`FailedHasNoCalls`, `OneFrameAtATime`, `StopMeansExit`; and `Spec => Promise`, that
`GuestProcess` implements `GuestCalls`. Most actions end in `fail` or `Abort`; one lemma each
shows that both have the effect `Failing` (everybody registered is either answered or
still the export that registered after the failure, and the instance has failed), and
the rest of the proof knows only that. `Answering` strengthens `OneResponse`: a call
not yet begun has an empty channel, a call inside is expected somewhere, an error in a
channel implies failure (which is why a Call that receives one may be mapped to
`Error`), and ID 0 is free until an export takes it. `Writing` adds that the holder of the gate is
writing. `Ended` adds that the peer is closed only after the guest ended and that only an
export waits for an acknowledgement.

`PreparedStatementsProofs`, from `PreparedAssumption`: `Spec => []PreparedInv`, and from it
`StatementsAgree`, `StreamsAgree`, `AliasIsNewest` and the action property
`OnlyExhaustionBreaks`. The strengthening is `LockStep`: both counters are
equal and below the alias, a statement has its handle as wire ID on both sides, no larger than the
counter, and a session without commands has no statements: so a handle the host adds is
new, and no command finds a statement in one picture only.

`FileStoreProofs`, from `SizeAssumption` and `ImageAssumption`: `Spec => []StoreInvariant`,
and from it `RootsPassCheck`, `MappingOutlivesReaders` and `DiscardLeavesNothing`; and
`Spec => FilesAreIndependent`, that the copy-on-write storage implements `FileContents`. Sharing is
harmless because of `Arrays`: the array that a descriptor names belongs to the store itself or
to the one whose root is owned, which has ended and never writes again; and a store that runs writes in
place only to arrays of its own. The refinement rests on one lemma per operation that says
what the file reads as afterwards (`WrittenReads`, `ShrunkReads`, `SealedReads`); these are about
arithmetic of blocks and hold for every block size.

`HostServerProofs`, from `HostAssumption`: `Spec => []HostInvariant`, and
from it `FreeSlotIsClean`, `NoRefusal`, `CaptureIsQuiescent`, `TransferOutlivesUsers`; and
`Spec => GuestContract`, that its workers call the guest as `GuestCalls` lets them. A session is *healthy*
while neither `Serve` nor a call of it has met an error. What the guest keeps in the slot of a
healthy session follows from where its worker is (`Opened`, `Session`); of any other session it is
enough that its error aborts the instance before the slot is free (`Worker`). `Order` holds the
chain of the ending operation: nothing stops the guest before all workers are joined.

`ControlManagerProofs`, from `HandleAssumption` and `OpsAssumption` (handles are distinct; the owner uses
operations that exist): `Spec => []ManagerInvariant`, and from it `SlotUntilDisposed`, `ClaimedOnce`, `NothingLost`,
`OwnerCanRelease`, `ShutdownIsIdle`, `CleanExit`, `DisposedIsTrue`, `ClosedIsReleased`; and `Spec => PoolSpec`. The parts of the invariant:

- `Requests`: a request is where its operation can be, with an argument of the right kind, holds
  the gate of the database it works on, and has a result only when it is complete;
- `Naming`: nobody knows or uses a name that is not made yet. A request that has not begun, a
  startup under way and a reservation are *early*: no lease, database, token or cleanup handle
  of theirs is known;
- `Meanings`: what a name that somebody knows or uses stands for in the manager's maps (a lease is
  an exported backing, a token a failed startup, a cleanup handle a closed database);
- `Leases`: the slot is held for whatever has resources, and the maps that a lease may be in at
  once;
- `Stages`, `OneStart`: what a startup has made at each step, and that at most one works on a lease;
- `Lists`, `SnapshotsKnown`: whatever has resources is in one of the maps that the final cleanup
  walks, and somebody was or will be told its name;
- `Hosting`, `BaseKept`: what the end of the host has established at each of its steps.

A step belongs to one request and works on one lease (`Touches`): that of its startup, the one it names and
has entered, or the reservation it claims. Two requests never work on the same one (`Apart`), because the gate or
the entry of the map has decided between them. The lemmas `MovesStep`,
`QuietStep`, `AskStep`, `OutsideStep` and `OneLeaseStep` reduce a step to its own request and lease, and the
proof has one lemma per action over them.

`DisposedIsTrue` is about the past: a reply said that a database, an export or a startup is disposed
of, and it has to stay so. Its inductive form, `SpentInvariant`, therefore says that what such a
reply named is *spent*: nothing of it exists (`HasResources`), and nothing is to come (`Past`: the
request that makes it is past its beginning, no startup on its lease is under way, its reservation is used up). `SpentStays` shows
that no step ends this, with `ManagerInvariant`; `WhoSays`, `NamedReplies` and `StartReplies` show that every reply that
says it finds the thing spent. A `fork_cancel` is excepted: it answers `disposed` for a
token that it does not know, which may be one that a fork took and whose database is serving; it
speaks of the reservation alone.

`ClosedIsReleased` is the end of the order in `snapshot_close`: revoke, sweep, wait for the readers, close. Its inductive
form, `ClosedInvariant`, adds what holds at each of these (from the sweep on the pool is closed, and a closed pool has only
active slots and nobody waiting), and `ReadersStayOut` and `NoPinComes` show that a request on its way between its lease and
the read lock neither reads a closed baseline nor fails in a way that pins it.

`PreparedStatementsProofs` also states `AliasIsNewest`, part of `PreparedInv`, by itself. tlapm does
not apply the theorems of an instance, so the modules that use `ForkLimit` do not cite
`ForkLimitProofs`: they prove what they need of the pool themselves, and what holds of the pool's own
variables is inherited through the refinement.

Only model-checked: the liveness properties (`CloseReturns`, `ForkReturns`, `TrackedSlotReleased`,
`ResetSettles`, `CancelledReply`, `FailureReachesCalls`, `ExitIsJoined`, `CloseDrains`, `ExitCloses`,
`WaiterReturns`), because liveness under fairness is beyond the prover; and the two findings, which
are counterexamples.

## Not modelled, and the plan

Four error branches are left out because nothing in the code reaches them; a comment at the definition names each:
the payload limit of `Process.Call` (`guest.go:299`, its only callers are in `mysqlwire`, which bounds statements and
envelopes by the same limits); the `captureDebt` branch of `db.settle` and its last `Settle(err)` (`control/fork.go:102,109`:
a root on the heap has no file whose close could fail, and an error without pending owners is one whose disposal has ended);
the failure of `token()` (`control/fork.go:181`: the random source of the Go version in `go.mod` returns no error); and a
result of EXECUTE with another handle or invalid packets (`prepared_execute.go:56`: the guest answers with the handle it was
given).

Next, in this order:

1. The `live_*` requests (`internal/control/live.go`) and a start from a transferred backing, in `ControlManager`;
   `LivePool` has the endpoint and the pool below them.
2. Disposal owners in general: dependencies, the gate of Retry, Probe; the modules
   now have the owners that the code creates, one or two per child.
3. The Python side of a handoff as a peer of `ControlManager`, which today is checked
   against any client.

Not modelled:

- the platform check cache, a single-flight cache that nothing else depends on;
- `mariamemtest`, a layer of test helpers without shared state of its own beyond the Go API;
- the memory file system (`memfs.go`) and thread bookkeeping (`thread_lifetime.go`) of
  the runtime: `FileStore` has the part of it that is shared between instances;
- guests built from an older bridge, which advertise fewer prepared operations.

Left out for good: the generated MariaDB code, the import and publication of backings in
the file system beyond their locks, memory limits read from the operating system,
timing, logging and the wording of errors. The generated code is nearly all of the repository by lines:
numbered variables and jump tables produced by a translator, with no design of their own to
state properties about. Counted over all lines the modules therefore cover about one
thousandth of the implementation; they cover most of the hand-written control flow.
