----------------------------- MODULE HostServer -----------------------------
(***************************************************************************)
(* The server of one database (internal/host): connections that get a      *)
(* session slot of the guest, one worker each that serves the MySQL        *)
(* protocol (internal/mysqlwire/wire.go, Serve), the one operation that    *)
(* ends the database (Close or a capture), the disposal of what is left,   *)
(* and WaitDisconnected.  Calls to the guest follow GuestCalls, which      *)
(* GuestProcess implements; what the guest does with its slots is          *)
(* guest/resident.inc.                                                     *)
(*                                                                         *)
(* Database.mu admits one ending operation, and no WaitDisconnected looks  *)
(* while it runs.  A refused capture changes nothing and has no action.    *)
(***************************************************************************)
EXTENDS Naturals, FiniteSets

CONSTANTS
  Conn,        \* connections, over TCP or DialContext
  Slots,       \* Process.MaxSessions
  FoundRows,   \* whether clients ask for CLIENT_FOUND_ROWS
  Waits        \* whether WaitDisconnected is called

ASSUME HostAssumption ==
  /\ Slots \in Nat /\ Slots >= 1
  /\ FoundRows \in BOOLEAN /\ Waits \in BOOLEAN

VARIABLES
  running, outcome, failed, stopping,   \* the calls: GuestCalls
  at,         \* where the worker of each connection is
  fault,      \* Serve's error is not nil
  local,      \* Serve's status says: in a transaction
  clients,    \* Server.clients
  slot,       \* session.slot
  busy,       \* session.busy
  status,     \* session.status says: in a transaction
  used,       \* Server.slots
  lost,       \* connections closed by either side
  closing,    \* Server.closing
  joined,     \* Server.workersDone is closed
  op,         \* where the ending operation is
  kind,       \* "none", "close", "capture" or "rollback" (capture with rollback)
  opErr,      \* its error is not nil
  captured,   \* it returned a captured root
  transfer,   \* the transfer directory: "kept", "retained" or "removed"
  live,       \* guest: slots with a MariaDB session
  working,    \* guest: slots with a request at work
  tx,         \* guest: slots whose server_status says: in a transaction
  job,        \* guest: what became of the request of each connection
  exited,     \* Process.Done
  exitErr,    \* Process.exitErr is not nil
  frozen,     \* guest: a requested root was frozen at the clean end
  waiter      \* WaitDisconnected: "idle", "parked", "woken" or "returned"

callVars == <<running, outcome, failed, stopping>>
sessionVars == <<clients, slot, busy, status, used>>
serveVars == <<at, fault, local>>
opVars == <<joined, op, kind, opErr, captured, transfer>>
guestVars == <<live, working, tx, job, exited, exitErr, frozen>>
vars == <<callVars, serveVars, sessionVars, lost, closing, opVars, guestVars, waiter>>

Guest == INSTANCE GuestCalls WITH Caller <- Conn

Slot == 1..Slots   \* from 1, for 0 says: none
Captures == {"capture", "rollback"}

Init ==
  /\ Guest!Init
  /\ at = [c \in Conn |-> "new"]
  /\ fault = [c \in Conn |-> FALSE]
  /\ local = [c \in Conn |-> FALSE]
  /\ clients = {} /\ used = {} /\ lost = {}
  /\ slot = [c \in Conn |-> 0]
  /\ busy = [c \in Conn |-> FALSE]
  /\ status = [c \in Conn |-> FALSE]
  /\ closing = FALSE /\ joined = FALSE
  /\ op = "none" /\ kind = "none" /\ opErr = FALSE /\ captured = FALSE /\ transfer = "kept"
  /\ live = {} /\ working = {} /\ tx = {}
  /\ job = [c \in Conn |-> "none"]
  /\ exited = FALSE /\ exitErr = FALSE /\ frozen = FALSE
  /\ waiter = "idle"

\* Process.Err is not nil.
Unusable == failed \/ exited

\* Process.Abort, and every other way in which the instance fails.
Abort == Guest!Fail

\* notifyDisconnectLocked: close the channel handed out by DisconnectState.
Notify == waiter' = IF waiter = "parked" THEN "woken" ELSE waiter

-----------------------------------------------------------------------------
(* The guest                                                               *)

\* What the request of a connection asks for.
Request(c) ==
  IF at[c] \in {"opening", "reopening"} THEN "open"
  ELSE IF at[c] \in {"reclosing", "closing"} THEN "close" ELSE "query"

\* The main loop hands a request to the worker of its slot, unless the slot is
\* not in the state for it.
GuestAccepts(c) ==
  /\ c \in running /\ job[c] = "none" /\ ~exited
  /\ LET s == slot[c] IN
     IF s \in working \/ (Request(c) = "open") = (s \in live)
       THEN job' = [job EXCEPT ![c] = "refused"] /\ UNCHANGED <<live, working>>
       ELSE /\ job' = [job EXCEPT ![c] = "work"]
            /\ working' = working \cup {s}
            /\ live' = live \cup {s}
  /\ UNCHANGED <<callVars, serveVars, sessionVars, lost, closing, opVars, tx, exited, exitErr,
                 frozen, waiter>>

\* The worker has done it, or reports an error; its slot is free for the next
\* request before the reply is written.
GuestWorks(c) ==
  /\ job[c] = "work" /\ ~exited
  /\ \E good \in BOOLEAN :
       LET s == slot[c]
           over == Request(c) = "close" \/ (Request(c) = "open" /\ ~good)
       IN /\ job' = [job EXCEPT ![c] = IF good THEN "good" ELSE "bad"]
          /\ live' = IF over THEN live \ {s} ELSE live
          /\ working' = working \ {s}
          /\ IF at[c] = "commanding"
               THEN tx' \in {tx \cup {s}, tx \ {s}}
               ELSE tx' = IF over THEN tx \ {s} ELSE tx
  /\ UNCHANGED <<callVars, serveVars, sessionVars, lost, closing, opVars, exited, exitErr,
                 frozen, waiter>>

\* Defect: the reply is written before the slot is free for the next request.
ReplyEarly(c) ==
  /\ c \in running /\ ~exited
  /\ job[c] \in {"work", "good", "bad", "refused"}
  /\ Guest!Answer(c)
  /\ UNCHANGED <<serveVars, sessionVars, lost, closing, opVars, waiter, live, working, tx,
                 exited, exitErr, frozen>>
  /\ job' = [job EXCEPT ![c] = IF @ = "work" THEN "good" ELSE @]

\* The reply reaches the caller.
Reply(c) ==
  /\ c \in running
  /\ job[c] \in {"good", "bad", "refused"}
  /\ Guest!Answer(c)
  /\ UNCHANGED <<serveVars, sessionVars, lost, closing, opVars, guestVars, waiter>>

\* A call ends in an error, by its deadline if nothing else.
CallFails(c) ==
  /\ Guest!Error(c)
  /\ UNCHANGED <<serveVars, sessionVars, lost, closing, opVars, guestVars, waiter>>

\* The guest fails by itself.
GuestFails ==
  /\ ~failed
  /\ Abort
  /\ UNCHANGED <<serveVars, sessionVars, lost, closing, opVars, guestVars, waiter>>

\* A guest that failed or was stopped ends, its sessions with it; if it ends
\* cleanly and a capture has been requested, its root is frozen.
GuestExits ==
  /\ failed \/ stopping
  /\ ~exited
  /\ exited' = TRUE
  /\ exitErr' \in BOOLEAN
  /\ frozen' = (kind \in Captures /\ ~exitErr')
  /\ live' = {} /\ working' = {}
  /\ UNCHANGED <<callVars, serveVars, sessionVars, lost, closing, opVars, tx, job, waiter>>

-----------------------------------------------------------------------------
(* Admission and release of a connection                                   *)

\* Defect: attach does not look whether the server is closing.
AttachWhileClosing(c) ==
  /\ at[c] = "new"
  /\ ~Unusable
  /\ \E s \in Slot \ used :
       /\ \A t \in Slot \ used : s <= t
       /\ slot' = [slot EXCEPT ![c] = s]
       /\ used' = used \cup {s}
  /\ clients' = clients \cup {c}
  /\ busy' = [busy EXCEPT ![c] = TRUE]
  /\ at' = [at EXCEPT ![c] = "attached"]
  /\ UNCHANGED <<callVars, fault, local, status, lost, closing, opVars, guestVars, waiter>>

\* attach: the lowest free slot, an entry in clients and a worker, under the
\* lock.
Attach(c) ==
  /\ at[c] = "new"
  /\ ~closing /\ ~Unusable
  /\ \E s \in Slot \ used :
       /\ \A t \in Slot \ used : s <= t
       /\ slot' = [slot EXCEPT ![c] = s]
       /\ used' = used \cup {s}
  /\ clients' = clients \cup {c}
  /\ busy' = [busy EXCEPT ![c] = TRUE]
  /\ at' = [at EXCEPT ![c] = "attached"]
  /\ UNCHANGED <<callVars, fault, local, status, lost, closing, opVars, guestVars, waiter>>

\* A connection refused as closed, unusable or over capacity gets no worker.
AttachRejected(c) ==
  /\ at[c] = "new"
  /\ closing \/ Unusable \/ used = Slot
  /\ at' = [at EXCEPT ![c] = "rejected"]
  /\ UNCHANGED <<callVars, fault, local, sessionVars, lost, closing, opVars, guestVars, waiter>>

\* The client closes its end at any time.
ClientLeaves(c) ==
  /\ c \in clients \ lost
  /\ lost' = lost \cup {c}
  /\ UNCHANGED <<callVars, serveVars, sessionVars, closing, opVars, guestVars, waiter>>

\* Serve has returned; its error aborts the instance before the slot is free.
SessionEnds(c) ==
  /\ at[c] = "ended"
  /\ IF fault[c] THEN Abort ELSE UNCHANGED callVars
  /\ at' = [at EXCEPT ![c] = "releasing"]
  /\ UNCHANGED <<fault, local, sessionVars, lost, closing, opVars, guestVars, waiter>>

\* The session record is dropped, and its slot free, under the lock.
Drop(c) ==
  /\ at[c] = "releasing"
  /\ clients' = clients \ {c}
  /\ used' = used \ {slot[c]}
  /\ slot' = [slot EXCEPT ![c] = 0]
  /\ busy' = [busy EXCEPT ![c] = FALSE]
  /\ status' = [status EXCEPT ![c] = FALSE]
  /\ fault' = [fault EXCEPT ![c] = FALSE]
  /\ local' = [local EXCEPT ![c] = FALSE]
  /\ at' = [at EXCEPT ![c] = "released"]
  /\ UNCHANGED <<callVars, lost, closing, opVars, guestVars>>

\* Defect: a release does not notify.
ReleaseSilently(c) == Drop(c) /\ UNCHANGED waiter

\* The deferred release of a session, which wakes WaitDisconnected.
Release(c) == Drop(c) /\ Notify

\* conn.Close and workers.Done.
WorkerDone(c) ==
  /\ at[c] = "released"
  /\ lost' = lost \cup {c}
  /\ at' = [at EXCEPT ![c] = "gone"]
  /\ UNCHANGED <<callVars, fault, local, sessionVars, closing, opVars, guestVars, waiter>>

-----------------------------------------------------------------------------
(* Serve.  Between the result of one call and the next call, or the next   *)
(* packet, a worker touches nothing that is shared: one step takes the     *)
(* result and begins the next call.                                        *)

\* The call of a phase: refused at once by an instance that failed or stops.
Enter(c, phase) ==
  /\ Guest!Begin(c) \/ Guest!Refuse(c)
  /\ job' = [job EXCEPT ![c] = "none"]
  /\ at' = [at EXCEPT ![c] = phase]

\* The call of a phase has returned.
Returned(c, phase) == at[c] = phase /\ c \notin running

Errored(c) == outcome[c] = "error"
Good(c) == outcome[c] = "answer" /\ job[c] = "good"

\* Serve goes on without a call: fails says whether its error is set.
Goto(c, phase, fails) ==
  /\ at' = [at EXCEPT ![c] = phase]
  /\ fault' = [fault EXCEPT ![c] = @ \/ fails]

restVars == <<sessionVars, lost, closing, opVars, live, working, tx, exited, exitErr, frozen,
              waiter>>

\* The first call opens a MariaDB session in the slot.
Open(c) ==
  /\ at[c] = "attached"
  /\ Enter(c, "opening")
  /\ UNCHANGED <<fault, local, restVars>>

\* A session that does not open is an error, and there is nothing to close.
OpenFails(c) ==
  /\ Returned(c, "opening") /\ ~Good(c)
  /\ Goto(c, "ended", TRUE)
  /\ UNCHANGED <<callVars, job, local, restVars>>

\* Ask the session for its identity.
Identify(c) ==
  /\ Returned(c, "opening") /\ Good(c)
  /\ Enter(c, "identifying")
  /\ UNCHANGED <<fault, local, restVars>>

\* A session without the prepared statements the guest has announced.
OpenInvalid(c) ==
  /\ Returned(c, "opening") \/ Returned(c, "reopening")
  /\ Good(c)
  /\ Goto(c, "leaving", TRUE)
  /\ UNCHANGED <<callVars, job, local, restVars>>

\* Greet the client, unless the identity failed or is invalid.
Greet(c) ==
  /\ Returned(c, "identifying")
  /\ \/ Good(c) /\ Goto(c, "greeting", FALSE)
     \/ Goto(c, "leaving", TRUE)
  /\ UNCHANGED <<callVars, job, local, restVars>>

\* The handshake has been read, which may be before a disconnect.
Admitted(c) == at[c] = "greeting" \/ (Returned(c, "reopening") /\ Good(c))

\* No valid handshake response before the read deadline: no error.
HandshakeFails(c) ==
  /\ Admitted(c)
  /\ Goto(c, "leaving", FALSE)
  /\ UNCHANGED <<callVars, job, local, restVars>>

\* CLIENT_FOUND_ROWS: the session is closed to be opened anew.
Reclose(c) ==
  /\ FoundRows
  /\ at[c] = "greeting"
  /\ Enter(c, "reclosing")
  /\ UNCHANGED <<fault, local, restVars>>

RecloseFails(c) ==
  /\ Returned(c, "reclosing") /\ ~Good(c)
  /\ Goto(c, "leaving", TRUE)
  /\ UNCHANGED <<callVars, job, local, restVars>>

Reopen(c) ==
  /\ Returned(c, "reclosing") /\ Good(c)
  /\ Enter(c, "reopening")
  /\ UNCHANGED <<fault, local, restVars>>

\* opened is FALSE: there is nothing to close, and a SQL error is the client's.
ReopenFails(c) ==
  /\ Returned(c, "reopening") /\ ~Good(c)
  /\ Goto(c, "ended", Errored(c))
  /\ UNCHANGED <<callVars, job, local, restVars>>

\* The flags and the database of the handshake: a call for each, of which one
\* stands for both, or none.
Configure(c) ==
  /\ Admitted(c)
  /\ Enter(c, "configuring")
  /\ UNCHANGED <<fault, local, restVars>>

\* A SQL error is the client's; any other, and an invalid reply, Serve's.
ConfigureFails(c) ==
  /\ Returned(c, "configuring")
  /\ \/ outcome[c] = "answer" /\ ~Good(c) /\ Goto(c, "leaving", FALSE)
     \/ Goto(c, "leaving", TRUE)
  /\ UNCHANGED <<callVars, job, local, restVars>>

Welcome(c) ==
  /\ Admitted(c) \/ (Returned(c, "configuring") /\ Good(c))
  /\ Goto(c, "sending", FALSE)
  /\ UNCHANGED <<callVars, job, local, restVars>>

\* The reply is sent, which may be before a disconnect: Idle, under the lock.
Sent(c) ==
  /\ at[c] = "sending"
  /\ Goto(c, "idle", FALSE)
  /\ busy' = [busy EXCEPT ![c] = FALSE]
  /\ status' = [status EXCEPT ![c] = local[c]]
  /\ UNCHANGED <<callVars, job, local, clients, slot, used, lost, closing, opVars, live, working,
                 tx, exited, exitErr, frozen, waiter>>

\* A write that fails ends the session without an error.
SendFails(c) ==
  /\ at[c] = "sending"
  /\ Goto(c, "leaving", FALSE)
  /\ UNCHANGED <<callVars, job, local, restVars>>

\* A closed connection ends a read that waits for a command.
IdleEnds(c) ==
  /\ at[c] = "idle" /\ c \in lost
  /\ Goto(c, "leaving", FALSE)
  /\ UNCHANGED <<callVars, job, local, restVars>>

\* The first byte of a command, which may have been read ahead of a disconnect:
\* Begin, under the lock.
BeginCommand(c) ==
  /\ at[c] = "idle"
  /\ IF closing
       THEN Goto(c, "leaving", FALSE) /\ UNCHANGED busy
       ELSE Goto(c, "reading", FALSE) /\ busy' = [busy EXCEPT ![c] = TRUE]
  /\ UNCHANGED <<callVars, job, local, clients, slot, status, used, lost, closing, opVars, live,
                 working, tx, exited, exitErr, frozen, waiter>>

\* The command is invalid, incomplete at the deadline, or QUIT, or the server
\* is closing by now.
ReadEnds(c) ==
  /\ at[c] = "reading"
  /\ Goto(c, "leaving", FALSE)
  /\ UNCHANGED <<callVars, job, local, restVars>>

\* The instance has failed.
ReadUnusable(c) ==
  /\ at[c] = "reading" /\ Unusable /\ ~closing
  /\ Goto(c, "leaving", TRUE)
  /\ UNCHANGED <<callVars, job, local, restVars>>

\* Commands answered without the guest keep the status.
AnswerLocally(c) ==
  /\ at[c] = "reading" /\ ~Unusable /\ ~closing
  /\ Goto(c, "sending", FALSE)
  /\ UNCHANGED <<callVars, job, local, restVars>>

\* Any other command is a call; that closing or Unusable may change between
\* the look at them and the call makes no difference that their change after the
\* call does not make.
Command(c) ==
  /\ at[c] = "reading" /\ ~Unusable /\ ~closing
  /\ Enter(c, "commanding")
  /\ UNCHANGED <<fault, local, restVars>>

\* The monitor of a command sees the client disconnect or send too much: it
\* aborts the instance and waits for the call.
Disconnected(c) ==
  /\ at[c] = "commanding"
  /\ Abort
  /\ Goto(c, "cutoff", TRUE)
  /\ UNCHANGED <<job, local, restVars>>

CutoffReturns(c) ==
  /\ Returned(c, "cutoff")
  /\ Goto(c, "leaving", TRUE)
  /\ UNCHANGED <<callVars, job, local, restVars>>

\* Defect: the status of a reply that reports a SQL error is dropped.
AnsweredDroppingStatus(c) ==
  /\ Returned(c, "commanding") /\ outcome[c] = "answer"
  /\ local' = [local EXCEPT ![c] = Good(c) /\ slot[c] \in tx]
  /\ Goto(c, "sending", FALSE)
  /\ UNCHANGED <<callVars, job, restVars>>

\* A reply, of a SQL error too, carries the status of the session; the main
\* loop of the guest, which refuses requests, has no session and reports zero.
Answered(c) ==
  /\ Returned(c, "commanding") /\ outcome[c] = "answer"
  /\ local' = [local EXCEPT ![c] = job[c] # "refused" /\ slot[c] \in tx]
  /\ Goto(c, "sending", FALSE)
  /\ UNCHANGED <<callVars, job, restVars>>

\* An error of the call, or a reply that cannot be put into packets.
CommandFails(c) ==
  /\ Returned(c, "commanding")
  /\ Goto(c, "leaving", TRUE)
  /\ UNCHANGED <<callVars, job, local, restVars>>

\* Defect: a session whose client has left is not closed in the guest.
CleanupUnlessLost(c) ==
  /\ at[c] = "leaving"
  /\ busy' = [busy EXCEPT ![c] = TRUE]
  /\ IF c \in lost THEN Goto(c, "ended", FALSE) /\ UNCHANGED <<callVars, job>>
                   ELSE Enter(c, "closing") /\ UNCHANGED fault
  /\ UNCHANGED <<local, clients, slot, status, used, lost, closing, opVars, live, working, tx,
                 exited, exitErr, frozen, waiter>>

\* The deferred cleanup: busy, under the lock, and the call that closes the
\* session.
Cleanup(c) ==
  /\ at[c] = "leaving"
  /\ busy' = [busy EXCEPT ![c] = TRUE]
  /\ Enter(c, "closing")
  /\ UNCHANGED <<fault, local, clients, slot, status, used, lost, closing, opVars, live, working,
                 tx, exited, exitErr, frozen, waiter>>

Closed(c) ==
  /\ Returned(c, "closing")
  /\ Goto(c, "ended", ~Good(c))
  /\ job' = [job EXCEPT ![c] = "none"]
  /\ UNCHANGED <<callVars, local, restVars>>

Handshake(c) ==
  \/ Open(c) \/ OpenFails(c) \/ OpenInvalid(c) \/ Identify(c) \/ Greet(c) \/ HandshakeFails(c)
  \/ Reclose(c) \/ RecloseFails(c) \/ Reopen(c) \/ ReopenFails(c)
  \/ Configure(c) \/ ConfigureFails(c) \/ Welcome(c)

Commands(c) ==
  \/ BeginCommand(c) \/ ReadEnds(c) \/ ReadUnusable(c) \/ AnswerLocally(c) \/ Command(c)
  \/ Disconnected(c) \/ CutoffReturns(c) \/ Answered(c) \/ CommandFails(c)
  \/ Sent(c) \/ SendFails(c) \/ IdleEnds(c)

Ending(c) == Cleanup(c) \/ Closed(c) \/ SessionEnds(c) \/ Release(c) \/ WorkerDone(c)

-----------------------------------------------------------------------------
(* The operation that ends the database                                    *)

\* Defect: the connections are left to their clients.
CutNone == UNCHANGED lost

\* Close every connection of the server.
CutConnections == lost' = lost \cup clients

\* stopAccepting: one step of the lock with the decision to end.
StopAccepting ==
  /\ closing' = TRUE
  /\ CutConnections
  /\ Notify
  /\ op' = "joining"

\* Defect: Close returns the failure of an instance instead of ending it.
CloseUnlessFailed ==
  /\ op = "none" /\ ~failed
  /\ StopAccepting
  /\ kind' = "close"
  /\ UNCHANGED <<callVars, serveVars, sessionVars, joined, opErr, captured, transfer, guestVars>>

\* Database.Close, or Database.watch once the guest has exited.
CloseBegins ==
  /\ op = "none"
  /\ StopAccepting
  /\ kind' = "close"
  /\ UNCHANGED <<callVars, serveVars, sessionVars, joined, opErr, captured, transfer, guestVars>>

\* SnapshotHeap, with its precondition: no session busy and, unless it may roll
\* back, none in a transaction.
CaptureBegins(rollback) ==
  /\ op = "none"
  /\ \A c \in clients : ~busy[c] /\ (status[c] => rollback)
  /\ StopAccepting
  /\ kind' = IF rollback THEN "rollback" ELSE "capture"
  /\ UNCHANGED <<callVars, serveVars, sessionVars, joined, opErr, captured, transfer, guestVars>>

\* joinWorkers: the WaitGroup of the workers is at zero.
WorkersJoined ==
  /\ closing /\ ~joined
  /\ \A c \in Conn : at[c] \in {"new", "rejected", "gone"}
  /\ joined' = TRUE
  /\ UNCHANGED <<callVars, serveVars, sessionVars, lost, closing, op, kind, opErr, captured,
                 transfer, guestVars, waiter>>

\* Shutdown marks the guest as stopping.
Shutdown ==
  /\ op = "joining" /\ joined
  /\ Guest!Stopping
  /\ op' = "stopping"
  /\ UNCHANGED <<serveVars, sessionVars, lost, closing, joined, kind, opErr, captured, transfer,
                 guestVars, waiter>>

\* The context of the operation ends, while it joins or while it shuts down.
Expires ==
  /\ op \in {"joining", "stopping"}
  /\ Abort
  /\ opErr' = TRUE
  /\ op' = "cutting"
  /\ UNCHANGED <<serveVars, sessionVars, lost, closing, joined, kind, captured, transfer,
                 guestVars, waiter>>

\* The guest has ended; an instance that had failed before is no error of
\* Shutdown.  An error aborts.
ShutdownReturns ==
  /\ op = "stopping" /\ exited
  /\ op' = "cutting"
  /\ \/ UNCHANGED <<callVars, opErr>>
     \/ exitErr /\ Abort /\ opErr' = TRUE
  /\ UNCHANGED <<serveVars, sessionVars, lost, closing, joined, kind, captured, transfer,
                 guestVars, waiter>>

\* The connections that are left are closed, under the lock.
Cut ==
  /\ op = "cutting"
  /\ CutConnections
  /\ op' = "draining"
  /\ UNCHANGED <<callVars, serveVars, sessionVars, closing, joined, kind, opErr, captured,
                 transfer, guestVars, waiter>>

\* finish returns when the guest and the workers have ended, or after a grace
\* period for each, with an error.
Finish ==
  /\ op = "draining"
  /\ opErr' \in {opErr, TRUE}
  /\ opErr' \/ (exited /\ joined)
  /\ op' = "finished"
  /\ UNCHANGED <<callVars, serveVars, sessionVars, lost, closing, joined, kind, captured,
                 transfer, guestVars, waiter>>

\* TakeRoot of a capture; a close has nothing to take, and an error discards.
TakeRoot ==
  /\ op = "finished"
  /\ captured' = (kind \in Captures /\ ~opErr /\ frozen)
  /\ opErr' = (opErr \/ (kind \in Captures /\ ~frozen))
  /\ op' = "disposing"
  /\ UNCHANGED <<callVars, serveVars, sessionVars, lost, closing, joined, kind, transfer,
                 guestVars, waiter>>

\* disposeAfter: remove the transfer directory if its users have ended and the
\* file system lets it, or retain what is left to do.
Dispose ==
  /\ op = "disposing"
  /\ transfer' \in {"removed", "retained"}
  /\ transfer' = "removed" => exited /\ joined
  /\ op' = "done"
  /\ UNCHANGED <<callVars, serveVars, sessionVars, lost, closing, joined, kind, opErr, captured,
                 guestVars, waiter>>

\* Owner.Continue, or an explicit retry.
DisposeLater ==
  /\ transfer = "retained" /\ exited /\ joined
  /\ transfer' = "removed"
  /\ UNCHANGED <<callVars, serveVars, sessionVars, lost, closing, joined, op, kind, opErr,
                 captured, guestVars, waiter>>

-----------------------------------------------------------------------------
(* WaitDisconnected                                                        *)

\* One look under Database.mu, which an ending operation holds: the count and
\* the channel of its next change are taken under one lock.
WaiterLooks ==
  /\ Waits
  /\ waiter \in {"idle", "woken"}
  /\ op \in {"none", "done"}
  /\ waiter' = IF Unusable \/ op = "done" \/ clients = {} THEN "returned" ELSE "parked"
  /\ UNCHANGED <<callVars, serveVars, sessionVars, lost, closing, opVars, guestVars>>

\* The failure and the exit of the guest wake it as well.
WaiterWakes ==
  /\ waiter = "parked"
  /\ Unusable
  /\ waiter' = "woken"
  /\ UNCHANGED <<callVars, serveVars, sessionVars, lost, closing, opVars, guestVars>>

-----------------------------------------------------------------------------
GuestStep(c) == GuestAccepts(c) \/ GuestWorks(c) \/ Reply(c)

Operation ==
  \/ CloseBegins
  \/ \E rollback \in BOOLEAN : CaptureBegins(rollback)
  \/ Shutdown \/ Expires \/ ShutdownReturns \/ Cut \/ Finish \/ TakeRoot \/ Dispose
  \/ WorkersJoined \/ DisposeLater

Next ==
  \/ \E c \in Conn :
       \/ Attach(c) \/ AttachRejected(c) \/ ClientLeaves(c)
       \/ Handshake(c) \/ Commands(c) \/ Ending(c)
       \/ GuestStep(c) \/ CallFails(c)
  \/ GuestFails \/ GuestExits
  \/ Operation
  \/ WaiterLooks \/ WaiterWakes

Spec == Init /\ [][Next]_vars

\* What a worker does without its client.
WorkerStep(c) ==
  \/ Handshake(c) \/ Ending(c) \/ IdleEnds(c)
  \/ ReadEnds(c) \/ AnswerLocally(c) \/ Command(c)
  \/ CutoffReturns(c) \/ CommandFails(c) \/ Answered(c)
  \/ Sent(c) \/ SendFails(c)

\* Workers and the ending operation run; every call, read, write and wait of
\* theirs has a deadline except the read of an idle connection, which ends when
\* the connection is closed.  The guest, the clients and callers owe nothing.
FairSpec ==
  /\ Spec
  /\ \A c \in Conn : WF_vars(WorkerStep(c)) /\ WF_vars(CallFails(c))
  /\ WF_vars(WorkersJoined)
  /\ WF_vars(Shutdown \/ Expires \/ ShutdownReturns \/ Cut \/ Finish \/ TakeRoot \/ Dispose)
  /\ WF_vars(exited /\ CloseBegins)
  /\ WF_vars(WaiterLooks) /\ WF_vars(WaiterWakes)

-----------------------------------------------------------------------------
(* Properties                                                              *)

Phase == {"new", "rejected", "attached", "opening", "identifying", "greeting", "reclosing",
          "reopening", "configuring", "sending", "idle", "reading", "commanding", "cutoff",
          "leaving", "closing", "ended", "releasing", "released", "gone"}

\* Every variable has its type, the entries of clients are the connections
\* with a slot, and no two of them share one (attach, the deferred release).
TypeOK ==
  /\ running \subseteq Conn /\ outcome \in [Conn -> {"none", "answer", "error"}]
  /\ failed \in BOOLEAN /\ stopping \in BOOLEAN
  /\ at \in [Conn -> Phase] /\ fault \in [Conn -> BOOLEAN] /\ local \in [Conn -> BOOLEAN]
  /\ clients \subseteq Conn /\ lost \subseteq Conn
  /\ slot \in [Conn -> 0..Slots] /\ busy \in [Conn -> BOOLEAN] /\ status \in [Conn -> BOOLEAN]
  /\ used = {slot[c] : c \in clients} /\ used \subseteq Slot
  /\ \A c, d \in clients : slot[c] = slot[d] => c = d
  /\ closing \in BOOLEAN /\ joined \in BOOLEAN
  /\ op \in {"none", "joining", "stopping", "cutting", "draining", "finished", "disposing",
             "done"}
  /\ kind \in {"none", "close"} \cup Captures
  /\ opErr \in BOOLEAN /\ captured \in BOOLEAN
  /\ transfer \in {"kept", "retained", "removed"}
  /\ live \subseteq Slot /\ working \subseteq live /\ tx \subseteq Slot
  /\ job \in [Conn -> {"none", "work", "good", "bad", "refused"}]
  /\ exited \in BOOLEAN /\ exitErr \in BOOLEAN /\ frozen \in BOOLEAN
  /\ waiter \in {"idle", "parked", "woken", "returned"}

\* As long as the instance works, a slot that attach may hand out has no session
\* and no request at work in the guest: whatever way a session ended, it was
\* closed there before its slot was free ("Serve acknowledges guest close; abort
\* precedes releasing a failed slot", server.go).
FreeSlotIsClean == ~Unusable => (live \cup working) \cap (Slot \ used) = {}

\* The guest refuses a request as "session exists, closed, or busy"
\* (resident.inc) only of a session whose error is set already and will abort
\* the instance: otherwise the host's idea of a slot is never ahead of the
\* guest's.
NoRefusal == \A c \in Conn : job[c] = "refused" => failed \/ fault[c]

\* From the admission of a capture on, no session is opened, configured or
\* given a command: the sessions that are left only end; and none of them was
\* in a transaction unless the capture may roll it back (snapshotPrecondition,
\* Begin and Idle share the lock, but what Serve told Idle of the status is
\* all the server knows of the guest).  It is returned only of a guest that
\* ended cleanly after the request, with no worker left.
CaptureIsQuiescent ==
  /\ kind \in Captures =>
       \A c \in clients : at[c] \in {"idle", "leaving", "closing", "ended", "releasing"}
  /\ kind = "capture" => \A c \in clients : slot[c] \notin tx
  /\ captured => frozen /\ exited /\ ~exitErr /\ joined /\ clients = {}

\* The transfer directory outlives the guest and every worker; a worker that
\* starts after the join would be missed by the WaitGroup (joinWorkers).
TransferOutlivesUsers ==
  /\ joined => \A c \in Conn : at[c] \in {"new", "rejected", "gone"}
  /\ transfer = "removed" => exited /\ joined

\* The calls of the workers are calls of the guest as GuestProcess implements
\* them.
GuestContract == Guest!Spec

\* Once the server is closing every worker ends, whatever the guest and the
\* clients do.
CloseDrains == closing ~> joined

\* The end of the guest is the end of the database: Database.watch closes it,
\* and Close returns.
ExitCloses == exited ~> op = "done"

\* When no connection is left for good, WaitDisconnected returns.
WaiterReturns == <>[](clients = {}) => []<>(waiter \notin {"parked", "woken"})
=============================================================================
