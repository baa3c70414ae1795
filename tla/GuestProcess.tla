---------------------------- MODULE GuestProcess ----------------------------
(***************************************************************************)
(* guest.Process (internal/guest/guest.go, linked.go): concurrent calls    *)
(* over one pair of pipes to the guest.  Callers register a response       *)
(* channel, take turns to write, and wait; one reader hands responses out; *)
(* fail() answers everybody who is registered; Abort fails once and closes *)
(* the pipes; stop() says goodbye; a watcher joins the guest and the       *)
(* reader and closes done.                                                 *)
(*                                                                         *)
(* A call is the name of its request ID: IDs are not reused below 2^32     *)
(* calls.  ID 0 (Hello) is the guest's ready message and, later, its       *)
(* acknowledgement of an export.  The guest (guest/resident.inc) reads     *)
(* requests in order and may answer them in any order.                     *)
(***************************************************************************)
EXTENDS Sequences, FiniteSets, Naturals

CONSTANTS
  Call,     \* calls of Process.Call
  Stop,     \* calls of Shutdown and Export
  Export,   \* those of Stop that are Export
  Hello,    \* request ID 0
  NoOne

\* host.Server lets at most one Export through (Server.closing).
ASSUME GuestAssumption ==
  /\ Call \cap Stop = {} /\ Hello \notin Call \cup Stop /\ NoOne \notin Call \cup Stop
  /\ Export \subseteq Stop /\ \A s, t \in Export : s = t

VARIABLES
  start,      \* connectWithFailure: "connecting", "aborting", "ready" or "failed"
  at,         \* where each call is
  stopAt,     \* where each stop is
  pending,    \* keys of Process.pending
  box,        \* each response channel, of capacity 1
  failure,    \* Process.failure is not nil
  stopping,   \* Process.stopping
  aborted,    \* abort.Do has run: both pipes are closed
  inClosed,   \* Process.in is closed
  gate,       \* who holds Process.writes
  writers,    \* the goroutines inside writeAll, by whom they write for
  frames,     \* request frames in the pipe to the guest
  working,    \* requests the guest has read and not answered
  replies,    \* response frames in the pipe from the guest
  holding,    \* the response the reader has taken out of pending
  readDone,   \* the reader has returned
  guest,      \* "booting", "running", "ending", "trapped" or "exited"
  exitErr,    \* Process.exitErr is not nil
  watcher     \* the goroutine that joins the guest

clientVars == <<start, at, stopAt>>
failVars == <<failure, pending, box>>
writeVars == <<gate, writers, frames>>
guestVars == <<working, replies, guest, exitErr>>
readerVars == <<holding, readDone>>
vars == <<clientVars, failVars, stopping, aborted, inClosed, writeVars, guestVars,
          readerVars, watcher>>

Id == Call \cup {Hello}
Holder == Call \cup Stop

Init ==
  /\ start = "connecting"
  /\ at = [c \in Call |-> "new"]
  /\ stopAt = [s \in Stop |-> "idle"]
  /\ pending = {Hello}
  /\ box = [i \in Id |-> "empty"]
  /\ failure = FALSE /\ stopping = FALSE /\ aborted = FALSE /\ inClosed = FALSE
  /\ gate = NoOne /\ writers = {} /\ frames = <<>>
  /\ working = {} /\ replies = {} /\ holding = {} /\ readDone = FALSE
  /\ guest = "booting" /\ exitErr = FALSE
  /\ watcher = "waiting"

\* Defect: the reader is joined before the guest's ends are closed.
PeerClosedLate == watcher \in {"closed", "over"}

\* closePeer has run: the guest's ends of the pipes are closed.
PeerClosed == watcher \in {"joining", "closed", "over"}
\* Process.done is closed.
Done == watcher \in {"closed", "over"}

\* A send to a response channel; the second one would block its sender.
Put(i, message) == IF box[i] = "empty" THEN message ELSE "overfull"

-----------------------------------------------------------------------------
(* Failing                                                                 *)

\* Defect: fail answers the registered calls but keeps them registered.
FailKeepingPending ==
  /\ failure' = TRUE
  /\ box' = [i \in Id |-> IF i \in pending THEN Put(i, "error") ELSE box[i]]
  /\ UNCHANGED pending

\* Defect: fail forgets the registered calls without an answer.
FailSilently ==
  /\ failure' = TRUE
  /\ pending' = {}
  /\ UNCHANGED box

\* fail: the first cause stays; everyone registered is answered with it.
Fail ==
  /\ failure' = TRUE
  /\ box' = [i \in Id |-> IF i \in pending THEN Put(i, "error") ELSE box[i]]
  /\ pending' = {}

\* Abort, once.
Abort ==
  IF aborted THEN UNCHANGED <<failVars, aborted, inClosed>>
             ELSE Fail /\ aborted' = TRUE /\ inClosed' = TRUE

-----------------------------------------------------------------------------
(* The guest                                                               *)

\* main: MariaDB is up.  (A message into a closed pipe ends the guest.)
GuestReady ==
  /\ guest = "booting" /\ ~aborted
  /\ guest' = "running"
  /\ replies' = replies \cup {Hello}
  /\ UNCHANGED <<clientVars, failVars, stopping, aborted, inClosed, writeVars, working,
                 exitErr, readerVars, watcher>>

\* The main loop takes the next request, or leaves at a stop frame.
GuestReads ==
  /\ guest = "running" /\ frames # <<>>
  /\ frames' = Tail(frames)
  /\ IF Head(frames) \in Call
       THEN working' = working \cup {Head(frames)} /\ UNCHANGED guest
       ELSE guest' = "ending" /\ UNCHANGED working
  /\ UNCHANGED <<clientVars, failVars, stopping, aborted, inClosed, gate, writers, replies,
                 exitErr, readerVars, watcher>>

\* Or leaves because its input has ended.
GuestInputEnds ==
  /\ guest = "running" /\ frames = <<>> /\ inClosed
  /\ guest' = "ending"
  /\ UNCHANGED <<clientVars, failVars, stopping, aborted, inClosed, writeVars, working,
                 replies, exitErr, readerVars, watcher>>

\* A worker answers.
GuestReplies(c) ==
  /\ guest \in {"running", "ending", "trapped"} /\ ~aborted /\ c \in working
  /\ working' = working \ {c}
  /\ replies' = replies \cup {c}
  /\ UNCHANGED <<clientVars, failVars, stopping, aborted, inClosed, writeVars, guest, exitErr,
                 readerVars, watcher>>

\* A worker trap is reported on the failed channel before the workers are joined.
GuestTraps ==
  /\ guest \in {"running", "ending"}
  /\ guest' = "trapped"
  /\ UNCHANGED <<clientVars, failVars, stopping, aborted, inClosed, writeVars, working,
                 replies, exitErr, readerVars, watcher>>

\* The guest ends: with an error at any time, or cleanly from its loop.
\* Workers told to stop drop their request.  A clean end of an export is
\* acknowledged.
GuestExits ==
  /\ guest # "exited"
  /\ exitErr' \in IF guest = "ending" THEN BOOLEAN ELSE {TRUE}
  /\ guest' = "exited"
  /\ working' = {}
  /\ replies' = IF ~exitErr' /\ ~aborted /\ \E s \in Export : stopAt[s] \in {"sent", "ack"}
                  THEN replies \cup {Hello} ELSE replies
  /\ UNCHANGED <<clientVars, failVars, stopping, aborted, inClosed, writeVars, readerVars, watcher>>

-----------------------------------------------------------------------------
(* The reader                                                              *)

\* read: a response is taken out of pending under the lock; nobody waiting
\* for it means that the transport is broken.
Read(i) ==
  /\ ~readDone /\ holding = {} /\ ~aborted
  /\ i \in replies
  /\ replies' = replies \ {i}
  /\ IF i \in pending
       THEN /\ holding' = {i}
            /\ pending' = pending \ {i}
            /\ UNCHANGED <<failure, box, aborted, inClosed, readDone>>
       ELSE /\ Abort
            /\ readDone' = TRUE
            /\ UNCHANGED holding
  /\ UNCHANGED <<clientVars, stopping, writeVars, working, guest, exitErr, watcher>>

\* And sent to its channel without the lock.
Deliver(i) ==
  /\ i \in holding
  /\ box' = [box EXCEPT ![i] = Put(i, "answer")]
  /\ holding' = {}
  /\ UNCHANGED <<clientVars, failure, pending, stopping, aborted, inClosed, writeVars,
                 guestVars, readDone, watcher>>

\* An invalid frame length, JSON document or request ID.
ReadInvalid ==
  /\ ~readDone /\ holding = {} /\ ~aborted /\ guest # "exited"
  /\ Abort
  /\ readDone' = TRUE
  /\ UNCHANGED <<clientVars, stopping, writeVars, guestVars, holding, watcher>>

\* readFailed: the pipe was closed on this side, or the guest has gone.
ReadFails ==
  /\ ~readDone /\ holding = {}
  /\ aborted \/ (PeerClosed /\ replies = {})
  /\ IF stopping THEN Fail /\ UNCHANGED <<aborted, inClosed>> ELSE Abort
  /\ readDone' = TRUE
  /\ UNCHANGED <<clientVars, stopping, writeVars, guestVars, holding, watcher>>

-----------------------------------------------------------------------------
(* The watcher                                                             *)

\* An early fatal notification poisons the instance at once.
WatchTrap ==
  /\ watcher = "waiting" /\ guest = "trapped"
  /\ Abort
  /\ watcher' = "noticed"
  /\ UNCHANGED <<clientVars, stopping, writeVars, guestVars, readerVars>>

\* The guest has completed; its ends of the pipes are closed.
WatchExit ==
  /\ watcher \in {"waiting", "noticed"} /\ guest = "exited"
  /\ IF exitErr THEN Abort ELSE UNCHANGED <<failVars, aborted, inClosed>>
  /\ watcher' = "joining"
  /\ UNCHANGED <<clientVars, stopping, writeVars, guestVars, readerVars>>

\* The reader has returned: close(done) ...
WatchDone ==
  /\ watcher = "joining" /\ readDone
  /\ watcher' = "closed"
  /\ UNCHANGED <<clientVars, failVars, stopping, aborted, inClosed, writeVars, guestVars,
                 readerVars>>

\* ... and fail whoever registered in the meantime.
WatchOver ==
  /\ watcher = "closed"
  /\ Fail
  /\ watcher' = "over"
  /\ UNCHANGED <<clientVars, stopping, aborted, inClosed, writeVars, guestVars, readerVars>>

-----------------------------------------------------------------------------
(* Connecting                                                              *)

\* The ready message is valid.
Connected ==
  /\ start = "connecting" /\ box[Hello] = "answer"
  /\ box' = [box EXCEPT ![Hello] = "empty"]
  /\ start' = "ready"
  /\ UNCHANGED <<at, stopAt, failure, pending, stopping, aborted, inClosed, writeVars,
                 guestVars, readerVars, watcher>>

\* It is an error or not a version this host supports, or the caller's context
\* has ended: abortAndWait.
ConnectAborts ==
  /\ start = "connecting"
  /\ Abort
  /\ start' = "aborting"
  /\ UNCHANGED <<at, stopAt, stopping, writeVars, guestVars, readerVars, watcher>>

\* abortAndWait returns when the guest has ended, or leaves it to an owner
\* after a grace period.
ConnectFails ==
  /\ start = "aborting"
  /\ start' = "failed"
  /\ UNCHANGED <<at, stopAt, failVars, stopping, aborted, inClosed, writeVars, guestVars,
                 readerVars, watcher>>

-----------------------------------------------------------------------------
(* Calling                                                                 *)

\* Call registers its channel under the lock, or is refused.  (That a request
\* over the payload limit is refused too is left out: no caller makes one, for
\* Serve bounds statements and the encoders bound envelopes by the same limits.)
Begin(c) ==
  /\ start = "ready" /\ at[c] = "new"
  /\ IF failure \/ stopping
       THEN at' = [at EXCEPT ![c] = "failed"] /\ UNCHANGED pending
       ELSE at' = [at EXCEPT ![c] = "gate"] /\ pending' = pending \cup {c}
  /\ UNCHANGED <<start, stopAt, failure, box, stopping, aborted, inClosed, writeVars, guestVars,
                 readerVars, watcher>>

Phase(h) == IF h \in Call THEN at[h] ELSE stopAt[h]
Becomes(h, phase) ==
  IF h \in Call THEN at' = [at EXCEPT ![h] = phase] /\ UNCHANGED stopAt
                ELSE stopAt' = [stopAt EXCEPT ![h] = phase] /\ UNCHANGED at

\* What an error of write means: Call and Export return it, Shutdown waits for
\* the guest that must have failed.
WriteError(h) == IF h \in Call THEN "failed" ELSE IF h \in Export THEN "error" ELSE "joining"

\* write: one frame at a time; a goroutine writes it.
TakeGate(h) ==
  /\ Phase(h) = "gate" /\ gate = NoOne
  /\ gate' = h
  /\ writers' = writers \cup {h}
  /\ Becomes(h, "writing")
  /\ UNCHANGED <<start, failVars, stopping, aborted, inClosed, frames, guestVars, readerVars,
                 watcher>>

\* The frame is in the pipe.
Written(h) ==
  /\ h \in writers /\ ~inClosed /\ ~PeerClosed
  /\ frames' = Append(frames, h)
  /\ writers' = writers \ {h}
  /\ gate' = NoOne
  /\ Becomes(h, IF h \in Call THEN "waiting" ELSE "sent")
  /\ UNCHANGED <<start, failVars, stopping, aborted, inClosed, guestVars, readerVars, watcher>>

\* The pipe is closed.  Whoever gave up waiting for the write is not told.
WriteFails(h) ==
  /\ h \in writers
  /\ inClosed \/ PeerClosed
  /\ writers' = writers \ {h}
  /\ IF Phase(h) = "writing"
       THEN Abort /\ gate' = NoOne /\ Becomes(h, WriteError(h))
       ELSE UNCHANGED <<failVars, aborted, inClosed, gate, at, stopAt>>
  /\ UNCHANGED <<start, stopping, frames, guestVars, readerVars, watcher>>

\* Defect: a write that is given up frees the gate without aborting.
WriteExpiresQuietly(h) ==
  /\ Phase(h) \in {"gate", "writing"}
  /\ gate' = IF gate = h THEN NoOne ELSE gate
  /\ Becomes(h, WriteError(h))
  /\ UNCHANGED <<start, failVars, aborted, inClosed, stopping, writers, frames, guestVars,
                 readerVars, watcher>>

\* The context ends before or during the write: the instance is aborted before
\* the gate is free again.
WriteExpires(h) ==
  /\ Phase(h) \in {"gate", "writing"}
  /\ Abort
  /\ gate' = IF gate = h THEN NoOne ELSE gate
  /\ Becomes(h, WriteError(h))
  /\ UNCHANGED <<start, stopping, writers, frames, guestVars, readerVars, watcher>>

\* The response has arrived.
Receive(c) ==
  /\ at[c] = "waiting" /\ box[c] # "empty"
  /\ at' = [at EXCEPT ![c] = IF box[c] = "answer" THEN "answered" ELSE "failed"]
  /\ box' = [box EXCEPT ![c] = "empty"]
  /\ UNCHANGED <<start, stopAt, failure, pending, stopping, aborted, inClosed, writeVars,
                 guestVars, readerVars, watcher>>

\* The context ends first.
CallExpires(c) ==
  /\ at[c] = "waiting"
  /\ Abort
  /\ at' = [at EXCEPT ![c] = "failed"]
  /\ UNCHANGED <<start, stopAt, stopping, writeVars, guestVars, readerVars, watcher>>

-----------------------------------------------------------------------------
(* Stopping                                                                *)

\* stop: no further calls; an Export registers for the acknowledgement.  The
\* owner of the server stops it once at a time (Database.mu).
StopBegins(s) ==
  /\ start = "ready" /\ stopAt[s] = "idle"
  /\ \A t \in Stop : stopAt[t] \in {"idle", "ok", "error"}
  /\ stopping' = TRUE
  /\ IF s \in Export
       THEN pending' = pending \cup {Hello} /\ box' = [box EXCEPT ![Hello] = "empty"]
       ELSE UNCHANGED <<pending, box>>
  /\ stopAt' = [stopAt EXCEPT ![s] = IF failure /\ s \notin Export THEN "joining" ELSE "check"]
  /\ UNCHANGED <<start, at, failure, aborted, inClosed, writeVars, guestVars, readerVars,
                 watcher>>

\* Has the guest already gone?
StopChecks(s) ==
  /\ stopAt[s] = "check"
  /\ stopAt' = [stopAt EXCEPT ![s] =
                  IF ~Done THEN "gate" ELSE IF s \in Export THEN "error" ELSE "ok"]
  /\ UNCHANGED <<start, at, failVars, stopping, aborted, inClosed, writeVars, guestVars,
                 readerVars, watcher>>

\* The stop frame is written; nothing more will be.
StopSent(s) ==
  /\ stopAt[s] = "sent"
  /\ inClosed' = TRUE
  /\ stopAt' = [stopAt EXCEPT ![s] = IF s \in Export THEN "ack" ELSE "exit"]
  /\ UNCHANGED <<start, at, failVars, stopping, aborted, writeVars, guestVars, readerVars,
                 watcher>>

\* The acknowledgement of an export.
StopAcknowledged(s) ==
  /\ stopAt[s] = "ack" /\ box[Hello] = "answer"
  /\ box' = [box EXCEPT ![Hello] = "empty"]
  /\ stopAt' = [stopAt EXCEPT ![s] = "exit"]
  /\ UNCHANGED <<start, at, failure, pending, stopping, aborted, inClosed, writeVars, guestVars,
                 readerVars, watcher>>

\* An error instead, or an invalid acknowledgement: AbortAndWait.
StopRejected(s) ==
  /\ stopAt[s] = "ack" /\ box[Hello] # "empty"
  /\ Abort
  /\ stopAt' = [stopAt EXCEPT ![s] = "aborting"]
  /\ UNCHANGED <<start, at, stopping, writeVars, guestVars, readerVars, watcher>>

\* The guest has ended and been joined.  A Shutdown that found it failed does
\* not report its exit error; its owner does.
StopJoins(s) ==
  /\ stopAt[s] \in {"joining", "exit"}
  /\ Done
  /\ stopAt' = [stopAt EXCEPT ![s] = IF stopAt[s] = "exit" /\ exitErr THEN "error" ELSE "ok"]
  /\ UNCHANGED <<start, at, failVars, stopping, aborted, inClosed, writeVars, guestVars,
                 readerVars, watcher>>

\* The context ends.
StopExpires(s) ==
  /\ stopAt[s] \in {"joining", "ack", "exit"}
  /\ IF stopAt[s] = "joining" THEN UNCHANGED <<failVars, aborted, inClosed>> ELSE Abort
  /\ stopAt' = [stopAt EXCEPT ![s] = IF stopAt[s] = "ack" THEN "aborting" ELSE "error"]
  /\ UNCHANGED <<start, at, stopping, writeVars, guestVars, readerVars, watcher>>

\* AbortAndWait returns, with the guest ended or retained by an owner.
StopAborted(s) ==
  /\ stopAt[s] = "aborting"
  /\ stopAt' = [stopAt EXCEPT ![s] = "error"]
  /\ UNCHANGED <<start, at, failVars, stopping, aborted, inClosed, writeVars, guestVars,
                 readerVars, watcher>>

-----------------------------------------------------------------------------
GuestStep ==
  GuestReady \/ GuestReads \/ GuestInputEnds \/ GuestTraps \/ GuestExits
  \/ \E c \in Call : GuestReplies(c)
ReaderStep == ReadInvalid \/ ReadFails \/ \E i \in Id : Read(i) \/ Deliver(i)
WatcherStep == WatchTrap \/ WatchExit \/ WatchDone \/ WatchOver
StartStep == Connected \/ ConnectAborts \/ ConnectFails
WriteStep ==
  \E h \in Holder : TakeGate(h) \/ Written(h) \/ WriteFails(h) \/ WriteExpires(h)
CallStep == \E c \in Call : Begin(c) \/ Receive(c) \/ CallExpires(c)
StopStep ==
  \E s \in Stop : StopBegins(s) \/ StopChecks(s) \/ StopSent(s) \/ StopAcknowledged(s)
                  \/ StopRejected(s) \/ StopJoins(s) \/ StopExpires(s) \/ StopAborted(s)

Next ==
  GuestStep \/ ReaderStep \/ WatcherStep \/ StartStep \/ WriteStep \/ CallStep \/ StopStep

Spec == Init /\ [][Next]_vars

\* Goroutines that can run are scheduled, and a write to a closed pipe returns.
\* Nothing is assumed of the guest, and no deadline is assumed to expire.
Fairness ==
  /\ WF_vars(ReadFails)
  /\ \A i \in Id : WF_vars(Read(i)) /\ WF_vars(Deliver(i))
  /\ WF_vars(WatcherStep)
  /\ \A h \in Holder : WF_vars(TakeGate(h)) /\ WF_vars(WriteFails(h))
  /\ \A c \in Call : WF_vars(Receive(c))
  /\ \A s \in Stop : WF_vars(StopChecks(s)) /\ WF_vars(StopSent(s)) /\ WF_vars(StopJoins(s))
                     /\ WF_vars(StopAcknowledged(s) \/ StopRejected(s))
                     /\ WF_vars(StopAborted(s))

FairSpec == Spec /\ Fairness

-----------------------------------------------------------------------------
(* Properties                                                              *)

CallPhases == {"new", "gate", "writing", "waiting", "answered", "failed"}
StopPhases == {"idle", "check", "gate", "writing", "sent", "ack", "exit", "joining",
               "aborting", "ok", "error"}

\* The types of the variables; abort.Do closes the pipe to the guest.
TypeOK ==
  /\ start \in {"connecting", "aborting", "ready", "failed"}
  /\ at \in [Call -> CallPhases]
  /\ stopAt \in [Stop -> StopPhases]
  /\ pending \subseteq Id
  /\ box \in [Id -> {"empty", "answer", "error", "overfull"}]
  /\ failure \in BOOLEAN /\ stopping \in BOOLEAN
  /\ aborted \in BOOLEAN /\ inClosed \in BOOLEAN /\ (aborted => failure /\ inClosed)
  /\ gate \in Holder \cup {NoOne} /\ writers \subseteq Holder
  /\ frames \in Seq(Holder)
  /\ working \subseteq Call /\ replies \subseteq Id /\ holding \subseteq Id
  /\ readDone \in BOOLEAN
  /\ guest \in {"booting", "running", "ending", "trapped", "exited"}
  /\ exitErr \in BOOLEAN
  /\ watcher \in {"waiting", "noticed", "joining", "closed", "over"}

\* A response channel of capacity one gets one message: neither fail, which
\* sends under the lock, nor the reader, which sends after it, can ever block.
OneResponse ==
  /\ \A i \in Id : box[i] # "overfull"
  /\ \A i \in holding : box[i] = "empty" /\ i \notin pending
  /\ \A i \in pending : box[i] = "empty"

\* Whoever waits for a response is registered, or is about to get it from the
\* reader, or has it already: no interleaving of responses, failures and the
\* exit of the guest leaves a call behind.
NoCallForgotten ==
  /\ \A c \in Call : at[c] = "waiting" => c \in pending \cup holding \/ box[c] # "empty"
  /\ \A s \in Export : stopAt[s] = "ack" => Hello \in pending \cup holding \/ box[Hello] # "empty"

\* A failed instance has no registered call, so that no later response can be
\* taken for the answer to one.
FailedHasNoCalls == failure => pending \cap Call = {}

\* As long as the guest can read, at most one goroutine writes to it: the
\* frame of a call that gave up is never followed by another one.
OneFrameAtATime == ~inClosed => writers = (IF gate = NoOne THEN {} ELSE {gate})

\* A stop that succeeds has joined the guest and the reader; a successful
\* export also saw the guest end without an error.
StopMeansExit ==
  /\ \A s \in Stop : stopAt[s] = "ok" => Done
  /\ \A s \in Export : stopAt[s] = "ok" => ~exitErr

GuestPromise == INSTANCE GuestCalls WITH
  Caller <- Call,
  running <- {c \in Call : at[c] \in {"gate", "writing", "waiting"}},
  outcome <- [c \in Call |-> IF at[c] = "answered" THEN "answer"
                             ELSE IF at[c] = "failed" THEN "error" ELSE "none"],
  failed <- failure

\* Every step is one that GuestCalls allows: in particular a Call that returns
\* an error leaves a failed or stopping instance behind.
Promise == GuestPromise!Spec

\* A failure reaches every call without waiting for a deadline.
FailureReachesCalls ==
  failure ~> \A c \in Call : at[c] \in {"new", "answered", "failed"}

\* Once the guest has ended it is joined, and every call and stop returns
\* without waiting for a deadline.
ExitIsJoined ==
  (guest = "exited") ~> /\ Done
                        /\ \A c \in Call : at[c] \in {"new", "answered", "failed"}
                        /\ \A s \in Stop : stopAt[s] \in {"idle", "ok", "error"}
=============================================================================
