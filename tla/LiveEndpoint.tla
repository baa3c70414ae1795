---------------------------- MODULE LiveEndpoint ----------------------------
(***************************************************************************)
(* The stable endpoint of a Live (internal/live/endpoint.go): client       *)
(* connections relayed to one child, Reset that drains them and replaces   *)
(* the child, and Close.  Reset and Close hold Endpoint.gate, so there is  *)
(* at most one of them (at); the acceptor and the relay workers run beside *)
(* it and share Endpoint.mu.                                               *)
(*                                                                         *)
(* A child is a forked database (or the cleanup-only child of a failed     *)
(* startup).  Its Close disposes it or leaves a debt that a later Close    *)
(* may settle; the parent's reservation is granted or refused.             *)
(***************************************************************************)
EXTENDS Integers, FiniteSets

CONSTANTS
  Child,     \* children that can ever be started: bounds the resets
  Conn,      \* client connections
  NoChild,
  ChildCapacity  \* Child.Capacity(): concurrent connections of a child

ASSUME EndpointAssumption == NoChild \notin Child /\ ChildCapacity \in Nat /\ ChildCapacity >= 1

VARIABLES
  state,       \* status.State
  generation,  \* status.Generation
  child,       \* Endpoint.child
  retired,     \* Endpoint.retired
  pending,     \* Endpoint.pending
  closeErr,    \* Endpoint.closeErr is not nil
  life,        \* what became of each child
  conn,        \* each connection: "out", "dialing" or "relaying"
  target,      \* the child whose address accept() captured for it
  at,          \* where the holder of the gate is; "free" if nobody holds it
  previous,    \* Reset's copy of the state it found
  candidate,   \* Reset's replacement child
  ctxDone,     \* Reset's context has ended
  parked       \* Reset waits on the current changed channel

vars == <<state, generation, child, retired, pending, closeErr, life, conn, target,
          at, previous, candidate, ctxDone, parked>>
resetVars == <<previous, candidate, ctxDone>>
relayVars == <<conn, target>>

States == {"ready", "draining", "switching", "failed", "closed"}
Clients == {c \in Conn : conn[c] # "out"}

\* New: the endpoint serves its first child, or (aborted) is a closed owner of
\* a first child whose cleanup failed.
Init ==
  /\ \E first \in Child :
       \/ /\ state = "ready" /\ child = first /\ pending = {} /\ closeErr = FALSE
          /\ life = [x \in Child |-> IF x = first THEN "serving" ELSE "unborn"]
       \/ /\ state = "closed" /\ child = NoChild /\ pending = {first} /\ closeErr = TRUE
          /\ life = [x \in Child |-> IF x = first THEN "debt" ELSE "unborn"]
  /\ generation = 0
  /\ retired = FALSE
  /\ conn = [c \in Conn |-> "out"]
  /\ target = [c \in Conn |-> NoChild]
  /\ at = "free"
  /\ previous = "ready"
  /\ candidate = NoChild
  /\ ctxDone = FALSE
  /\ parked = FALSE

\* signal: everyone parked on the changed channel looks again.
Signal == parked' = FALSE

-----------------------------------------------------------------------------
(* Relayed connections                                                     *)

\* Defect: a connection is admitted while Reset drains.
AcceptDraining(c) ==
  /\ conn[c] = "out"
  /\ state \in {"ready", "draining", "switching"}
  /\ Cardinality(Clients) < ChildCapacity
  /\ conn' = [conn EXCEPT ![c] = "dialing"]
  /\ target' = [target EXCEPT ![c] = child]
  /\ UNCHANGED <<state, generation, child, retired, pending, closeErr, life, at, resetVars, parked>>

\* accept admits a connection to the current child under mu; anything it
\* refuses it closes at once.
Accept(c) ==
  /\ conn[c] = "out"
  /\ state = "ready"
  /\ life[child] = "serving"
  /\ Cardinality(Clients) < ChildCapacity
  /\ conn' = [conn EXCEPT ![c] = "dialing"]
  /\ target' = [target EXCEPT ![c] = child]
  /\ UNCHANGED <<state, generation, child, retired, pending, closeErr, life, at, resetVars, parked>>

\* forward dials without mu, then looks whether the endpoint was closed.
Dialed(c) ==
  /\ conn[c] = "dialing"
  /\ state # "closed"
  /\ conn' = [conn EXCEPT ![c] = "relaying"]
  /\ UNCHANGED <<state, generation, child, retired, pending, closeErr, life, target,
                 at, resetVars, parked>>

\* A failed dial, either side closing, or Close cutting the connection.
Leaves(c) ==
  /\ conn[c] # "out"
  /\ conn' = [conn EXCEPT ![c] = "out"]
  /\ target' = [target EXCEPT ![c] = NoChild]
  /\ Signal
  /\ UNCHANGED <<state, generation, child, retired, pending, closeErr, life, at, resetVars>>

\* The guest of a child may die at any time.
ChildDies(x) ==
  /\ life[x] = "serving"
  /\ life' = [life EXCEPT ![x] = "dead"]
  /\ UNCHANGED <<state, generation, child, retired, pending, closeErr, relayVars, at,
                 resetVars, parked>>

-----------------------------------------------------------------------------
(* Closing children                                                        *)

\* Close every child of S; those of F fail and stay owned as debts.
CloseChildren(S, F) ==
  /\ F \subseteq {x \in S : life[x] # "disposed"}
  /\ life' = [x \in Child |-> IF x \in F THEN "debt" ELSE IF x \in S THEN "disposed" ELSE life[x]]

\* Defect: a child that could not be closed is not kept.
CleanupForgetting(S, F) == CloseChildren(S, F) /\ pending' = {}

\* cleanup(children): what cannot be closed joins pending.
Cleanup(S, F) == CloseChildren(S, F) /\ pending' = F

\* cleanup returned an error.
CleanupErr(F) == F # {}

\* failed(err, candidate): close the candidate, keep it pending if that fails.
Fail(x) ==
  /\ \E F \in SUBSET ({x} \ {NoChild}) :
       /\ CloseChildren({x} \ {NoChild}, F)
       /\ pending' = pending \cup F
  /\ state' = "failed"
  /\ at' = "free"
  /\ candidate' = NoChild
  /\ Signal
  /\ UNCHANGED <<generation, child, retired, closeErr, relayVars, previous, ctxDone>>

\* retire() closes the old child: done, refused while its sessions are still
\* open, or failed half way with the child closed but not disposed.
RetireSucceeds ==
  /\ life' = IF retired THEN life ELSE [life EXCEPT ![child] = "disposed"]
  /\ retired' = TRUE

-----------------------------------------------------------------------------
(* Reset                                                                   *)

\* Reset refuses a closed endpoint (and a closed parent) without any effect.
ResetBegins ==
  /\ at = "free"
  /\ state # "closed"
  /\ previous' = state
  /\ ctxDone' = FALSE
  /\ at' = IF state = "failed" THEN "recover" ELSE "reserve"
  /\ UNCHANGED <<state, generation, child, retired, pending, closeErr, life, relayVars,
                 candidate, parked>>

ContextEnds ==
  /\ at \notin {"free", "closing"}
  /\ ~ctxDone
  /\ ctxDone' = TRUE
  /\ UNCHANGED <<state, generation, child, retired, pending, closeErr, life, relayVars,
                 at, previous, candidate, parked>>

\* A failed endpoint first retries the cleanup it owns.
RecoverPending ==
  /\ at = "recover"
  /\ \E F \in SUBSET pending :
       /\ Cleanup(pending, F)
       /\ at' = IF CleanupErr(F) THEN "free" ELSE "recoverRetire"
  /\ UNCHANGED <<state, generation, child, retired, closeErr, relayVars, resetVars, parked>>

\* ... and retires the child that the failed replacement left behind.
RecoverRetire ==
  /\ at = "recoverRetire"
  /\ \/ RetireSucceeds /\ at' = "reserve"
     \/ ~retired /\ at' = "free" /\ UNCHANGED <<life, retired>>
     \/ ~retired /\ at' = "free" /\ life' = [life EXCEPT ![child] = "debt"] /\ UNCHANGED retired
  /\ UNCHANGED <<state, generation, child, pending, closeErr, relayVars, resetVars, parked>>

\* The parent grants a slot, or refuses and nothing has changed.
Reserve ==
  /\ at = "reserve"
  /\ \/ at' = "drain" /\ state' = "draining" /\ Signal
     \/ at' = "free" /\ UNCHANGED <<state, parked>>
  /\ UNCHANGED <<generation, child, retired, pending, closeErr, life, relayVars, resetVars>>


Drain ==
  /\ at = "drain"
  /\ \/ /\ Clients # {}
        /\ at' = "parked" /\ parked' = TRUE /\ UNCHANGED state
     \/ /\ Clients = {} /\ ctxDone
        /\ at' = "free" /\ state' = previous /\ UNCHANGED parked
     \/ /\ Clients = {} /\ ~ctxDone
        /\ at' = "switch" /\ state' = "switching" /\ UNCHANGED parked
  /\ UNCHANGED <<generation, child, retired, pending, closeErr, life, relayVars, resetVars>>

DrainWoken ==
  /\ at = "parked" /\ ~parked
  /\ at' = "drain"
  /\ UNCHANGED <<state, generation, child, retired, pending, closeErr, life, relayVars,
                 resetVars, parked>>

\* Defect: there is no drain timer, only the caller's context.
DrainExpiresWithContext ==
  /\ at = "parked" /\ ctxDone
  /\ at' = "free"
  /\ state' = previous
  /\ Signal
  /\ UNCHANGED <<generation, child, retired, pending, closeErr, life, relayVars, resetVars>>

\* The context ends or the drain timer fires: busy, nothing was replaced.
DrainExpires ==
  /\ at = "parked"
  /\ at' = "free"
  /\ state' = previous
  /\ Signal
  /\ UNCHANGED <<generation, child, retired, pending, closeErr, life, relayVars, resetVars>>

\* Whatever is still owned is cleaned up before the replacement is started.
SwitchPending ==
  /\ at = "switch"
  /\ \E F \in SUBSET pending :
       /\ Cleanup(pending, F)
       /\ at' = IF CleanupErr(F) THEN "free" ELSE "start"
       /\ state' = IF CleanupErr(F) THEN "failed" ELSE state
  /\ Signal
  /\ UNCHANGED <<generation, child, retired, closeErr, relayVars, resetVars>>

\* reservation.Start: a replacement; an error; an error with a cleanup-only
\* child; or a replacement that is refused for its capacity.
Start ==
  /\ at = "start"
  /\ \/ \E x \in {y \in Child : life[y] = "unborn"}, l \in {"serving", "debt"} :
          /\ life' = [life EXCEPT ![x] = l]
          /\ candidate' = x
          /\ at' \in {"startFailed"} \cup (IF l = "serving" THEN {"retire"} ELSE {})
     \/ /\ at' = "startFailed"
        /\ UNCHANGED <<life, candidate>>
  /\ UNCHANGED <<state, generation, child, retired, pending, closeErr, relayVars,
                 previous, ctxDone, parked>>

StartFailed ==
  /\ at = "startFailed"
  /\ Fail(candidate)


Retire ==
  /\ at = "retire"
  /\ \/ /\ RetireSucceeds
        /\ at' = "commit"
        /\ UNCHANGED <<state, generation, child, pending, closeErr, relayVars, resetVars, parked>>
     \/ /\ ~retired
        /\ \/ Fail(candidate)
           \/ /\ life' = [life EXCEPT ![child] = "debt"]
              /\ at' = "startFailed"
              /\ UNCHANGED <<state, generation, child, retired, pending, closeErr, relayVars,
                             resetVars, parked>>

Commit ==
  /\ at = "commit"
  /\ \/ ctxDone /\ Fail(candidate)
     \/ /\ ~ctxDone
        /\ child' = candidate
        /\ retired' = FALSE
        /\ state' = "ready"
        /\ generation' = generation + 1
        /\ candidate' = NoChild
        /\ at' = "free"
        /\ Signal
        /\ UNCHANGED <<pending, closeErr, life, relayVars, previous, ctxDone>>

-----------------------------------------------------------------------------
(* Close, and its repetition and FinalCleanup, which retry what is pending *)

CloseBegins ==
  /\ at = "free" /\ state # "closed"
  /\ state' = "closed"
  /\ at' = "closing"
  /\ Signal
  /\ UNCHANGED <<generation, child, retired, pending, closeErr, life, relayVars, resetVars>>

\* The relay workers are joined, or the shutdown timeout expires first.
CloseEnds ==
  /\ at = "closing"
  /\ \E F \in SUBSET (pending \cup {child}) :
       /\ Cleanup(pending \cup {child}, F)
       /\ closeErr' \in (IF Clients = {} /\ ~CleanupErr(F) THEN BOOLEAN ELSE {TRUE})
  /\ at' = "free"
  /\ UNCHANGED <<state, generation, child, retired, relayVars, resetVars, parked>>


CloseAgain ==
  /\ at = "free" /\ state = "closed"
  /\ \E F \in SUBSET pending : Cleanup(pending, F)
  /\ UNCHANGED <<state, generation, child, retired, closeErr, relayVars, at, resetVars, parked>>

-----------------------------------------------------------------------------
ResetStep ==
  \/ RecoverPending \/ RecoverRetire \/ Reserve \/ Drain \/ DrainWoken
  \/ SwitchPending \/ Start \/ StartFailed \/ Retire \/ Commit

Next ==
  \/ \E c \in Conn : Accept(c) \/ Dialed(c) \/ Leaves(c)
  \/ \E x \in Child : ChildDies(x)
  \/ ResetBegins \/ ContextEnds \/ ResetStep \/ DrainExpires
  \/ CloseBegins \/ CloseEnds \/ CloseAgain

Spec == Init /\ [][Next]_vars

(***************************************************************************)
(* The goroutine in Reset or Close is scheduled, its drain timer fires,    *)
(* and the workers of a closed endpoint, whose connections were cut,       *)
(* return.  Clients owe nothing: they may stay connected forever.          *)
(***************************************************************************)
FairSpec ==
  /\ Spec
  /\ WF_vars(ResetStep) /\ WF_vars(DrainExpires) /\ WF_vars(CloseEnds)
  /\ \A c \in Conn : WF_vars(state = "closed" /\ Leaves(c))

-----------------------------------------------------------------------------
(* Properties                                                              *)

Steps == {"recover", "recoverRetire", "reserve", "drain", "parked", "switch", "start",
          "startFailed", "retire", "commit"}

Undisposed == {x \in Child : life[x] \in {"serving", "dead", "debt"}}

\* The fields have their types; only the steps of Reset after reservation.Start
\* have a replacement, and only a parked Reset waits on the changed channel.
TypeOK ==
  /\ state \in States
  /\ generation \in Nat
  /\ child \in Child \cup {NoChild}
  /\ retired \in BOOLEAN
  /\ pending \subseteq Child
  /\ closeErr \in BOOLEAN
  /\ life \in [Child -> {"unborn", "serving", "dead", "debt", "disposed"}]
  /\ conn \in [Conn -> {"out", "dialing", "relaying"}]
  /\ target \in [Conn -> Child \cup {NoChild}]
  /\ at \in Steps \cup {"free", "closing"}
  /\ previous \in {"ready", "failed"}
  /\ candidate \in Child \cup {NoChild}
  /\ ctxDone \in BOOLEAN
  /\ parked \in BOOLEAN
  /\ candidate # NoChild => at \in {"startFailed", "retire", "commit"}
  /\ parked => at = "parked"

\* The relay of a connection always goes to the current child, and until the
\* endpoint closes nobody closes that child under the connection: a client that
\* was admitted by accept never sees its database replaced by Reset.
ConnectionsStayOnChild ==
  \A c \in Clients :
    /\ target[c] = child
    /\ state # "closed" => life[child] \in {"serving", "dead"} /\ ~retired

\* While Reset replaces the child, and after a replacement that failed, no
\* connection is being relayed, whatever accept and the relay workers did.
NoClientsWhileReplacing == state \in {"switching", "failed"} => Clients = {}

\* Every child that was started and is not known to be disposed is still owned:
\* it is the current child, the replacement of a running Reset, or pending.  No
\* sequence of failed resets and closes loses a database process.
NoOrphanChild == Undisposed \subseteq {child, candidate} \cup pending

\* One slot for the current child and one for its replacement suffice: no
\* sequence of failed, repeated and cancelled resets accumulates a third child.
TwoSlotsSuffice == IsFiniteSet(Undisposed) /\ Cardinality(Undisposed) <= 2

\* An endpoint that reports ready, a Reset still reserving or not, serves a child
\* that is not closed and owes no cleanup: recovery is never silently skipped.
ReadyIsClean ==
  state = "ready" => pending = {} /\ ~retired /\ life[child] \in {"serving", "dead"}

\* A Reset that is asleep in its drain loop still has a connection to wait for:
\* the disconnect of the last one cannot slip between its look and its wait.
NoLostDrain == parked => Clients # {}

\* What Reset may rely on at each of its steps: the state it published, that
\* nothing is pending once it reserved, what it found (previous) is still so
\* until it switches, and a commit has retired the old child.
ResetPhases ==
  /\ at = "free" => state \in {"ready", "failed", "closed"}
  /\ at \in {"recover", "recoverRetire"} => state = "failed" /\ previous = "failed"
  /\ at = "reserve" => state = previous
  /\ at \in {"drain", "parked"} => state = "draining"
  /\ at \in {"switch", "start", "startFailed", "retire", "commit"} => state = "switching"
  /\ at = "closing" => state = "closed"
  /\ child = NoChild => state = "closed" /\ at = "free" /\ Clients = {}
  /\ child # NoChild => life[child] # "unborn"
  /\ retired => child # NoChild /\ life[child] = "disposed"
  /\ state # "closed" => child \notin pending /\ (retired \/ child \in Undisposed)
  /\ at \in Steps \ {"recover"} => pending = {}
  /\ at \in {"reserve", "drain", "parked"} =>
       IF previous = "ready" THEN ~retired /\ life[child] \in {"serving", "dead"}
                             ELSE retired /\ Clients = {}
  /\ at \in {"retire", "commit"} => candidate # NoChild /\ life[candidate] \in {"serving", "dead"}
  /\ at = "commit" => retired
  /\ candidate # NoChild => candidate # child /\ candidate \in Undisposed
  /\ pending \subseteq Undisposed

\* The inductive invariant behind the safety properties of the endpoint.
EndpointInvariant ==
  /\ TypeOK
  /\ ResetPhases
  /\ ConnectionsStayOnChild
  /\ NoClientsWhileReplacing
  /\ NoOrphanChild
  /\ TwoSlotsSuffice
  /\ ReadyIsClean
  /\ NoLostDrain

\* The child changes only in a commit that counts a generation, after the old
\* child was disposed and with nothing connected to it; nothing else counts
\* one, so a busy or failed Reset preserves data and generation.
ReplacedOnlyByCommit ==
  [][/\ child' # child => life[child] = "disposed" /\ Clients = {} /\ generation' = generation + 1
     /\ generation' # generation => child' # child /\ life[child'] \in {"serving", "dead"}]_vars

\* A closed endpoint stays closed, starts and commits nothing any more, and the
\* result its Close stored stays what it was.
ClosedIsFinal ==
  [][state = "closed" =>
       /\ state' = "closed" /\ generation' = generation
       /\ at = "free" => closeErr' = closeErr
       /\ Undisposed' \subseteq Undisposed]_vars

\* Reset and Close always return, although clients may never disconnect, and
\* leave the endpoint ready, failed or closed, never draining or switching.
ResetSettles == at # "free" ~> at = "free" /\ state \in {"ready", "failed", "closed"}
=============================================================================
