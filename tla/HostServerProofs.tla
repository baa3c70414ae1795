-------------------------- MODULE HostServerProofs --------------------------
(***************************************************************************)
(* Proofs about HostServer, for any set of connections and any number of   *)
(* slots: its safety invariants, and that its workers call the guest as    *)
(* GuestCalls lets them.                                                   *)
(*                                                                         *)
(* A session is healthy as long as neither Serve nor a call of it has met  *)
(* an error.  What the guest keeps in the slot of a healthy session        *)
(* follows from where its worker is and from what became of its request;   *)
(* of any other session it is enough that its error aborts the instance    *)
(* before the slot is free.                                                *)
(***************************************************************************)
EXTENDS HostServer, TLAPS

Away == {"new", "rejected", "released", "gone"}
Calling == {"opening", "identifying", "reclosing", "reopening", "configuring", "commanding",
            "cutoff", "closing"}
Handshaking == {"attached", "opening", "identifying", "greeting", "reclosing", "reopening",
                "configuring"}
Serving == {"sending", "idle", "reading", "commanding"}
Ends == {"idle", "leaving", "closing", "ended", "releasing"}

Healthy(c) == ~fault[c] /\ outcome[c] # "error"

(* Whether a healthy session is open in the guest.                         *)
Opened(c) ==
  \/ at[c] \in {"opening", "reopening"} /\ job[c] \in {"work", "good"}
  \/ at[c] \in {"identifying", "greeting", "configuring", "leaving"} \cup Serving
  \/ at[c] \in {"reclosing", "closing"} /\ job[c] \in {"none", "work"}

(* The worker of c.                                                        *)
Worker(c) ==
  /\ c \in clients <=> at[c] \notin Away
  /\ slot[c] \in (IF c \in clients THEN Slot ELSE {0})
  /\ c \in running <=> at[c] \in Calling /\ outcome[c] = "none"
  /\ outcome[c] = "error" => failed \/ stopping
  /\ at[c] \in Handshaking \cup Serving => ~fault[c]
  /\ at[c] \in {"attached", "greeting", "sending", "idle", "reading"} => outcome[c] # "error"
  /\ at[c] \in {"new"} \cup Handshaking => ~local[c]
  /\ at[c] = "new" => ~fault[c] /\ outcome[c] = "none" /\ job[c] = "none"
  /\ at[c] = "cutoff" => fault[c] /\ failed
  /\ at[c] = "releasing" /\ fault[c] => failed
  /\ c \in clients /\ ~busy[c] => at[c] \in {"idle", "leaving"} /\ Healthy(c)
  /\ job[c] = "refused" => failed \/ (at[c] = "closing" /\ fault[c])

(* What the guest has in the slot of c.                                    *)
Session(c) ==
  c \in clients /\ Healthy(c) =>
    /\ job[c] # "refused"
    /\ job[c] \in {"none", "work"} /\ at[c] \in Calling => c \in running
    /\ job[c] = "work" => at[c] \in Calling
    /\ ~exited => (slot[c] \in live <=> Opened(c)) /\ (slot[c] \in working <=> job[c] = "work")
    /\ slot[c] \in tx => Opened(c) /\ at[c] \in Serving \cup {"leaving", "closing"}
    /\ at[c] \in {"sending", "idle", "reading"} => (local[c] <=> slot[c] \in tx)
    /\ at[c] \in {"idle", "leaving"} /\ ~busy[c] => (status[c] <=> slot[c] \in tx)

(* The sessions that a capture finds.                                      *)
Quiescent(c) ==
  c \in clients =>
    /\ kind \in Captures => at[c] \in Ends
    /\ kind = "capture" => slot[c] \notin tx

FreeSlots ==
  \A s \in Slot \ used : ~Unusable => s \notin live /\ s \notin working /\ s \notin tx

(* The operation that ends the database.                                   *)
Order ==
  /\ op # "none" \/ kind # "none" => closing
  /\ joined => closing /\ \A c \in Conn : at[c] \in {"new", "rejected", "gone"}
  /\ stopping => joined
  /\ exited => failed \/ stopping
  /\ frozen => exited /\ ~exitErr
  /\ op = "finished" => opErr \/ (exited /\ joined)
  /\ captured => frozen /\ joined
  /\ transfer = "removed" => exited /\ joined

ConnOK(c) == Worker(c) /\ Session(c) /\ Quiescent(c)

HostInvariant == TypeOK /\ FreeSlots /\ Order /\ \A c \in Conn : ConnOK(c)

-----------------------------------------------------------------------------
(* What a step leaves alone                                                *)

\* No failure, stop or exit is taken back, and the ending operation stays the same.
Onward ==
  /\ failed => failed'
  /\ stopping => stopping'
  /\ exited => exited'
  /\ kind' = kind

\* A step does not touch the connection d, nor its slot in a guest that runs.
Same(d) ==
  /\ at'[d] = at[d] /\ fault'[d] = fault[d] /\ local'[d] = local[d]
  /\ slot'[d] = slot[d] /\ busy'[d] = busy[d] /\ status'[d] = status[d]
  /\ outcome'[d] = outcome[d] /\ job'[d] = job[d]
  /\ (d \in clients') = (d \in clients)
  /\ (d \in running') = (d \in running)
  /\ d \in clients =>
       /\ ~exited' => (slot[d] \in live') = (slot[d] \in live)
       /\ ~exited' => (slot[d] \in working') = (slot[d] \in working)
       /\ (slot[d] \in tx') = (slot[d] \in tx)

\* A connection keeps its part of the invariant while others move.
LEMMA SameKeeps ==
  ASSUME NEW d \in Conn, ConnOK(d), Same(d), Onward
  PROVE  ConnOK(d)'
<1>1. Worker(d)'
  BY DEF ConnOK, Worker, Same, Onward, Healthy
<1>2. Session(d)'
  BY DEF ConnOK, Session, Same, Onward, Healthy, Opened
<1>3. Quiescent(d)'
  BY DEF ConnOK, Quiescent, Same, Onward
<1>4. QED
  BY <1>1, <1>2, <1>3 DEF ConnOK

\* A step of one connection needs to be looked at for that connection only.
LEMMA OneConn ==
  ASSUME HostInvariant, NEW c \in Conn, \A d \in Conn \ {c} : Same(d), Onward,
         TypeOK', FreeSlots', Order', ConnOK(c)'
  PROVE  HostInvariant'
BY SameKeeps DEF HostInvariant

\* A step of Serve: the worker of c moves, and nothing changes in the guest.
ServeStep(c) ==
  /\ at[c] \notin Away /\ at'[c] \in Phase \ Away
  /\ at' = [at EXCEPT ![c] = at'[c]]
  /\ fault' \in [Conn -> BOOLEAN] /\ \A d \in Conn \ {c} : fault'[d] = fault[d]
  /\ local' \in [Conn -> BOOLEAN] /\ \A d \in Conn \ {c} : local'[d] = local[d]
  /\ busy' \in [Conn -> BOOLEAN] /\ \A d \in Conn \ {c} : busy'[d] = busy[d]
  /\ status' \in [Conn -> BOOLEAN] /\ \A d \in Conn \ {c} : status'[d] = status[d]
  /\ outcome' \in [Conn -> {"none", "answer", "error"}]
  /\ \A d \in Conn \ {c} : outcome'[d] = outcome[d]
  /\ job' \in [Conn -> {"none", "work", "good", "bad", "refused"}]
  /\ \A d \in Conn \ {c} : job'[d] = job[d]
  /\ running' \subseteq Conn /\ \A d \in Conn \ {c} : (d \in running') = (d \in running)
  /\ failed' \in BOOLEAN /\ (failed => failed') /\ UNCHANGED stopping
  /\ UNCHANGED <<clients, slot, used, lost, closing, opVars, live, working, tx, exited, exitErr,
                 frozen, waiter>>

\* Such a step keeps the invariant if it does for c.
LEMMA ServeKeeps ==
  ASSUME HostInvariant, NEW c \in Conn, ServeStep(c), ConnOK(c)'
  PROVE  HostInvariant'
<1>1. TypeOK'
  <2>1. at' \in [Conn -> Phase]
    BY DEF HostInvariant, TypeOK, ServeStep
  <2>2. QED
    BY <2>1 DEF HostInvariant, TypeOK, ServeStep, Slot, opVars
<1>2. FreeSlots'
  BY DEF HostInvariant, FreeSlots, ServeStep, Unusable, Slot
<1>3. Order'
  <2>1. ~joined
    BY DEF HostInvariant, Order, ServeStep, Away
  <2>2. QED
    BY <2>1 DEF HostInvariant, Order, ServeStep, opVars
<1>4. \A d \in Conn \ {c} : Same(d)
  BY DEF Same, ServeStep, HostInvariant, TypeOK
<1>5. Onward
  BY DEF Onward, ServeStep, opVars
<1>6. QED
  BY <1>1, <1>2, <1>3, <1>4, <1>5, OneConn

\* The call of a phase is registered, or refused because the instance failed or
\* stops.
LEMMA Entered ==
  ASSUME TypeOK, NEW c \in Conn, NEW phase, Enter(c, phase), c \notin running,
         at \in [Conn -> Phase]
  PROVE  /\ at'[c] = phase /\ at' = [at EXCEPT ![c] = at'[c]]
         /\ job' \in [Conn -> {"none", "work", "good", "bad", "refused"}] /\ job'[c] = "none"
         /\ \A d \in Conn \ {c} : job'[d] = job[d]
         /\ outcome' \in [Conn -> {"none", "answer", "error"}]
         /\ \A d \in Conn \ {c} : outcome'[d] = outcome[d]
         /\ running' \subseteq Conn
         /\ \A d \in Conn \ {c} : (d \in running') = (d \in running)
         /\ UNCHANGED <<failed, stopping>>
         /\ \/ c \in running' /\ outcome'[c] = "none" /\ ~failed /\ ~stopping
            \/ c \notin running' /\ outcome'[c] = "error" /\ (failed \/ stopping)
BY DEF TypeOK, Enter, Guest!Begin, Guest!Refuse


-----------------------------------------------------------------------------
(* The beginning                                                           *)

\* Before the first connection there is nothing.
LEMMA InitHostInvariant == Init => HostInvariant
<1> SUFFICES ASSUME Init PROVE HostInvariant
  OBVIOUS
<1>1. TypeOK
  <2>1. slot \in [Conn -> 0..Slots]
    BY HostAssumption DEF Init
  <2>2. QED
    BY <2>1 DEF Init, TypeOK, Guest!Init, Phase, Captures, Slot
<1>2. FreeSlots /\ Order
  BY DEF Init, FreeSlots, Order, Guest!Init
<1>3. ASSUME NEW c \in Conn PROVE ConnOK(c)
  BY DEF Init, ConnOK, Worker, Session, Quiescent, Guest!Init, Away, Calling, Handshaking,
     Serving
<1>4. QED
  BY <1>1, <1>2, <1>3 DEF HostInvariant


-----------------------------------------------------------------------------
(* The steps of a worker                                                   *)

\* Every step of a handshake keeps the invariant.
LEMMA HandshakeKeeps ==
  ASSUME HostInvariant, NEW c \in Conn, Handshake(c)
  PROVE  HostInvariant'
<1> USE DEF HostInvariant
<1>1. CASE Open(c)
  <2>1. c \notin running
    BY <1>1 DEF TypeOK, ConnOK, Worker, Calling, Open
  <2>2. ServeStep(c)
    BY <1>1, <2>1, Entered DEF TypeOK, ServeStep, Phase, Away, restVars, sessionVars,
       opVars, Open
  <2>3. Worker(c)'
    BY <1>1, <2>1, Entered DEF TypeOK, ConnOK, Worker, Session, Away, Calling, Handshaking,
       Serving, Healthy, Opened, restVars, sessionVars, opVars, Open
  <2>4. Session(c)'
    BY <1>1, <2>1, Entered DEF TypeOK, ConnOK, Worker, Session, Away, Calling, Handshaking,
       Serving, Healthy, Opened, restVars, sessionVars, opVars, Open
  <2>5. Quiescent(c)'
    BY <1>1, <2>1, Entered DEF TypeOK, ConnOK, Worker, Quiescent, Order, Ends, restVars,
       sessionVars, opVars, Open
  <2>6. QED
    BY <2>2, <2>3, <2>4, <2>5, ServeKeeps DEF ConnOK
<1>2. CASE OpenFails(c)
  <2>1. ServeStep(c)
    BY <1>2 DEF TypeOK, ServeStep, Phase, Away, restVars, sessionVars, callVars, opVars,
       Goto, OpenFails, Returned, Good
  <2>2. Worker(c)'
    BY <1>2 DEF TypeOK, ConnOK, Worker, Session, Away, Calling, Handshaking, Serving,
       Healthy, Opened, restVars, sessionVars, callVars, opVars, Goto, OpenFails, Returned,
       Good
  <2>3. Session(c)'
    BY <1>2 DEF TypeOK, ConnOK, Worker, Session, Away, Calling, Handshaking, Serving,
       Healthy, Opened, restVars, sessionVars, callVars, opVars, Goto, OpenFails, Returned,
       Good
  <2>4. Quiescent(c)'
    BY <1>2 DEF TypeOK, ConnOK, Worker, Quiescent, Order, Ends, restVars, sessionVars,
       callVars, opVars, Goto, OpenFails, Returned, Good
  <2>5. QED
    BY <2>1, <2>2, <2>3, <2>4, ServeKeeps DEF ConnOK
<1>3. CASE OpenInvalid(c)
  <2>1. ServeStep(c)
    BY <1>3 DEF TypeOK, ServeStep, Phase, Away, restVars, sessionVars, callVars, opVars,
       Goto, OpenInvalid, Returned, Good
  <2>2. Worker(c)'
    BY <1>3 DEF TypeOK, ConnOK, Worker, Session, Away, Calling, Handshaking, Serving,
       Healthy, Opened, restVars, sessionVars, callVars, opVars, Goto, OpenInvalid,
       Returned, Good
  <2>3. Session(c)'
    BY <1>3 DEF TypeOK, ConnOK, Worker, Session, Away, Calling, Handshaking, Serving,
       Healthy, Opened, restVars, sessionVars, callVars, opVars, Goto, OpenInvalid,
       Returned, Good
  <2>4. Quiescent(c)'
    BY <1>3 DEF TypeOK, ConnOK, Worker, Quiescent, Order, Ends, restVars, sessionVars,
       callVars, opVars, Goto, OpenInvalid, Returned, Good
  <2>5. QED
    BY <2>1, <2>2, <2>3, <2>4, ServeKeeps DEF ConnOK
<1>4. CASE Identify(c)
  <2>1. c \notin running
    BY <1>4 DEF TypeOK, ConnOK, Worker, Calling, Identify, Returned, Good
  <2>2. ServeStep(c)
    BY <1>4, <2>1, Entered DEF TypeOK, ServeStep, Phase, Away, restVars, sessionVars,
       opVars, Identify, Returned, Good
  <2>3. Worker(c)'
    BY <1>4, <2>1, Entered DEF TypeOK, ConnOK, Worker, Session, Away, Calling, Handshaking,
       Serving, Healthy, Opened, restVars, sessionVars, opVars, Identify, Returned, Good
  <2>4. Session(c)'
    BY <1>4, <2>1, Entered DEF TypeOK, ConnOK, Worker, Session, Away, Calling, Handshaking,
       Serving, Healthy, Opened, restVars, sessionVars, opVars, Identify, Returned, Good
  <2>5. Quiescent(c)'
    BY <1>4, <2>1, Entered DEF TypeOK, ConnOK, Worker, Quiescent, Order, Ends, restVars,
       sessionVars, opVars, Identify, Returned, Good
  <2>6. QED
    BY <2>2, <2>3, <2>4, <2>5, ServeKeeps DEF ConnOK
<1>5. CASE Greet(c)
  <2>1. ServeStep(c)
    BY <1>5 DEF TypeOK, ServeStep, Phase, Away, restVars, sessionVars, callVars, opVars,
       Goto, Greet, Returned, Good
  <2>2. Worker(c)'
    BY <1>5 DEF TypeOK, ConnOK, Worker, Session, Away, Calling, Handshaking, Serving,
       Healthy, Opened, restVars, sessionVars, callVars, opVars, Goto, Greet, Returned, Good
  <2>3. Session(c)'
    BY <1>5 DEF TypeOK, ConnOK, Worker, Session, Away, Calling, Handshaking, Serving,
       Healthy, Opened, restVars, sessionVars, callVars, opVars, Goto, Greet, Returned, Good
  <2>4. Quiescent(c)'
    BY <1>5 DEF TypeOK, ConnOK, Worker, Quiescent, Order, Ends, restVars, sessionVars,
       callVars, opVars, Goto, Greet, Returned, Good
  <2>5. QED
    BY <2>1, <2>2, <2>3, <2>4, ServeKeeps DEF ConnOK
<1>6. CASE HandshakeFails(c)
  <2>1. ServeStep(c)
    BY <1>6 DEF TypeOK, ServeStep, Phase, Away, restVars, sessionVars, callVars, opVars,
       Goto, HandshakeFails, Admitted, Returned, Good
  <2>2. Worker(c)'
    BY <1>6 DEF TypeOK, ConnOK, Worker, Session, Away, Calling, Handshaking, Serving,
       Healthy, Opened, restVars, sessionVars, callVars, opVars, Goto, HandshakeFails,
       Admitted, Returned, Good
  <2>3. Session(c)'
    BY <1>6 DEF TypeOK, ConnOK, Worker, Session, Away, Calling, Handshaking, Serving,
       Healthy, Opened, restVars, sessionVars, callVars, opVars, Goto, HandshakeFails,
       Admitted, Returned, Good
  <2>4. Quiescent(c)'
    BY <1>6 DEF TypeOK, ConnOK, Worker, Quiescent, Order, Ends, restVars, sessionVars,
       callVars, opVars, Goto, HandshakeFails, Admitted, Returned, Good
  <2>5. QED
    BY <2>1, <2>2, <2>3, <2>4, ServeKeeps DEF ConnOK
<1>7. CASE Reclose(c)
  <2>1. c \notin running
    BY <1>7 DEF TypeOK, ConnOK, Worker, Calling, Reclose
  <2>2. ServeStep(c)
    BY <1>7, <2>1, Entered DEF TypeOK, ServeStep, Phase, Away, restVars, sessionVars,
       opVars, Reclose
  <2>3. Worker(c)'
    BY <1>7, <2>1, Entered DEF TypeOK, ConnOK, Worker, Session, Away, Calling, Handshaking,
       Serving, Healthy, Opened, restVars, sessionVars, opVars, Reclose
  <2>4. Session(c)'
    BY <1>7, <2>1, Entered DEF TypeOK, ConnOK, Worker, Session, Away, Calling, Handshaking,
       Serving, Healthy, Opened, restVars, sessionVars, opVars, Reclose
  <2>5. Quiescent(c)'
    BY <1>7, <2>1, Entered DEF TypeOK, ConnOK, Worker, Quiescent, Order, Ends, restVars,
       sessionVars, opVars, Reclose
  <2>6. QED
    BY <2>2, <2>3, <2>4, <2>5, ServeKeeps DEF ConnOK
<1>8. CASE RecloseFails(c)
  <2>1. ServeStep(c)
    BY <1>8 DEF TypeOK, ServeStep, Phase, Away, restVars, sessionVars, callVars, opVars,
       Goto, RecloseFails, Returned, Good
  <2>2. Worker(c)'
    BY <1>8 DEF TypeOK, ConnOK, Worker, Session, Away, Calling, Handshaking, Serving,
       Healthy, Opened, restVars, sessionVars, callVars, opVars, Goto, RecloseFails,
       Returned, Good
  <2>3. Session(c)'
    BY <1>8 DEF TypeOK, ConnOK, Worker, Session, Away, Calling, Handshaking, Serving,
       Healthy, Opened, restVars, sessionVars, callVars, opVars, Goto, RecloseFails,
       Returned, Good
  <2>4. Quiescent(c)'
    BY <1>8 DEF TypeOK, ConnOK, Worker, Quiescent, Order, Ends, restVars, sessionVars,
       callVars, opVars, Goto, RecloseFails, Returned, Good
  <2>5. QED
    BY <2>1, <2>2, <2>3, <2>4, ServeKeeps DEF ConnOK
<1>9. CASE Reopen(c)
  <2>1. c \notin running
    BY <1>9 DEF TypeOK, ConnOK, Worker, Calling, Reopen, Returned, Good
  <2>2. ServeStep(c)
    BY <1>9, <2>1, Entered DEF TypeOK, ServeStep, Phase, Away, restVars, sessionVars,
       opVars, Reopen, Returned, Good
  <2>3. Worker(c)'
    BY <1>9, <2>1, Entered DEF TypeOK, ConnOK, Worker, Session, Away, Calling, Handshaking,
       Serving, Healthy, Opened, restVars, sessionVars, opVars, Reopen, Returned, Good
  <2>4. Session(c)'
    BY <1>9, <2>1, Entered DEF TypeOK, ConnOK, Worker, Session, Away, Calling, Handshaking,
       Serving, Healthy, Opened, restVars, sessionVars, opVars, Reopen, Returned, Good
  <2>5. Quiescent(c)'
    BY <1>9, <2>1, Entered DEF TypeOK, ConnOK, Worker, Quiescent, Order, Ends, restVars,
       sessionVars, opVars, Reopen, Returned, Good
  <2>6. QED
    BY <2>2, <2>3, <2>4, <2>5, ServeKeeps DEF ConnOK
<1>10. CASE ReopenFails(c)
  <2>1. ServeStep(c)
    BY <1>10 DEF TypeOK, ServeStep, Phase, Away, restVars, sessionVars, callVars, opVars,
       Goto, ReopenFails, Returned, Good, Errored
  <2>2. Worker(c)'
    BY <1>10 DEF TypeOK, ConnOK, Worker, Session, Away, Calling, Handshaking, Serving,
       Healthy, Opened, restVars, sessionVars, callVars, opVars, Goto, ReopenFails,
       Returned, Good, Errored
  <2>3. Session(c)'
    BY <1>10 DEF TypeOK, ConnOK, Worker, Session, Away, Calling, Handshaking, Serving,
       Healthy, Opened, restVars, sessionVars, callVars, opVars, Goto, ReopenFails,
       Returned, Good, Errored
  <2>4. Quiescent(c)'
    BY <1>10 DEF TypeOK, ConnOK, Worker, Quiescent, Order, Ends, restVars, sessionVars,
       callVars, opVars, Goto, ReopenFails, Returned, Good, Errored
  <2>5. QED
    BY <2>1, <2>2, <2>3, <2>4, ServeKeeps DEF ConnOK
<1>11. CASE Configure(c)
  <2>1. c \notin running
    BY <1>11 DEF TypeOK, ConnOK, Worker, Calling, Configure, Admitted, Returned, Good
  <2>2. ServeStep(c)
    BY <1>11, <2>1, Entered DEF TypeOK, ServeStep, Phase, Away, restVars, sessionVars,
       opVars, Configure, Admitted, Returned, Good
  <2>3. Worker(c)'
    BY <1>11, <2>1, Entered DEF TypeOK, ConnOK, Worker, Session, Away, Calling, Handshaking,
       Serving, Healthy, Opened, restVars, sessionVars, opVars, Configure, Admitted,
       Returned, Good
  <2>4. Session(c)'
    BY <1>11, <2>1, Entered DEF TypeOK, ConnOK, Worker, Session, Away, Calling, Handshaking,
       Serving, Healthy, Opened, restVars, sessionVars, opVars, Configure, Admitted,
       Returned, Good
  <2>5. Quiescent(c)'
    BY <1>11, <2>1, Entered DEF TypeOK, ConnOK, Worker, Quiescent, Order, Ends, restVars,
       sessionVars, opVars, Configure, Admitted, Returned, Good
  <2>6. QED
    BY <2>2, <2>3, <2>4, <2>5, ServeKeeps DEF ConnOK
<1>12. CASE ConfigureFails(c)
  <2>1. ServeStep(c)
    BY <1>12 DEF TypeOK, ServeStep, Phase, Away, restVars, sessionVars, callVars, opVars,
       Goto, ConfigureFails, Returned, Good
  <2>2. Worker(c)'
    BY <1>12 DEF TypeOK, ConnOK, Worker, Session, Away, Calling, Handshaking, Serving,
       Healthy, Opened, restVars, sessionVars, callVars, opVars, Goto, ConfigureFails,
       Returned, Good
  <2>3. Session(c)'
    BY <1>12 DEF TypeOK, ConnOK, Worker, Session, Away, Calling, Handshaking, Serving,
       Healthy, Opened, restVars, sessionVars, callVars, opVars, Goto, ConfigureFails,
       Returned, Good
  <2>4. Quiescent(c)'
    BY <1>12 DEF TypeOK, ConnOK, Worker, Quiescent, Order, Ends, restVars, sessionVars,
       callVars, opVars, Goto, ConfigureFails, Returned, Good
  <2>5. QED
    BY <2>1, <2>2, <2>3, <2>4, ServeKeeps DEF ConnOK
<1>13. CASE Welcome(c)
  <2>1. ServeStep(c)
    BY <1>13 DEF TypeOK, ServeStep, Phase, Away, restVars, sessionVars, callVars, opVars,
       Goto, Welcome, Admitted, Returned, Good
  <2>2. Worker(c)'
    BY <1>13 DEF TypeOK, ConnOK, Worker, Session, Away, Calling, Handshaking, Serving,
       Healthy, Opened, restVars, sessionVars, callVars, opVars, Goto, Welcome, Admitted,
       Returned, Good
  <2>3. Session(c)'
    BY <1>13 DEF TypeOK, ConnOK, Worker, Session, Away, Calling, Handshaking, Serving,
       Healthy, Opened, restVars, sessionVars, callVars, opVars, Goto, Welcome, Admitted,
       Returned, Good
  <2>4. Quiescent(c)'
    BY <1>13 DEF TypeOK, ConnOK, Worker, Quiescent, Order, Ends, restVars, sessionVars,
       callVars, opVars, Goto, Welcome, Admitted, Returned, Good
  <2>5. QED
    BY <2>1, <2>2, <2>3, <2>4, ServeKeeps DEF ConnOK
<1>14. QED
  BY <1>1, <1>2, <1>3, <1>4, <1>5, <1>6, <1>7, <1>8, <1>9, <1>10, <1>11, <1>12, <1>13 DEF
     Handshake

\* Every step of the command loop does.
LEMMA CommandsKeep ==
  ASSUME HostInvariant, NEW c \in Conn, Commands(c)
  PROVE  HostInvariant'
<1> USE DEF HostInvariant
<1>1. CASE BeginCommand(c)
  <2>1. ServeStep(c)
    BY <1>1 DEF TypeOK, ServeStep, Phase, Away, restVars, sessionVars, callVars, opVars,
       Goto, BeginCommand, Captures
  <2>2. Worker(c)'
    BY <1>1 DEF TypeOK, ConnOK, Worker, Session, Away, Calling, Handshaking, Serving,
       Healthy, Opened, restVars, sessionVars, callVars, opVars, Goto, BeginCommand,
       Captures
  <2>3. Session(c)'
    BY <1>1 DEF TypeOK, ConnOK, Worker, Session, Away, Calling, Handshaking, Serving,
       Healthy, Opened, restVars, sessionVars, callVars, opVars, Goto, BeginCommand,
       Captures
  <2>4. Quiescent(c)'
    BY <1>1 DEF TypeOK, ConnOK, Worker, Quiescent, Order, Ends, restVars, sessionVars,
       callVars, opVars, Goto, BeginCommand, Captures
  <2>5. QED
    BY <2>1, <2>2, <2>3, <2>4, ServeKeeps DEF ConnOK
<1>2. CASE ReadEnds(c)
  <2>1. ServeStep(c)
    BY <1>2 DEF TypeOK, ServeStep, Phase, Away, restVars, sessionVars, callVars, opVars,
       Goto, ReadEnds
  <2>2. Worker(c)'
    BY <1>2 DEF TypeOK, ConnOK, Worker, Session, Away, Calling, Handshaking, Serving,
       Healthy, Opened, restVars, sessionVars, callVars, opVars, Goto, ReadEnds
  <2>3. Session(c)'
    BY <1>2 DEF TypeOK, ConnOK, Worker, Session, Away, Calling, Handshaking, Serving,
       Healthy, Opened, restVars, sessionVars, callVars, opVars, Goto, ReadEnds
  <2>4. Quiescent(c)'
    BY <1>2 DEF TypeOK, ConnOK, Worker, Quiescent, Order, Ends, restVars, sessionVars,
       callVars, opVars, Goto, ReadEnds
  <2>5. QED
    BY <2>1, <2>2, <2>3, <2>4, ServeKeeps DEF ConnOK
<1>3. CASE ReadUnusable(c)
  <2>1. ServeStep(c)
    BY <1>3 DEF TypeOK, ServeStep, Phase, Away, restVars, sessionVars, callVars, opVars,
       Goto, ReadUnusable, Unusable
  <2>2. Worker(c)'
    BY <1>3 DEF TypeOK, ConnOK, Worker, Session, Away, Calling, Handshaking, Serving,
       Healthy, Opened, restVars, sessionVars, callVars, opVars, Goto, ReadUnusable,
       Unusable
  <2>3. Session(c)'
    BY <1>3 DEF TypeOK, ConnOK, Worker, Session, Away, Calling, Handshaking, Serving,
       Healthy, Opened, restVars, sessionVars, callVars, opVars, Goto, ReadUnusable,
       Unusable
  <2>4. Quiescent(c)'
    BY <1>3 DEF TypeOK, ConnOK, Worker, Quiescent, Order, Ends, restVars, sessionVars,
       callVars, opVars, Goto, ReadUnusable, Unusable
  <2>5. QED
    BY <2>1, <2>2, <2>3, <2>4, ServeKeeps DEF ConnOK
<1>4. CASE AnswerLocally(c)
  <2>1. ServeStep(c)
    BY <1>4 DEF TypeOK, ServeStep, Phase, Away, restVars, sessionVars, callVars, opVars,
       Goto, AnswerLocally
  <2>2. Worker(c)'
    BY <1>4 DEF TypeOK, ConnOK, Worker, Session, Away, Calling, Handshaking, Serving,
       Healthy, Opened, restVars, sessionVars, callVars, opVars, Goto, AnswerLocally
  <2>3. Session(c)'
    BY <1>4 DEF TypeOK, ConnOK, Worker, Session, Away, Calling, Handshaking, Serving,
       Healthy, Opened, restVars, sessionVars, callVars, opVars, Goto, AnswerLocally
  <2>4. Quiescent(c)'
    BY <1>4 DEF TypeOK, ConnOK, Worker, Quiescent, Order, Ends, restVars, sessionVars,
       callVars, opVars, Goto, AnswerLocally
  <2>5. QED
    BY <2>1, <2>2, <2>3, <2>4, ServeKeeps DEF ConnOK
<1>5. CASE Command(c)
  <2>1. c \notin running
    BY <1>5 DEF TypeOK, ConnOK, Worker, Calling, Command
  <2>2. ServeStep(c)
    BY <1>5, <2>1, Entered DEF TypeOK, ServeStep, Phase, Away, restVars, sessionVars,
       opVars, Command
  <2>3. Worker(c)'
    BY <1>5, <2>1, Entered DEF TypeOK, ConnOK, Worker, Session, Away, Calling, Handshaking,
       Serving, Healthy, Opened, restVars, sessionVars, opVars, Command
  <2>4. Session(c)'
    BY <1>5, <2>1, Entered DEF TypeOK, ConnOK, Worker, Session, Away, Calling, Handshaking,
       Serving, Healthy, Opened, restVars, sessionVars, opVars, Command
  <2>5. Quiescent(c)'
    BY <1>5, <2>1, Entered DEF TypeOK, ConnOK, Worker, Quiescent, Order, Ends, restVars,
       sessionVars, opVars, Command
  <2>6. QED
    BY <2>2, <2>3, <2>4, <2>5, ServeKeeps DEF ConnOK
<1>6. CASE Disconnected(c)
  <2>1. ServeStep(c)
    BY <1>6 DEF TypeOK, ServeStep, Phase, Away, restVars, sessionVars, callVars, opVars,
       Goto, Disconnected, Abort, Guest!Fail
  <2>2. Worker(c)'
    BY <1>6 DEF TypeOK, ConnOK, Worker, Session, Away, Calling, Handshaking, Serving,
       Healthy, Opened, restVars, sessionVars, callVars, opVars, Goto, Disconnected, Abort,
       Guest!Fail
  <2>3. Session(c)'
    BY <1>6 DEF TypeOK, ConnOK, Worker, Session, Away, Calling, Handshaking, Serving,
       Healthy, Opened, restVars, sessionVars, callVars, opVars, Goto, Disconnected, Abort,
       Guest!Fail
  <2>4. Quiescent(c)'
    BY <1>6 DEF TypeOK, ConnOK, Worker, Quiescent, Order, Ends, restVars, sessionVars,
       callVars, opVars, Goto, Disconnected, Abort, Guest!Fail
  <2>5. QED
    BY <2>1, <2>2, <2>3, <2>4, ServeKeeps DEF ConnOK
<1>7. CASE CutoffReturns(c)
  <2>1. ServeStep(c)
    BY <1>7 DEF TypeOK, ServeStep, Phase, Away, restVars, sessionVars, callVars, opVars,
       Goto, CutoffReturns, Returned
  <2>2. Worker(c)'
    BY <1>7 DEF TypeOK, ConnOK, Worker, Session, Away, Calling, Handshaking, Serving,
       Healthy, Opened, restVars, sessionVars, callVars, opVars, Goto, CutoffReturns,
       Returned
  <2>3. Session(c)'
    BY <1>7 DEF TypeOK, ConnOK, Worker, Session, Away, Calling, Handshaking, Serving,
       Healthy, Opened, restVars, sessionVars, callVars, opVars, Goto, CutoffReturns,
       Returned
  <2>4. Quiescent(c)'
    BY <1>7 DEF TypeOK, ConnOK, Worker, Quiescent, Order, Ends, restVars, sessionVars,
       callVars, opVars, Goto, CutoffReturns, Returned
  <2>5. QED
    BY <2>1, <2>2, <2>3, <2>4, ServeKeeps DEF ConnOK
<1>8. CASE Answered(c)
  <2>1. ServeStep(c)
    BY <1>8 DEF TypeOK, ServeStep, Phase, Away, restVars, sessionVars, callVars, opVars,
       Goto, Answered, Returned
  <2>2. Worker(c)'
    BY <1>8 DEF TypeOK, ConnOK, Worker, Session, Away, Calling, Handshaking, Serving,
       Healthy, Opened, restVars, sessionVars, callVars, opVars, Goto, Answered, Returned
  <2>3. Session(c)'
    BY <1>8 DEF TypeOK, ConnOK, Worker, Session, Away, Calling, Handshaking, Serving,
       Healthy, Opened, restVars, sessionVars, callVars, opVars, Goto, Answered, Returned
  <2>4. Quiescent(c)'
    BY <1>8 DEF TypeOK, ConnOK, Worker, Quiescent, Order, Ends, restVars, sessionVars,
       callVars, opVars, Goto, Answered, Returned
  <2>5. QED
    BY <2>1, <2>2, <2>3, <2>4, ServeKeeps DEF ConnOK
<1>9. CASE CommandFails(c)
  <2>1. ServeStep(c)
    BY <1>9 DEF TypeOK, ServeStep, Phase, Away, restVars, sessionVars, callVars, opVars,
       Goto, CommandFails, Returned
  <2>2. Worker(c)'
    BY <1>9 DEF TypeOK, ConnOK, Worker, Session, Away, Calling, Handshaking, Serving,
       Healthy, Opened, restVars, sessionVars, callVars, opVars, Goto, CommandFails,
       Returned
  <2>3. Session(c)'
    BY <1>9 DEF TypeOK, ConnOK, Worker, Session, Away, Calling, Handshaking, Serving,
       Healthy, Opened, restVars, sessionVars, callVars, opVars, Goto, CommandFails,
       Returned
  <2>4. Quiescent(c)'
    BY <1>9 DEF TypeOK, ConnOK, Worker, Quiescent, Order, Ends, restVars, sessionVars,
       callVars, opVars, Goto, CommandFails, Returned
  <2>5. QED
    BY <2>1, <2>2, <2>3, <2>4, ServeKeeps DEF ConnOK
<1>10. CASE Sent(c)
  <2>1. ServeStep(c)
    BY <1>10 DEF TypeOK, ServeStep, Phase, Away, restVars, sessionVars, callVars, opVars,
       Goto, Sent
  <2>2. Worker(c)'
    BY <1>10 DEF TypeOK, ConnOK, Worker, Session, Away, Calling, Handshaking, Serving,
       Healthy, Opened, restVars, sessionVars, callVars, opVars, Goto, Sent
  <2>3. Session(c)'
    BY <1>10 DEF TypeOK, ConnOK, Worker, Session, Away, Calling, Handshaking, Serving,
       Healthy, Opened, restVars, sessionVars, callVars, opVars, Goto, Sent
  <2>4. Quiescent(c)'
    BY <1>10 DEF TypeOK, ConnOK, Worker, Quiescent, Order, Ends, restVars, sessionVars,
       callVars, opVars, Goto, Sent
  <2>5. QED
    BY <2>1, <2>2, <2>3, <2>4, ServeKeeps DEF ConnOK
<1>11. CASE SendFails(c)
  <2>1. ServeStep(c)
    BY <1>11 DEF TypeOK, ServeStep, Phase, Away, restVars, sessionVars, callVars, opVars,
       Goto, SendFails
  <2>2. Worker(c)'
    BY <1>11 DEF TypeOK, ConnOK, Worker, Session, Away, Calling, Handshaking, Serving,
       Healthy, Opened, restVars, sessionVars, callVars, opVars, Goto, SendFails
  <2>3. Session(c)'
    BY <1>11 DEF TypeOK, ConnOK, Worker, Session, Away, Calling, Handshaking, Serving,
       Healthy, Opened, restVars, sessionVars, callVars, opVars, Goto, SendFails
  <2>4. Quiescent(c)'
    BY <1>11 DEF TypeOK, ConnOK, Worker, Quiescent, Order, Ends, restVars, sessionVars,
       callVars, opVars, Goto, SendFails
  <2>5. QED
    BY <2>1, <2>2, <2>3, <2>4, ServeKeeps DEF ConnOK
<1>12. CASE IdleEnds(c)
  <2>1. ServeStep(c)
    BY <1>12 DEF TypeOK, ServeStep, Phase, Away, restVars, sessionVars, callVars, opVars,
       Goto, IdleEnds
  <2>2. Worker(c)'
    BY <1>12 DEF TypeOK, ConnOK, Worker, Session, Away, Calling, Handshaking, Serving,
       Healthy, Opened, restVars, sessionVars, callVars, opVars, Goto, IdleEnds
  <2>3. Session(c)'
    BY <1>12 DEF TypeOK, ConnOK, Worker, Session, Away, Calling, Handshaking, Serving,
       Healthy, Opened, restVars, sessionVars, callVars, opVars, Goto, IdleEnds
  <2>4. Quiescent(c)'
    BY <1>12 DEF TypeOK, ConnOK, Worker, Quiescent, Order, Ends, restVars, sessionVars,
       callVars, opVars, Goto, IdleEnds
  <2>5. QED
    BY <2>1, <2>2, <2>3, <2>4, ServeKeeps DEF ConnOK
<1>13. QED
  BY <1>1, <1>2, <1>3, <1>4, <1>5, <1>6, <1>7, <1>8, <1>9, <1>10, <1>11, <1>12 DEF Commands

\* So does the end of a call.
LEMMA CallsReturn ==
  ASSUME HostInvariant, NEW c \in Conn, Reply(c) \/ CallFails(c)
  PROVE  HostInvariant'
<1> USE DEF HostInvariant
<1>1. CASE Reply(c)
  <2>1. ServeStep(c)
    BY <1>1 DEF TypeOK, ServeStep, Phase, Away, ConnOK, Worker, Calling, guestVars,
       serveVars, sessionVars, callVars, opVars, Reply, Guest!Answer
  <2>2. Worker(c)'
    BY <1>1 DEF TypeOK, ConnOK, Worker, Session, Away, Calling, Handshaking, Serving,
       Healthy, Opened, guestVars, serveVars, sessionVars, callVars, opVars, Reply,
       Guest!Answer
  <2>3. Session(c)'
    BY <1>1 DEF TypeOK, ConnOK, Worker, Session, Away, Calling, Handshaking, Serving,
       Healthy, Opened, guestVars, serveVars, sessionVars, callVars, opVars, Reply,
       Guest!Answer
  <2>4. Quiescent(c)'
    BY <1>1 DEF TypeOK, ConnOK, Worker, Quiescent, Order, Ends, guestVars, serveVars,
       sessionVars, callVars, opVars, Reply, Guest!Answer
  <2>5. QED
    BY <2>1, <2>2, <2>3, <2>4, ServeKeeps DEF ConnOK
<1>2. CASE CallFails(c)
  <2>1. ServeStep(c)
    BY <1>2 DEF TypeOK, ServeStep, Phase, Away, ConnOK, Worker, Calling, guestVars,
       serveVars, sessionVars, callVars, opVars, CallFails, Guest!Error
  <2>2. Worker(c)'
    BY <1>2 DEF TypeOK, ConnOK, Worker, Session, Away, Calling, Handshaking, Serving,
       Healthy, Opened, guestVars, serveVars, sessionVars, callVars, opVars, CallFails,
       Guest!Error
  <2>3. Session(c)'
    BY <1>2 DEF TypeOK, ConnOK, Worker, Session, Away, Calling, Handshaking, Serving,
       Healthy, Opened, guestVars, serveVars, sessionVars, callVars, opVars, CallFails,
       Guest!Error
  <2>4. Quiescent(c)'
    BY <1>2 DEF TypeOK, ConnOK, Worker, Quiescent, Order, Ends, guestVars, serveVars,
       sessionVars, callVars, opVars, CallFails, Guest!Error
  <2>5. QED
    BY <2>1, <2>2, <2>3, <2>4, ServeKeeps DEF ConnOK
<1>3. QED
  BY <1>1, <1>2

\* A slot is freed only when its session is closed in the guest or the instance has
\* failed, so that the steps that end a session keep the invariant too.
LEMMA EndingKeeps ==
  ASSUME HostInvariant, NEW c \in Conn, Ending(c)
  PROVE  HostInvariant'
<1> USE DEF HostInvariant
<1>1. CASE Cleanup(c)
  <2>1. c \notin running
    BY <1>1 DEF TypeOK, ConnOK, Worker, Calling, Cleanup
  <2>2. ServeStep(c)
    BY <1>1, <2>1, Entered DEF TypeOK, ServeStep, Phase, Away, restVars, sessionVars,
       opVars, Cleanup
  <2>3. Worker(c)'
    BY <1>1, <2>1, Entered DEF TypeOK, ConnOK, Worker, Session, Away, Calling, Handshaking,
       Serving, Healthy, Opened, restVars, sessionVars, opVars, Cleanup
  <2>4. Session(c)'
    BY <1>1, <2>1, Entered DEF TypeOK, ConnOK, Worker, Session, Away, Calling, Handshaking,
       Serving, Healthy, Opened, restVars, sessionVars, opVars, Cleanup
  <2>5. Quiescent(c)'
    BY <1>1, <2>1, Entered DEF TypeOK, ConnOK, Worker, Quiescent, Order, Ends, restVars,
       sessionVars, opVars, Cleanup
  <2>6. QED
    BY <2>2, <2>3, <2>4, <2>5, ServeKeeps DEF ConnOK
<1>2. CASE Closed(c)
  <2>1. ServeStep(c)
    BY <1>2 DEF TypeOK, ServeStep, Phase, Away, restVars, sessionVars, callVars, opVars,
       Goto, Closed, Returned, Good
  <2>2. Worker(c)'
    BY <1>2 DEF TypeOK, ConnOK, Worker, Session, Away, Calling, Handshaking, Serving,
       Healthy, Opened, restVars, sessionVars, callVars, opVars, Goto, Closed, Returned,
       Good
  <2>3. Session(c)'
    BY <1>2 DEF TypeOK, ConnOK, Worker, Session, Away, Calling, Handshaking, Serving,
       Healthy, Opened, restVars, sessionVars, callVars, opVars, Goto, Closed, Returned,
       Good
  <2>4. Quiescent(c)'
    BY <1>2 DEF TypeOK, ConnOK, Worker, Quiescent, Order, Ends, restVars, sessionVars,
       callVars, opVars, Goto, Closed, Returned, Good
  <2>5. QED
    BY <2>1, <2>2, <2>3, <2>4, ServeKeeps DEF ConnOK
<1>3. CASE SessionEnds(c)
  <2>1. ServeStep(c)
    BY <1>3 DEF TypeOK, ServeStep, Phase, Away, guestVars, serveVars, sessionVars, callVars,
       opVars, SessionEnds, Abort, Guest!Fail
  <2>2. Worker(c)'
    BY <1>3 DEF TypeOK, ConnOK, Worker, Session, Order, Away, Calling, Handshaking, Serving,
       Healthy, Opened, guestVars, serveVars, sessionVars, callVars, opVars, SessionEnds,
       Abort, Guest!Fail
  <2>3. Session(c)'
    BY <1>3 DEF TypeOK, ConnOK, Worker, Session, Away, Calling, Handshaking, Serving,
       Healthy, Opened, guestVars, serveVars, sessionVars, callVars, opVars, SessionEnds,
       Abort, Guest!Fail
  <2>4. Quiescent(c)'
    BY <1>3 DEF TypeOK, ConnOK, Worker, Quiescent, Order, Ends, guestVars, serveVars,
       sessionVars, callVars, opVars, SessionEnds, Abort, Guest!Fail
  <2>5. QED
    BY <2>1, <2>2, <2>3, <2>4, ServeKeeps DEF ConnOK
<1>4. CASE Release(c)
  <2> DEFINE s == slot[c]
  <2>1. c \in clients /\ s \in Slot
    BY <1>4 DEF ConnOK, Worker, Away, Release, Drop
  <2>2. used' = used \ {s} /\ clients' = clients \ {c} /\ slot' = [slot EXCEPT ![c] = 0]
    BY <1>4 DEF Release, Drop
  <2>3. TypeOK'
    <3>1. used' = {slot'[d] : d \in clients'}
      BY <2>1, <2>2 DEF TypeOK
    <3>2. slot' \in [Conn -> 0..Slots]
      BY <2>2, HostAssumption DEF TypeOK
    <3>3. \A d, e \in clients' : slot'[d] = slot'[e] => d = e
      BY <2>2 DEF TypeOK
    <3>4. used' \subseteq Slot
      BY <2>2 DEF TypeOK, Slot
    <3>5. QED
      BY <1>4, <2>2, <3>1, <3>2, <3>3, <3>4
         DEF TypeOK, Release, Drop, Notify, Phase, Slot, callVars, opVars, guestVars
  <2>4. ~Unusable => s \notin live /\ s \notin working /\ s \notin tx
    <3>1. ~joined
      BY <1>4 DEF Order, Release, Drop
    <3>2. Healthy(c) \/ failed
      BY <1>4, <3>1 DEF ConnOK, Worker, Order, Healthy, Release, Drop
    <3>3. QED
      BY <1>4, <2>1, <3>2 DEF ConnOK, Session, Opened, Serving, Calling, Unusable, Release, Drop
  <2>5. FreeSlots'
    BY <1>4, <2>2, <2>4
       DEF FreeSlots, Unusable, Release, Drop, Slot, callVars, guestVars
  <2>6. Order'
    BY <1>4 DEF Order, TypeOK, Release, Drop, callVars, opVars, guestVars
  <2>7. \A d \in Conn \ {c} : Same(d)
    BY <1>4 DEF Same, TypeOK, Release, Drop, callVars, guestVars
  <2>8. Onward
    BY <1>4 DEF Onward, Release, Drop, callVars, opVars, guestVars
  <2>9. Worker(c)'
    BY <1>4 DEF TypeOK, ConnOK, Worker, Away, Calling, Handshaking, Serving, Healthy, Release,
       Drop, callVars, guestVars
  <2>10. Session(c)' /\ Quiescent(c)'
    BY <2>2 DEF Session, Quiescent
  <2>11. QED
    BY <2>3, <2>5, <2>6, <2>7, <2>8, <2>9, <2>10, OneConn DEF ConnOK
<1>5. CASE WorkerDone(c)
  <2>1. TypeOK'
    BY <1>5 DEF TypeOK, WorkerDone, Phase, Slot, callVars, sessionVars, opVars, guestVars
  <2>2. FreeSlots' /\ Onward
    BY <1>5 DEF FreeSlots, Onward, Unusable, Slot, WorkerDone, callVars, sessionVars, opVars,
       guestVars
  <2>3. Order'
    BY <1>5 DEF Order, TypeOK, WorkerDone, callVars, opVars, guestVars
  <2>4. \A d \in Conn \ {c} : Same(d)
    BY <1>5 DEF Same, TypeOK, WorkerDone, callVars, sessionVars, guestVars
  <2>5. ConnOK(c)'
    BY <1>5 DEF TypeOK, ConnOK, Worker, Session, Quiescent, Away, Calling, Handshaking, Serving,
       Healthy, WorkerDone, callVars, sessionVars, opVars, guestVars
  <2>6. QED
    BY <2>1, <2>2, <2>3, <2>4, <2>5, OneConn
<1>6. QED
  BY <1>1, <1>2, <1>3, <1>4, <1>5 DEF Ending

-----------------------------------------------------------------------------
(* Connections and the guest                                               *)

\* A connection gets the lowest free slot, which is clean.
LEMMA AttachKeeps ==
  ASSUME HostInvariant, NEW c \in Conn, Attach(c)
  PROVE  HostInvariant'
<1> USE DEF HostInvariant
<1>1. PICK s \in Slot \ used : used' = used \cup {s} /\ slot' = [slot EXCEPT ![c] = s]
  BY Zenon DEF Attach
<1>2. c \notin clients /\ clients' = clients \cup {c}
  BY DEF Attach, ConnOK, Worker, Away
<1>3. TypeOK'
  <2>1. slot' \in [Conn -> 0..Slots]
    BY <1>1, HostAssumption DEF TypeOK, Slot
  <2>2. used' = {slot'[d] : d \in clients'}
    BY <1>1, <1>2 DEF TypeOK
  <2>3. \A d, e \in clients' : slot'[d] = slot'[e] => d = e
    BY <1>1, <1>2 DEF TypeOK
  <2>4. QED
    BY <1>1, <1>2, <2>1, <2>2, <2>3
       DEF TypeOK, Attach, Phase, Slot, callVars, opVars, guestVars
<1>4. FreeSlots'
  BY <1>1 DEF FreeSlots, Attach, Unusable, Slot, callVars, guestVars
<1>5. Order'
  BY DEF Order, TypeOK, Attach, callVars, opVars, guestVars
<1>6. \A d \in Conn \ {c} : Same(d)
  BY <1>1, <1>2 DEF Same, TypeOK, Attach, callVars, guestVars
<1>7. Onward
  BY DEF Onward, Attach, callVars, opVars, guestVars
<1>8. Worker(c)'
  BY <1>1, <1>2 DEF TypeOK, ConnOK, Worker, Attach, Away, Calling, Handshaking, Serving,
     Healthy, callVars, guestVars
<1>9. Session(c)'
  BY <1>1, <1>2 DEF TypeOK, ConnOK, Worker, Session, FreeSlots, Attach, Calling, Serving,
     Healthy, Opened, Unusable, callVars, guestVars
<1>10. Quiescent(c)'
  BY <1>1, <1>2 DEF Quiescent, Order, Attach, Captures, opVars, guestVars
<1>11. QED
  BY <1>3, <1>4, <1>5, <1>6, <1>7, <1>8, <1>9, <1>10, OneConn DEF ConnOK

\* A connection that is refused gets nothing.
LEMMA RejectedKeeps ==
  ASSUME HostInvariant, NEW c \in Conn, AttachRejected(c)
  PROVE  HostInvariant'
<1> USE DEF HostInvariant
<1>1. TypeOK'
  BY DEF TypeOK, AttachRejected, Phase, Slot, callVars, sessionVars, opVars, guestVars
<1>2. FreeSlots' /\ Onward
  BY DEF FreeSlots, Onward, Unusable, Slot, AttachRejected, callVars, sessionVars, opVars,
     guestVars
<1>3. Order'
  BY DEF Order, TypeOK, AttachRejected, callVars, opVars, guestVars
<1>4. \A d \in Conn \ {c} : Same(d)
  BY DEF Same, TypeOK, AttachRejected, callVars, sessionVars, guestVars
<1>5. ConnOK(c)'
  BY DEF TypeOK, ConnOK, Worker, Session, Quiescent, Away, Calling, Handshaking, Serving,
     Healthy, AttachRejected, callVars, sessionVars, opVars, guestVars
<1>6. QED
  BY <1>1, <1>2, <1>3, <1>4, <1>5, OneConn

\* The guest takes a request: that of a healthy session is never refused.
LEMMA AcceptKeeps ==
  ASSUME HostInvariant, NEW c \in Conn, GuestAccepts(c)
  PROVE  HostInvariant'
<1> USE DEF HostInvariant
<1> DEFINE s == slot[c]
           refused == s \in working \/ (Request(c) = "open") = (s \in live)
<1>1. c \in running /\ job[c] = "none" /\ ~exited
  BY Zenon DEF GuestAccepts
<1>2. /\ c \in clients /\ s \in Slot /\ s \in used /\ at[c] \in Calling
      /\ outcome[c] = "none" /\ at[c] \in Phase
  BY <1>1 DEF TypeOK, ConnOK, Worker, Away, Calling
<1>3. \/ refused /\ job' = [job EXCEPT ![c] = "refused"] /\ UNCHANGED <<live, working>>
      \/ /\ ~refused /\ job' = [job EXCEPT ![c] = "work"]
         /\ working' = working \cup {s} /\ live' = live \cup {s}
  BY Zenon DEF GuestAccepts
<1>4. /\ UNCHANGED <<callVars, serveVars, sessionVars, lost, closing, opVars, tx, exited,
                     exitErr, frozen, waiter>>
  BY Zenon DEF GuestAccepts
<1>5. ~fault[c] => ~refused
  <2> SUFFICES ASSUME ~fault[c] PROVE ~refused
    OBVIOUS
  <2>1. (s \in live <=> Opened(c)) /\ s \notin working
    BY <1>1, <1>2 DEF TypeOK, ConnOK, Session, Healthy
  <2>2. at[c] # "cutoff"
    BY DEF ConnOK, Worker
  <2>3. Opened(c) <=> Request(c) # "open"
    BY <1>1, <1>2, <2>2 DEF Opened, Request, Calling, Serving
  <2>4. QED
    BY <2>1, <2>3
<1> HIDE DEF refused
<1>6. TypeOK'
  <2>1. live' \subseteq Slot /\ working' \subseteq live'
    BY <1>2, <1>3 DEF TypeOK
  <2>2. job' \in [Conn -> {"none", "work", "good", "bad", "refused"}]
    BY <1>3 DEF TypeOK
  <2>3. QED
    BY <1>4, <2>1, <2>2 DEF TypeOK, Slot, callVars, serveVars, sessionVars, opVars
<1>7. FreeSlots' /\ Order' /\ Onward
  <2>1. FreeSlots'
    BY <1>2, <1>3, <1>4 DEF FreeSlots, Slot, Unusable, callVars, sessionVars
  <2>2. Order' /\ Onward
    BY <1>4 DEF Order, Onward, callVars, serveVars, opVars
  <2>3. QED
    BY <2>1, <2>2
<1>8. \A d \in Conn \ {c} : Same(d)
  BY <1>2, <1>3, <1>4 DEF Same, TypeOK, callVars, serveVars, sessionVars
<1>9. Worker(c)'
  <2>1. refused => failed \/ (at[c] = "closing" /\ fault[c])
    BY <1>2, <1>5 DEF ConnOK, Worker, Calling, Handshaking, Serving
  <2>2. job'[c] = "refused" => refused
    BY <1>3 DEF TypeOK
  <2>3. QED
    BY <1>2, <1>4, <2>1, <2>2
       DEF ConnOK, Worker, Calling, Handshaking, Serving, Away, Healthy, callVars, serveVars,
           sessionVars
<1>10. Session(c)'
  <2> SUFFICES ASSUME Healthy(c) PROVE Session(c)'
    BY <1>4 DEF Session, Healthy, callVars, serveVars
  <2>1. ~refused
    BY <1>5 DEF Healthy
  <2>2. Opened(c)'
    <3>1. job'[c] = "work" /\ at' = at
      BY <1>3, <1>4, <2>1 DEF TypeOK, serveVars
    <3>2. at[c] # "cutoff"
      BY DEF ConnOK, Worker, Healthy
    <3>3. QED
      BY <1>2, <3>1, <3>2 DEF Opened, Calling, Serving
  <2>3. QED
    BY <1>1, <1>2, <1>3, <1>4, <2>1, <2>2
       DEF TypeOK, ConnOK, Session, Calling, callVars, serveVars, sessionVars
<1>11. Quiescent(c)'
  BY <1>4 DEF ConnOK, Quiescent, serveVars, sessionVars, opVars
<1>12. QED
  BY <1>6, <1>7, <1>8, <1>9, <1>10, <1>11, OneConn DEF ConnOK

\* The guest does the request, or fails to.
LEMMA WorkKeeps ==
  ASSUME HostInvariant, NEW c \in Conn, GuestWorks(c)
  PROVE  HostInvariant'
<1> USE DEF HostInvariant
<1> DEFINE s == slot[c]
<1>1. job[c] = "work" /\ ~exited
  BY Zenon DEF GuestWorks
<1>2. PICK good \in BOOLEAN :
        /\ job' = [job EXCEPT ![c] = IF good THEN "good" ELSE "bad"]
        /\ live' = IF Request(c) = "close" \/ (Request(c) = "open" /\ ~good)
                     THEN live \ {s} ELSE live
        /\ working' = working \ {s}
        /\ IF at[c] = "commanding"
             THEN tx' \in {tx \cup {s}, tx \ {s}}
             ELSE tx' = IF Request(c) = "close" \/ (Request(c) = "open" /\ ~good)
                          THEN tx \ {s} ELSE tx
  BY Zenon DEF GuestWorks
<1>3. UNCHANGED <<callVars, serveVars, sessionVars, lost, closing, opVars, exited, exitErr,
                  frozen, waiter>>
  BY Zenon DEF GuestWorks
<1>4. at[c] = "commanding" => c \in clients
  BY DEF ConnOK, Worker, Away
<1>5. c \in clients => s \in Slot /\ s \in used
  BY DEF TypeOK, ConnOK, Worker
<1>6. live' \subseteq live /\ live \ {s} \subseteq live' /\ working' = working \ {s}
  BY <1>2
<1>7. tx' \subseteq tx \cup {s} /\ tx \ {s} \subseteq tx'
  BY <1>2
<1>8. tx' \subseteq tx \/ c \in clients
  BY <1>2, <1>4
<1>9. TypeOK'
  <2>1. live' \subseteq Slot /\ working' \subseteq live' /\ tx' \subseteq Slot
    BY <1>5, <1>6, <1>7, <1>8 DEF TypeOK
  <2>2. job' \in [Conn -> {"none", "work", "good", "bad", "refused"}]
    BY <1>2 DEF TypeOK
  <2>3. QED
    BY <1>3, <2>1, <2>2 DEF TypeOK, Slot, callVars, serveVars, sessionVars, opVars
<1>10. FreeSlots'
  BY <1>3, <1>5, <1>6, <1>7, <1>8 DEF FreeSlots, Slot, Unusable, callVars, sessionVars
<1>11. Order' /\ Onward
  BY <1>3 DEF Order, Onward, callVars, serveVars, opVars
<1>12. ASSUME NEW d \in Conn \ {c} PROVE Same(d)
  <2>1. ASSUME d \in clients PROVE slot[d] # s
    <3>1. slot[d] \in Slot
      BY <2>1 DEF ConnOK, Worker
    <3>2. CASE c \in clients
      BY <2>1, <3>2 DEF TypeOK
    <3>3. CASE c \notin clients
      BY <3>1, <3>3 DEF ConnOK, Worker, Slot
    <3>4. QED
      BY <3>2, <3>3
  <2>2. QED
    BY <1>2, <1>3, <1>6, <1>7, <2>1 DEF Same, TypeOK, callVars, serveVars, sessionVars
<1>13. Worker(c)'
  <2>1. job'[c] \in {"good", "bad"}
    BY <1>2 DEF TypeOK
  <2>2. QED
    BY <1>1, <1>3, <2>1 DEF ConnOK, Worker, Healthy, callVars, serveVars, sessionVars
<1>14. Session(c)'
  <2> SUFFICES ASSUME c \in clients, Healthy(c) PROVE Session(c)'
    BY <1>3 DEF Session, Healthy, callVars, serveVars, sessionVars
  <2>1. at[c] \in Calling /\ s \in live /\ s \in working /\ Opened(c)
    BY <1>1 DEF TypeOK, ConnOK, Session
  <2>2. s \in tx => at[c] \in {"commanding", "closing"}
    BY <2>1 DEF ConnOK, Session, Calling, Serving
  <2>3. job'[c] \in {"good", "bad"} /\ (job'[c] = "good" <=> good)
    BY <1>2 DEF TypeOK
  <2>4. s \notin working'
    BY <1>6
  <2>5. s \in live' <=> Opened(c)'
    BY <1>2, <1>3, <2>1, <2>3 DEF Opened, Request, Calling, Serving, serveVars
  <2>6. s \in tx' => at[c] = "commanding" /\ Opened(c)'
    BY <1>2, <1>3, <2>1, <2>2, <2>3 DEF Opened, Request, Serving, serveVars
  <2>7. QED
    BY <1>3, <2>1, <2>3, <2>4, <2>5, <2>6
       DEF Session, Healthy, Calling, Serving, callVars, serveVars, sessionVars
<1>15. Quiescent(c)'
  BY <1>2, <1>3, <1>7 DEF ConnOK, Quiescent, Ends, Captures, serveVars, sessionVars, opVars
<1>16. QED
  BY <1>9, <1>10, <1>11, <1>12, <1>13, <1>14, <1>15, OneConn DEF ConnOK

\* A step that leaves every connection alone.
LEMMA NoConn ==
  ASSUME HostInvariant, \A d \in Conn : Same(d), Onward, TypeOK', FreeSlots', Order'
  PROVE  HostInvariant'
BY SameKeeps DEF HostInvariant

\* The guest fails or ends, a client leaves.
LEMMA OutsideKeeps ==
  ASSUME HostInvariant, GuestFails \/ GuestExits \/ \E c \in Conn : ClientLeaves(c)
  PROVE  HostInvariant'
<1> USE DEF HostInvariant
<1>1. CASE GuestFails
  <2>1. TypeOK'
    BY <1>1 DEF TypeOK, GuestFails, Abort, Guest!Fail, Slot, serveVars, sessionVars, opVars,
       guestVars
  <2>2. FreeSlots' /\ Order' /\ Onward
    BY <1>1 DEF FreeSlots, Order, Onward, Unusable, Slot, GuestFails, Abort, Guest!Fail,
       serveVars, sessionVars, opVars, guestVars
  <2>3. \A d \in Conn : Same(d)
    BY <1>1 DEF Same, GuestFails, Abort, Guest!Fail, serveVars, sessionVars, guestVars
  <2>4. QED
    BY <2>1, <2>2, <2>3, NoConn
<1>2. CASE GuestExits
  <2>1. TypeOK'
    BY <1>2 DEF TypeOK, GuestExits, Slot, callVars, serveVars, sessionVars, opVars
  <2>2. FreeSlots' /\ Order' /\ Onward
    BY <1>2 DEF FreeSlots, Order, Onward, Unusable, GuestExits, callVars, serveVars, opVars
  <2>3. \A d \in Conn : Same(d)
    BY <1>2 DEF Same, GuestExits, callVars, serveVars, sessionVars
  <2>4. QED
    BY <2>1, <2>2, <2>3, NoConn
<1>3. ASSUME NEW c \in Conn, ClientLeaves(c) PROVE HostInvariant'
  <2>1. TypeOK'
    BY <1>3 DEF TypeOK, ClientLeaves, Slot, callVars, serveVars, sessionVars, opVars, guestVars
  <2>2. FreeSlots' /\ Order' /\ Onward
    BY <1>3 DEF FreeSlots, Order, Onward, Unusable, Slot, ClientLeaves, callVars, serveVars,
       sessionVars, opVars, guestVars
  <2>3. \A d \in Conn : Same(d)
    BY <1>3 DEF Same, ClientLeaves, callVars, serveVars, sessionVars, guestVars
  <2>4. QED
    BY <2>1, <2>2, <2>3, NoConn
<1>4. QED
  BY <1>1, <1>2, <1>3

-----------------------------------------------------------------------------
(* The operation that ends the database                                    *)

\* The operation touches no connection but to close it.
LEMMA ConnsKept ==
  ASSUME NEW d \in Conn, UNCHANGED <<serveVars, sessionVars, guestVars, running, outcome>>
  PROVE  Same(d)
BY DEF Same, serveVars, sessionVars, guestVars

\* A capture is admitted only when every session is at the end of its work.
LEMMA BeginKeeps ==
  ASSUME HostInvariant, CloseBegins \/ \E rollback \in BOOLEAN : CaptureBegins(rollback)
  PROVE  HostInvariant'
<1> USE DEF HostInvariant
<1>1. /\ closing' = TRUE /\ op' = "joining" /\ lost' = lost \cup clients
      /\ kind' \in {"close"} \cup Captures /\ waiter' \in {waiter, "woken"}
      /\ UNCHANGED <<callVars, serveVars, sessionVars, joined, opErr, captured, transfer,
                     guestVars>>
  BY DEF CloseBegins, CaptureBegins, StopAccepting, CutConnections, Notify, Captures
<1>2. TypeOK'
  BY <1>1 DEF TypeOK, Slot, callVars, serveVars, sessionVars, guestVars
<1>3. FreeSlots'
  BY <1>1 DEF FreeSlots, Unusable, Slot, callVars, sessionVars, guestVars
<1>4. Order'
  BY <1>1 DEF Order, callVars, serveVars, guestVars
<1>5. ASSUME NEW d \in Conn PROVE ConnOK(d)'
  <2>1. Worker(d)' /\ Session(d)'
    BY <1>1 DEF ConnOK, Worker, Session, Healthy, Opened, callVars, serveVars, sessionVars,
       guestVars
  <2>2. Quiescent(d)'
    <3>1. CASE CloseBegins
      BY <3>1 DEF Quiescent, CloseBegins, Captures
    <3>2. ASSUME NEW rollback \in BOOLEAN, CaptureBegins(rollback), d \in clients
          PROVE  /\ at[d] \in Ends
                 /\ kind' = "capture" => slot[d] \notin tx
      <4>1. ~busy[d] /\ (status[d] => rollback) /\ (kind' = "capture" => ~rollback)
        BY <3>2 DEF CaptureBegins
      <4>2. at[d] \in {"idle", "leaving"} /\ Healthy(d)
        BY <3>2, <4>1 DEF ConnOK, Worker
      <4>3. status[d] <=> slot[d] \in tx
        BY <3>2, <4>1, <4>2 DEF ConnOK, Session
      <4>4. QED
        BY <4>1, <4>2, <4>3 DEF Ends
    <3>3. QED
      BY <1>1, <3>1, <3>2 DEF Quiescent, serveVars, sessionVars, guestVars
  <2>3. QED
    BY <2>1, <2>2 DEF ConnOK
<1>6. QED
  BY <1>2, <1>3, <1>4, <1>5

\* The later steps of the operation, and those of its disposal.
EndStep ==
  \/ Shutdown \/ Expires \/ ShutdownReturns \/ Cut \/ Finish \/ TakeRoot \/ Dispose
  \/ WorkersJoined \/ DisposeLater

\* They follow an order that keeps the transfer directory to the end.
LEMMA EndKeeps ==
  ASSUME HostInvariant, EndStep
  PROVE  HostInvariant'
<1> USE DEF HostInvariant
<1>1. /\ UNCHANGED <<serveVars, sessionVars, guestVars, running, outcome, closing, kind, waiter>>
      /\ failed' \in BOOLEAN /\ (failed => failed')
      /\ stopping' \in BOOLEAN /\ (stopping => stopping')
      /\ lost' \in {lost, lost \cup clients}
  BY DEF TypeOK, EndStep, Shutdown, Expires, ShutdownReturns, Cut, Finish, TakeRoot, Dispose,
     WorkersJoined, DisposeLater, CutConnections, Abort, Guest!Fail, Guest!Stopping, callVars
<1>2. TypeOK'
  <2>1. /\ joined' \in BOOLEAN /\ opErr' \in BOOLEAN /\ captured' \in BOOLEAN
        /\ transfer' \in {transfer, "removed", "retained"}
        /\ op' \in {op, "stopping", "cutting", "draining", "finished", "disposing", "done"}
    BY DEF TypeOK, EndStep, Shutdown, Expires, ShutdownReturns, Cut, Finish, TakeRoot, Dispose,
       WorkersJoined, DisposeLater
  <2>2. QED
    BY <1>1, <2>1 DEF TypeOK, Slot, serveVars, sessionVars, guestVars
<1>3. FreeSlots' /\ Onward
  BY <1>1 DEF FreeSlots, Onward, Unusable, Slot, sessionVars, guestVars
<1>4. Order'
  <2>1. CASE Shutdown
    BY <1>1, <2>1 DEF Order, Shutdown, Guest!Stopping, serveVars, guestVars
  <2>2. CASE Expires
    BY <1>1, <2>2 DEF Order, Expires, Abort, Guest!Fail, serveVars, guestVars
  <2>3. CASE ShutdownReturns
    BY <1>1, <2>3 DEF Order, ShutdownReturns, Abort, Guest!Fail, callVars, serveVars, guestVars
  <2>4. CASE Cut
    BY <1>1, <2>4 DEF Order, Cut, callVars, serveVars, guestVars
  <2>5. CASE Finish
    BY <1>1, <2>5 DEF Order, Finish, callVars, serveVars, guestVars
  <2>6. CASE TakeRoot
    <3>1. captured' => ~opErr /\ frozen
      BY <2>6, Zenon DEF TakeRoot
    <3>2. QED
      BY <1>1, <2>6, <3>1 DEF Order, TakeRoot, callVars, serveVars, guestVars
  <2>7. CASE Dispose
    BY <1>1, <2>7 DEF Order, Dispose, callVars, serveVars, guestVars
  <2>8. CASE WorkersJoined
    BY <1>1, <2>8 DEF Order, WorkersJoined, callVars, serveVars, guestVars
  <2>9. CASE DisposeLater
    BY <1>1, <2>9 DEF Order, DisposeLater, callVars, serveVars, guestVars
  <2>10. QED
    BY <2>1, <2>2, <2>3, <2>4, <2>5, <2>6, <2>7, <2>8, <2>9 DEF EndStep
<1>5. \A d \in Conn : Same(d)
  BY <1>1, ConnsKept
<1>6. QED
  BY <1>2, <1>3, <1>4, <1>5, NoConn

\* WaitDisconnected only looks.
LEMMA WaiterKeeps ==
  ASSUME HostInvariant, WaiterLooks \/ WaiterWakes
  PROVE  HostInvariant'
<1> USE DEF HostInvariant
<1>1. /\ waiter' \in {"idle", "parked", "woken", "returned"}
      /\ UNCHANGED <<callVars, serveVars, sessionVars, lost, closing, opVars, guestVars>>
  BY DEF WaiterLooks, WaiterWakes
<1>2. TypeOK' /\ FreeSlots' /\ Order' /\ Onward
  BY <1>1 DEF TypeOK, FreeSlots, Order, Onward, Unusable, Slot, callVars, serveVars,
     sessionVars, opVars, guestVars
<1>3. \A d \in Conn : Same(d)
  BY <1>1, ConnsKept DEF callVars
<1>4. QED
  BY <1>2, <1>3, NoConn

-----------------------------------------------------------------------------
(* The theorems                                                            *)

\* Every step preserves the invariant.
LEMMA NextHostInvariant == HostInvariant /\ [Next]_vars => HostInvariant'
<1> SUFFICES ASSUME HostInvariant, [Next]_vars
             PROVE  HostInvariant'
  OBVIOUS
<1>1. ASSUME NEW c \in Conn,
             \/ Attach(c) \/ AttachRejected(c) \/ ClientLeaves(c)
             \/ Handshake(c) \/ Commands(c) \/ Ending(c)
             \/ GuestStep(c) \/ CallFails(c)
      PROVE  HostInvariant'
  BY <1>1, AttachKeeps, RejectedKeeps, OutsideKeeps, HandshakeKeeps, CommandsKeep, EndingKeeps,
     AcceptKeeps, WorkKeeps, CallsReturn DEF GuestStep
<1>2. CASE GuestFails \/ GuestExits
  BY <1>2, OutsideKeeps
<1>3. CASE Operation
  BY <1>3, BeginKeeps, EndKeeps DEF Operation, EndStep
<1>4. CASE WaiterLooks \/ WaiterWakes
  BY <1>4, WaiterKeeps
<1>5. CASE UNCHANGED vars
  <2>1. TypeOK' /\ FreeSlots' /\ Order' /\ Onward
    BY <1>5 DEF HostInvariant, TypeOK, FreeSlots, Order, Onward, Unusable, Slot, vars, callVars,
       serveVars, sessionVars, opVars, guestVars
  <2>2. \A d \in Conn : Same(d)
    BY <1>5, ConnsKept DEF vars, callVars
  <2>3. QED
    BY <2>1, <2>2, NoConn
<1>6. QED
  BY <1>1, <1>2, <1>3, <1>4, <1>5 DEF Next

\* The slot of every healthy session is in the guest what the host takes it for.
THEOREM HostInvariantHolds == Spec => []HostInvariant
BY InitHostInvariant, NextHostInvariant, PTL DEF Spec

\* Every variable has its type, and the slots of the clients are distinct.
THEOREM TypeCorrect == Spec => []TypeOK
<1>1. HostInvariant => TypeOK
  BY DEF HostInvariant
<1>2. QED
  BY <1>1, HostInvariantHolds, PTL

\* A slot that attach may hand out is clean in the guest, for any number of
\* connections and slots.
THEOREM FreeSlotIsCleanHolds == Spec => []FreeSlotIsClean
<1>1. HostInvariant => FreeSlotIsClean
  BY DEF HostInvariant, FreeSlots, FreeSlotIsClean
<1>2. QED
  BY <1>1, HostInvariantHolds, PTL

\* The guest refuses a request as out of order only of a session that already
\* failed.
THEOREM NoRefusalHolds == Spec => []NoRefusal
<1>1. HostInvariant => NoRefusal
  BY DEF HostInvariant, ConnOK, Worker, NoRefusal
<1>2. QED
  BY <1>1, HostInvariantHolds, PTL

\* Once a capture is admitted, the sessions only end, and what it returns is of a
\* guest that ended cleanly with no worker left.
THEOREM CaptureIsQuiescentHolds == Spec => []CaptureIsQuiescent
<1>1. HostInvariant => CaptureIsQuiescent
  <2> SUFFICES ASSUME HostInvariant PROVE CaptureIsQuiescent
    OBVIOUS
  <2>1. \A c \in Conn : Quiescent(c)
    BY DEF HostInvariant, ConnOK
  <2>2. clients \subseteq Conn
    BY DEF HostInvariant, TypeOK
  <2>3. joined => clients = {}
    BY <2>2 DEF HostInvariant, ConnOK, Worker, Order, Away
  <2>4. QED
    BY <2>1, <2>2, <2>3 DEF HostInvariant, Order, Quiescent, Ends, CaptureIsQuiescent
<1>2. QED
  BY <1>1, HostInvariantHolds, PTL

\* The transfer directory outlives the guest and every worker.
THEOREM TransferOutlivesUsersHolds == Spec => []TransferOutlivesUsers
<1>1. HostInvariant => TransferOutlivesUsers
  BY DEF HostInvariant, Order, TransferOutlivesUsers
<1>2. QED
  BY <1>1, HostInvariantHolds, PTL

-----------------------------------------------------------------------------
(* The calls of the guest                                                  *)

\* Every step calls the guest as GuestCalls lets it, or not at all.
LEMMA StepIsCall == HostInvariant /\ [Next]_vars => [Guest!Next]_(Guest!callVars)
<1> SUFFICES ASSUME HostInvariant, [Next]_vars
             PROVE  Guest!Next \/ UNCHANGED callVars
  BY DEF callVars, Guest!callVars
<1>1. ASSUME NEW c \in Conn, NEW phase, Enter(c, phase) PROVE Guest!Next
  BY <1>1 DEF Enter, Guest!Next
<1>2. ASSUME Abort PROVE Guest!Next
  BY <1>2 DEF Abort, Guest!Next
<1>3. ASSUME NEW c \in Conn, Handshake(c) PROVE Guest!Next \/ UNCHANGED callVars
  BY <1>1, <1>3 DEF Handshake, Open, OpenFails, OpenInvalid, Identify, Greet, HandshakeFails,
     Reclose, RecloseFails, Reopen, ReopenFails, Configure, ConfigureFails, Welcome
<1>4. ASSUME NEW c \in Conn, Commands(c) PROVE Guest!Next \/ UNCHANGED callVars
  BY <1>1, <1>2, <1>4 DEF Commands, BeginCommand, ReadEnds, ReadUnusable, AnswerLocally,
     Command, Disconnected, CutoffReturns, Answered, CommandFails, Sent, SendFails, IdleEnds
<1>5. ASSUME NEW c \in Conn, Ending(c) PROVE Guest!Next \/ UNCHANGED callVars
  BY <1>1, <1>2, <1>5 DEF Ending, Cleanup, Closed, SessionEnds, Release, Drop, WorkerDone
<1>6. ASSUME NEW c \in Conn, GuestStep(c) \/ CallFails(c)
      PROVE  Guest!Next \/ UNCHANGED callVars
  BY <1>6 DEF GuestStep, GuestAccepts, GuestWorks, Reply, CallFails, Guest!Next
<1>7. ASSUME NEW c \in Conn, Attach(c) \/ AttachRejected(c) \/ ClientLeaves(c)
      PROVE  UNCHANGED callVars
  BY <1>7 DEF Attach, AttachRejected, ClientLeaves
<1>8. CASE GuestFails \/ GuestExits
  BY <1>2, <1>8 DEF GuestFails, GuestExits
<1>9. CASE Operation
  BY <1>2, <1>9 DEF Operation, CloseBegins, CaptureBegins, Shutdown, Expires, ShutdownReturns,
     Cut, Finish, TakeRoot, Dispose, WorkersJoined, DisposeLater, Guest!Next, callVars
<1>10. CASE WaiterLooks \/ WaiterWakes
  BY <1>10 DEF WaiterLooks, WaiterWakes
<1>11. CASE UNCHANGED vars
  BY <1>11 DEF vars
<1>12. QED
  BY <1>3, <1>4, <1>5, <1>6, <1>7, <1>8, <1>9, <1>10, <1>11 DEF Next

\* The workers' calls are calls of the guest as GuestProcess implements them.
THEOREM GuestContractHolds == Spec => GuestContract
<1>1. Init => Guest!Init
  BY DEF Init
<1>2. QED
  BY <1>1, StepIsCall, HostInvariantHolds, PTL DEF Spec, GuestContract, Guest!Spec

=============================================================================
