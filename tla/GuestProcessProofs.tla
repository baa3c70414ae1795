------------------------- MODULE GuestProcessProofs -------------------------
(***************************************************************************)
(* Proofs about GuestProcess for every set of calls and stops: no response *)
(* is lost or sent twice, frames do not mix, and the transport keeps the   *)
(* promise of GuestCalls.                                                  *)
(***************************************************************************)
EXTENDS GuestProcess, TLAPS

Empty(i) == box[i] = "empty"
Expected(i) == i \in pending \cup holding \/ box[i] # "empty"

\* Who is registered, and what is in the channels: what OneResponse,
\* NoCallForgotten and the promise rest on.
Answering ==
  /\ OneResponse
  /\ FailedHasNoCalls
  /\ \A i, j \in holding : i = j
  /\ \A i \in Id : box[i] = "error" => failure
  /\ \A c \in Call : at[c] = "new" => Empty(c) /\ c \notin pending \cup holding
  /\ \A c \in Call : at[c] \in {"gate", "writing", "waiting"} => Expected(c)
  /\ \A s \in Export : stopAt[s] \in {"check", "gate", "writing", "sent", "ack"} => Expected(Hello)
  /\ \A s \in Stop : stopAt[s] # "idle" => start = "ready"
  /\ start = "ready" /\ (\A s \in Export : stopAt[s] = "idle") => Hello \notin pending \cup holding

\* Whoever holds the gate is writing.
Writing ==
  /\ OneFrameAtATime
  /\ gate # NoOne => Phase(gate) = "writing"

\* What has been seen of the end of the guest.
Ended ==
  /\ StopMeansExit
  /\ PeerClosed => guest = "exited"
  /\ \A s \in Export : stopAt[s] # "joining"
  /\ \A s \in Stop : stopAt[s] = "ack" => s \in Export

ProcessInvariant == TypeOK /\ Answering /\ Writing /\ Ended

-----------------------------------------------------------------------------
Message == {"empty", "answer", "error", "overfull"}

\* What Fail and Abort have in common: the instance has failed, and who was
\* registered is either answered with an error or still registered.
Failing ==
  /\ failure' = TRUE
  /\ pending' \subseteq pending /\ pending' \cap Call = {}
  /\ box' \in [Id -> Message]
  /\ \A i \in Id : \/ i \in pending /\ i \notin pending' /\ box'[i] = "error"
                   \/ (i \in pending <=> i \in pending') /\ box'[i] = box[i]

\* fail leaves nobody registered.
LEMMA FailIsFailing ==
  ASSUME TypeOK, OneResponse, Fail
  PROVE  Failing
BY DEF TypeOK, OneResponse, Fail, Put, Failing, Message

\* Abort either fails or has been done before.
LEMMA AbortIsFailing ==
  ASSUME TypeOK, OneResponse, FailedHasNoCalls, Abort
  PROVE  Failing /\ aborted' = TRUE /\ inClosed' = TRUE
<1>1. CASE aborted
  <2>1. failure /\ inClosed /\ UNCHANGED <<failVars, aborted, inClosed>>
    BY <1>1 DEF TypeOK, Abort
  <2>2. QED
    BY <1>1, <2>1 DEF TypeOK, FailedHasNoCalls, Failing, Message, failVars
<1>2. CASE ~aborted
  <2>1. Fail /\ aborted' = TRUE /\ inClosed' = TRUE
    BY <1>2 DEF Abort
  <2>2. QED
    BY <2>1, FailIsFailing
<1>3. QED
  BY <1>1, <1>2

-----------------------------------------------------------------------------
USE GuestAssumption DEF Id, Holder, clientVars, failVars, writeVars, guestVars, readerVars, Message

\* A guest that is connected to, with nobody registered but the host itself.
LEMMA InitInvariant == Init => ProcessInvariant
<1> SUFFICES ASSUME Init PROVE ProcessInvariant
  OBVIOUS
<1>1. TypeOK
  <2>1. frames \in Seq(Holder)
    BY DEF Init
  <2>2. at \in [Call -> CallPhases] /\ stopAt \in [Stop -> StopPhases]
    BY DEF Init, CallPhases, StopPhases
  <2>3. QED
    BY <2>1, <2>2 DEF Init, TypeOK
<1>2. Answering
  BY DEF Init, Answering, OneResponse, FailedHasNoCalls, Empty, Expected
<1>3. Writing
  BY DEF Init, Writing, OneFrameAtATime
<1>4. Ended
  BY DEF Init, Ended, StopMeansExit, PeerClosed, Done
<1>5. QED
  BY <1>1, <1>2, <1>3, <1>4 DEF ProcessInvariant

\* Answering is kept by a step that fails the instance and touches no call,
\* stop or response in the reader's hands.
LEMMA FailingKeeps ==
  ASSUME TypeOK, Answering, Failing, UNCHANGED <<start, at, stopAt, holding>>
  PROVE  Answering'
BY DEF TypeOK, Answering, Failing, OneResponse, FailedHasNoCalls, Empty, Expected

\* And by one that touches neither registration nor channels.
LEMMA SilentKeeps ==
  ASSUME TypeOK, Answering, UNCHANGED <<start, at, stopAt, holding, failVars>>
  PROVE  Answering'
BY DEF TypeOK, Answering, OneResponse, FailedHasNoCalls, Empty, Expected

\* Writing is kept by a step that leaves writers, gate and phases alone.
LEMMA UnwrittenKeeps ==
  ASSUME Writing, UNCHANGED <<gate, writers, at, stopAt>>, inClosed => inClosed'
  PROVE  Writing'
BY DEF Writing, OneFrameAtATime, Phase

\* Ended is kept by a step that leaves the stops and the end of the guest alone.
LEMMA NotEndedKeeps ==
  ASSUME Ended, UNCHANGED <<stopAt, watcher, guest, exitErr>>
  PROVE  Ended'
BY DEF Ended, StopMeansExit, PeerClosed, Done

\* The guest reads, works, answers, fails and ends.
LEMMA GuestKeeps ==
  ASSUME ProcessInvariant, GuestStep
  PROVE  ProcessInvariant'
<1> USE DEF ProcessInvariant
<1>1. UNCHANGED <<start, at, stopAt, holding, failVars, gate, writers, inClosed, watcher>>
  BY DEF GuestStep, GuestReady, GuestReads, GuestInputEnds, GuestTraps, GuestExits, GuestReplies
<1>2. Answering' /\ Writing'
  BY <1>1, SilentKeeps, UnwrittenKeeps
<1>3. TypeOK'
  <2>1. CASE GuestReady
    BY <2>1 DEF TypeOK, GuestReady
  <2>2. CASE GuestReads
    <3>1. frames \in Seq(Holder) /\ frames # <<>>
      BY <2>2 DEF TypeOK, GuestReads
    <3>2. Tail(frames) \in Seq(Holder) /\ Head(frames) \in Holder
      BY <3>1
    <3>3. QED
      BY <2>2, <3>2 DEF TypeOK, GuestReads
  <2>3. CASE GuestInputEnds
    BY <2>3 DEF TypeOK, GuestInputEnds
  <2>4. CASE GuestTraps
    BY <2>4 DEF TypeOK, GuestTraps
  <2>5. CASE GuestExits
    <3>1. /\ exitErr' \in BOOLEAN /\ guest' = "exited" /\ working' = {}
          /\ replies' \in {replies \cup {Hello}, replies}
      BY <2>5 DEF GuestExits
    <3>2. UNCHANGED <<start, at, stopAt, failVars, stopping, aborted, inClosed, writeVars, readerVars, watcher>>
      BY <2>5, Zenon DEF GuestExits, clientVars
    <3>3. QED
      BY <3>1, <3>2 DEF TypeOK, Id, failVars, writeVars, readerVars
  <2>6. CASE \E c \in Call : GuestReplies(c)
    BY <2>6 DEF TypeOK, GuestReplies
  <2>7. QED
    BY <2>1, <2>2, <2>3, <2>4, <2>5, <2>6 DEF GuestStep
<1>4. Ended'
  <2>1. CASE GuestExits
    <3>1. guest # "exited" /\ guest' = "exited" /\ UNCHANGED <<stopAt, watcher>>
      BY <2>1 DEF GuestExits
    <3>2. ~PeerClosed
      BY <3>1 DEF Ended
    <3>3. QED
      BY <3>1, <3>2 DEF Ended, StopMeansExit, PeerClosed, Done
  <2>2. CASE GuestStep /\ ~GuestExits
    <3>1. (guest # "exited" \/ UNCHANGED guest) /\ UNCHANGED <<stopAt, watcher, exitErr>>
      BY <2>2 DEF GuestStep, GuestReady, GuestReads, GuestInputEnds, GuestTraps, GuestReplies
    <3>2. QED
      BY <3>1 DEF Ended, StopMeansExit, PeerClosed, Done
  <2>3. QED
    BY <2>1, <2>2
<1>5. QED
  BY <1>2, <1>3, <1>4

\* The reader takes responses, delivers them, and fails.
LEMMA ReaderKeeps ==
  ASSUME ProcessInvariant, ReaderStep
  PROVE  ProcessInvariant'
<1> USE DEF ProcessInvariant
<1>1. OneResponse /\ FailedHasNoCalls
  BY DEF Answering
<1>2. CASE ReadInvalid
  <2>1. Failing /\ aborted' = TRUE /\ inClosed' = TRUE
    BY <1>1, <1>2, AbortIsFailing DEF ReadInvalid
  <2>2. UNCHANGED <<start, at, stopAt, holding, gate, writers, watcher, guest, exitErr, stopping,
                    frames, working, replies>> /\ readDone' = TRUE
    BY <1>2 DEF ReadInvalid
  <2>3. TypeOK'
    BY <2>1, <2>2 DEF TypeOK, Failing
  <2>4. QED
    BY <2>1, <2>2, <2>3, FailingKeeps, UnwrittenKeeps, NotEndedKeeps
<1>3. CASE ReadFails
  <2>1. Failing /\ (inClosed => inClosed') /\ (aborted' => inClosed') /\ aborted' \in BOOLEAN /\ inClosed' \in BOOLEAN
    <3>1. CASE stopping
      BY <1>1, <1>3, <3>1, FailIsFailing DEF ReadFails, TypeOK
    <3>2. CASE ~stopping
      BY <1>1, <1>3, <3>2, AbortIsFailing DEF ReadFails
    <3>3. QED
      BY <3>1, <3>2
  <2>2. UNCHANGED <<start, at, stopAt, holding, gate, writers, watcher, guest, exitErr, stopping,
                    frames, working, replies>> /\ readDone' = TRUE
    BY <1>3 DEF ReadFails
  <2>3. TypeOK'
    BY <2>1, <2>2 DEF TypeOK, Failing
  <2>4. QED
    BY <2>1, <2>2, <2>3, FailingKeeps, UnwrittenKeeps, NotEndedKeeps
<1>4. ASSUME NEW i \in Id, Read(i) PROVE ProcessInvariant'
  <2>1. UNCHANGED <<start, at, stopAt, gate, writers, watcher, guest, exitErr, stopping,
                    frames, working>> /\ replies' = replies \ {i}
    BY <1>4 DEF Read
  <2>2. CASE i \in pending
    <3>1. /\ holding = {} /\ holding' = {i} /\ pending' = pending \ {i}
          /\ UNCHANGED <<failure, box, aborted, inClosed, readDone>>
      BY <1>4, <2>2 DEF Read
    <3>2. TypeOK'
      BY <2>1, <3>1 DEF TypeOK
    <3>3. Answering'
      BY <2>1, <2>2, <3>1 DEF TypeOK, Answering, OneResponse, FailedHasNoCalls, Empty, Expected
    <3>4. QED
      BY <2>1, <3>1, <3>2, <3>3, UnwrittenKeeps, NotEndedKeeps
  <2>3. CASE i \notin pending
    <3>1. Failing /\ aborted' = TRUE /\ inClosed' = TRUE /\ UNCHANGED holding /\ readDone' = TRUE
      BY <1>1, <1>4, <2>3, AbortIsFailing DEF Read
    <3>2. TypeOK'
      BY <2>1, <3>1 DEF TypeOK, Failing
    <3>3. QED
      BY <2>1, <3>1, <3>2, FailingKeeps, UnwrittenKeeps, NotEndedKeeps
  <2>4. QED
    BY <2>2, <2>3
<1>5. ASSUME NEW i \in Id, Deliver(i) PROVE ProcessInvariant'
  <2>1. /\ i \in holding /\ holding' = {} /\ box' = [box EXCEPT ![i] = Put(i, "answer")]
        /\ UNCHANGED <<clientVars, failure, pending, stopping, aborted, inClosed, writeVars,
                       guestVars, readDone, watcher>>
    BY <1>5 DEF Deliver
  <2>2. Put(i, "answer") = "answer"
    BY <1>1, <2>1 DEF OneResponse, Put
  <2>3. TypeOK'
    BY <2>1, <2>2 DEF TypeOK
  <2>4. Answering'
    BY <2>1, <2>2 DEF TypeOK, Answering, OneResponse, FailedHasNoCalls, Empty, Expected
  <2>5. QED
    BY <2>1, <2>3, <2>4, UnwrittenKeeps, NotEndedKeeps
<1>6. QED
  BY <1>2, <1>3, <1>4, <1>5 DEF ReaderStep

\* The watcher notices, joins and closes.
LEMMA WatcherKeeps ==
  ASSUME ProcessInvariant, WatcherStep
  PROVE  ProcessInvariant'
<1> USE DEF ProcessInvariant
<1>1. OneResponse /\ FailedHasNoCalls
  BY DEF Answering
<1>2. UNCHANGED <<start, at, stopAt, holding, gate, writers, guest, exitErr, stopping, frames,
                  working, replies, readDone>>
  BY DEF WatcherStep, WatchTrap, WatchExit, WatchDone, WatchOver
<1>3. /\ watcher' \in {"noticed", "joining", "closed", "over"}
      /\ Done => Done'
      /\ PeerClosed' => guest = "exited"
  BY DEF WatcherStep, WatchTrap, WatchExit, WatchDone, WatchOver, Done, PeerClosed, Ended
<1>4. Ended'
  BY <1>2, <1>3 DEF Ended, StopMeansExit
<1>5. CASE UNCHANGED <<failVars, aborted, inClosed>>
  <2>1. TypeOK'
    BY <1>2, <1>3, <1>5 DEF TypeOK
  <2>2. QED
    BY <1>2, <1>4, <1>5, <2>1, SilentKeeps, UnwrittenKeeps
<1>6. CASE Abort
  <2>1. Failing /\ aborted' = TRUE /\ inClosed' = TRUE
    BY <1>1, <1>6, AbortIsFailing
  <2>2. TypeOK'
    BY <1>2, <1>3, <2>1 DEF TypeOK, Failing
  <2>3. QED
    BY <1>2, <1>4, <2>1, <2>2, FailingKeeps, UnwrittenKeeps
<1>7. CASE Fail /\ UNCHANGED <<aborted, inClosed>>
  <2>1. Failing
    BY <1>1, <1>7, FailIsFailing
  <2>2. TypeOK'
    BY <1>2, <1>3, <1>7, <2>1 DEF TypeOK, Failing
  <2>3. QED
    BY <1>2, <1>4, <1>7, <2>1, <2>2, FailingKeeps, UnwrittenKeeps
<1>8. QED
  BY <1>5, <1>6, <1>7 DEF WatcherStep, WatchTrap, WatchExit, WatchDone, WatchOver

\* The host connects, or gives up.
LEMMA StartKeeps ==
  ASSUME ProcessInvariant, StartStep
  PROVE  ProcessInvariant'
<1> USE DEF ProcessInvariant
<1>1. CASE Connected
  <2>1. /\ start = "connecting" /\ start' = "ready" /\ box[Hello] = "answer"
        /\ box' = [box EXCEPT ![Hello] = "empty"]
        /\ UNCHANGED <<at, stopAt, failure, pending, stopping, aborted, inClosed, writeVars,
                       guestVars, readerVars, watcher>>
    BY <1>1 DEF Connected
  <2>2. TypeOK'
    BY <2>1 DEF TypeOK
  <2>3. Answering'
    BY <2>1 DEF TypeOK, Answering, OneResponse, FailedHasNoCalls, Empty, Expected
  <2>4. QED
    BY <2>1, <2>2, <2>3, UnwrittenKeeps, NotEndedKeeps
<1>2. CASE ConnectAborts
  <2>1. Failing /\ aborted' = TRUE /\ inClosed' = TRUE
    BY <1>2, AbortIsFailing DEF ConnectAborts, Answering
  <2>2. /\ start = "connecting" /\ start' = "aborting"
        /\ UNCHANGED <<at, stopAt, stopping, writeVars, guestVars, readerVars, watcher>>
    BY <1>2 DEF ConnectAborts
  <2>3. TypeOK'
    BY <2>1, <2>2 DEF TypeOK, Failing
  <2>4. Answering'
    BY <2>1, <2>2 DEF TypeOK, Answering, Failing, OneResponse, FailedHasNoCalls, Empty, Expected
  <2>5. QED
    BY <2>1, <2>2, <2>3, <2>4, UnwrittenKeeps, NotEndedKeeps
<1>3. CASE ConnectFails
  <2>1. /\ start = "aborting" /\ start' = "failed"
        /\ UNCHANGED <<at, stopAt, failVars, stopping, aborted, inClosed, writeVars, guestVars,
                       readerVars, watcher>>
    BY <1>3 DEF ConnectFails
  <2>2. TypeOK' /\ Answering'
    BY <2>1 DEF TypeOK, Answering, OneResponse, FailedHasNoCalls, Empty, Expected
  <2>3. QED
    BY <2>1, <2>2, UnwrittenKeeps, NotEndedKeeps
<1>4. QED
  BY <1>1, <1>2, <1>3 DEF StartStep

\* A call registers, receives its response, or gives up.
LEMMA CallKeeps ==
  ASSUME ProcessInvariant, NEW c \in Call, Begin(c) \/ Receive(c) \/ CallExpires(c)
  PROVE  ProcessInvariant'
<1> USE DEF ProcessInvariant
<1>1. UNCHANGED <<start, stopAt, stopping, writeVars, guestVars, readerVars, watcher>>
  BY DEF Begin, Receive, CallExpires
<1>2. Ended'
  BY <1>1, NotEndedKeeps
<1>3. CASE Begin(c)
  <2>1. /\ at[c] = "new" /\ UNCHANGED <<failure, box, aborted, inClosed>>
        /\ \/ at' = [at EXCEPT ![c] = "failed"] /\ pending' = pending
           \/ ~failure /\ at' = [at EXCEPT ![c] = "gate"] /\ pending' = pending \cup {c}
    BY <1>3 DEF Begin
  <2>2. TypeOK'
    BY <1>1, <2>1 DEF TypeOK, CallPhases
  <2>3. Answering'
    BY <1>1, <2>1 DEF TypeOK, Answering, OneResponse, FailedHasNoCalls, Empty, Expected
  <2>4. Writing'
    BY <1>1, <2>1 DEF TypeOK, Writing, OneFrameAtATime, Phase
  <2>5. QED
    BY <1>2, <2>2, <2>3, <2>4
<1>4. CASE Receive(c)
  <2>1. /\ at[c] = "waiting" /\ box[c] # "empty"
        /\ \E p \in {"answered", "failed"} : at' = [at EXCEPT ![c] = p]
        /\ box' = [box EXCEPT ![c] = "empty"]
        /\ UNCHANGED <<failure, pending, aborted, inClosed>>
    BY <1>4 DEF Receive
  <2>2. TypeOK'
    BY <1>1, <2>1 DEF TypeOK, CallPhases
  <2>3. Answering'
    BY <1>1, <2>1 DEF TypeOK, Answering, OneResponse, FailedHasNoCalls, Empty, Expected
  <2>4. Writing'
    BY <1>1, <2>1 DEF TypeOK, Writing, OneFrameAtATime, Phase
  <2>5. QED
    BY <1>2, <2>2, <2>3, <2>4
<1>5. CASE CallExpires(c)
  <2>1. Failing /\ aborted' = TRUE /\ inClosed' = TRUE
    BY <1>5, AbortIsFailing DEF CallExpires, Answering
  <2>2. at[c] = "waiting" /\ at' = [at EXCEPT ![c] = "failed"]
    BY <1>5 DEF CallExpires
  <2>3. TypeOK'
    BY <1>1, <2>1, <2>2 DEF TypeOK, Failing, CallPhases
  <2>4. Answering'
    BY <1>1, <2>1, <2>2 DEF TypeOK, Answering, Failing, OneResponse, FailedHasNoCalls, Empty, Expected
  <2>5. Writing'
    BY <1>1, <2>1, <2>2 DEF TypeOK, Writing, OneFrameAtATime, Phase
  <2>6. QED
    BY <1>2, <2>3, <2>4, <2>5
<1>6. QED
  BY <1>3, <1>4, <1>5

\* A frame is written, or not.
LEMMA WriteKeeps ==
  ASSUME ProcessInvariant, NEW h \in Holder,
         TakeGate(h) \/ Written(h) \/ WriteFails(h) \/ WriteExpires(h)
  PROVE  ProcessInvariant'
<1> USE DEF ProcessInvariant
<1>1. OneResponse /\ FailedHasNoCalls
  BY DEF Answering
<1>2. UNCHANGED <<start, stopping, guestVars, readerVars, watcher>>
  BY DEF TakeGate, Written, WriteFails, WriteExpires
<1>3. CASE TakeGate(h)
  <2>1. /\ Phase(h) = "gate" /\ gate = NoOne /\ gate' = h /\ writers' = writers \cup {h}
        /\ Becomes(h, "writing")
        /\ UNCHANGED <<failVars, aborted, inClosed, frames>>
    BY <1>3 DEF TakeGate
  <2>2. TypeOK'
    BY <1>2, <2>1 DEF TypeOK, Becomes, Phase, CallPhases, StopPhases
  <2>3. Answering'
    BY <1>2, <2>1 DEF TypeOK, Answering, OneResponse, FailedHasNoCalls, Empty, Expected, Becomes, Phase
  <2>4. Writing'
    BY <1>2, <2>1 DEF TypeOK, Writing, OneFrameAtATime, Phase, Becomes
  <2>5. Ended'
    BY <1>2, <2>1 DEF TypeOK, Ended, StopMeansExit, PeerClosed, Done, Becomes
  <2>6. QED
    BY <2>2, <2>3, <2>4, <2>5
<1>4. CASE Written(h)
  <2>1. /\ h \in writers /\ ~inClosed /\ gate' = NoOne /\ writers' = writers \ {h}
        /\ frames' = Append(frames, h)
        /\ Becomes(h, IF h \in Call THEN "waiting" ELSE "sent")
        /\ UNCHANGED <<failVars, aborted, inClosed>>
    BY <1>4 DEF Written
  <2>2. gate = h /\ writers = {h} /\ Phase(h) = "writing"
    BY <2>1 DEF Writing, OneFrameAtATime
  <2>3. frames' \in Seq(Holder)
    BY <2>1 DEF TypeOK
  <2>4. TypeOK'
    BY <1>2, <2>1, <2>3 DEF TypeOK, Becomes, CallPhases, StopPhases
  <2>5. Answering'
    BY <1>2, <2>1, <2>2 DEF TypeOK, Answering, OneResponse, FailedHasNoCalls, Empty, Expected, Becomes, Phase
  <2>6. Writing'
    BY <2>1, <2>2 DEF Writing, OneFrameAtATime
  <2>7. Ended'
    BY <1>2, <2>1 DEF TypeOK, Ended, StopMeansExit, PeerClosed, Done, Becomes
  <2>8. QED
    BY <2>4, <2>5, <2>6, <2>7
<1>5. ASSUME Phase(h) \in {"gate", "writing"}, Abort, Becomes(h, WriteError(h)),
             gate' \in {gate, NoOne}, gate = h => gate' = NoOne,
             writers' \subseteq writers, UNCHANGED frames
      PROVE  ProcessInvariant'
  <2>1. Failing /\ aborted' = TRUE /\ inClosed' = TRUE
    BY <1>1, <1>5, AbortIsFailing
  <2>2. TypeOK'
    <3>1. at' \in [Call -> CallPhases] /\ stopAt' \in [Stop -> StopPhases]
      BY <1>5 DEF TypeOK, Becomes, WriteError, CallPhases, StopPhases
    <3>2. /\ failure' = TRUE /\ pending' \subseteq Id
          /\ box' \in [Id -> {"empty", "answer", "error", "overfull"}]
      BY <2>1 DEF TypeOK, Failing, Message
    <3>3. /\ gate' \in Holder \cup {NoOne} /\ writers' \subseteq Holder
          /\ frames' \in Seq(Holder)
      BY <1>5 DEF TypeOK
    <3>4. QED
      BY <1>2, <2>1, <3>1, <3>2, <3>3 DEF TypeOK, guestVars, readerVars
  <2>3. Answering'
    BY <1>2, <1>5, <2>1 DEF TypeOK, Answering, Failing, OneResponse, FailedHasNoCalls, Empty,
       Expected, Becomes, Phase, WriteError
  <2>4. Writing'
    BY <1>5, <2>1 DEF TypeOK, Writing, OneFrameAtATime, Phase, Becomes
  <2>5. Ended'
    BY <1>2, <1>5 DEF TypeOK, Ended, StopMeansExit, PeerClosed, Done, Becomes, WriteError
  <2>6. QED
    BY <2>2, <2>3, <2>4, <2>5
<1>6. CASE WriteFails(h)
  <2>1. CASE Phase(h) = "writing"
    BY <1>5, <1>6, <2>1 DEF WriteFails
  <2>2. CASE Phase(h) # "writing"
    <3>1. /\ h \in writers /\ writers' = writers \ {h}
          /\ UNCHANGED <<failVars, aborted, inClosed, gate, at, stopAt, frames>>
      BY <1>6, <2>2 DEF WriteFails
    <3>2. inClosed
      BY <2>2, <3>1 DEF TypeOK, Writing, OneFrameAtATime
    <3>3. TypeOK'
      BY <1>2, <3>1 DEF TypeOK
    <3>4. Writing'
      BY <3>1, <3>2 DEF Writing, OneFrameAtATime, Phase
    <3>5. QED
      BY <1>2, <3>1, <3>3, <3>4, SilentKeeps, NotEndedKeeps
  <2>3. QED
    BY <2>1, <2>2
<1>7. CASE WriteExpires(h)
  BY <1>5, <1>7 DEF WriteExpires
<1>8. QED
  BY <1>3, <1>4, <1>6, <1>7

\* Shutdown and Export.
LEMMA StopKeeps ==
  ASSUME ProcessInvariant, NEW s \in Stop,
         \/ StopBegins(s) \/ StopChecks(s) \/ StopSent(s) \/ StopAcknowledged(s)
         \/ StopRejected(s) \/ StopJoins(s) \/ StopExpires(s) \/ StopAborted(s)
  PROVE  ProcessInvariant'
<1> USE DEF ProcessInvariant
<1>1. OneResponse /\ FailedHasNoCalls
  BY DEF Answering
<1>2. UNCHANGED <<start, at, writeVars, guestVars, readerVars, watcher>>
  BY DEF StopBegins, StopChecks, StopSent, StopAcknowledged, StopRejected, StopJoins, StopExpires,
     StopAborted
<1>3. CASE StopBegins(s)
  <2>1. /\ start = "ready" /\ stopAt[s] = "idle" /\ stopping' = TRUE
        /\ \E p \in {"joining", "check"} :
             stopAt' = [stopAt EXCEPT ![s] = p] /\ (s \in Export => p = "check")
        /\ UNCHANGED <<failure, aborted, inClosed>>
        /\ \/ /\ s \in Export /\ pending' = pending \cup {Hello}
              /\ box' = [box EXCEPT ![Hello] = "empty"]
           \/ s \notin Export /\ UNCHANGED <<pending, box>>
    BY <1>3 DEF StopBegins
  <2>2. s \in Export => Hello \notin pending \cup holding
    BY <2>1 DEF Answering
  <2>3. TypeOK'
    BY <1>2, <2>1 DEF TypeOK, StopPhases
  <2>4. Answering'
    BY <1>2, <2>1, <2>2 DEF TypeOK, Answering, OneResponse, FailedHasNoCalls, Empty, Expected
  <2>5. Writing'
    BY <1>2, <2>1 DEF TypeOK, Writing, OneFrameAtATime, Phase
  <2>6. Ended'
    BY <1>2, <2>1 DEF TypeOK, Ended, StopMeansExit, PeerClosed, Done
  <2>7. QED
    BY <2>3, <2>4, <2>5, <2>6
<1>4. CASE StopChecks(s)
  <2>1. /\ stopAt[s] = "check" /\ UNCHANGED <<failVars, stopping, aborted, inClosed>>
        /\ \E p \in {"gate", "error", "ok"} :
             stopAt' = [stopAt EXCEPT ![s] = p] /\ (p = "ok" => Done /\ s \notin Export)
    BY <1>4 DEF StopChecks
  <2>2. TypeOK'
    BY <1>2, <2>1 DEF TypeOK, StopPhases
  <2>3. Answering'
    BY <1>2, <2>1 DEF TypeOK, Answering, OneResponse, FailedHasNoCalls, Empty, Expected
  <2>4. Writing'
    BY <1>2, <2>1 DEF TypeOK, Writing, OneFrameAtATime, Phase
  <2>5. Ended'
    BY <1>2, <2>1 DEF TypeOK, Ended, StopMeansExit, PeerClosed, Done
  <2>6. QED
    BY <2>2, <2>3, <2>4, <2>5
<1>5. CASE StopSent(s)
  <2>1. /\ stopAt[s] = "sent" /\ inClosed' = TRUE /\ UNCHANGED <<failVars, stopping, aborted>>
        /\ stopAt' = [stopAt EXCEPT ![s] = IF s \in Export THEN "ack" ELSE "exit"]
    BY <1>5 DEF StopSent
  <2>2. TypeOK'
    BY <1>2, <2>1 DEF TypeOK, StopPhases
  <2>3. Answering'
    BY <1>2, <2>1 DEF TypeOK, Answering, OneResponse, FailedHasNoCalls, Empty, Expected
  <2>4. Writing'
    BY <1>2, <2>1 DEF TypeOK, Writing, OneFrameAtATime, Phase
  <2>5. Ended'
    BY <1>2, <2>1 DEF TypeOK, Ended, StopMeansExit, PeerClosed, Done
  <2>6. QED
    BY <2>2, <2>3, <2>4, <2>5
<1>6. CASE StopAcknowledged(s)
  <2>1. /\ stopAt[s] = "ack" /\ box[Hello] = "answer" /\ box' = [box EXCEPT ![Hello] = "empty"]
        /\ stopAt' = [stopAt EXCEPT ![s] = "exit"]
        /\ UNCHANGED <<failure, pending, stopping, aborted, inClosed>>
    BY <1>6 DEF StopAcknowledged
  <2>2. \A t \in Export : t = s
    BY <2>1 DEF Ended
  <2>3. TypeOK'
    BY <1>2, <2>1 DEF TypeOK, StopPhases
  <2>4. Answering'
    BY <1>2, <2>1, <2>2 DEF TypeOK, Answering, OneResponse, FailedHasNoCalls, Empty, Expected
  <2>5. Writing'
    BY <1>2, <2>1 DEF TypeOK, Writing, OneFrameAtATime, Phase
  <2>6. Ended'
    BY <1>2, <2>1 DEF TypeOK, Ended, StopMeansExit, PeerClosed, Done
  <2>7. QED
    BY <2>3, <2>4, <2>5, <2>6
<1>7. ASSUME Abort, UNCHANGED stopping,
             NEW p \in {"aborting", "error"}, stopAt[s] \in {"ack", "exit"},
             stopAt' = [stopAt EXCEPT ![s] = p]
      PROVE  ProcessInvariant'
  <2>1. Failing /\ aborted' = TRUE /\ inClosed' = TRUE
    BY <1>1, <1>7, AbortIsFailing
  <2>2. TypeOK'
    BY <1>2, <1>7, <2>1 DEF TypeOK, Failing, StopPhases
  <2>3. Answering'
    BY <1>2, <1>7, <2>1 DEF TypeOK, Answering, Failing, OneResponse, FailedHasNoCalls, Empty, Expected
  <2>4. Writing'
    BY <1>2, <1>7, <2>1 DEF TypeOK, Writing, OneFrameAtATime, Phase
  <2>5. Ended'
    BY <1>2, <1>7 DEF TypeOK, Ended, StopMeansExit, PeerClosed, Done
  <2>6. QED
    BY <2>2, <2>3, <2>4, <2>5
<1>8. CASE StopRejected(s)
  BY <1>7, <1>8 DEF StopRejected
<1>9. ASSUME UNCHANGED <<failVars, stopping, aborted, inClosed>>,
             NEW p \in {"ok", "error"}, stopAt[s] \in {"joining", "exit", "aborting"},
             stopAt' = [stopAt EXCEPT ![s] = p],
             p = "ok" => Done /\ (stopAt[s] = "joining" \/ ~exitErr)
      PROVE  ProcessInvariant'
  <2>1. TypeOK'
    BY <1>2, <1>9 DEF TypeOK, StopPhases
  <2>2. Answering'
    BY <1>2, <1>9 DEF TypeOK, Answering, OneResponse, FailedHasNoCalls, Empty, Expected
  <2>3. Writing'
    BY <1>2, <1>9 DEF TypeOK, Writing, OneFrameAtATime, Phase
  <2>4. Ended'
    BY <1>2, <1>9 DEF TypeOK, Ended, StopMeansExit, PeerClosed, Done
  <2>5. QED
    BY <2>1, <2>2, <2>3, <2>4
<1>10. CASE StopJoins(s)
  BY <1>9, <1>10 DEF StopJoins
<1>11. CASE StopExpires(s)
  BY <1>7, <1>9, <1>11 DEF StopExpires
<1>12. CASE StopAborted(s)
  BY <1>9, <1>12 DEF StopAborted
<1>13. QED
  BY <1>3, <1>4, <1>5, <1>6, <1>8, <1>10, <1>11, <1>12

\* Every step keeps the invariant.
LEMMA NextKeeps == ProcessInvariant /\ [Next]_vars => ProcessInvariant'
<1> SUFFICES ASSUME ProcessInvariant, [Next]_vars PROVE ProcessInvariant'
  OBVIOUS
<1>1. CASE Next
  <2>1. CASE WriteStep
    BY <2>1, WriteKeeps DEF WriteStep
  <2>2. CASE CallStep
    BY <2>2, CallKeeps DEF CallStep
  <2>3. CASE StopStep
    BY <2>3, StopKeeps DEF StopStep
  <2>4. QED
    BY <1>1, <2>1, <2>2, <2>3, GuestKeeps, ReaderKeeps, WatcherKeeps, StartKeeps DEF Next
<1>2. CASE UNCHANGED vars
  <2>1. TypeOK'
    BY <1>2 DEF vars, ProcessInvariant, TypeOK
  <2>2. QED
    BY <1>2, <2>1, SilentKeeps, UnwrittenKeeps, NotEndedKeeps DEF vars, ProcessInvariant
<1>3. QED
  BY <1>1, <1>2

\* The inductive invariant holds in every state of every Process.
THEOREM Invariance == Spec => []ProcessInvariant
<1>1. QED
  BY InitInvariant, NextKeeps, PTL DEF Spec

\* Variables keep their types, and abort.Do leaves a failed instance with a
\* closed input.
THEOREM TypeCorrect == Spec => []TypeOK
<1>1. ProcessInvariant => TypeOK
  BY DEF ProcessInvariant
<1>2. QED
  BY <1>1, Invariance, PTL

\* No send to a response channel blocks: fail, holding Process.mu, and the
\* reader, without it, never both answer the same call.
THEOREM ResponseSentOnce == Spec => []OneResponse
<1>1. ProcessInvariant => OneResponse
  BY DEF ProcessInvariant, Answering
<1>2. QED
  BY <1>1, Invariance, PTL

\* A call or export that waits for a response is registered, or its response
\* is on the way or there.
THEOREM ResponseNotLost == Spec => []NoCallForgotten
<1>1. ProcessInvariant => NoCallForgotten
  BY DEF ProcessInvariant, Answering, Expected, NoCallForgotten
<1>2. QED
  BY <1>1, Invariance, PTL

\* Nobody can register with a failed instance, so nobody is left registered.
THEOREM FailureIsComplete == Spec => []FailedHasNoCalls
<1>1. ProcessInvariant => FailedHasNoCalls
  BY DEF ProcessInvariant, Answering
<1>2. QED
  BY <1>1, Invariance, PTL

\* Two frames are never written at once while the guest can still read.
THEOREM FramesDoNotMix == Spec => []OneFrameAtATime
<1>1. ProcessInvariant => OneFrameAtATime
  BY DEF ProcessInvariant, Writing
<1>2. QED
  BY <1>1, Invariance, PTL

\* Shutdown and Export succeed only after the guest has been joined, Export
\* only when it ended without an error.
THEOREM StopIsExit == Spec => []StopMeansExit
<1>1. ProcessInvariant => StopMeansExit
  BY DEF ProcessInvariant, Ended
<1>2. QED
  BY <1>1, Invariance, PTL

-----------------------------------------------------------------------------
(* The promise of GuestCalls                                               *)

Inside == {"gate", "writing", "waiting"}
Running == {c \in Call : at[c] \in Inside}
Outcome == [c \in Call |-> IF at[c] = "answered" THEN "answer"
                           ELSE IF at[c] = "failed" THEN "error" ELSE "none"]
Promised == [GuestPromise!Next]_(GuestPromise!callVars)

\* A step that moves no call is a stutter, a failure, or a stop.
LEMMA NoCallMoves ==
  ASSUME UNCHANGED <<Running, Outcome>>,
         \/ UNCHANGED <<failure, stopping>>
         \/ failure' = TRUE /\ UNCHANGED stopping
         \/ stopping' = TRUE /\ UNCHANGED failure
  PROVE  Promised
BY DEF Running, Outcome, Inside, Promised, GuestPromise!Next, GuestPromise!callVars,
   GuestPromise!Fail, GuestPromise!Stopping

\* A call that leaves by an error, in an instance that has failed by then.
LEMMA CallErrs ==
  ASSUME TypeOK, NEW c \in Call, at[c] \in Inside, at' = [at EXCEPT ![c] = "failed"],
         failure' = TRUE, UNCHANGED stopping
  PROVE  Promised
<1>1. Running' = Running \ {c} /\ c \in Running /\ Outcome' = [Outcome EXCEPT ![c] = "error"]
  BY DEF TypeOK, Running, Outcome, Inside
<1>2. GuestPromise!Error(c)
  BY <1>1 DEF GuestPromise!Error, Running, Outcome, Inside
<1>3. QED
  BY <1>2 DEF Promised, GuestPromise!Next

\* Call is refused, registers, and returns as GuestCalls says.
LEMMA CallPromised ==
  ASSUME ProcessInvariant, NEW c \in Call, Begin(c) \/ Receive(c) \/ CallExpires(c)
  PROVE  Promised
<1> USE DEF ProcessInvariant
<1>1. CASE Begin(c)
  <2>1. at[c] = "new" /\ UNCHANGED <<failure, stopping>>
    BY <1>1 DEF Begin
  <2>2. CASE failure \/ stopping
    <3>1. at' = [at EXCEPT ![c] = "failed"]
      BY <1>1, <2>2 DEF Begin
    <3>2. c \notin Running /\ Running' = Running /\ Outcome' = [Outcome EXCEPT ![c] = "error"]
      BY <2>1, <3>1 DEF TypeOK, Running, Outcome, Inside
    <3>3. GuestPromise!Refuse(c)
      BY <2>1, <2>2, <3>2 DEF GuestPromise!Refuse, Running, Outcome, Inside
    <3>4. QED
      BY <3>3 DEF Promised, GuestPromise!Next
  <2>3. CASE ~(failure \/ stopping)
    <3>1. at' = [at EXCEPT ![c] = "gate"]
      BY <1>1, <2>3 DEF Begin
    <3>2. /\ c \notin Running /\ Running' = Running \cup {c}
          /\ Outcome' = [Outcome EXCEPT ![c] = "none"]
      BY <2>1, <3>1 DEF TypeOK, Running, Outcome, Inside
    <3>3. GuestPromise!Begin(c)
      BY <2>1, <2>3, <3>2 DEF GuestPromise!Begin, Running, Outcome, Inside
    <3>4. QED
      BY <3>3 DEF Promised, GuestPromise!Next
  <2>4. QED
    BY <2>2, <2>3
<1>2. CASE Receive(c)
  <2>1. at[c] = "waiting" /\ box[c] # "empty" /\ UNCHANGED <<failure, stopping>>
    BY <1>2 DEF Receive
  <2>2. CASE box[c] = "answer"
    <3>1. at' = [at EXCEPT ![c] = "answered"]
      BY <1>2, <2>2 DEF Receive
    <3>2. /\ c \in Running /\ Running' = Running \ {c}
          /\ Outcome' = [Outcome EXCEPT ![c] = "answer"]
      BY <2>1, <3>1 DEF TypeOK, Running, Outcome, Inside
    <3>3. GuestPromise!Answer(c)
      BY <2>1, <3>2 DEF GuestPromise!Answer, Running, Outcome, Inside
    <3>4. QED
      BY <3>3 DEF Promised, GuestPromise!Next
  <2>3. CASE box[c] # "answer"
    <3>1. at' = [at EXCEPT ![c] = "failed"]
      BY <1>2, <2>3 DEF Receive
    <3>2. failure
      BY <2>1, <2>3 DEF TypeOK, Answering, OneResponse
    <3>3. QED
      BY <2>1, <3>1, <3>2, CallErrs DEF Inside, TypeOK
  <2>4. QED
    BY <2>2, <2>3
<1>3. CASE CallExpires(c)
  <2>1. Failing
    BY <1>3, AbortIsFailing DEF CallExpires, Answering
  <2>2. at[c] = "waiting" /\ at' = [at EXCEPT ![c] = "failed"] /\ UNCHANGED stopping
    BY <1>3 DEF CallExpires
  <2>3. QED
    BY <2>1, <2>2, CallErrs DEF Inside, Failing
<1>4. QED
  BY <1>1, <1>2, <1>3

\* A write moves its call only by an error.
LEMMA WritePromised ==
  ASSUME ProcessInvariant, NEW h \in Holder,
         TakeGate(h) \/ Written(h) \/ WriteFails(h) \/ WriteExpires(h)
  PROVE  Promised
<1> USE DEF ProcessInvariant
<1>1. UNCHANGED stopping
  BY DEF TakeGate, Written, WriteFails, WriteExpires
<1>2. ASSUME Phase(h) \in Inside, UNCHANGED failure,
             NEW p, p \in Inside \/ h \notin Call, Becomes(h, p)
      PROVE  Promised
  <2>1. UNCHANGED <<Running, Outcome>>
    BY <1>2 DEF TypeOK, Running, Outcome, Inside, Phase, Becomes
  <2>2. QED
    BY <1>1, <1>2, <2>1, NoCallMoves
<1>3. CASE TakeGate(h)
  <2>1. Phase(h) = "gate" /\ UNCHANGED failure /\ Becomes(h, "writing")
    BY <1>3 DEF TakeGate
  <2>2. QED
    BY <1>2, <2>1 DEF Inside
<1>4. CASE Written(h)
  <2>1. h \in writers /\ ~inClosed /\ UNCHANGED failure
        /\ Becomes(h, IF h \in Call THEN "waiting" ELSE "sent")
    BY <1>4 DEF Written
  <2>2. Phase(h) = "writing"
    BY <2>1 DEF Writing, OneFrameAtATime
  <2>3. QED
    BY <1>2, <2>1, <2>2 DEF Inside
<1>5. ASSUME Phase(h) \in {"gate", "writing"}, Abort, Becomes(h, WriteError(h))
      PROVE  Promised
  <2>1. failure' = TRUE
    BY <1>5, AbortIsFailing DEF Answering, Failing
  <2>2. CASE h \in Call
    <3>1. at[h] \in Inside /\ at' = [at EXCEPT ![h] = "failed"]
      BY <1>5, <2>2 DEF Phase, Becomes, WriteError, Inside
    <3>2. QED
      BY <1>1, <2>1, <2>2, <3>1, CallErrs
  <2>3. CASE h \notin Call
    <3>1. UNCHANGED at
      BY <1>5, <2>3 DEF Becomes
    <3>2. UNCHANGED <<Running, Outcome>>
      BY <3>1 DEF Running, Outcome
    <3>3. QED
      BY <1>1, <2>1, <3>2, NoCallMoves
  <2>4. QED
    BY <2>2, <2>3
<1>6. CASE WriteFails(h)
  <2>1. CASE Phase(h) = "writing"
    BY <1>5, <1>6, <2>1 DEF WriteFails
  <2>2. CASE Phase(h) # "writing"
    <3>1. UNCHANGED <<at, failure>>
      BY <1>6, <2>2 DEF WriteFails
    <3>2. UNCHANGED <<Running, Outcome>>
      BY <3>1 DEF Running, Outcome
    <3>3. QED
      BY <1>1, <3>1, <3>2, NoCallMoves
  <2>3. QED
    BY <2>1, <2>2
<1>7. CASE WriteExpires(h)
  BY <1>5, <1>7 DEF WriteExpires
<1>8. QED
  BY <1>3, <1>4, <1>6, <1>7

\* All other steps fail the instance, stop it, or do not concern the callers.
LEMMA OthersPromised ==
  ASSUME ProcessInvariant,
         \/ GuestStep \/ ReaderStep \/ WatcherStep \/ StartStep \/ StopStep \/ UNCHANGED vars
  PROVE  Promised
<1> USE DEF ProcessInvariant
<1>1. Fail \/ Abort => failure' = TRUE
  BY FailIsFailing, AbortIsFailing DEF Answering, Failing
<1>2. /\ UNCHANGED at
      /\ \/ UNCHANGED <<failure, stopping>>
         \/ failure' = TRUE /\ UNCHANGED stopping
         \/ stopping' = TRUE /\ UNCHANGED failure
  <2>1. CASE GuestStep
    BY <2>1 DEF GuestStep, GuestReady, GuestReads, GuestInputEnds, GuestTraps, GuestExits,
       GuestReplies
  <2>2. CASE ReaderStep
    BY <1>1, <2>2 DEF ReaderStep, ReadInvalid, ReadFails, Read, Deliver
  <2>3. CASE WatcherStep
    BY <1>1, <2>3 DEF WatcherStep, WatchTrap, WatchExit, WatchDone, WatchOver
  <2>4. CASE StartStep
    BY <1>1, <2>4 DEF StartStep, Connected, ConnectAborts, ConnectFails
  <2>5. CASE StopStep
    BY <1>1, <2>5 DEF StopStep, StopBegins, StopChecks, StopSent, StopAcknowledged, StopRejected,
       StopJoins, StopExpires, StopAborted
  <2>6. CASE UNCHANGED vars
    BY <2>6 DEF vars
  <2>7. QED
    BY <2>1, <2>2, <2>3, <2>4, <2>5, <2>6
<1>3. UNCHANGED <<Running, Outcome>>
  BY <1>2 DEF Running, Outcome
<1>4. QED
  BY <1>2, <1>3, NoCallMoves

\* guest.Process implements GuestCalls: whatever the interleaving of callers,
\* reader, watcher and stops, a Call that returns an error leaves an instance
\* that has failed or is stopping, and no call is accepted after that.
THEOREM KeepsPromise == Spec => Promise
<1>1. Init => GuestPromise!Init
  BY DEF Init, GuestPromise!Init
<1>2. ProcessInvariant /\ [Next]_vars => [GuestPromise!Next]_(GuestPromise!callVars)
  <2> SUFFICES ASSUME ProcessInvariant, [Next]_vars PROVE Promised
    BY DEF Promised
  <2>1. CASE WriteStep
    BY <2>1, WritePromised DEF WriteStep
  <2>2. CASE CallStep
    BY <2>2, CallPromised DEF CallStep
  <2>3. QED
    BY <2>1, <2>2, OthersPromised DEF Next
<1>3. QED
  BY <1>1, <1>2, Invariance, PTL DEF Spec, Promise, GuestPromise!Spec
=============================================================================
