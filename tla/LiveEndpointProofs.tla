------------------------- MODULE LiveEndpointProofs -------------------------
(***************************************************************************)
(* Proofs about LiveEndpoint for every number of children, connections and *)
(* every capacity, and about LivePool for every limit of its pool and any  *)
(* number of other Forks.                                                  *)
(***************************************************************************)
EXTENDS LivePool, FiniteSetTheorems, TLAPS

\* The parts of the invariant that need no counting.
Shape ==
  /\ TypeOK
  /\ ResetPhases
  /\ ConnectionsStayOnChild
  /\ NoClientsWhileReplacing
  /\ NoOrphanChild
  /\ ReadyIsClean
  /\ NoLostDrain

\* Two children, or fewer, are at most two.
LEMMA AtMostTwo ==
  ASSUME NEW a, NEW b, NEW S, S \subseteq {a, b}
  PROVE  IsFiniteSet(S) /\ Cardinality(S) <= 2
<1>1. IsFiniteSet({a}) /\ Cardinality({a}) = 1
  BY FS_Singleton
<1>2. IsFiniteSet({a} \cup {b}) /\ Cardinality({a} \cup {b}) \in {1, 2}
  BY <1>1, FS_AddElement
<1>3. {a} \cup {b} = {a, b}
  OBVIOUS
<1>4. IsFiniteSet(S) /\ Cardinality(S) <= Cardinality({a, b})
  BY <1>2, <1>3, FS_Subset
<1>5. Cardinality(S) \in Nat
  BY <1>4, FS_CardinalityType
<1>6. QED
  BY <1>2, <1>3, <1>4, <1>5

\* A new endpoint serves its first child and owes nothing.
LEMMA InitInvariant == Init => EndpointInvariant
<1> SUFFICES ASSUME Init PROVE EndpointInvariant
  OBVIOUS
<1>1. PICK first \in Child :
         \/ /\ state = "ready" /\ child = first /\ pending = {} /\ closeErr = FALSE
            /\ life = [x \in Child |-> IF x = first THEN "serving" ELSE "unborn"]
         \/ /\ state = "closed" /\ child = NoChild /\ pending = {first} /\ closeErr = TRUE
            /\ life = [x \in Child |-> IF x = first THEN "debt" ELSE "unborn"]
  BY DEF Init
<1>2. Shape
  BY <1>1, EndpointAssumption DEF Init, Shape, TypeOK, ResetPhases, ConnectionsStayOnChild,
     NoClientsWhileReplacing, NoOrphanChild, ReadyIsClean, NoLostDrain, Clients, Undisposed,
     States, Steps
<1>3. Undisposed \subseteq {first, first}
  BY <1>1 DEF Undisposed
<1>4. TwoSlotsSuffice
  BY <1>3, AtMostTwo DEF TwoSlotsSuffice
<1>5. QED
  BY <1>2, <1>4 DEF EndpointInvariant, Shape

USE DEF resetVars, relayVars

\* Connections come and go: nothing but the relay changes.
LEMMA RelayKeeps ==
  ASSUME Shape, NEW c \in Conn, Accept(c) \/ Dialed(c) \/ Leaves(c)
  PROVE  Shape' /\ Undisposed' = Undisposed
<1> USE DEF Shape, TypeOK, ResetPhases, ConnectionsStayOnChild, NoClientsWhileReplacing,
    NoOrphanChild, ReadyIsClean, NoLostDrain, Clients, Undisposed, Steps
<1>1. CASE Accept(c)
  BY <1>1 DEF Accept
<1>2. CASE Dialed(c)
  BY <1>2 DEF Dialed
<1>3. CASE Leaves(c)
  BY <1>3 DEF Leaves, Signal
<1>4. QED
  BY <1>1, <1>2, <1>3

\* A guest that dies stays a child to dispose of.
LEMMA DeathKeeps ==
  ASSUME Shape, NEW x \in Child, ChildDies(x)
  PROVE  Shape' /\ Undisposed' = Undisposed
BY EndpointAssumption DEF ChildDies, Shape, TypeOK, ResetPhases, ConnectionsStayOnChild,
   NoClientsWhileReplacing, NoOrphanChild, ReadyIsClean, NoLostDrain, Clients, Undisposed, Steps

\* failed() closes the replacement or keeps it pending, with nothing connected.
LEMMA FailKeeps ==
  ASSUME Shape, Fail(candidate), at \in {"startFailed", "retire", "commit"}
  PROVE  Shape' /\ Undisposed' \subseteq Undisposed
<1>1. PICK F \in SUBSET ({candidate} \ {NoChild}) :
         CloseChildren({candidate} \ {NoChild}, F) /\ pending' = pending \cup F
  BY DEF Fail
<1>2. /\ state' = "failed" /\ at' = "free" /\ candidate' = NoChild /\ parked' = FALSE
      /\ UNCHANGED <<generation, child, retired, closeErr, relayVars, previous, ctxDone>>
  BY DEF Fail, Signal
<1>3. state = "switching" /\ Clients = {} /\ pending = {} /\ child # NoChild
      /\ (candidate # NoChild => candidate # child /\ candidate \in Undisposed)
      /\ child \in Child
  BY DEF Shape, ResetPhases, NoClientsWhileReplacing, Steps, TypeOK
<1>4. \A x \in Child : x # candidate => life'[x] = life[x]
  BY <1>1 DEF CloseChildren
<1>5. candidate # NoChild => life'[candidate] = IF candidate \in F THEN "debt" ELSE "disposed"
  BY <1>1, <1>3 DEF CloseChildren, Undisposed
<1>6. TypeOK'
  BY <1>1, <1>2, <1>3, <1>4, <1>5 DEF Shape, TypeOK, States, CloseChildren, Undisposed
<1>7. Clients' = {}
  BY <1>2, <1>3 DEF Clients
<1>8. life'[child] = life[child]
  BY <1>3, <1>4
<1>9. ConnectionsStayOnChild' /\ NoClientsWhileReplacing' /\ ReadyIsClean' /\ NoLostDrain'
  BY <1>2, <1>7 DEF ConnectionsStayOnChild, NoClientsWhileReplacing, ReadyIsClean, NoLostDrain
<1>10. Undisposed' \subseteq Undisposed /\ NoOrphanChild' /\ pending' \subseteq Undisposed'
  BY <1>1, <1>2, <1>3, <1>4, <1>5 DEF Shape, NoOrphanChild, Undisposed, CloseChildren
<1>11. child \in Undisposed => child \in Undisposed'
  BY <1>2, <1>8 DEF Undisposed
<1>12. child \notin pending'
  BY <1>1, <1>3
<1>13. ResetPhases'
  BY <1>2, <1>3, <1>8, <1>10, <1>11, <1>12 DEF Shape, ResetPhases, Steps
<1>14. QED
  BY <1>6, <1>9, <1>10, <1>13 DEF Shape

\* The steps of Reset that close no child.
LEMMA QuietStepsKeep ==
  ASSUME Shape,
         ResetBegins \/ ContextEnds \/ Reserve \/ Drain \/ DrainWoken \/ DrainExpires \/ CloseBegins
  PROVE  Shape' /\ Undisposed' = Undisposed
<1> USE DEF Shape, TypeOK, ResetPhases, ConnectionsStayOnChild, NoClientsWhileReplacing,
    NoOrphanChild, ReadyIsClean, NoLostDrain, Clients, Undisposed, Steps, States
<1>1. CASE ResetBegins
  BY <1>1 DEF ResetBegins
<1>2. CASE ContextEnds
  BY <1>2 DEF ContextEnds
<1>3. CASE Reserve
  <2>1. CASE at' = "free"
    BY <1>3, <2>1 DEF Reserve, Signal
  <2>2. CASE at' = "drain" /\ state' = "draining" /\ Signal
    <3>1. TypeOK' /\ ConnectionsStayOnChild' /\ NoClientsWhileReplacing'
      BY <1>3, <2>2 DEF Reserve, Signal
    <3>2. ResetPhases' /\ NoOrphanChild' /\ ReadyIsClean' /\ NoLostDrain' /\ Undisposed' = Undisposed
      BY <1>3, <2>2 DEF Reserve, Signal
    <3>3. QED
      BY <3>1, <3>2
  <2>3. QED
    BY <1>3, <2>1, <2>2 DEF Reserve
<1>4. CASE Drain
  <2>1. CASE at' = "parked" /\ Clients # {} /\ parked' = TRUE /\ UNCHANGED state
    BY <1>4, <2>1 DEF Drain
  <2>2. CASE at' = "free" /\ Clients = {} /\ state' = previous /\ UNCHANGED parked
    BY <1>4, <2>2 DEF Drain
  <2>3. CASE at' = "switch" /\ Clients = {} /\ state' = "switching" /\ UNCHANGED parked
    BY <1>4, <2>3 DEF Drain
  <2>4. QED
    BY <1>4, <2>1, <2>2, <2>3 DEF Drain
<1>5. CASE DrainWoken
  BY <1>5 DEF DrainWoken
<1>6. CASE DrainExpires
  BY <1>6 DEF DrainExpires, Signal
<1>7. CASE CloseBegins
  BY <1>7 DEF CloseBegins, Signal
<1>8. QED
  BY <1>1, <1>2, <1>3, <1>4, <1>5, <1>6, <1>7

\* The retries of pending cleanup: by Reset before and after it reserved, and by
\* a repeated Close.
LEMMA RetriesKeep ==
  ASSUME Shape, RecoverPending \/ SwitchPending \/ CloseAgain
  PROVE  Shape' /\ Undisposed' \subseteq Undisposed
<1> USE DEF Shape, TypeOK, ResetPhases, ConnectionsStayOnChild, NoClientsWhileReplacing,
    NoOrphanChild, ReadyIsClean, NoLostDrain, Clients, Undisposed, Steps, States
<1>1. CASE RecoverPending
  BY <1>1, EndpointAssumption DEF RecoverPending, Cleanup, CloseChildren, CleanupErr
<1>2. CASE SwitchPending
  <2>1. pending = {} /\ life' = life /\ pending' = {} /\ state' = state /\ at' = "start"
        /\ at = "switch" /\ parked' = FALSE
        /\ UNCHANGED <<generation, child, retired, closeErr, relayVars, resetVars>>
    BY <1>2 DEF SwitchPending, Cleanup, CloseChildren, CleanupErr, Signal
  <2>2. QED
    BY <2>1
<1>3. CASE CloseAgain
  BY <1>3, EndpointAssumption DEF CloseAgain, Cleanup, CloseChildren
<1>4. QED
  BY <1>1, <1>2, <1>3

\* What closing the current child, or failing to, does to the others.
LEMMA ChildMarked ==
  ASSUME Shape, child \in Undisposed, NEW v \in {"debt", "disposed"},
         life' = [life EXCEPT ![child] = v]
  PROVE  /\ life' \in [Child -> {"unborn", "serving", "dead", "debt", "disposed"}]
         /\ life'[child] = v
         /\ \A x \in Child : x # child => life'[x] = life[x]
         /\ Undisposed' = IF v = "debt" THEN Undisposed ELSE Undisposed \ {child}
BY DEF Shape, TypeOK, Undisposed

\* Retiring the old child, in recovery or before the commit.
LEMMA RetireKeeps ==
  ASSUME Shape, RecoverRetire \/ Retire
  PROVE  Shape' /\ Undisposed' \subseteq Undisposed
<1>1. /\ state \in {"failed", "switching"} /\ child \in Child /\ pending = {} /\ Clients = {}
      /\ at = "recoverRetire" => candidate = NoChild /\ state = "failed"
      /\ at = "retire" => state = "switching" /\ candidate \in Undisposed /\ candidate # child
                          /\ life[candidate] \in {"serving", "dead"} /\ candidate # NoChild
      /\ at \in {"recoverRetire", "retire"} /\ ~parked
      /\ retired => life[child] = "disposed"
      /\ ~retired => child \in Undisposed
  BY EndpointAssumption DEF RecoverRetire, Retire, Shape, TypeOK, ResetPhases,
     NoClientsWhileReplacing, Steps
<1>2. CASE Fail(candidate) /\ Retire
  BY <1>2, FailKeeps DEF Retire
<1>3. ASSUME NEW l \in {"reserve", "free", "startFailed", "commit"}, at' = l,
             l \in {"reserve", "free"} => at = "recoverRetire" /\ previous = "failed",
             l \in {"startFailed", "commit"} => at = "retire",
             l \in {"reserve", "commit"} => retired',
             l \in {"startFailed", "free"} => ~retired',
             \/ retired /\ retired' /\ life' = life
             \/ ~retired /\ ~retired' /\ life' = life
             \/ ~retired /\ retired' /\ retired' = TRUE /\ life' = [life EXCEPT ![child] = "disposed"]
             \/ ~retired /\ ~retired' /\ life' = [life EXCEPT ![child] = "debt"],
             UNCHANGED <<state, generation, child, pending, closeErr, relayVars, resetVars, parked>>,
             retired' \in BOOLEAN
      PROVE  Shape' /\ Undisposed' \subseteq Undisposed
  <2>1. /\ life' \in [Child -> {"unborn", "serving", "dead", "debt", "disposed"}]
        /\ \A x \in Child : x # child => life'[x] = life[x]
        /\ Undisposed' = IF retired' THEN Undisposed \ {child} ELSE Undisposed
        /\ retired' => life'[child] = "disposed"
        /\ ~retired' => child \in Undisposed'
    <3>1. CASE life' = life
      BY <1>1, <1>3, <3>1 DEF Shape, TypeOK, Undisposed
    <3>2. CASE ~retired /\ retired' /\ life' = [life EXCEPT ![child] = "disposed"]
      BY <1>1, <3>2, ChildMarked
    <3>3. CASE ~retired /\ ~retired' /\ life' = [life EXCEPT ![child] = "debt"]
      BY <1>1, <3>3, ChildMarked
    <3>4. QED
      BY <1>3, <3>1, <3>2, <3>3
  <2>2. TypeOK'
    BY <1>1, <1>3, <2>1 DEF Shape, TypeOK, Steps
  <2>3. Clients' = {}
    BY <1>1, <1>3 DEF Clients
  <2>4. NoOrphanChild'
    BY <1>3, <2>1 DEF Shape, NoOrphanChild
  <2>5. ConnectionsStayOnChild' /\ NoClientsWhileReplacing' /\ ReadyIsClean' /\ NoLostDrain'
    BY <1>1, <1>3, <2>3 DEF ConnectionsStayOnChild, NoClientsWhileReplacing, ReadyIsClean, NoLostDrain
  <2>6. life'[child] # "unborn"
    BY <1>1, <2>1 DEF Undisposed
  <2>7. candidate # NoChild => candidate \in Undisposed' /\ life'[candidate] = life[candidate]
    BY <1>1, <2>1 DEF Undisposed
  <2>8. ResetPhases'
    BY <1>1, <1>3, <2>1, <2>3, <2>6, <2>7, EndpointAssumption DEF Shape, ResetPhases, Steps
  <2>9. QED
    BY <2>1, <2>2, <2>4, <2>5, <2>8 DEF Shape
<1>4. CASE RecoverRetire
  <2>1. previous = "failed"
    BY <1>4 DEF RecoverRetire, Shape, TypeOK, ResetPhases
  <2>2. QED
    <3>1. CASE RetireSucceeds /\ at' = "reserve"
      BY <1>1, <1>3, <1>4, <2>1, <3>1 DEF RecoverRetire, RetireSucceeds
    <3>2. CASE ~retired /\ at' = "free" /\ UNCHANGED retired
               /\ (life' = life \/ life' = [life EXCEPT ![child] = "debt"])
      BY <1>1, <1>3, <1>4, <2>1, <3>2 DEF RecoverRetire, Shape, TypeOK
    <3>3. QED
      BY <1>4, <3>1, <3>2 DEF RecoverRetire
<1>5. CASE Retire /\ ~Fail(candidate)
  <2>1. CASE RetireSucceeds /\ at' = "commit"
    BY <1>1, <1>3, <1>5, <2>1 DEF Retire, RetireSucceeds
  <2>2. CASE ~retired /\ at' = "startFailed" /\ UNCHANGED retired
             /\ life' = [life EXCEPT ![child] = "debt"]
    BY <1>1, <1>3, <1>5, <2>2 DEF Retire, RetireSucceeds, Shape, TypeOK
  <2>3. QED
    BY <1>5, <2>1, <2>2 DEF Retire
<1>6. QED
  BY <1>2, <1>4, <1>5

\* The commit installs the replacement of a retired child, or fails.
LEMMA CommitKeeps ==
  ASSUME Shape, Commit
  PROVE  Shape' /\ Undisposed' \subseteq Undisposed
<1>1. CASE Fail(candidate)
  BY <1>1, FailKeeps DEF Commit
<1>2. CASE ~ctxDone /\ child' = candidate
  <2>1. /\ at = "commit" /\ child' = candidate /\ retired' = FALSE /\ state' = "ready"
        /\ generation' = generation + 1 /\ candidate' = NoChild /\ at' = "free" /\ parked' = FALSE
        /\ UNCHANGED <<pending, closeErr, life, relayVars, previous, ctxDone>>
    BY <1>2 DEF Commit, Fail, Signal, Shape, TypeOK, ResetPhases
  <2>2. /\ candidate \in Child /\ candidate # NoChild /\ life[candidate] \in {"serving", "dead"}
        /\ Clients = {} /\ pending = {} /\ life[child] = "disposed" /\ NoChild \notin Child
    BY <2>1, EndpointAssumption DEF Shape, TypeOK, ResetPhases, NoClientsWhileReplacing, Steps
  <2>3. TypeOK'
    <3>1. generation' \in Nat
      BY <2>1 DEF Shape, TypeOK
    <3>2. QED
      BY <2>1, <2>2, <3>1 DEF Shape, TypeOK, States
  <2>4. Clients' = {} /\ Undisposed' = Undisposed /\ candidate \in Undisposed
    BY <2>1, <2>2 DEF Clients, Undisposed
  <2>5. ResetPhases' /\ ConnectionsStayOnChild' /\ NoClientsWhileReplacing' /\ ReadyIsClean' /\ NoLostDrain'
    BY <2>1, <2>2, <2>4 DEF ResetPhases, ConnectionsStayOnChild, NoClientsWhileReplacing,
       ReadyIsClean, NoLostDrain, Steps
  <2>6. NoOrphanChild'
    BY <2>1, <2>2, <2>4 DEF Shape, NoOrphanChild, Undisposed
  <2>7. QED
    BY <2>3, <2>4, <2>5, <2>6 DEF Shape
<1>3. QED
  BY <1>1, <1>2 DEF Commit

\* Close closes the current child with everything pending.
LEMMA CloseKeeps ==
  ASSUME Shape, CloseEnds
  PROVE  Shape' /\ Undisposed' \subseteq Undisposed
<1>1. PICK F \in SUBSET (pending \cup {child}) :
         /\ Cleanup(pending \cup {child}, F)
         /\ closeErr' \in (IF Clients = {} /\ ~CleanupErr(F) THEN BOOLEAN ELSE {TRUE})
  BY DEF CloseEnds
<1>2. /\ at = "closing" /\ at' = "free"
      /\ UNCHANGED <<state, generation, child, retired, relayVars, resetVars, parked>>
  BY DEF CloseEnds
<1>3. state = "closed" /\ child \in Child /\ pending \subseteq Undisposed /\ candidate = NoChild
      /\ ~parked
  BY <1>2 DEF Shape, TypeOK, ResetPhases, Steps
<1>4. F \subseteq Child /\ pending' = F /\ life' = [x \in Child |-> IF x \in F THEN "debt"
            ELSE IF x \in pending \cup {child} THEN "disposed" ELSE life[x]]
  BY <1>1, <1>3 DEF Cleanup, CloseChildren, Undisposed
<1>5. TypeOK'
  BY <1>1, <1>2, <1>3, <1>4 DEF Shape, TypeOK
<1>6. child \in F => life[child] \in {"serving", "dead", "debt"}
  <2>1. life[child] \in {"serving", "dead", "debt", "disposed"}
    BY <1>3, EndpointAssumption DEF Shape, TypeOK, ResetPhases
  <2>2. child \in F => life[child] # "disposed"
    BY <1>1 DEF Cleanup, CloseChildren
  <2>3. QED
    BY <2>1, <2>2
<1>7. Undisposed' \subseteq Undisposed /\ pending' \subseteq Undisposed' /\ NoOrphanChild'
  BY <1>1, <1>2, <1>3, <1>4, <1>6 DEF Shape, NoOrphanChild, Undisposed
<1>8. life'[child] # "unborn" /\ (retired => life'[child] = "disposed")
  BY <1>1, <1>3, <1>4 DEF Shape, ResetPhases, Cleanup, CloseChildren
<1>9. ResetPhases'
  BY <1>2, <1>3, <1>7, <1>8 DEF Shape, ResetPhases, Steps
<1>10. ConnectionsStayOnChild' /\ NoClientsWhileReplacing' /\ ReadyIsClean' /\ NoLostDrain'
  BY <1>2, <1>3 DEF Shape, ConnectionsStayOnChild, NoClientsWhileReplacing, ReadyIsClean,
     NoLostDrain, Clients
<1>11. QED
  BY <1>5, <1>7, <1>9, <1>10 DEF Shape

\* Only Start brings a child to life, when the current one is the only other.
LEMMA StartKeeps ==
  ASSUME Shape, Start
  PROVE  Shape' /\ \E x \in Child : Undisposed' \subseteq {child, x}
<1>1. CASE at' = "startFailed" /\ UNCHANGED <<life, candidate>>
  BY <1>1, EndpointAssumption DEF Start, Shape, TypeOK, ResetPhases,
   ConnectionsStayOnChild, NoClientsWhileReplacing, NoOrphanChild, ReadyIsClean, NoLostDrain,
   Clients, Undisposed, Steps, States
<1>2. ASSUME NEW x \in Child, NEW l \in {"serving", "debt"}, life[x] = "unborn",
             life' = [life EXCEPT ![x] = l], candidate' = x,
             at' \in {"startFailed"} \cup (IF l = "serving" THEN {"retire"} ELSE {})
      PROVE  Shape' /\ Undisposed' \subseteq {child, x}
  BY <1>2, EndpointAssumption DEF Start, Shape, TypeOK, ResetPhases,
   ConnectionsStayOnChild, NoClientsWhileReplacing, NoOrphanChild, ReadyIsClean, NoLostDrain,
   Clients, Undisposed, Steps, States
<1>3. QED
  BY <1>1, <1>2 DEF Start

\* Every step keeps the shape, and either adds no child or leaves at most two.
LEMMA StepKeeps ==
  ASSUME Shape, [Next]_vars
  PROVE  /\ Shape'
         /\ Undisposed' \subseteq Undisposed \/ \E a, b \in Child : Undisposed' \subseteq {a, b}
<1>1. ASSUME NEW c \in Conn, Accept(c) \/ Dialed(c) \/ Leaves(c)
      PROVE  Shape' /\ Undisposed' \subseteq Undisposed
  BY <1>1, RelayKeeps
<1>2. ASSUME NEW x \in Child, ChildDies(x)
      PROVE  Shape' /\ Undisposed' \subseteq Undisposed
  BY <1>2, DeathKeeps
<1>3. CASE ResetBegins \/ ContextEnds \/ Reserve \/ Drain \/ DrainWoken \/ DrainExpires \/ CloseBegins
  BY <1>3, QuietStepsKeep
<1>4. CASE RecoverPending \/ SwitchPending \/ CloseAgain
  BY <1>4, RetriesKeep
<1>5. CASE RecoverRetire \/ Retire
  BY <1>5, RetireKeeps
<1>6. CASE Commit
  BY <1>6, CommitKeeps
<1>7. CASE CloseEnds
  BY <1>7, CloseKeeps
<1>8. CASE StartFailed
  BY <1>8, FailKeeps DEF StartFailed
<1>9. CASE Start
  <2>1. child \in Child
    BY <1>9 DEF Start, Shape, TypeOK, ResetPhases
  <2>2. QED
    BY <1>9, <2>1, StartKeeps
<1>10. CASE UNCHANGED vars
  BY <1>10 DEF vars, Shape, TypeOK, ResetPhases, ConnectionsStayOnChild,
     NoClientsWhileReplacing, NoOrphanChild, ReadyIsClean, NoLostDrain, Clients, Undisposed
<1>11. QED
  BY <1>1, <1>2, <1>3, <1>4, <1>5, <1>6, <1>7, <1>8, <1>9, <1>10 DEF Next, ResetStep

\* Every step of clients, Reset, Close and the guests preserves the invariant.
LEMMA NextInvariant == EndpointInvariant /\ [Next]_vars => EndpointInvariant'
<1> SUFFICES ASSUME EndpointInvariant, [Next]_vars PROVE EndpointInvariant'
  OBVIOUS
<1>1. Shape
  BY DEF EndpointInvariant, Shape
<1>2. Shape'
  BY <1>1, StepKeeps
<1>3. CASE Undisposed' \subseteq Undisposed
  <2>1. IsFiniteSet(Undisposed) /\ Cardinality(Undisposed) <= 2
    BY DEF EndpointInvariant, TwoSlotsSuffice
  <2>2. IsFiniteSet(Undisposed') /\ Cardinality(Undisposed') <= Cardinality(Undisposed)
    BY <1>3, <2>1, FS_Subset
  <2>3. Cardinality(Undisposed') \in Nat /\ Cardinality(Undisposed) \in Nat
    BY <2>1, <2>2, FS_CardinalityType
  <2>4. TwoSlotsSuffice'
    BY <2>1, <2>2, <2>3 DEF TwoSlotsSuffice
  <2>5. QED
    BY <1>2, <2>4 DEF EndpointInvariant, Shape
<1>4. CASE \E a, b \in Child : Undisposed' \subseteq {a, b}
  <2>1. TwoSlotsSuffice'
    BY <1>4, AtMostTwo DEF TwoSlotsSuffice
  <2>2. QED
    BY <1>2, <2>1 DEF EndpointInvariant, Shape
<1>5. QED
  BY <1>1, <1>3, <1>4, StepKeeps

\* The inductive invariant holds in every reachable state of the endpoint.
THEOREM EndpointInvariantHolds == Spec => []EndpointInvariant
<1>1. QED
  BY InitInvariant, NextInvariant, PTL DEF Spec

\* A connection that accept admitted is relayed to the current child, and Reset
\* does not close that child while the connection exists.
THEOREM ConnectionsStayOnChildHolds == Spec => []ConnectionsStayOnChild
<1>1. EndpointInvariant => ConnectionsStayOnChild
  BY DEF EndpointInvariant
<1>2. QED
  BY <1>1, EndpointInvariantHolds, PTL

\* No failed reset or close loses a child: what is not disposed has an owner.
THEOREM NoOrphanChildHolds == Spec => []NoOrphanChild
<1>1. EndpointInvariant => NoOrphanChild
  BY DEF EndpointInvariant
<1>2. QED
  BY <1>1, EndpointInvariantHolds, PTL

\* However often resets fail and are retried, at most two children are not
\* disposed of.
THEOREM TwoSlotsSufficeHolds == Spec => []TwoSlotsSuffice
<1>1. EndpointInvariant => TwoSlotsSuffice
  BY DEF EndpointInvariant
<1>2. QED
  BY <1>1, EndpointInvariantHolds, PTL

\* A Reset asleep in its drain loop still has a connection to wait for.
THEOREM NoLostDrainHolds == Spec => []NoLostDrain
<1>1. EndpointInvariant => NoLostDrain
  BY DEF EndpointInvariant
<1>2. QED
  BY <1>1, EndpointInvariantHolds, PTL

\* A ready endpoint owes no cleanup and serves a child that was not closed.
THEOREM ReadyIsCleanHolds == Spec => []ReadyIsClean
<1>1. EndpointInvariant => ReadyIsClean
  BY DEF EndpointInvariant
<1>2. QED
  BY <1>1, EndpointInvariantHolds, PTL

\* Only Commit changes the child or the generation.
LEMMA OnlyCommitReplaces ==
  ASSUME [Next]_vars, child' # child \/ generation' # generation
  PROVE  Commit /\ ~Fail(candidate)
BY DEF Next, ResetStep, vars, Accept, Dialed, Leaves, ChildDies, ResetBegins, ContextEnds, DrainExpires,
   CloseBegins, CloseEnds, CloseAgain, RecoverPending, RecoverRetire, Reserve, Drain, DrainWoken,
   SwitchPending, Start, StartFailed, Retire, Commit, Fail

\* The child is replaced only by a commit, drained and disposed, and only a
\* commit counts a generation.
THEOREM ReplacedOnlyByCommitHolds == Spec => ReplacedOnlyByCommit
<1>1. EndpointInvariant /\ [Next]_vars =>
        [/\ child' # child => life[child] = "disposed" /\ Clients = {} /\ generation' = generation + 1
         /\ generation' # generation => child' # child /\ life[child'] \in {"serving", "dead"}]_vars
  <2> SUFFICES ASSUME EndpointInvariant, [Next]_vars, child' # child \/ generation' # generation
               PROVE  /\ life[child] = "disposed" /\ Clients = {} /\ generation' = generation + 1
                      /\ child' # child /\ life[child'] \in {"serving", "dead"}
    OBVIOUS
  <2>1. Commit /\ ~Fail(candidate)
    BY OnlyCommitReplaces
  <2>2. at = "commit" /\ child' = candidate /\ generation' = generation + 1
    BY <2>1 DEF Commit
  <2>3. QED
    BY <2>2 DEF EndpointInvariant, ResetPhases, NoClientsWhileReplacing
<1>2. QED
  BY <1>1, EndpointInvariantHolds, PTL DEF Spec, ReplacedOnlyByCommit

\* A closed endpoint stays closed with its result, and brings no child to life.
THEOREM ClosedIsFinalHolds == Spec => ClosedIsFinal
<1>1. EndpointInvariant /\ [Next]_vars =>
        [state = "closed" =>
           /\ state' = "closed" /\ generation' = generation
           /\ at = "free" => closeErr' = closeErr
           /\ Undisposed' \subseteq Undisposed]_vars
  <2> SUFFICES ASSUME EndpointInvariant, [Next]_vars, state = "closed"
               PROVE  /\ state' = "closed" /\ generation' = generation
                      /\ at = "free" => closeErr' = closeErr
                      /\ Undisposed' \subseteq Undisposed
    OBVIOUS
  <2>1. Shape /\ at \in {"free", "closing"}
    BY DEF EndpointInvariant, Shape, ResetPhases, TypeOK, Steps
  <2>2. \/ \E c \in Conn : Accept(c) \/ Dialed(c) \/ Leaves(c)
        \/ \E x \in Child : ChildDies(x)
        \/ CloseEnds \/ CloseAgain \/ UNCHANGED vars
    BY <2>1 DEF Next, ResetStep, ResetBegins, ContextEnds, DrainExpires, CloseBegins,
       RecoverPending, RecoverRetire, Reserve, Drain, DrainWoken, SwitchPending, Start,
       StartFailed, Retire, Commit
  <2>3. Undisposed' \subseteq Undisposed
    BY <2>1, <2>2, RelayKeeps, DeathKeeps, CloseKeeps, RetriesKeep DEF vars, Undisposed
  <2>4. state' = "closed" /\ generation' = generation /\ (at = "free" => closeErr' = closeErr)
    BY <2>2 DEF Accept, Dialed, Leaves, ChildDies, CloseEnds, CloseAgain, vars
  <2>5. QED
    BY <2>3, <2>4
<1>2. QED
  BY <1>1, EndpointInvariantHolds, PTL DEF Spec, ClosedIsFinal
-----------------------------------------------------------------------------
(* The pool of the parent                                                  *)

Reserved == {"drain", "parked", "switch", "start", "startFailed", "retire", "commit"}

\* The slot of a child, from its reservation to its disposal.
ChildSlot(x) ==
  /\ life[x] = "serving" => x \in leases \cap active /\ x \notin debt
  /\ life[x] = "unborn" => x \notin active \cup debt /\ (x \in leases => x = reservation)
  /\ life[x] = "disposed" => x \notin leases
  /\ x \in leases /\ life[x] # "unborn" => x \in active

\* What the running Reset has reserved.
Reservation ==
  /\ reservation \in Child \cup {NoChild}
  /\ reservation # NoChild <=> at \in Reserved
  /\ at \in {"drain", "parked", "switch", "start"} => life[reservation] = "unborn"
  /\ at \in {"retire", "commit"} => candidate = reservation
  /\ at = "startFailed" =>
       candidate = reservation
         \/ (candidate = NoChild /\ life[reservation] = "unborn" /\ reservation \notin leases)
  /\ at \in {"recover", "recoverRetire", "reserve"} => Fresh # {}

PoolTyped ==
  /\ leases \subseteq Call /\ active \subseteq Call /\ debt \subseteq Call
  /\ tracking \subseteq debt /\ watchers \subseteq debt /\ pc \in [Call -> Pool!Locations]

SlotInvariant == PoolTyped /\ (\A x \in Child : ChildSlot(x)) /\ Reservation

\* Before the first Reset the first child has the only slot.
LEMMA InitSlotInvariant == LiveInit => SlotInvariant
<1> SUFFICES ASSUME LiveInit PROVE SlotInvariant
  OBVIOUS
<1>1. life \in [Child -> {"unborn", "serving", "debt"}]
      /\ at = "free" /\ candidate = NoChild
  BY DEF LiveInit, Init
<1>2. /\ leases = {x \in Child : life[x] # "unborn"} /\ active = leases
      /\ debt = {x \in leases : life[x] = "debt"}
      /\ tracking \subseteq debt /\ watchers \subseteq debt /\ reservation = NoChild
      /\ pc = [c \in Call |-> IF c \in leases THEN "held" ELSE "idle"]
  BY DEF LiveInit, InitPool
<1>3. PoolTyped
  BY <1>2 DEF PoolTyped, Call, Pool!Locations
<1>4. \A x \in Child : ChildSlot(x)
  BY <1>1, <1>2 DEF ChildSlot
<1>5. Reservation
  BY <1>1, <1>2 DEF Reservation, Reserved
<1>6. QED
  BY <1>3, <1>4, <1>5 DEF SlotInvariant

\* A child dies, is closed or is disposed of; only Start brings one to life.
Moves(x) ==
  /\ life'[x] = "unborn" <=> life[x] = "unborn"
  /\ life'[x] = "serving" => life[x] = "serving"
  /\ life[x] = "disposed" => life'[x] = "disposed"

\* A settlement takes the slots of disposed children and of an unused reservation,
\* and leaves the debt of those that could not be disposed of.
LEMMA SettleKeeps ==
  ASSUME SlotInvariant, TypeOK, \A x \in Child : Moves(x), NEW free, NEW bad,
         SettleSlots(free, bad), bad \subseteq leases, Disposed \cup Unused \subseteq free,
         \A x \in bad \cap Child : life'[x] \notin {"serving", "unborn"},
         \A x \in free \cap Child : x \in Unused \/ life'[x] # "serving",
         reservation' = IF Returning THEN NoChild ELSE reservation
  PROVE  PoolTyped' /\ \A x \in Child : ChildSlot(x)'
<1>1. /\ leases' = leases \ free /\ active' = active \cup bad /\ debt' = debt \cup bad
      /\ watchers' \subseteq watchers \cup bad /\ tracking' \subseteq tracking \cup bad
      /\ pc' = [c \in Call |-> IF c \in Unused THEN "idle" ELSE pc[c]]
  BY DEF SettleSlots
<1>2. PoolTyped'
  BY <1>1 DEF SlotInvariant, PoolTyped, Pool!Locations
<1>3. ASSUME NEW x \in Child PROVE ChildSlot(x)'
  <2>1. ChildSlot(x) /\ Moves(x)
    BY DEF SlotInvariant
  <2>2. x \in Unused => x \notin active /\ x = reservation /\ Returning
    BY DEF Unused
  <2>3. life'[x] = "serving" => x \notin free /\ x \notin bad
    BY <2>1, <2>2 DEF ChildSlot, Moves
  <2>4. life'[x] = "unborn" => x \notin bad /\ (x \in leases' => x = reservation')
    BY <1>1, <2>1 DEF ChildSlot, Moves, Unused
  <2>5. life'[x] = "disposed" => x \notin leases'
    BY <1>1, <2>1 DEF ChildSlot, Disposed
  <2>6. QED
    BY <1>1, <2>1, <2>3, <2>4, <2>5 DEF ChildSlot, Moves
<1>4. QED
  BY <1>2, <1>3

\* A step of the pool that leaves the children their slots, or takes them from
\* children that do not serve.
LEMMA PoolMoves ==
  ASSUME SlotInvariant, UNCHANGED <<vars, reservation>>, PoolTyped',
         \A x \in Child : /\ x \in leases' => x \in leases
                          /\ x \in active' <=> x \in active
                          /\ x \in debt' <=> x \in debt
                          /\ pc'[x] = pc[x]
                          /\ life[x] = "serving" => x \in leases'
  PROVE  SlotInvariant'
<1>1. ASSUME NEW x \in Child PROVE ChildSlot(x)'
  BY DEF SlotInvariant, ChildSlot, vars
<1>2. Fresh' = Fresh
  BY DEF Fresh, vars
<1>3. Reservation'
  BY <1>2 DEF SlotInvariant, Reservation, vars
<1>4. QED
  BY <1>1, <1>3 DEF SlotInvariant

\* The steps of the endpoint that close no child.
QuietStep ==
  \/ \E c \in Conn : Accept(c) \/ Dialed(c) \/ Leaves(c)
  \/ \E x \in Child : ChildDies(x)
  \/ ResetBegins \/ ContextEnds \/ Drain \/ DrainWoken \/ DrainExpires \/ CloseBegins

\* The steps that may close some.
ClosingStep ==
  \/ RecoverPending \/ RecoverRetire \/ SwitchPending \/ StartFailed \/ Retire \/ Commit
  \/ CloseEnds \/ CloseAgain

\* A quiet step leaves children alive, or lets one die.
LEMMA QuietMoves ==
  ASSUME TypeOK, QuietStep
  PROVE  /\ \A x \in Child : Moves(x)
         /\ Disposed = {}
<1>1. \/ life' = life
      \/ \E x \in Child : life[x] = "serving" /\ life' = [life EXCEPT ![x] = "dead"]
  BY DEF QuietStep, Accept, Dialed, Leaves, ChildDies, ResetBegins, ContextEnds, Drain,
     DrainWoken, DrainExpires, CloseBegins
<1>2. QED
  BY <1>1 DEF TypeOK, Moves, Disposed

\* Closing children that exist.
LEMMA ClosedMove ==
  ASSUME TypeOK, NEW S, NEW F, CloseChildren(S, F), S \cap Child \subseteq Undisposed
  PROVE  /\ \A x \in Child : Moves(x)
         /\ \A x \in F \cap Child : life'[x] = "debt"
BY DEF TypeOK, CloseChildren, Moves, Undisposed

\* A closing step disposes of children it owns; those whose Close failed are debts.
LEMMA ClosingMoves ==
  ASSUME EndpointInvariant, ClosingStep
  PROVE  /\ \A x \in Child : Moves(x)
         /\ Failing \subseteq Child /\ \A x \in Failing : life'[x] = "debt"
<1> USE DEF EndpointInvariant
<1>1. pending \subseteq Undisposed /\ (at \in Steps \ {"recover"} => pending = {})
  BY DEF ResetPhases
<1>2. child # NoChild => child \in Child /\ life[child] # "unborn"
  BY DEF ResetPhases, TypeOK
<1>3. CASE RecoverPending \/ SwitchPending \/ CloseAgain
  <2>1. PICK F \in SUBSET pending : CloseChildren(pending, F) /\ pending' = F
    BY <1>3 DEF RecoverPending, SwitchPending, CloseAgain, Cleanup
  <2>2. Failing = F
    BY <1>3, <2>1 DEF Failing, RecoverPending, SwitchPending, CloseAgain
  <2>3. QED
    BY <1>1, <2>1, <2>2, ClosedMove DEF Undisposed
<1>4. CASE CloseEnds
  <2>1. PICK F \in SUBSET (pending \cup {child}) :
           CloseChildren(pending \cup {child}, F) /\ pending' = F
    BY <1>4 DEF CloseEnds, Cleanup
  <2>2. child # NoChild /\ Failing = F
    BY <1>4, <2>1 DEF Failing, CloseEnds, ResetPhases
  <2>3. \A x \in Child : Moves(x)
    BY <1>1, <1>2, <2>1, <2>2 DEF TypeOK, Moves, CloseChildren, Undisposed
  <2>4. F \subseteq Child
    BY <1>1, <1>2, <2>1, <2>2 DEF Undisposed
  <2>5. QED
    BY <2>1, <2>2, <2>3, <2>4 DEF CloseChildren
<1>5. ASSUME Fail(candidate), at \in {"startFailed", "retire", "commit"}
      PROVE  /\ \A x \in Child : Moves(x)
             /\ Failing \subseteq Child /\ \A x \in Failing : life'[x] = "debt"
  <2>1. PICK F \in SUBSET ({candidate} \ {NoChild}) :
           CloseChildren({candidate} \ {NoChild}, F) /\ pending' = pending \cup F
    BY <1>5 DEF Fail
  <2>2. pending = {} /\ ({candidate} \ {NoChild}) \subseteq Undisposed
    BY <1>1, <1>5 DEF ResetPhases, Steps
  <2>3. \A x \in Child : Moves(x)
    BY <2>1, <2>2, ClosedMove
  <2>4. F \subseteq Child /\ \A x \in F : life'[x] = "debt"
    BY <2>1, <2>2 DEF CloseChildren, Undisposed
  <2>5. Failing \subseteq F \cup {x \in {child} : life'[x] = "debt"}
    BY <1>5, <2>1, <2>2 DEF Failing
  <2>6. child \in Child
    BY <1>2, <1>5 DEF ResetPhases
  <2>7. QED
    BY <2>3, <2>4, <2>5, <2>6
<1>6. CASE RecoverRetire \/ (Retire /\ ~Fail(candidate)) \/ (Commit /\ ~Fail(candidate))
  <2>1. pending' = pending /\ pending = {}
    BY <1>1, <1>6 DEF RecoverRetire, Retire, Commit, Steps
  <2>2. \/ life' = life
        \/ /\ ~retired /\ at \in {"recoverRetire", "retire"}
           /\ life' \in {[life EXCEPT ![child] = "disposed"], [life EXCEPT ![child] = "debt"]}
    BY <1>6 DEF RecoverRetire, Retire, Commit, RetireSucceeds
  <2>3. at \in {"recoverRetire", "retire"} => child \in Child /\ (child \in Undisposed \/ retired)
    BY <1>2 DEF ResetPhases
  <2>4. \A x \in Child : Moves(x)
    BY <2>2, <2>3 DEF TypeOK, Moves, Undisposed
  <2>5. Failing \subseteq {x \in {child} : at \in {"recoverRetire", "retire"} /\ life'[x] = "debt"}
    BY <2>1 DEF Failing
  <2>6. QED
    BY <2>3, <2>4, <2>5
<1>7. QED
  BY <1>3, <1>4, <1>5, <1>6 DEF ClosingStep, StartFailed, Retire, Commit

\* Where a step of the endpoint takes a reservation: it stays until Reset returns.
LEMMA ReservationMoves ==
  ASSUME EndpointInvariant, SlotInvariant, QuietStep \/ ClosingStep,
         ResetBegins => Fresh # {}, Fresh \subseteq Fresh', leases' \subseteq leases,
         \A x \in Child : Moves(x),
         reservation' = IF Returning THEN NoChild ELSE reservation
  PROVE  Reservation'
<1> USE DEF EndpointInvariant, SlotInvariant
<1>1. \/ at' = at /\ candidate' = candidate
      \/ ResetBegins /\ at = "free" /\ at' \in {"recover", "reserve"}
      \/ at = "recover" /\ at' = "recoverRetire"
      \/ at = "recoverRetire" /\ at' = "reserve"
      \/ at \in {"drain", "parked", "switch"} /\ at' \in {"drain", "parked", "switch", "start"}
      \/ at = "retire" /\ at' \in {"commit", "startFailed"} /\ candidate' = candidate
      \/ at = "free" /\ at' = "closing"
      \/ at # "free" /\ at' = "free"
  <2>1. CASE QuietStep
    BY <2>1 DEF QuietStep, Accept, Dialed, Leaves, ChildDies, ResetBegins, ContextEnds, Drain,
       DrainWoken, DrainExpires, CloseBegins
  <2>2. CASE ClosingStep
    BY <2>2 DEF ClosingStep, RecoverPending, RecoverRetire, SwitchPending, StartFailed, Retire,
       Commit, CloseEnds, CloseAgain, Fail
  <2>3. QED
    BY <2>1, <2>2
<1>2. reservation' \in Child \cup {NoChild}
  BY DEF Reservation
<1>3. reservation' # NoChild <=> at' \in Reserved
  BY <1>1 DEF Reservation, Reserved, Returning
<1>4. at' \in {"recover", "recoverRetire", "reserve"} => Fresh' # {}
  BY <1>1 DEF Reservation
<1>5. CASE at' = "free"
  BY <1>2, <1>3, <1>5 DEF Reservation
<1>6. CASE at' # "free"
  <2>1. reservation' = reservation
    BY <1>6 DEF Returning
  <2>2. reservation \in Child => Moves(reservation)
    OBVIOUS
  <2>3. at' \in {"drain", "parked", "switch", "start"} => life'[reservation'] = "unborn"
    BY <1>1, <2>1, <2>2, EndpointAssumption DEF Reservation, Reserved, Moves
  <2>4. at' \in {"retire", "commit"} => candidate' = reservation'
    BY <1>1, <2>1 DEF Reservation
  <2>5. at' = "startFailed" =>
           candidate' = reservation'
             \/ (candidate' = NoChild /\ life'[reservation'] = "unborn"
                                      /\ reservation' \notin leases')
    BY <1>1, <2>1, <2>2, EndpointAssumption DEF Reservation, Reserved, Moves
  <2>6. QED
    BY <1>2, <1>3, <1>4, <2>3, <2>4, <2>5 DEF Reservation
<1>7. QED
  BY <1>5, <1>6

\* A step of the endpoint and what it settles.
LEMMA EndpointStepKeeps ==
  ASSUME EndpointInvariant, SlotInvariant, NEW bad,
         \/ QuietStep /\ bad = {} /\ SettleSlots(Unused, {})
         \/ ClosingStep /\ bad = Failing \cap leases /\ SettleSlots(Disposed \cup Unused, bad),
         ResetBegins => Fresh # {}, Proceed
  PROVE  SlotInvariant'
<1>1. /\ \A x \in Child : Moves(x)
      /\ QuietStep => Disposed = {}
      /\ ClosingStep => Failing \subseteq Child /\ \A x \in Failing : life'[x] = "debt"
  BY QuietMoves, ClosingMoves DEF EndpointInvariant
<1>2. /\ SettleSlots(Disposed \cup Unused, bad) /\ bad \subseteq leases
      /\ \A x \in bad : life'[x] = "debt"
  BY <1>1
<1>3. \A x \in (Disposed \cup Unused) \cap Child : x \in Unused \/ life'[x] # "serving"
  BY DEF Disposed
<1>4. PoolTyped' /\ \A x \in Child : ChildSlot(x)'
  BY <1>1, <1>2, <1>3, SettleKeeps DEF Proceed, EndpointInvariant
<1>5. leases' \subseteq leases /\ Fresh \subseteq Fresh'
  BY <1>1, <1>2 DEF SettleSlots, Fresh, Moves, Call
<1>6. Reservation'
  BY <1>1, <1>5, ReservationMoves DEF Proceed
<1>7. QED
  BY <1>4, <1>6 DEF SlotInvariant

\* The parent grants a slot, under a name not given out before, or refuses.
LEMMA ReserveKeeps ==
  ASSUME EndpointInvariant, SlotInvariant, ReserveSlot
  PROVE  SlotInvariant'
<1> USE DEF EndpointInvariant, SlotInvariant
<1>1. /\ at = "reserve" /\ reservation = NoChild /\ Fresh # {}
      /\ UNCHANGED <<life, candidate>>
  BY DEF ReserveSlot, Reserve, Reservation, Reserved, resetVars
<1>2. CASE UNCHANGED <<poolVars, reservation>>
  <2>1. at' = "free"
    <3>1. SUFFICES ASSUME at' # "free" PROVE FALSE
      OBVIOUS
    <3>2. reservation' = CHOOSE x \in Fresh : TRUE
      BY <3>1, Zenon DEF ReserveSlot
    <3>3. QED
      BY <1>1, <1>2, <3>2, EndpointAssumption DEF Fresh
  <2>2. PoolTyped' /\ \A x \in Child : ChildSlot(x)'
    BY <1>1, <1>2 DEF PoolTyped, ChildSlot, poolVars, slotVars
  <2>3. Reservation'
    BY <1>1, <1>2, <2>1 DEF Reservation, Reserved
  <2>4. QED
    BY <2>2, <2>3
<1>3. CASE ~UNCHANGED <<poolVars, reservation>>
  <2>1. /\ at' = "drain" /\ Pool!Verdict(TRUE) = "ok"
        /\ reservation' = CHOOSE x \in Fresh : TRUE
        /\ Pool!TryAcquire(reservation', TRUE)
    BY <1>3, Zenon DEF ReserveSlot
  <2>2. reservation' \in Fresh
    BY <1>1, <2>1
  <2>3. /\ leases' = leases \cup {reservation'} /\ pc' = [pc EXCEPT ![reservation'] = "held"]
        /\ UNCHANGED <<active, debt, tracking, watchers>>
    BY <2>1 DEF Pool!TryAcquire, Pool!Goto, Pool!Admit
  <2>4. PoolTyped'
    BY <2>2, <2>3 DEF PoolTyped, Fresh, Call, Pool!Locations
  <2>5. ASSUME NEW x \in Child PROVE ChildSlot(x)'
    BY <1>1, <2>2, <2>3, EndpointAssumption DEF ChildSlot, Fresh
  <2>6. Reservation'
    BY <1>1, <2>1, <2>2, EndpointAssumption DEF Reservation, Reserved, Fresh
  <2>7. QED
    BY <2>4, <2>5, <2>6
<1>4. QED
  BY <1>2, <1>3

\* A replacement is started on its reservation, if that is still the Reset's.
LEMMA StartOnSlotKeeps ==
  ASSUME EndpointInvariant, SlotInvariant, StartOnSlot
  PROVE  SlotInvariant'
<1> USE DEF EndpointInvariant, SlotInvariant
<1> DEFINE r == reservation
<1>1. /\ at = "start" /\ r \in Child /\ life[r] = "unborn" /\ reservation' = reservation
      /\ candidate = NoChild /\ r \notin active \cup debt
  BY EndpointAssumption DEF StartOnSlot, Start, Reservation, Reserved, ChildSlot, TypeOK
<1>2. \/ /\ candidate' = r /\ life' = [life EXCEPT ![r] = life'[r]]
         /\ life'[r] \in {"serving", "debt"} /\ at' \in {"startFailed", "retire"}
         /\ (life'[r] = "debt" => at' = "startFailed")
      \/ candidate' = NoChild /\ life' = life /\ at' = "startFailed"
  BY <1>1, EndpointAssumption DEF StartOnSlot, Start, TypeOK
<1>3. PICK f \in {"serving", "debt", "none"} :
        /\ tracking' = tracking \/ (f = "debt" /\ tracking' = tracking \cup {r} /\ r \in debt')
        /\ f # "none" => candidate' = r /\ life'[r] = f
        /\ f = "none" => candidate' = NoChild
        /\ f = "serving" => r \in leases /\ leases' = leases /\ debt' = debt
                              /\ active' = active \cup {r} /\ watchers' = watchers
        /\ f = "debt" => leases' = leases /\ active' \subseteq active \cup {r}
                           /\ active \subseteq active' /\ (r \in leases => r \in active')
                           /\ debt' \subseteq debt \cup {r} /\ debt \subseteq debt'
                           /\ watchers' \subseteq watchers \cup (debt' \cap {r})
        /\ f = "none" => leases' = leases \ {r} /\ active' = active /\ debt' = debt
                           /\ watchers' = watchers
  <2>1. CASE ~Pool!CanActivate(r)
    BY <1>1, <2>1 DEF StartOnSlot, Pool!Cancel, Pool!Release, Pool!NoEffect, Pool!poolVars
  <2>2. CASE Pool!CanActivate(r) /\ candidate' = NoChild
    <3>1. Pool!Settle(r, TRUE) /\ watchers' = watchers
      BY <1>1, <2>2, EndpointAssumption DEF StartOnSlot
    <3>2. QED
      BY <2>2, <3>1 DEF Pool!Settle, Pool!Release, Pool!CanActivate
  <2>3. CASE Pool!CanActivate(r) /\ candidate' # NoChild /\ life'[r] = "serving"
    BY <1>1, <2>3 DEF StartOnSlot, Pool!Activate, Pool!CanActivate
  <2>4. CASE Pool!CanActivate(r) /\ candidate' # NoChild /\ life'[r] # "serving"
    <3>1. Pool!TrackCleanup(r, TRUE) /\ candidate' = r /\ life'[r] = "debt" /\ r \in leases \ tracking
      BY <1>1, <1>2, <2>4 DEF StartOnSlot, Pool!CanActivate, PoolTyped
    <3>2. /\ leases' = leases /\ tracking' = tracking \cup {r} /\ active' \in {active, active \cup {r}}
          /\ r \in active'
          /\ debt' = debt \cup {r}
          /\ watchers' \subseteq watchers \cup (debt' \cap {r})
      BY <3>1 DEF Pool!TrackCleanup, Pool!Stop, Pool!NoEffect, Pool!poolVars
    <3>3. QED
      BY <3>1, <3>2
  <2>5. QED
    BY <2>1, <2>2, <2>3, <2>4
<1>4. pc' = pc
  BY DEF StartOnSlot
<1>5. PoolTyped'
  BY <1>1, <1>3, <1>4 DEF PoolTyped, Call
<1>6. ASSUME NEW x \in Child PROVE ChildSlot(x)'
  <2>1. CASE x = r
    BY <1>1, <1>2, <1>3, <2>1, EndpointAssumption DEF ChildSlot, TypeOK
  <2>2. CASE x # r
    BY <1>1, <1>2, <1>3, <2>2 DEF ChildSlot, TypeOK
  <2>3. QED
    BY <2>1, <2>2
<1>7. Reservation'
  BY <1>1, <1>2, <1>3, EndpointAssumption DEF Reservation, Reserved
<1>8. QED
  BY <1>5, <1>6, <1>7

\* What the pool does beside the endpoint.
LEMMA PoolKeeps ==
  ASSUME EndpointInvariant, SlotInvariant,
         \/ \E c \in Call : OwnersComplete(c)
         \/ \E c \in Other : AdmissionStep(c) \/ OtherUses(c)
         \/ PoolCloses \/ SnapshotCloses
  PROVE  SlotInvariant'
<1> USE DEF SlotInvariant
<1>1. ASSUME NEW c \in Call, OwnersComplete(c) PROVE SlotInvariant'
  <2>1. /\ c \in watchers /\ leases' = leases \ {c} /\ watchers' = watchers \ {c}
        /\ UNCHANGED <<active, debt, tracking, pc, vars, reservation>>
    BY <1>1 DEF OwnersComplete, Pool!WatcherSettles, Pool!Settle, Pool!Release, Pool!NoEffect,
       Pool!poolVars
  <2>2. PoolTyped'
    BY <2>1 DEF PoolTyped
  <2>3. \A x \in Child : life[x] = "serving" => x # c /\ x \in leases
    BY <2>1 DEF PoolTyped, ChildSlot
  <2>4. QED
    BY <2>1, <2>2, <2>3, PoolMoves
<1>2. ASSUME NEW c \in Other, AdmissionStep(c) \/ OtherUses(c) PROVE SlotInvariant'
  <2>1. c \in Call /\ c \notin Child
    BY LiveAssumption DEF Call
  <2>2. /\ UNCHANGED <<vars, reservation>>
        /\ leases \ {c} \subseteq leases' /\ leases' \subseteq leases \cup {c}
        /\ active' \in {active, active \cup {c}}
        /\ debt' \in {debt, debt \cup {c}} /\ watchers' \in {watchers, watchers \cup {c}}
        /\ tracking' \in {tracking, tracking \cup {c}}
        /\ ((watchers' = watchers /\ tracking' = tracking) \/ c \in debt')
        /\ \E l \in Pool!Locations : pc' = [pc EXCEPT ![c] = l]
    <3>1. CASE AdmissionStep(c)
      BY <3>1, <2>1 DEF AdmissionStep, Pool!AcquireStep, Pool!AcquireCheckContext, Pool!AcquireAdmit,
         Pool!AcquireGranted, Pool!AcquireWoken, Pool!AcquireCancelled, Pool!Goto, Pool!Admit,
         Pool!Settle, Pool!Release, Pool!Stop, Pool!NoEffect, Pool!poolVars, Pool!Locations
    <3>2. CASE OtherUses(c)
      <4>1. \E l \in Pool!Locations : pc' = [pc EXCEPT ![c] = l]
        BY <3>2, <2>1 DEF OtherUses, Pool!AcquireBegin, Pool!Goto, Pool!Locations, PoolTyped
      <4>2. QED
        BY <3>2, <4>1 DEF OtherUses, Pool!AcquireBegin, Pool!Activate, Pool!Cancel, Pool!Settle,
           Pool!TrackCleanup, Pool!Release, Pool!Stop, Pool!NoEffect, Pool!poolVars
    <3>3. QED
      BY <1>2, <3>1, <3>2
  <2>3. PoolTyped'
    BY <2>1, <2>2 DEF PoolTyped
  <2>4. \A x \in Child : x # c /\ pc'[x] = pc[x] /\ (life[x] = "serving" => x \in leases)
    BY <2>1, <2>2 DEF PoolTyped, ChildSlot, Call
  <2>5. QED
    BY <2>2, <2>3, <2>4, PoolMoves
<1>3. CASE PoolCloses
  <2>1. /\ leases' \in {leases, leases \cap active}
        /\ UNCHANGED <<active, debt, tracking, watchers, pc, vars, reservation>>
    BY <1>3 DEF PoolCloses, Pool!Close, Pool!PoolClose
  <2>2. PoolTyped'
    BY <2>1 DEF PoolTyped
  <2>3. QED
    BY <2>1, <2>2, PoolMoves DEF ChildSlot
<1>4. CASE SnapshotCloses
  BY <1>4, PoolMoves DEF SnapshotCloses, poolVars, slotVars, PoolTyped, ChildSlot
<1>5. QED
  BY <1>1, <1>2, <1>3, <1>4

\* Database.watch closes a child that died.
LEMMA WatchKeeps ==
  ASSUME EndpointInvariant, SlotInvariant, NEW y \in Child, WatchCloses(y)
  PROVE  SlotInvariant'
<1>1. life[y] = "dead" /\ y \in leases /\ UNCHANGED <<vars, reservation>>
  BY DEF WatchCloses
<1>2. PICK free \in {{}, {y}}, bad \in {{}, {y}} : SettleSlots(free, bad)
  BY DEF WatchCloses
<1>3. Unused = {} /\ Disposed = {} /\ ~Returning
  BY <1>1 DEF Unused, Disposed, Returning, vars
<1>4. \A x \in Child : Moves(x)
  BY <1>1 DEF Moves, vars
<1>5. life'[y] = "dead"
  BY <1>1 DEF vars
<1>6. PoolTyped' /\ \A x \in Child : ChildSlot(x)'
  BY <1>1, <1>2, <1>3, <1>4, <1>5, SettleKeeps DEF EndpointInvariant
<1>7. Fresh' = Fresh /\ leases' \subseteq leases
  BY <1>1, <1>2, <1>3 DEF SettleSlots, Fresh, vars, SlotInvariant, PoolTyped, Call
<1>8. Reservation'
  BY <1>1, <1>7 DEF SlotInvariant, Reservation, vars
<1>9. QED
  BY <1>6, <1>8 DEF SlotInvariant

\* Every step of the endpoint with its pool, and of the pool beside it.
LEMMA NextSlotInvariant ==
  ASSUME EndpointInvariant, SlotInvariant, [LiveNext]_allVars
  PROVE  SlotInvariant'
<1>1. ASSUME QuietStep, SettleSlots(Unused, {}), Proceed, ResetBegins => Fresh # {}
      PROVE  SlotInvariant'
  BY <1>1, EndpointStepKeeps
<1>2. ASSUME ClosingStep, SettleSlots(Disposed \cup Unused, Failing \cap leases), Proceed
      PROVE  SlotInvariant'
  <2>1. ~ResetBegins
    BY <1>2 DEF ClosingStep, ResetBegins, RecoverPending, RecoverRetire, SwitchPending,
       StartFailed, Retire, Commit, CloseEnds, CloseAgain, Fail
  <2>2. QED
    BY <1>2, <2>1, EndpointStepKeeps
<1>3. ASSUME NEW c \in Conn, Keeps(Accept(c)) \/ Keeps(Dialed(c)) \/ Keeps(Leaves(c))
      PROVE  SlotInvariant'
  <2>1. QuietStep /\ SettleSlots(Unused, {}) /\ Proceed
    BY <1>3, Zenon DEF Keeps, QuietStep
  <2>2. ~ResetBegins
    BY <1>3 DEF Keeps, ResetBegins, Accept, Dialed, Leaves
  <2>3. QED
    BY <1>1, <2>1, <2>2
<1>4. ASSUME NEW x \in Child, Keeps(ChildDies(x)) PROVE SlotInvariant'
  <2>1. QuietStep /\ SettleSlots(Unused, {}) /\ Proceed
    BY <1>4, Zenon DEF Keeps, QuietStep
  <2>2. ~ResetBegins
    BY <1>4 DEF Keeps, ResetBegins, ChildDies, TypeOK, EndpointInvariant
  <2>3. QED
    BY <1>1, <2>1, <2>2
<1>5. CASE BeginReset
  BY <1>1, <1>5, Zenon DEF BeginReset, Keeps, QuietStep
<1>6. CASE Keeps(ContextEnds) \/ Keeps(Drain) \/ Keeps(DrainWoken) \/ Keeps(DrainExpires)
             \/ Keeps(CloseBegins)
  <2>1. QuietStep /\ SettleSlots(Unused, {}) /\ Proceed
    BY <1>6, Zenon DEF Keeps, QuietStep
  <2>2. ~ResetBegins
    BY <1>6 DEF Keeps, ResetBegins, ContextEnds, Drain, DrainWoken, DrainExpires, CloseBegins
  <2>3. QED
    BY <1>1, <2>1, <2>2
<1>7. CASE \/ Closes(RecoverPending) \/ Closes(RecoverRetire) \/ Closes(SwitchPending)
           \/ Closes(StartFailed) \/ Closes(Retire) \/ Closes(Commit)
           \/ Closes(CloseEnds) \/ Closes(CloseAgain)
  BY <1>2, <1>7, Zenon DEF Closes, ClosingStep
<1>8. CASE ReserveSlot
  BY <1>8, ReserveKeeps
<1>9. CASE StartOnSlot
  BY <1>9, StartOnSlotKeeps
<1>10. CASE \E x \in Child : WatchCloses(x)
  BY <1>10, WatchKeeps
<1>11. CASE \/ \E c \in Call : OwnersComplete(c)
            \/ \E c \in Other : AdmissionStep(c) \/ OtherUses(c)
            \/ PoolCloses \/ SnapshotCloses
  BY <1>11, PoolKeeps
<1>12. CASE UNCHANGED allVars
  <2>1. UNCHANGED <<vars, reservation, leases, active, debt, tracking, watchers, pc>>
    BY <1>12 DEF allVars, poolVars, slotVars
  <2>2. PoolTyped'
    BY <2>1 DEF SlotInvariant, PoolTyped
  <2>3. \A x \in Child : life[x] = "serving" => x \in leases
    BY DEF SlotInvariant, ChildSlot
  <2>4. QED
    BY <2>1, <2>2, <2>3, PoolMoves
<1>13. QED
  BY <1>3, <1>4, <1>5, <1>6, <1>7, <1>8, <1>9, <1>10, <1>11, <1>12, Zenon DEF LiveNext, ResetRuns

\* The endpoint of LivePool is LiveEndpoint: the pool only restricts it.
LEMMA PoolRestricts == LiveSpec => Spec
<1>1. LiveInit => Init
  BY DEF LiveInit
<1>2. [LiveNext]_allVars => [Next]_vars
  <2>1. SUFFICES ASSUME [LiveNext]_allVars PROVE [Next]_vars
    OBVIOUS
  <2>2. LiveNext => Next \/ UNCHANGED vars
    BY Zenon DEF LiveNext, Next, ResetRuns, ResetStep, Keeps, Closes, BeginReset, ReserveSlot,
       StartOnSlot, WatchCloses, OwnersComplete, AdmissionStep, OtherUses, PoolCloses,
       SnapshotCloses
  <2>3. UNCHANGED allVars => UNCHANGED vars
    BY DEF allVars
  <2>4. QED
    BY <2>1, <2>2, <2>3
<1>3. QED
  BY <1>1, <1>2, PTL DEF LiveSpec, Spec

\* The slots of a Live always belong to its children and to the running Reset
\* (StartOnSlot, SettleSlots: forkReserved, liveChild.Close, Reset's deferred Cancel).
THEOREM SlotInvariantHolds == LiveSpec => []SlotInvariant
<1>1. LiveInit => SlotInvariant
  BY InitSlotInvariant
<1>2. EndpointInvariant /\ SlotInvariant /\ [LiveNext]_allVars => SlotInvariant'
  BY NextSlotInvariant
<1>3. LiveSpec => []EndpointInvariant
  BY PoolRestricts, EndpointInvariantHolds, PTL
<1>4. QED
  BY <1>1, <1>2, <1>3, PTL DEF LiveSpec

\* A serving child has an active slot of its own, and a slot is a child's that is not
\* disposed or the running Reset's (Factory.Reserve, forkReserved, liveChild.Close).
THEOREM SlotPerChildHolds == LiveSpec => []SlotPerChild
<1>1. EndpointInvariant /\ SlotInvariant => SlotPerChild
  <2>1. SUFFICES ASSUME EndpointInvariant, SlotInvariant PROVE SlotPerChild
    OBVIOUS
  <2>2. at \in {"free", "closing"} => reservation = NoChild
    BY <2>1 DEF SlotInvariant, Reservation, Reserved
  <2>3. ASSUME NEW x \in Child
        PROVE  /\ life[x] = "serving" => x \in leases \cap active
               /\ x \in leases => x \in Undisposed \cup {reservation}
               /\ at \in {"free", "closing"} /\ x \in leases => x \in active
    BY <2>1, <2>2, EndpointAssumption
       DEF SlotInvariant, ChildSlot, EndpointInvariant, TypeOK, Undisposed
  <2>4. QED
    BY <2>3 DEF SlotPerChild
<1>2. LiveSpec => []EndpointInvariant
  BY PoolRestricts, EndpointInvariantHolds, PTL
<1>3. QED
  BY <1>1, <1>2, SlotInvariantHolds, PTL

\* A Reset alone with an open pool that does not own a debt finds its slot (Factory.Reserve:
\* recovery has disposed of every child but the current one).
THEOREM ResetFindsSlotHolds == LiveSpec => []ResetFindsSlot
<1>1. EndpointInvariant /\ SlotInvariant => ResetFindsSlot
  <2>1. SUFFICES ASSUME EndpointInvariant, SlotInvariant, at = "reserve", ~closed,
                        leases \cap Other = {}, child \notin debt
                 PROVE  Pool!Verdict(TRUE) = "ok"
    BY DEF ResetFindsSlot
  <2>2. reservation = NoChild /\ pending = {} /\ candidate = NoChild
    BY <2>1 DEF SlotInvariant, Reservation, Reserved, EndpointInvariant, TypeOK, ResetPhases, Steps
  <2>3. Undisposed \subseteq {child}
    BY <2>1, <2>2, EndpointAssumption DEF EndpointInvariant, NoOrphanChild, Undisposed
  <2>4. leases \cap Child \subseteq Undisposed
    BY <2>1, <2>2, EndpointAssumption
       DEF SlotInvariant, ChildSlot, EndpointInvariant, TypeOK, Undisposed
  <2>5. leases \subseteq {child}
    BY <2>1, <2>3, <2>4 DEF SlotInvariant, PoolTyped, Call
  <2>6. debt \cap leases = {}
    BY <2>1, <2>5
  <2>7. Cardinality(leases) <= 1 /\ Cardinality(leases) \in Nat
    <3>1. IsFiniteSet({child}) /\ Cardinality({child}) = 1
      BY FS_Singleton
    <3>2. IsFiniteSet(leases) /\ Cardinality(leases) <= 1
      BY <2>5, <3>1, FS_Subset
    <3>3. QED
      BY <3>2, FS_CardinalityType
  <2>8. QED
    <3>1. ~Pool!Stopped(TRUE)
      BY <2>6, Zenon DEF Pool!Stopped
    <3>2. ~(Pool!Cardinality(leases) >= Limit)
      BY <2>7, LiveAssumption DEF Pool!Cardinality, Cardinality
    <3>3. QED
      BY <2>1, <3>1, <3>2, Zenon DEF Pool!Verdict
<1>2. LiveSpec => []EndpointInvariant
  BY PoolRestricts, EndpointInvariantHolds, PTL
<1>3. QED
  BY <1>1, <1>2, SlotInvariantHolds, PTL

-----------------------------------------------------------------------------
(* Debt and admission                                                      *)

\* A lease that owes cleanup was activated and is held for good, and its slot keeps
\* admission stopped.
DebtInvariant ==
  /\ debt \subseteq active
  /\ \A c \in Other : c \in debt => pc[c] = "held"
  /\ debt \cap leases # {} => blocked

\* Settlements add debts and never reopen admission.
LEMMA SettlingStops ==
  ASSUME SlotInvariant, DebtInvariant, NEW free, NEW bad, SettleSlots(free, bad),
         bad \subseteq Child
  PROVE  DebtInvariant' /\ active' \cap Other \subseteq active
<1>1. /\ leases' = leases \ free /\ active' = active \cup bad /\ debt' = debt \cup bad
      /\ blocked' = (blocked \/ bad # {})
      /\ pc' = [c \in Call |-> IF c \in Unused THEN "idle" ELSE pc[c]]
  BY DEF SettleSlots
<1>2. \A c \in Other : c \notin bad
  BY LiveAssumption
<1>3. ASSUME NEW c \in Other, c \in debt' PROVE pc'[c] = "held"
  <2>1. c \in debt /\ c \in active /\ c \in Call
    BY <1>1, <1>2, <1>3 DEF DebtInvariant, Call
  <2>2. c \notin Unused
    BY <2>1 DEF Unused
  <2>3. QED
    BY <1>1, <2>1, <2>2 DEF DebtInvariant
<1>4. QED
  BY <1>1, <1>2, <1>3 DEF DebtInvariant

\* Reserve finds no debt behind an admission that it reopens.
LEMMA ReserveStops ==
  ASSUME SlotInvariant, DebtInvariant, ReserveSlot
  PROVE  DebtInvariant' /\ UNCHANGED <<life, active>>
<1>1. UNCHANGED life
  BY DEF ReserveSlot, Reserve
<1>2. CASE UNCHANGED <<poolVars, reservation>>
  BY <1>1, <1>2 DEF DebtInvariant, poolVars, slotVars
<1>3. CASE ~UNCHANGED <<poolVars, reservation>>
  <2>1. /\ at = "reserve" /\ Pool!Verdict(TRUE) = "ok"
        /\ reservation' = CHOOSE x \in Fresh : TRUE
        /\ Pool!TryAcquire(reservation', TRUE)
    BY <1>3, Zenon DEF ReserveSlot, Reserve
  <2>2. reservation' \in Fresh
    BY <2>1 DEF SlotInvariant, Reservation
  <2>3. reservation' \notin debt /\ reservation' \notin Other
    BY <2>2, LiveAssumption DEF Fresh, SlotInvariant, ChildSlot
  <2>4. /\ leases' = leases \cup {reservation'} /\ pc' = [pc EXCEPT ![reservation'] = "held"]
        /\ UNCHANGED <<active, debt>>
    BY <2>1 DEF Pool!TryAcquire, Pool!Goto, Pool!Admit
  <2>5. debt \cap leases = {}
    BY <2>1, Zenon DEF Pool!Verdict, Pool!Stopped, DebtInvariant
  <2>6. QED
    BY <1>1, <2>3, <2>4, <2>5 DEF DebtInvariant, SlotInvariant, PoolTyped
<1>4. QED
  BY <1>2, <1>3

\* A replacement is started only while admission is open.
LEMMA StartStops ==
  ASSUME EndpointInvariant, SlotInvariant, DebtInvariant, StartOnSlot
  PROVE  /\ DebtInvariant' /\ active' \cap Other \subseteq active
         /\ debt \cap leases # {} => life' = life
<1> DEFINE r == reservation
<1>1. r \in Child /\ r \notin Other
  BY LiveAssumption, EndpointAssumption DEF StartOnSlot, Start, SlotInvariant, Reservation, Reserved
<1>2. pc' = pc
  BY DEF StartOnSlot
<1>3. CASE Pool!CanActivate(r)
  <2>1. r \in leases /\ ~blocked
    BY <1>3 DEF Pool!CanActivate
  <2>2. \/ Pool!Activate(r) \/ Pool!TrackCleanup(r, TRUE) \/ Pool!Settle(r, TRUE)
    BY <1>3 DEF StartOnSlot
  <2>3. \/ /\ leases' \subseteq leases /\ debt' = debt /\ blocked' = blocked
           /\ active' \in {active, active \cup {r}}
        \/ /\ leases' = leases /\ debt' = debt \cup {r} /\ blocked' = TRUE
           /\ active' = active \cup {r}
    BY <1>3, <2>1, <2>2 DEF Pool!Activate, Pool!TrackCleanup, Pool!Settle, Pool!Release,
       Pool!Stop, Pool!NoEffect, Pool!poolVars
  <2>4. debt \cap leases = {}
    BY <2>1 DEF DebtInvariant
  <2>5. QED
    BY <1>1, <1>2, <2>1, <2>3, <2>4 DEF DebtInvariant
<1>4. CASE ~Pool!CanActivate(r)
  <2>1. candidate' = NoChild /\ Pool!Cancel(r) /\ at = "start" /\ Start
    BY <1>4 DEF StartOnSlot, Start
  <2>2. life' = life
    BY <2>1, EndpointAssumption DEF Start
  <2>3. leases' \subseteq leases /\ UNCHANGED <<active, debt, blocked>>
    BY <2>1 DEF Pool!Cancel, Pool!Release, Pool!NoEffect, Pool!poolVars
  <2>4. QED
    BY <1>2, <2>2, <2>3 DEF DebtInvariant
<1>5. QED
  BY <1>3, <1>4

\* Beside the endpoint a Fork is admitted, and activates its slot, only without debt.
LEMMA OthersStop ==
  ASSUME SlotInvariant, DebtInvariant,
         \/ \E c \in Call : OwnersComplete(c)
         \/ \E c \in Other : AdmissionStep(c) \/ OtherUses(c)
         \/ PoolCloses \/ SnapshotCloses
  PROVE  /\ DebtInvariant' /\ life' = life
         /\ debt \cap leases # {} => active' \cap Other \subseteq active
<1>1. ASSUME NEW c \in Call, OwnersComplete(c)
      PROVE  /\ leases' \subseteq leases /\ UNCHANGED <<active, debt, blocked, pc, life>>
  BY <1>1 DEF OwnersComplete, Pool!WatcherSettles, Pool!Settle, Pool!Release, Pool!NoEffect,
     Pool!poolVars, vars
<1>2. CASE PoolCloses \/ SnapshotCloses
  BY <1>2 DEF PoolCloses, Pool!Close, Pool!PoolClose, SnapshotCloses, DebtInvariant, vars,
     poolVars, slotVars
<1>3. ASSUME NEW c \in Other, AdmissionStep(c)
      PROVE  DebtInvariant' /\ UNCHANGED <<active, life>>
  <2>1. UNCHANGED <<active, debt, life>> /\ pc[c] # "held"
    BY <1>3 DEF AdmissionStep, Pool!AcquireStep, Pool!AcquireCheckContext, Pool!AcquireAdmit,
       Pool!AcquireGranted, Pool!AcquireWoken, Pool!AcquireCancelled, Pool!Goto, Pool!Settle,
       Pool!Release, Pool!NoEffect, Pool!poolVars, vars
  <2>2. c \notin debt /\ \A d \in Other \ {c} : pc'[d] = pc[d]
    BY <1>3, <2>1 DEF DebtInvariant, AdmissionStep, Pool!AcquireStep, Pool!AcquireCheckContext,
       Pool!AcquireAdmit, Pool!AcquireGranted, Pool!AcquireWoken, Pool!AcquireCancelled, Pool!Goto,
       SlotInvariant, PoolTyped, Call
  <2>3. CASE Pool!AcquireAdmit(c)
    <3>1. \/ leases' = leases /\ blocked' = blocked
          \/ leases' = leases \cup {c} /\ ~blocked
      BY <2>3 DEF Pool!AcquireAdmit, Pool!Admit, Pool!Verdict, Pool!Stopped
    <3>2. QED
      BY <2>1, <2>2, <3>1 DEF DebtInvariant
  <2>4. CASE ~Pool!AcquireAdmit(c)
    <3>1. leases' \subseteq leases /\ blocked' = blocked
      BY <1>3, <2>4 DEF AdmissionStep, Pool!AcquireStep, Pool!AcquireCheckContext,
         Pool!AcquireGranted, Pool!AcquireWoken, Pool!AcquireCancelled, Pool!Settle,
         Pool!Release, Pool!NoEffect, Pool!poolVars
    <3>2. QED
      BY <2>1, <2>2, <3>1 DEF DebtInvariant
  <2>5. QED
    BY <2>1, <2>3, <2>4
<1>4. ASSUME NEW c \in Other, OtherUses(c)
      PROVE  /\ DebtInvariant' /\ life' = life
             /\ debt \cap leases # {} => active' \subseteq active
  <2>1. life' = life
    BY <1>4 DEF OtherUses, vars
  <2>2. CASE Pool!AcquireBegin(c)
    <3>1. pc[c] = "idle" /\ UNCHANGED <<leases, active, debt, blocked>>
      BY <2>2 DEF Pool!AcquireBegin, Pool!Goto, Pool!poolVars
    <3>2. \A d \in Other : d \in debt => pc'[d] = pc[d]
      BY <2>2, <3>1 DEF Pool!AcquireBegin, Pool!Goto, DebtInvariant, SlotInvariant, PoolTyped, Call
    <3>3. QED
      BY <2>1, <3>1, <3>2 DEF DebtInvariant
  <2>3. CASE ~Pool!AcquireBegin(c)
    <3>1. pc[c] = "held" /\ pc' = pc /\ c \in leases
      BY <1>4, <2>3 DEF OtherUses
    <3>2. \/ Pool!CanActivate(c) /\ Pool!Activate(c)
          \/ Pool!Cancel(c) \/ Pool!Settle(c, TRUE)
          \/ c \in active /\ Pool!TrackCleanup(c, TRUE)
      BY <1>4, <2>3 DEF OtherUses
    <3>3. \/ ~blocked /\ active' = active \cup {c} /\ UNCHANGED <<leases, debt, blocked>>
          \/ leases' \subseteq leases /\ UNCHANGED <<active, debt, blocked>>
          \/ /\ active' = active /\ leases' = leases /\ debt' = debt \cup {c} /\ blocked' = TRUE
      BY <3>1, <3>2 DEF Pool!CanActivate, Pool!Activate, Pool!Cancel, Pool!Settle,
         Pool!TrackCleanup, Pool!Release, Pool!Stop, Pool!NoEffect, Pool!poolVars
    <3>4. c \in active' \/ debt' = debt
      BY <3>2, <3>3 DEF Pool!Cancel, Pool!Settle, Pool!Release, Pool!NoEffect, Pool!poolVars,
         Pool!CanActivate, Pool!Activate
    <3>5. QED
      BY <2>1, <3>1, <3>3, <3>4 DEF DebtInvariant
  <2>4. QED
    BY <2>2, <2>3
<1>5. QED
  BY <1>1, <1>2, <1>3, <1>4 DEF DebtInvariant

\* Every step keeps admission stopped over a debt, and starts nothing while it is.
LEMMA StepStops ==
  ASSUME EndpointInvariant, SlotInvariant, DebtInvariant, [LiveNext]_allVars
  PROVE  /\ DebtInvariant'
         /\ debt \cap leases # {} =>
              /\ \A x \in Child : life[x] = "unborn" => life'[x] = "unborn"
              /\ active' \cap Other \subseteq active
<1> DEFINE Unmade == \A x \in Child : life[x] = "unborn" => life'[x] = "unborn"
<1>1. ASSUME QuietStep, SettleSlots(Unused, {})
      PROVE  DebtInvariant' /\ Unmade /\ active' \cap Other \subseteq active
  <2>1. Unmade
    BY <1>1, QuietMoves DEF EndpointInvariant, Moves
  <2>2. QED
    BY <1>1, <2>1, SettlingStops
<1>2. ASSUME ClosingStep, SettleSlots(Disposed \cup Unused, Failing \cap leases)
      PROVE  DebtInvariant' /\ Unmade /\ active' \cap Other \subseteq active
  <2>1. Unmade /\ Failing \subseteq Child
    BY <1>2, ClosingMoves DEF Moves
  <2>2. QED
    BY <1>2, <2>1, SettlingStops
<1>3. CASE \/ \E c \in Conn : Keeps(Accept(c)) \/ Keeps(Dialed(c)) \/ Keeps(Leaves(c))
           \/ \E x \in Child : Keeps(ChildDies(x))
           \/ BeginReset \/ Keeps(ContextEnds) \/ Keeps(Drain) \/ Keeps(DrainWoken)
           \/ Keeps(DrainExpires) \/ Keeps(CloseBegins)
  <2>1. QuietStep /\ SettleSlots(Unused, {})
    BY <1>3, Zenon DEF BeginReset, Keeps, QuietStep
  <2>2. QED
    BY <1>1, <2>1
<1>4. CASE \/ Closes(RecoverPending) \/ Closes(RecoverRetire) \/ Closes(SwitchPending)
           \/ Closes(StartFailed) \/ Closes(Retire) \/ Closes(Commit)
           \/ Closes(CloseEnds) \/ Closes(CloseAgain)
  <2>1. ClosingStep /\ SettleSlots(Disposed \cup Unused, Failing \cap leases)
    BY <1>4, Zenon DEF Closes, ClosingStep
  <2>2. QED
    BY <1>2, <2>1
<1>5. CASE ReserveSlot
  BY <1>5, ReserveStops
<1>6. CASE StartOnSlot
  BY <1>6, StartStops
<1>7. ASSUME NEW x \in Child, WatchCloses(x)
      PROVE  DebtInvariant' /\ Unmade /\ active' \cap Other \subseteq active
  <2>1. life' = life /\ (SettleSlots({x}, {}) \/ SettleSlots({}, {x}))
    BY <1>7 DEF WatchCloses, vars
  <2>2. QED
    BY <2>1, SettlingStops
<1>8. CASE \/ \E c \in Call : OwnersComplete(c)
           \/ \E c \in Other : AdmissionStep(c) \/ OtherUses(c)
           \/ PoolCloses \/ SnapshotCloses
  BY <1>8, OthersStop
<1>9. CASE UNCHANGED allVars
  BY <1>9 DEF allVars, poolVars, slotVars, vars, DebtInvariant
<1>10. QED
  BY <1>3, <1>4, <1>5, <1>6, <1>7, <1>8, <1>9, Zenon DEF LiveNext, ResetRuns

\* While a slot owes cleanup no child and no other Fork is started (Lease.Activate,
\* acquireLocked, Reserve), whoever reserved, recovers or succeeds meanwhile.
THEOREM StartsWithoutDebtHolds == LiveSpec => StartsWithoutDebt
<1>1. LiveInit => DebtInvariant
  <2>1. LiveInit => debt \subseteq Child
    BY DEF LiveInit, InitPool
  <2>2. QED
    BY <2>1, LiveAssumption DEF LiveInit, InitPool, DebtInvariant
<1>2. EndpointInvariant /\ SlotInvariant /\ DebtInvariant /\ [LiveNext]_allVars => DebtInvariant'
  BY StepStops
<1>3. EndpointInvariant /\ SlotInvariant /\ DebtInvariant /\ [LiveNext]_allVars =>
        [debt \cap leases # {} =>
           /\ \A x \in Child : life[x] = "unborn" => life'[x] = "unborn"
           /\ active' \cap Other \subseteq active]_allVars
  BY StepStops
<1>4. LiveSpec => []EndpointInvariant
  BY PoolRestricts, EndpointInvariantHolds, PTL
<1>5. QED
  BY <1>1, <1>2, <1>3, <1>4, SlotInvariantHolds, PTL DEF LiveSpec, StartsWithoutDebt
=============================================================================
