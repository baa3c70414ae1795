---------------------- MODULE PreparedStatementsProofs ----------------------
(***************************************************************************)
(* Host and guest agree about prepared statements for every width of the   *)
(* identifiers and every set of parameter counts.                          *)
(*                                                                         *)
(* StatementsAgree and StreamsAgree are not inductive: PREPARE must know   *)
(* that the two counters are equal and that nothing is registered above    *)
(* them.  LockStep says so; under it a statement's wire ID is its handle,  *)
(* which is why Add never meets a handle it has already.                   *)
(***************************************************************************)
EXTENDS PreparedStatements, TLAPS

\* What holds between any two commands, besides the properties.
LockStep ==
  /\ session # "closed" => guest = "running" /\ generation = psGeneration /\ next = psNext
  /\ session # "ready" => /\ DOMAIN entries = {} /\ DOMAIN long = {} /\ longErrors = {}
                          /\ types = {} /\ lastStatement = 0
  /\ session # "ready" /\ guest = "running" => psEntries = Empty
  /\ session = "ready" => DOMAIN psEntries = DOMAIN entries
  /\ session = "greeting" => psNext = 0
  /\ \A id \in DOMAIN entries : /\ entries[id].handle = id /\ id # 0 /\ id <= next
                                /\ session = "ready" => psEntries[id].count = entries[id].params
  /\ next < LastStatementID

\* The inductive invariant.
PreparedInv == TypeOK /\ LockStep /\ StreamsAgree /\ AliasIsNewest

\* Under LockStep the registry's handles are its wire IDs.
LEMMA HandlesAreIds == LockStep => Handles = DOMAIN entries
BY DEF LockStep, Handles

\* What the inductive invariant says about the two sides.
LEMMA InvImpliesAgreement == PreparedInv => StatementsAgree
<1> SUFFICES ASSUME PreparedInv PROVE StatementsAgree OBVIOUS
<1>1. Handles = DOMAIN entries BY HandlesAreIds DEF PreparedInv
<1> QED BY <1>1 DEF PreparedInv, LockStep, StatementsAgree

LEMMA InitEstablishes == Init => PreparedInv
BY PreparedAssumption
DEF Init, PreparedInv, TypeOK, LockStep, StreamsAgree, AliasIsNewest, Empty, WireId, LastStatementID

\* A session that is dropped leaves nothing for the invariant to speak of.
LEMMA DropPreserves ==
  ASSUME PreparedInv, DropSession, guest' \in {"running", "exited"}, psEntries' = psEntries \/ psEntries' = Empty,
         psNext' \in WireId, psGeneration' \in WireId,
         fault' \in {"none", "open", "exhausted", "metadata", "protocol"},
         guest' = "exited" \/ psEntries' = Empty
  PROVE  PreparedInv'
<1>1. TypeOK'
  BY PreparedAssumption DEF PreparedInv, TypeOK, DropSession, NewPreparedSession, Empty, WireId
<1>2. LockStep'
  BY PreparedAssumption DEF PreparedInv, LockStep, DropSession, NewPreparedSession, Empty, WireId, LastStatementID
<1>3. StreamsAgree' BY DEF StreamsAgree, DropSession, NewPreparedSession, Empty
<1>4. AliasIsNewest' BY DEF AliasIsNewest, DropSession, NewPreparedSession, Empty
<1> QED BY <1>1, <1>2, <1>3, <1>4 DEF PreparedInv

\* An answer the host cannot accept does so.
LEMMA BreakPreserves ==
  ASSUME PreparedInv, NEW why \in {"open", "exhausted", "metadata", "protocol"}, Breaks(why),
         psEntries' = psEntries, psNext' \in WireId, psGeneration' \in WireId
  PROVE  PreparedInv'
BY DropPreserves DEF Breaks

LEMMA MismatchPreserves ==
  ASSUME PreparedInv, Mismatch
  PROVE  PreparedInv'
BY BreakPreserves DEF Mismatch, psVars, PreparedInv, TypeOK

\* A parameter index a client may send is a natural number, and there is one.
LEMMA IndexFacts == 0 \in Nat /\ \A n \in ParamCounts : \A i \in 0..n : i \in Nat
BY PreparedAssumption

\* Opening, reopening and ending sessions.
LEMMA SessionsPreserve ==
  ASSUME PreparedInv, OpenSession \/ AcceptClient \/ ReopenFoundRows \/ EndSession \/ GuestExits
  PROVE  PreparedInv'
<1> USE PreparedAssumption
<1>1. CASE OpenSession
  <2>1. CASE Breaks("open") /\ UNCHANGED psVars
    BY <2>1, BreakPreserves DEF psVars, PreparedInv, TypeOK
  <2>2. CASE PsBeginSession /\ NewPreparedSession(psGeneration') /\ session' = "greeting" /\ UNCHANGED <<guest, fault>>
    <3>1. TypeOK'
      BY <1>1, <2>2 DEF OpenSession, PsBeginSession, NewPreparedSession, PreparedInv, TypeOK, Empty, WireId
    <3>2. LockStep'
      BY <1>1, <2>2 DEF OpenSession, PsBeginSession, NewPreparedSession, PreparedInv, LockStep, Empty, WireId, LastStatementID
    <3>3. StreamsAgree' /\ AliasIsNewest'
      BY <2>2 DEF NewPreparedSession, StreamsAgree, AliasIsNewest, Empty
    <3> QED BY <3>1, <3>2, <3>3 DEF PreparedInv
  <2> QED BY <1>1, <2>1, <2>2 DEF OpenSession
<1>2. CASE AcceptClient
  <2>1. TypeOK' BY <1>2 DEF AcceptClient, hostVars, psVars, PreparedInv, TypeOK
  <2>2. LockStep' BY <1>2 DEF AcceptClient, hostVars, psVars, PreparedInv, LockStep, Empty
  <2>3. StreamsAgree' /\ AliasIsNewest'
    BY <1>2 DEF AcceptClient, hostVars, psVars, PreparedInv, StreamsAgree, AliasIsNewest
  <2> QED BY <2>1, <2>2, <2>3 DEF PreparedInv
<1>3. CASE ReopenFoundRows
  <2>1. CASE DropSession
    BY <1>3, <2>1, DropPreserves DEF ReopenFoundRows, PreparedInv, TypeOK, WireId
  <2>2. CASE /\ psGeneration # MaxU32
             /\ psGeneration' = psGeneration + 1 /\ psNext' = 0 /\ psEntries' = Empty
             /\ NewPreparedSession(psGeneration') /\ session' = "ready" /\ UNCHANGED <<guest, fault>>
    <3>1. TypeOK' BY <2>2 DEF NewPreparedSession, PreparedInv, TypeOK, Empty, WireId
    <3>2. LockStep'
      BY <1>3, <2>2 DEF ReopenFoundRows, NewPreparedSession, PreparedInv, LockStep, Empty, WireId, LastStatementID
    <3>3. StreamsAgree' /\ AliasIsNewest' BY <2>2 DEF NewPreparedSession, StreamsAgree, AliasIsNewest, Empty
    <3> QED BY <3>1, <3>2, <3>3 DEF PreparedInv
  <2> QED BY <1>3, <2>1, <2>2 DEF ReopenFoundRows
<1>4. CASE EndSession
  BY <1>4, DropPreserves DEF EndSession, PreparedInv, TypeOK
<1>5. CASE GuestExits
  BY <1>5, DropPreserves DEF GuestExits, psVars, PreparedInv, TypeOK
<1> QED BY <1>1, <1>2, <1>3, <1>4, <1>5

\* PREPARE, with or without a statement.
LEMMA PreparePreserves ==
  ASSUME PreparedInv, NEW n \in ParamCounts, NEW valid \in BOOLEAN, PrepareFails \/ Prepare(n, valid)
  PROVE  PreparedInv'
<1> USE PreparedAssumption
<1>1. CASE PrepareFails
  <2>1. TypeOK' BY <1>1 DEF PrepareFails, psVars, PreparedInv, TypeOK, WireId
  <2>2. LockStep' BY <1>1 DEF PrepareFails, Ready, psVars, PreparedInv, LockStep
  <2>3. StreamsAgree' /\ AliasIsNewest'
    BY <1>1 DEF PrepareFails, psVars, PreparedInv, StreamsAgree, AliasIsNewest
  <2> QED BY <2>1, <2>2, <2>3 DEF PreparedInv
<1>2. CASE Prepare(n, valid)
  <2>1. CASE ~SameGeneration BY <1>2, <2>1, MismatchPreserves DEF Prepare
  <2>2. CASE SameGeneration /\ ~(valid /\ CanAdd(psNext'))
    <3>1. psNext' \in WireId /\ psGeneration' \in WireId /\ psEntries' = psEntries
      BY <1>2, <2>2 DEF Prepare, PreparedInv, TypeOK, WireId
    <3>2. Breaks("exhausted") \/ Breaks("metadata") BY <1>2, <2>2 DEF Prepare
    <3> QED BY <3>1, <3>2, BreakPreserves
  <2>3. CASE SameGeneration /\ valid /\ CanAdd(psNext')
    <3> DEFINE entry == [handle |-> psNext', params |-> n]
               statement == [count |-> n, long |-> {}, deferred |-> FALSE]
    <3>1. /\ Ready /\ next' = next + 1 /\ psNext' = psNext + 1 /\ lastStatement' = next'
          /\ entries' = With(entries, next', entry)
          /\ psEntries' = With(psEntries, psNext', statement)
          /\ UNCHANGED <<session, generation, long, longErrors, types, guest, fault, psGeneration>>
          /\ next < LastStatementID - 1
      BY <1>2, <2>3 DEF Prepare, CanAdd
    <3>2. /\ next \in Nat /\ psNext = next /\ next' \in WireId /\ next' # 0 /\ next' < LastStatementID
          /\ \A id \in DOMAIN entries : id # next' /\ id <= next'
      BY <3>1 DEF Ready, PreparedInv, LockStep, TypeOK, WireId, LastStatementID
    <3>3. /\ DOMAIN entries' = DOMAIN entries \cup {next'} /\ entries'[next'] = entry
          /\ \A id \in DOMAIN entries : entries'[id] = entries[id]
      BY <3>1, <3>2 DEF With
    <3>4. /\ DOMAIN psEntries = DOMAIN entries
          /\ DOMAIN psEntries' = DOMAIN entries' /\ psEntries'[next'] = statement
          /\ \A id \in DOMAIN entries : psEntries'[id] = psEntries[id]
      BY <3>1, <3>2, <3>3 DEF Ready, PreparedInv, LockStep, With
    <3>a. /\ entry \in [handle : WireId, params : ParamCounts]
          /\ statement \in [count : ParamCounts, long : SUBSET Nat, deferred : BOOLEAN]
          /\ entry.handle = next' /\ entry.params = n
          /\ statement.count = n /\ statement.long = {} /\ statement.deferred = FALSE
      BY <3>1, <3>2
    <3> HIDE DEF entry, statement
    <3>5. TypeOK'
      <4>1. \A id \in DOMAIN entries' : entries'[id] \in [handle : WireId, params : ParamCounts]
        BY <3>3, <3>a DEF PreparedInv, TypeOK
      <4>2. \A h \in DOMAIN psEntries' :
              psEntries'[h] \in [count : ParamCounts, long : SUBSET Nat, deferred : BOOLEAN]
        BY <3>3, <3>4, <3>a DEF PreparedInv, TypeOK
      <4>3. DOMAIN entries' \subseteq WireId BY <3>2, <3>3 DEF PreparedInv, TypeOK
      <4>4. psNext' \in WireId BY <3>1, <3>2
      <4> QED BY <3>1, <3>2, <3>4, <4>1, <4>2, <4>3, <4>4 DEF PreparedInv, TypeOK
    <3>6. LockStep'
      <4>1. \A id \in DOMAIN entries' :
              /\ entries'[id].handle = id /\ id # 0 /\ id <= next'
              /\ psEntries'[id].count = entries'[id].params
        BY <3>1, <3>2, <3>3, <3>4, <3>a DEF Ready, PreparedInv, LockStep
      <4> QED BY <3>1, <3>2, <3>4, <4>1 DEF Ready, PreparedInv, LockStep, LastStatementID
    <3>7. next' \notin DOMAIN long /\ next' \notin longErrors
      BY <3>2 DEF PreparedInv, AliasIsNewest
    <3>8. StreamsAgree'
      <4> SUFFICES ASSUME NEW id \in DOMAIN entries'
                   PROVE  LET e == psEntries'[entries'[id].handle] IN
                          /\ e.long = IF id \in DOMAIN long' THEN long'[id] ELSE {}
                          /\ e.deferred <=> id \in longErrors'
        BY DEF StreamsAgree
      <4>1. CASE id = next' BY <3>1, <3>3, <3>4, <3>7, <3>a, <4>1
      <4>2. CASE id \in DOMAIN entries
        BY <3>1, <3>3, <3>4, <4>2 DEF PreparedInv, LockStep, StreamsAgree
      <4> QED BY <3>3, <4>1, <4>2
    <3>9. AliasIsNewest'
      BY <3>1, <3>2, <3>3 DEF PreparedInv, AliasIsNewest, LastStatementID, WireId
    <3> QED BY <3>5, <3>6, <3>8, <3>9 DEF PreparedInv
  <2> QED BY <2>1, <2>2, <2>3
<1> QED BY <1>1, <1>2

\* LONG_DATA, EXECUTE, RESET and CLOSE of a registered statement.  Its handle is the
\* ID itself; each conjunct is about that statement only.
LEMMA CommandsPreserve ==
  ASSUME PreparedInv, NEW wire \in WireId, NEW i \in Nat, NEW fresh \in BOOLEAN,
         SendLongData(wire, i) \/ Execute(wire, fresh) \/ Reset(wire) \/ Close(wire)
  PROVE  PreparedInv'
<1> USE PreparedAssumption
<1> DEFINE id == ResolveStatementID(wire)
<1>1. CASE Mismatch BY <1>1, MismatchPreserves
<1>2. CASE ~Mismatch
  <2>1. Ready /\ id \in DOMAIN entries
    BY DEF SendLongData, Execute, Reset, Close
  <2>2. /\ entries[id].handle = id /\ DOMAIN psEntries = DOMAIN entries /\ SameGeneration
        /\ psEntries[id].count = entries[id].params /\ id \in WireId
        /\ entries[id].params \in Nat
    BY <2>1 DEF Ready, SameGeneration, PreparedInv, LockStep, TypeOK
  <2>3. CASE SendLongData(wire, i)
    <3>1. CASE psEntries[id].deferred \/ i >= psEntries[id].count
      <4>1. /\ psEntries' = [psEntries EXCEPT ![id].deferred = TRUE]
            /\ longErrors' = longErrors \cup {id}
            /\ UNCHANGED <<session, generation, next, entries, lastStatement, long, types,
                           psGeneration, psNext, guest, fault>>
        BY <1>2, <2>1, <2>2, <2>3, <3>1 DEF SendLongData
      <4>a. /\ DOMAIN psEntries' = DOMAIN psEntries
            /\ \A k \in DOMAIN psEntries : psEntries'[k].count = psEntries[k].count
        BY <4>1 DEF PreparedInv, TypeOK
      <4>2. TypeOK' BY <2>2, <4>1 DEF PreparedInv, TypeOK
      <4>3. LockStep' BY <2>1, <2>2, <4>1, <4>a DEF Ready, PreparedInv, LockStep
      <4>4. StreamsAgree' BY <2>1, <2>2, <4>1 DEF PreparedInv, LockStep, TypeOK, StreamsAgree
      <4>5. AliasIsNewest' BY <2>1, <4>1 DEF PreparedInv, AliasIsNewest
      <4> QED BY <4>2, <4>3, <4>4, <4>5 DEF PreparedInv
    <3>2. CASE ~(psEntries[id].deferred \/ i >= psEntries[id].count)
      <4> DEFINE streamed == (IF id \in DOMAIN long THEN long[id] ELSE {}) \cup {i}
      <4>1. /\ psEntries' = [psEntries EXCEPT ![id].long = @ \cup {i}]
            /\ long' = With(long, id, streamed)
            /\ UNCHANGED <<session, generation, next, entries, lastStatement, longErrors, types,
                           psGeneration, psNext, guest, fault>>
        BY <1>2, <2>1, <2>2, <2>3, <3>2 DEF SendLongData
      <4>2. /\ DOMAIN long' = DOMAIN long \cup {id} /\ long'[id] = streamed
            /\ \A k \in DOMAIN long : k # id => long'[k] = long[k]
        BY <4>1 DEF With
      <4>3. streamed \in SUBSET Nat BY DEF PreparedInv, TypeOK
      <4>4. TypeOK' BY <2>2, <4>1, <4>2, <4>3 DEF PreparedInv, TypeOK
      <4>5. LockStep' BY <2>1, <2>2, <4>1 DEF Ready, PreparedInv, LockStep
      <4>a. /\ psEntries'[id].long = psEntries[id].long \cup {i}
            /\ psEntries'[id].deferred = psEntries[id].deferred
            /\ \A k \in DOMAIN psEntries : k # id => psEntries'[k] = psEntries[k]
        BY <2>1, <2>2, <4>1 DEF PreparedInv, TypeOK
      <4>6. StreamsAgree'
        <5> SUFFICES ASSUME NEW k \in DOMAIN entries
                     PROVE  LET e == psEntries'[k] IN
                            /\ e.long = IF k \in DOMAIN long' THEN long'[k] ELSE {}
                            /\ e.deferred <=> k \in longErrors'
          BY <4>1 DEF StreamsAgree, PreparedInv, LockStep
        <5>1. LET e == psEntries[k] IN
                /\ e.long = IF k \in DOMAIN long THEN long[k] ELSE {}
                /\ e.deferred <=> k \in longErrors
          BY DEF StreamsAgree, PreparedInv, LockStep
        <5>2. CASE k = id BY <4>1, <4>2, <4>a, <5>1, <5>2
        <5>3. CASE k # id BY <2>2, <4>1, <4>2, <4>a, <5>1, <5>3
        <5> QED BY <5>2, <5>3
      <4>7. AliasIsNewest' BY <2>1, <4>1, <4>2 DEF PreparedInv, AliasIsNewest
      <4> QED BY <4>4, <4>5, <4>6, <4>7 DEF PreparedInv
    <3> QED BY <3>1, <3>2
  <2>4. CASE Execute(wire, fresh)
    <3>1. /\ psEntries' = [psEntries EXCEPT ![id].long = {}]
          /\ long' = Without(long, id) /\ types' = types \cup {id}
          /\ UNCHANGED <<session, generation, next, entries, lastStatement, longErrors,
                         psGeneration, psNext, guest, fault>>
      BY <2>1, <2>2, <2>4 DEF Execute, PreparedInv, StreamsAgree
    <3>2. /\ DOMAIN long' = DOMAIN long \ {id}
          /\ \A k \in DOMAIN long' : long'[k] = long[k]
      BY <3>1 DEF Without
    <3>3. TypeOK' BY <2>2, <3>1, <3>2 DEF PreparedInv, TypeOK
    <3>4. LockStep' BY <2>1, <2>2, <3>1 DEF Ready, PreparedInv, LockStep
    <3>5. StreamsAgree' BY <2>1, <2>2, <3>1, <3>2 DEF PreparedInv, LockStep, TypeOK, StreamsAgree
    <3>6. AliasIsNewest' BY <2>1, <3>1, <3>2 DEF PreparedInv, AliasIsNewest
    <3> QED BY <3>3, <3>4, <3>5, <3>6 DEF PreparedInv
  <2>5. CASE Reset(wire)
    <3>1. /\ psEntries' = [psEntries EXCEPT ![id].long = {}, ![id].deferred = FALSE]
          /\ long' = Without(long, id) /\ longErrors' = longErrors \ {id}
          /\ UNCHANGED <<session, generation, next, entries, lastStatement, types,
                         psGeneration, psNext, guest, fault>>
      BY <2>1, <2>2, <2>5 DEF Reset
    <3>2. /\ DOMAIN long' = DOMAIN long \ {id}
          /\ \A k \in DOMAIN long' : long'[k] = long[k]
      BY <3>1 DEF Without
    <3>a. /\ DOMAIN psEntries' = DOMAIN psEntries
          /\ \A k \in DOMAIN psEntries :
               psEntries'[k] \in [count : ParamCounts, long : SUBSET Nat, deferred : BOOLEAN]
      BY <3>1 DEF PreparedInv, TypeOK
    <3>3. TypeOK' BY <2>2, <3>1, <3>2, <3>a DEF PreparedInv, TypeOK
    <3>4. LockStep' BY <2>1, <2>2, <3>1 DEF Ready, PreparedInv, LockStep
    <3>5. StreamsAgree' BY <2>1, <2>2, <3>1, <3>2 DEF PreparedInv, LockStep, TypeOK, StreamsAgree
    <3>6. AliasIsNewest' BY <2>1, <3>1, <3>2 DEF PreparedInv, AliasIsNewest
    <3> QED BY <3>3, <3>4, <3>5, <3>6 DEF PreparedInv
  <2>6. CASE Close(wire)
    <3>1. /\ psEntries' = Without(psEntries, id) /\ entries' = Without(entries, id)
          /\ lastStatement' = IF lastStatement = id THEN 0 ELSE lastStatement
          /\ types' = types \ {id} /\ long' = Without(long, id) /\ longErrors' = longErrors \ {id}
          /\ UNCHANGED <<session, generation, next, psGeneration, psNext, guest, fault>>
      BY <2>1, <2>2, <2>6 DEF Close
    <3>2. /\ DOMAIN long' = DOMAIN long \ {id} /\ \A k \in DOMAIN long' : long'[k] = long[k]
          /\ DOMAIN entries' = DOMAIN entries \ {id} /\ \A k \in DOMAIN entries' : entries'[k] = entries[k]
          /\ DOMAIN psEntries' = DOMAIN entries' /\ \A k \in DOMAIN psEntries' : psEntries'[k] = psEntries[k]
      BY <2>2, <3>1 DEF Without
    <3>a. lastStatement' \in WireId
      BY <3>1, PreparedAssumption DEF PreparedInv, TypeOK, WireId
    <3>3. TypeOK' BY <2>2, <3>1, <3>2, <3>a DEF PreparedInv, TypeOK
    <3>4. LockStep' BY <2>1, <2>2, <3>1, <3>2 DEF Ready, PreparedInv, LockStep
    <3>5. StreamsAgree' BY <2>1, <2>2, <3>1, <3>2 DEF PreparedInv, LockStep, StreamsAgree
    <3>6. AliasIsNewest' BY <2>1, <3>1, <3>2 DEF PreparedInv, AliasIsNewest
    <3> QED BY <3>3, <3>4, <3>5, <3>6 DEF PreparedInv
  <2> QED BY <2>3, <2>4, <2>5, <2>6
<1> QED BY <1>1, <1>2

LEMMA NextPreserves == PreparedInv /\ [Next]_vars => PreparedInv'
<1> SUFFICES ASSUME PreparedInv, [Next]_vars PROVE PreparedInv' OBVIOUS
<1>1. CASE UNCHANGED vars
  BY <1>1 DEF vars, hostVars, psVars, PreparedInv, TypeOK, LockStep, StreamsAgree, AliasIsNewest
<1>2. CASE Next
  <2>1. CASE OpenSession \/ AcceptClient \/ ReopenFoundRows \/ EndSession \/ GuestExits
    BY <2>1, SessionsPreserve
  <2>2. CASE PrepareFails \/ \E n \in ParamCounts, valid \in BOOLEAN : Prepare(n, valid)
    <3>1. CASE ParamCounts = {} /\ PrepareFails
      <4>1. TypeOK' BY <3>1, PreparedAssumption DEF PrepareFails, psVars, PreparedInv, TypeOK, WireId
      <4>2. LockStep' BY <3>1 DEF PrepareFails, Ready, psVars, PreparedInv, LockStep
      <4>3. StreamsAgree' /\ AliasIsNewest'
        BY <3>1 DEF PrepareFails, psVars, PreparedInv, StreamsAgree, AliasIsNewest
      <4> QED BY <4>1, <4>2, <4>3 DEF PreparedInv
    <3> QED BY <2>2, <3>1, PreparePreserves
  <2>3. CASE \E wire \in WireId :
               \/ \E n \in ParamCounts : \E i \in 0..n : SendLongData(wire, i)
               \/ \E fresh \in BOOLEAN : Execute(wire, fresh)
               \/ Reset(wire) \/ Close(wire)
    BY <2>3, CommandsPreserve, IndexFacts
  <2> QED BY <1>2, <2>1, <2>2, <2>3 DEF Next
<1> QED BY <1>1, <1>2

\* The inductive invariant holds throughout: both counters stay within 32 bits and
\* no map ever has a key outside them.
THEOREM PreparedInvariant == Spec => []PreparedInv
<1>1. Init => PreparedInv BY InitEstablishes
<1>2. PreparedInv /\ [Next]_vars => PreparedInv' BY NextPreserves
<1> QED BY <1>1, <1>2, PTL DEF Spec

\* The registry and the guest's statement list agree (newPreparedSession, handle,
\* ps_prepare, ps_dispatch), and a slot without a session has no statement left.
THEOREM SidesAgree == Spec => []StatementsAgree
BY PreparedInvariant, InvImpliesAgreement, PTL

\* The host's long and longErrors maps are the guest's long_data and
\* deferred_long_error, and the alias and the caches belong to registered statements.
THEOREM StreamsAndAlias == Spec => [](StreamsAgree /\ AliasIsNewest)
<1>1. PreparedInv => StreamsAgree /\ AliasIsNewest BY DEF PreparedInv
<1> QED BY <1>1, PreparedInvariant, PTL

\* A statement the alias of the last prepare stands for, and every statement with a
\* cached execution, is registered (psPrepare, ResolveStatementID, ps_close).
THEOREM AliasIsNewestHolds == Spec => []AliasIsNewest
<1>1. PreparedInv => AliasIsNewest BY DEF PreparedInv
<1> QED BY <1>1, PreparedInvariant, PTL

\* Client commands never make the host take the guest for broken: only a refused
\* open, rejected metadata or the end of the identifiers aborts the database.
THEOREM CommandsNeverBreak == Spec => OnlyExhaustionBreaks
<1> DEFINE Allowed == fault' # fault =>
                         \/ fault' \in {"open", "metadata"}
                         \/ fault' = "exhausted" /\ next = LastStatementID - 1
<1>1. PreparedInv /\ [Next]_vars => [Allowed]_vars
  <2> SUFFICES ASSUME PreparedInv, Next PROVE Allowed BY DEF vars
  <2>1. CASE OpenSession \/ AcceptClient \/ ReopenFoundRows \/ EndSession \/ GuestExits \/ PrepareFails
    BY <2>1 DEF OpenSession, AcceptClient, ReopenFoundRows, EndSession, GuestExits, PrepareFails, Breaks
  <2>2. ASSUME NEW n \in ParamCounts, NEW valid \in BOOLEAN, Prepare(n, valid) PROVE Allowed
    <3>1. Ready /\ SameGeneration /\ psNext = next /\ next \in Nat /\ next < LastStatementID
      BY <2>2 DEF Prepare, Ready, SameGeneration, PreparedInv, LockStep, TypeOK, WireId
    <3>2. psNext' = psNext + 1 BY <2>2, <3>1 DEF Prepare
    <3>3. psNext' \notin Handles /\ psNext' # 0
      BY <3>1, <3>2, HandlesAreIds DEF PreparedInv, LockStep
    <3>4. CASE ~valid BY <2>2, <3>1, <3>4 DEF Prepare, Breaks
    <3>5. CASE valid
      BY <2>2, <3>1, <3>3, <3>5, PreparedAssumption DEF Prepare, Breaks, CanAdd, LastStatementID
    <3> QED BY <3>4, <3>5
  <2>3. ASSUME NEW wire \in WireId, NEW i \in Nat, NEW fresh \in BOOLEAN,
               SendLongData(wire, i) \/ Execute(wire, fresh) \/ Reset(wire) \/ Close(wire)
        PROVE  Allowed
    <3> DEFINE id == ResolveStatementID(wire)
    <3>1. Ready /\ id \in DOMAIN entries BY <2>3 DEF SendLongData, Execute, Reset, Close
    <3>2. /\ entries[id].handle = id /\ id \in DOMAIN psEntries /\ SameGeneration
          /\ psEntries[id].count = entries[id].params /\ entries[id].params \in Nat
          /\ (psEntries[id].deferred <=> id \in longErrors)
      BY <3>1, PreparedAssumption DEF Ready, SameGeneration, PreparedInv, LockStep, TypeOK, StreamsAgree
    <3> QED BY <2>3, <3>1, <3>2 DEF SendLongData, Execute, Reset, Close
  <2> QED BY <2>1, <2>2, <2>3, IndexFacts DEF Next
<1> QED BY <1>1, PreparedInvariant, PTL DEF Spec, OnlyExhaustionBreaks
=============================================================================
