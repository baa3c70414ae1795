------------------------- MODULE PreparedStatements -------------------------
(***************************************************************************)
(* Prepared statements on one guest slot, both sides of the bridge: the    *)
(* host's preparedSession and its Registry (internal/mysqlwire/prepared_*  *)
(* and internal/preparedproto) and the guest's per-worker statement list   *)
(* (guest/prepared_api.inc, guest/resident.inc).  Sessions follow each     *)
(* other on the slot.  One serial dispatcher owns the host's state and one *)
(* worker the guest's, so a client command is one action, with every call  *)
(* it makes to the guest.                                                  *)
(*                                                                         *)
(* Host and guest keep two pictures of the same statements: which exist,   *)
(* how many parameters they have, which parameters hold streamed long data *)
(* and which have a deferred error.  An error that Serve returns aborts    *)
(* the whole database (host.Server), so a disagreement costs every session *)
(* its data.                                                               *)
(*                                                                         *)
(* Values, types, SQL and result rows are left out.  A command the host    *)
(* answers with an error by itself changes nothing and is no step here.    *)
(***************************************************************************)
EXTENDS Naturals

CONSTANTS
  MaxU32,       \* UINT32_MAX, which is also preparedproto.LastStatementID
  ParamCounts   \* the parameter counts SQL texts may have

ASSUME PreparedAssumption ==
  /\ MaxU32 \in Nat /\ MaxU32 >= 2
  /\ ParamCounts \subseteq Nat

VARIABLES
  session,        \* Serve: "closed", "greeting" (no command yet) or "ready"
  generation,     \* Registry.generation
  next,           \* Registry.next
  entries,        \* Registry.entries: wire ID to native handle and parameter count
  lastStatement,  \* what the alias LastStatementID stands for; 0: nothing
  long,           \* wire ID to its parameters with streamed data
  longErrors,     \* wire IDs with a deferred LONG_DATA error
  types,          \* wire IDs with the descriptors of their last EXECUTE
  psGeneration,   \* guest: ps_generation
  psNext,         \* guest: ps_next
  psEntries,      \* guest: ps_entries, by handle
  guest,          \* "running" or "exited"
  fault           \* the error Serve returned, which aborted the guest

hostVars == <<generation, next, entries, lastStatement, long, longErrors, types>>
psVars == <<psGeneration, psNext, psEntries>>
vars == <<session, hostVars, psVars, guest, fault>>

LastStatementID == MaxU32
WireId == 0..MaxU32

With(map, key, value) ==
  [k \in DOMAIN map \cup {key} |-> IF k = key THEN value ELSE map[k]]
Without(map, key) == [k \in DOMAIN map \ {key} |-> map[k]]
Empty == [k \in {} |-> 0]

\* The handles of the registry (Registry.handles, the inverse of entries).
Handles == {entries[id].handle : id \in DOMAIN entries}

Init ==
  /\ session = "closed" /\ guest = "running" /\ fault = "none"
  /\ generation = 0 /\ next = 0 /\ entries = Empty /\ lastStatement = 0
  /\ long = Empty /\ longErrors = {} /\ types = {}
  /\ psGeneration = 0 /\ psNext = 0 /\ psEntries = Empty

-----------------------------------------------------------------------------
(* Sessions                                                                *)

\* newPreparedSession: a fresh registry and empty caches.
NewPreparedSession(g) ==
  /\ generation' = g /\ next' = 0 /\ entries' = Empty /\ lastStatement' = 0
  /\ long' = Empty /\ longErrors' = {} /\ types' = {}

\* The session is over: its registry is cleared and nothing refers to the rest.
DropSession == session' = "closed" /\ NewPreparedSession(0)

\* Serve returns an error: host.Server aborts the guest.
Breaks(why) ==
  /\ fault' = why /\ guest' = "exited"
  /\ DropSession

\* ps_begin_session, unless the worker's session identities are used up.
PsBeginSession ==
  /\ psEntries = Empty /\ psGeneration # MaxU32
  /\ psGeneration' = psGeneration + 1 /\ psNext' = 0
  /\ UNCHANGED psEntries

\* Serve opens the slot's session.  The engine may refuse the connection.
OpenSession ==
  /\ guest = "running" /\ session = "closed"
  /\ \/ /\ PsBeginSession
        /\ NewPreparedSession(psGeneration')
        /\ session' = "greeting"
        /\ UNCHANGED <<guest, fault>>
     \/ Breaks("open") /\ UNCHANGED psVars

\* The client does not ask for FOUND_ROWS: commands may follow.
AcceptClient ==
  /\ guest = "running" /\ session = "greeting"
  /\ session' = "ready"
  /\ UNCHANGED <<hostVars, psVars, guest, fault>>

\* It does: the guest session is closed and opened again.  A refused reopen
\* ends the session without an error; nothing is open then.
ReopenFoundRows ==
  /\ guest = "running" /\ session = "greeting"
  /\ \/ /\ psGeneration # MaxU32
        /\ psGeneration' = psGeneration + 1 /\ psNext' = 0 /\ psEntries' = Empty
        /\ NewPreparedSession(psGeneration')
        /\ session' = "ready"
     \/ /\ psEntries' = Empty /\ UNCHANGED <<psGeneration, psNext>>
        /\ DropSession
  /\ UNCHANGED <<guest, fault>>

\* Serve returns: registry.Clear, then the guest closes (ps_clear).
EndSession ==
  /\ guest = "running" /\ session # "closed"
  /\ DropSession
  /\ psEntries' = Empty
  /\ UNCHANGED <<psGeneration, psNext, guest, fault>>

\* The guest ends: an operation of the engine that must not fail has failed (a
\* worker without an answer exits), or the host aborts it (timeout, disconnect).
GuestExits ==
  /\ guest = "running"
  /\ guest' = "exited"
  /\ DropSession
  /\ UNCHANGED <<psVars, fault>>

-----------------------------------------------------------------------------
(* Commands                                                                *)

Ready == guest = "running" /\ session = "ready"

\* The guest answers for its own generation; another one is refused.
SameGeneration == generation = psGeneration

\* resolveStatementID
ResolveStatementID(wire) == IF wire = LastStatementID THEN lastStatement ELSE wire

\* A call the host cannot accept the answer of.
Mismatch == Breaks("protocol") /\ UNCHANGED psVars

\* Defect: the last wire ID is handed out too.
CanAddAlias(h) == next < LastStatementID /\ h # 0 /\ h \notin Handles

\* Registry.Add's conditions.
CanAdd(h) == next < LastStatementID - 1 /\ h # 0 /\ h \notin Handles

\* PREPARE that yields no statement: bad length, an SQL error, or ps_next at its end.
PrepareFails ==
  /\ Ready /\ SameGeneration
  /\ lastStatement' = 0
  /\ UNCHANGED <<session, generation, next, entries, long, longErrors, types, psVars, guest, fault>>

\* PREPARE of an SQL text with n parameters: the guest links a statement; the
\* host adds it, or closes it again and fails when the metadata or Add is refused.
Prepare(n, valid) ==
  /\ Ready
  /\ IF ~SameGeneration THEN Mismatch ELSE
     /\ psNext # MaxU32
     /\ psNext' = psNext + 1
     /\ UNCHANGED psGeneration
     /\ IF valid /\ CanAdd(psNext')
          THEN /\ psEntries' = With(psEntries, psNext', [count |-> n, long |-> {}, deferred |-> FALSE])
               /\ next' = next + 1
               /\ entries' = With(entries, next', [handle |-> psNext', params |-> n])
               /\ lastStatement' = next'
               /\ UNCHANGED <<session, generation, long, longErrors, types, guest, fault>>
          ELSE /\ UNCHANGED psEntries
               /\ Breaks(IF valid THEN "exhausted" ELSE "metadata")

\* Defect: a statement that already has a deferred error is not expected to fail.
SendLongDataStrictly(wire, i) ==
  LET id == ResolveStatementID(wire)
      h == entries[id].handle
      e == psEntries[h]
  IN  /\ Ready /\ id \in DOMAIN entries /\ h \in DOMAIN psEntries
      /\ IF i < entries[id].params /\ e.deferred THEN Mismatch ELSE
         /\ psEntries' = IF i >= e.count THEN [psEntries EXCEPT ![h].deferred = TRUE]
                                         ELSE [psEntries EXCEPT ![h].long = @ \cup {i}]
         /\ longErrors' = IF i >= e.count THEN longErrors \cup {id} ELSE longErrors
         /\ long' = IF i >= e.count THEN long
                    ELSE With(long, id, (IF id \in DOMAIN long THEN long[id] ELSE {}) \cup {i})
         /\ UNCHANGED <<session, generation, next, entries, lastStatement, types,
                        psGeneration, psNext, guest, fault>>

\* sendLongData: no client reply; unknown statements are ignored.
SendLongData(wire, i) ==
  LET id == ResolveStatementID(wire)
      h == entries[id].handle
      e == psEntries[h]
  IN  /\ Ready /\ id \in DOMAIN entries
      /\ IF ~SameGeneration \/ h \notin DOMAIN psEntries THEN Mismatch
         ELSE IF e.deferred \/ i >= e.count
           THEN \* ps_long_data defers the error; the host expects it of a bad index only.
                IF i < entries[id].params /\ id \notin longErrors THEN Mismatch ELSE
                /\ psEntries' = [psEntries EXCEPT ![h].deferred = TRUE]
                /\ longErrors' = longErrors \cup {id}
                /\ UNCHANGED <<session, generation, next, entries, lastStatement, long, types,
                               psGeneration, psNext, guest, fault>>
           ELSE IF i >= entries[id].params THEN Mismatch ELSE
                /\ psEntries' = [psEntries EXCEPT ![h].long = @ \cup {i}]
                /\ long' = With(long, id, (IF id \in DOMAIN long THEN long[id] ELSE {}) \cup {i})
                /\ UNCHANGED <<session, generation, next, entries, lastStatement, longErrors, types,
                               psGeneration, psNext, guest, fault>>

\* executeStatement.  Without fresh descriptors the last ones are used again, but
\* not through the alias; a deferred error is answered without asking the guest.
\* The guest drops the streams whether SQL succeeds, fails or is refused because a
\* streamed parameter has no text type; it refuses values not fitting its count.
\* The host also aborts on a result that names another handle or holds invalid
\* packets; the guest answers with the handle it was given, and rows are data.
Execute(wire, fresh) ==
  LET id == ResolveStatementID(wire)
      h == entries[id].handle
      e == psEntries[h]
  IN  /\ Ready /\ id \in DOMAIN entries /\ id \notin longErrors
      /\ \/ fresh \/ entries[id].params = 0
         \/ wire # LastStatementID /\ id \in types
      /\ IF ~SameGeneration THEN Mismatch ELSE
         /\ psEntries' = IF h \in DOMAIN psEntries /\ ~e.deferred /\ e.count = entries[id].params
                           THEN [psEntries EXCEPT ![h].long = {}]
                           ELSE psEntries
         /\ long' = Without(long, id)
         /\ types' = types \cup {id}
         /\ UNCHANGED <<session, generation, next, entries, lastStatement, longErrors,
                        psGeneration, psNext, guest, fault>>

\* Defect: RESET keeps the host's deferred error.
ResetKeepingError(wire) ==
  LET id == ResolveStatementID(wire)
      h == entries[id].handle
  IN  /\ Ready /\ id \in DOMAIN entries /\ h \in DOMAIN psEntries
      /\ psEntries' = [psEntries EXCEPT ![h].long = {}, ![h].deferred = FALSE]
      /\ long' = Without(long, id)
      /\ UNCHANGED <<session, generation, next, entries, lastStatement, longErrors, types,
                     psGeneration, psNext, guest, fault>>

\* RESET: both sides forget streams and deferred errors.  (A refused
\* mysql_stmt_reset changes nothing.)
Reset(wire) ==
  LET id == ResolveStatementID(wire)
      h == entries[id].handle
  IN  /\ Ready /\ id \in DOMAIN entries
      /\ IF ~SameGeneration THEN Mismatch ELSE
         /\ h \in DOMAIN psEntries
         /\ psEntries' = [psEntries EXCEPT ![h].long = {}, ![h].deferred = FALSE]
         /\ long' = Without(long, id)
         /\ longErrors' = longErrors \ {id}
         /\ UNCHANGED <<session, generation, next, entries, lastStatement, types,
                        psGeneration, psNext, guest, fault>>

\* Defect: the ID on the wire, not the one it stands for, is forgotten.
CloseWireId(wire) ==
  LET id == ResolveStatementID(wire)
      h == entries[id].handle
  IN  /\ Ready /\ id \in DOMAIN entries /\ h \in DOMAIN psEntries
      /\ psEntries' = Without(psEntries, h)
      /\ entries' = Without(entries, wire)
      /\ lastStatement' = IF lastStatement = id THEN 0 ELSE lastStatement
      /\ types' = types \ {wire}
      /\ long' = Without(long, wire)
      /\ longErrors' = longErrors \ {wire}
      /\ UNCHANGED <<session, generation, next, psGeneration, psNext, guest, fault>>

\* CLOSE: the guest unlinks the statement, then the host forgets it.
Close(wire) ==
  LET id == ResolveStatementID(wire)
      h == entries[id].handle
  IN  /\ Ready /\ id \in DOMAIN entries
      /\ IF ~SameGeneration \/ h \notin DOMAIN psEntries THEN Mismatch ELSE
         /\ psEntries' = Without(psEntries, h)
         /\ entries' = Without(entries, id)
         /\ lastStatement' = IF lastStatement = id THEN 0 ELSE lastStatement
         /\ types' = types \ {id}
         /\ long' = Without(long, id)
         /\ longErrors' = longErrors \ {id}
         /\ UNCHANGED <<session, generation, next, psGeneration, psNext, guest, fault>>

Next ==
  \/ OpenSession \/ AcceptClient \/ ReopenFoundRows \/ EndSession \/ GuestExits
  \/ PrepareFails
  \/ \E n \in ParamCounts, valid \in BOOLEAN : Prepare(n, valid)
  \/ \E wire \in WireId :
       \/ \E n \in ParamCounts : \E i \in 0..n : SendLongData(wire, i)
       \/ \E fresh \in BOOLEAN : Execute(wire, fresh)
       \/ Reset(wire) \/ Close(wire)

Spec == Init /\ [][Next]_vars

-----------------------------------------------------------------------------
(* Properties                                                              *)

\* The shapes of both sides' maps, and every counter within 32 bits.
TypeOK ==
  /\ session \in {"closed", "greeting", "ready"} /\ guest \in {"running", "exited"}
  /\ fault \in {"none", "open", "exhausted", "metadata", "protocol"}
  /\ generation \in WireId /\ next \in WireId /\ lastStatement \in WireId
  /\ DOMAIN entries \subseteq WireId
  /\ \A id \in DOMAIN entries : entries[id] \in [handle : WireId, params : ParamCounts]
  /\ DOMAIN long \subseteq WireId /\ \A id \in DOMAIN long : long[id] \in SUBSET Nat
  /\ longErrors \subseteq WireId /\ types \subseteq WireId
  /\ psGeneration \in WireId /\ psNext \in WireId
  /\ DOMAIN psEntries \subseteq WireId
  /\ \A h \in DOMAIN psEntries :
       psEntries[h] \in [count : ParamCounts, long : SUBSET Nat, deferred : BOOLEAN]

\* While commands are served the registry and the guest's list hold the same
\* statements under the same generation, one wire ID for each handle, with the same
\* number of parameters; and whenever no command can be served the list is empty, so
\* that the slot's next ps_begin_session is not refused.
StatementsAgree ==
  /\ session = "ready" =>
       /\ generation = psGeneration /\ next = psNext
       /\ Handles = DOMAIN psEntries
       /\ \A id \in DOMAIN entries : psEntries[entries[id].handle].count = entries[id].params
       /\ \A id, other \in DOMAIN entries : entries[id].handle = entries[other].handle => id = other
  /\ guest = "running" /\ session # "ready" => psEntries = Empty

\* sendLongData and DecodeExecuteLongData decide from the host's maps what only the
\* guest knows: which parameters the engine holds streamed data for, and which
\* statements answer 1210 until RESET.  The two never differ.
StreamsAgree ==
  \A id \in DOMAIN entries :
    LET e == psEntries[entries[id].handle] IN
    /\ e.long = IF id \in DOMAIN long THEN long[id] ELSE {}
    /\ e.deferred <=> id \in longErrors

\* The alias stands for the newest statement, still registered, or for nothing; no
\* statement is registered as 0 or as the alias itself; no cache outlives its
\* statement.
AliasIsNewest ==
  /\ lastStatement # 0 => lastStatement = next /\ lastStatement \in DOMAIN entries
  /\ DOMAIN entries \subseteq 1..(LastStatementID - 1)
  /\ DOMAIN long \cup longErrors \cup types \subseteq DOMAIN entries

\* No sequence of client commands makes the host meet an answer it takes for a broken
\* guest, and so abort the database: that takes a refused open, metadata the host
\* rejects, or the last ordinary statement ID having been used.
OnlyExhaustionBreaks ==
  [][fault' # fault =>
       fault' \in {"open", "metadata"} \/ (fault' = "exhausted" /\ next = LastStatementID - 1)]_vars
=============================================================================
