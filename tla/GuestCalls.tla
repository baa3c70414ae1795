----------------------------- MODULE GuestCalls -----------------------------
(***************************************************************************)
(* What guest.Process promises to those who call it: a call is answered    *)
(* or ends in an error, an error means that the instance has failed or is  *)
(* stopping, and neither of the two is ever taken back.                    *)
(***************************************************************************)
CONSTANT Caller

VARIABLES
  running,   \* callers inside Call
  outcome,   \* how each caller's last Call ended: "none", "answer" or "error"
  failed,    \* Process.failure is not nil
  stopping   \* Process.stopping

callVars == <<running, outcome, failed, stopping>>

Init ==
  /\ running = {}
  /\ outcome = [c \in Caller |-> "none"]
  /\ failed = FALSE
  /\ stopping = FALSE

\* Call registers its request with an instance that is neither failed nor
\* stopping.
Begin(c) ==
  /\ c \notin running
  /\ ~failed /\ ~stopping
  /\ running' = running \cup {c}
  /\ outcome' = [outcome EXCEPT ![c] = "none"]
  /\ UNCHANGED <<failed, stopping>>

\* Any other Call is refused at once.
Refuse(c) ==
  /\ c \notin running
  /\ failed \/ stopping
  /\ outcome' = [outcome EXCEPT ![c] = "error"]
  /\ UNCHANGED <<running, failed, stopping>>

\* The response of the guest is returned.
Answer(c) ==
  /\ c \in running
  /\ running' = running \ {c}
  /\ outcome' = [outcome EXCEPT ![c] = "answer"]
  /\ UNCHANGED <<failed, stopping>>

\* Call returns an error: the instance has failed, or its own deadline or
\* write error makes it fail now.
Error(c) ==
  /\ c \in running
  /\ running' = running \ {c}
  /\ outcome' = [outcome EXCEPT ![c] = "error"]
  /\ failed' = TRUE
  /\ UNCHANGED stopping

\* Abort, a fatal guest error, or the exit of the guest.
Fail ==
  /\ failed' = TRUE
  /\ UNCHANGED <<running, outcome, stopping>>

\* Shutdown or Export.
Stopping ==
  /\ stopping' = TRUE
  /\ UNCHANGED <<running, outcome, failed>>

Next ==
  \/ \E c \in Caller : Begin(c) \/ Refuse(c) \/ Answer(c) \/ Error(c)
  \/ Fail
  \/ Stopping

Spec == Init /\ [][Next]_callVars
=============================================================================
