---------------------------- MODULE PoolConstants ----------------------------
(* The parameters of an admission pool (internal/forklimit/pool.go).       *)
EXTENDS Integers, FiniteSets

CONSTANTS
  Call,     \* admission attempts; also the identities of their leases
  NoCall,   \* the nil cause
  Limit     \* Pool.limit

MaxForks == 2147483647

ASSUME LimitAssumption == Limit \in Nat /\ Limit >= 1 /\ Limit <= MaxForks
ASSUME NoCallAssumption == NoCall \notin Call
=============================================================================
