-------------------------- MODULE MCRepairLifecycle --------------------------
(* Bounded instances of RepairLifecycle.  Requests differ by nothing but name.   *)
EXTENDS RepairLifecycle, TLC

Requests == Permutations(Request)
=============================================================================
