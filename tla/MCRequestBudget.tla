-------------------------- MODULE MCRequestBudget --------------------------
(* Instances of RequestBudget, as the proxy uses it, for TLC.               *)
EXTENDS ProxiedRun
=============================================================================
