---------------------------- MODULE MCLifecycle ----------------------------
(* TLC instances of Lifecycle: the bounds are in the configurations.       *)
EXTENDS Lifecycle
============================================================================
