---------------------------- MODULE MCInstances ----------------------------
(* TLC instances of Instances.                                             *)
EXTENDS Instances

\* Commands at any time; an operator who waits for each of them.
Hasty == [starts |-> 2, crashes |-> 1, patient |-> FALSE]
Waiting == [starts |-> 3, crashes |-> 1, patient |-> TRUE]

SetupSet == {Hasty, Waiting}
============================================================================
