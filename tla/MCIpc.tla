------------------------------- MODULE MCIpc -------------------------------
(* A TLC instance of Ipc.                                                   *)
EXTENDS Ipc
CONSTANTS f1, f2
=============================================================================
