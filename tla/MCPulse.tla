------------------------------ MODULE MCPulse ------------------------------
(* A TLC instance of Pulse.                                                 *)
EXTENDS Pulse
CONSTANTS d1, d2

\* A restart between two messages and a run; two runs at a time; and a run that answers
\* nobody.
Configured ==
    {[responseTo |-> "lastActive", runs |-> 1, inbound |-> 2, boots |-> 2],
     [responseTo |-> "named", runs |-> 2, inbound |-> 0, boots |-> 1],
     [responseTo |-> "silent", runs |-> 1, inbound |-> 1, boots |-> 1]}
=============================================================================
