----------------------------- MODULE MCTerminalUi -----------------------------
(* A TLC instance of TerminalUi: one agent and two channels.               *)
EXTENDS TerminalUi
CONSTANTS a1, c1, c2
AgentOrder == <<a1>>
ChannelOrder == <<c1, c2>>
Mounts == 1..3
(* Many views; requests that overlap with polls; in one view, the same      *)
(* while the daemon changes or ends, and more of its changes alone.         *)
BoundSet ==
    {[mounts |-> 3, changes |-> 1, acts |-> 0, polls |-> 1],
     [mounts |-> 2, changes |-> 0, acts |-> 1, polls |-> 2],
     [mounts |-> 1, changes |-> 1, acts |-> 1, polls |-> 2],
     [mounts |-> 1, changes |-> 2, acts |-> 0, polls |-> 1]}
=============================================================================
