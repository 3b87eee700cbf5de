--------------------------- MODULE MCAgentOutput ---------------------------
(* A TLC instance of AgentOutput.                                          *)
EXTENDS AgentOutput

CONSTANTS a1, a2, t1, t2

\* Two tails that come and go; one among the records of another agent; a
\* journal that overflows while it is joined.
SetupSet ==
    {[agents |-> {a1, a2}, clients |-> {t1, t2}, finals |-> {FALSE},
      capacity |-> 1, records |-> 2],
     [agents |-> {a1, a2}, clients |-> {t1}, finals |-> {FALSE},
      capacity |-> 1, records |-> 4],
     [agents |-> {a1}, clients |-> {t1}, finals |-> BOOLEAN,
      capacity |-> 2, records |-> 5]}
============================================================================
