---------------------------- MODULE MCToolCalls ----------------------------
(* A TLC instance of ToolCalls.                                             *)
EXTENDS ToolCalls

\* Tools that return, fail because they use a name twice, wait at once, and wait after a
\* step.
Step(name) == [kind |-> "step", name |-> name]
Wait == [kind |-> "wait", name |-> "approval"]
SmallPrograms ==
    {<<Step("a"), Step("b")>>, <<Step("a"), Step("a")>>, <<Wait>>, <<Step("a"), Wait>>}
=============================================================================
