------------------------------ MODULE MCRouter ------------------------------
(* TLC instances of Router: three messages, the first two from one chat.    *)
EXTENDS Router, TLC

CONSTANTS d1, d2, m1, m2, m3

FromOne == [m \in Message |-> d1]
FromTwo == [m \in Message |-> IF m = m3 THEN d2 ELSE d1]

\* Two chats, nothing fails: two messages of one chat interleave with each
\* other, with a third, with an operator's command and with a restart.
Busy == [from |-> FromTwo, ops |-> {"new", "unbind", "spawn"},
         mayFail |-> FALSE, patient |-> FALSE,
         commands |-> 1, crashes |-> 0, exits |-> 1]

\* Two chats, and the process dies anywhere before or after a clean restart.
Crashing == [from |-> FromTwo, ops |-> {}, mayFail |-> FALSE,
             patient |-> FALSE, commands |-> 0, crashes |-> 1, exits |-> 1]

\* Two chats, any two commands, and anything may fail.
Operated == [from |-> FromTwo, ops |-> OpNames, mayFail |-> TRUE,
             patient |-> FALSE, commands |-> 2, crashes |-> 0, exits |-> 0]

\* A user who waits for each reply, a /new and two restarts.
Patient == [from |-> FromOne, ops |-> {"new"}, mayFail |-> FALSE,
            patient |-> TRUE, commands |-> 1, crashes |-> 0, exits |-> 2]

\* One chat, failures, a crash and a restart: for liveness.
Troubled == [from |-> FromOne, ops |-> {"spawn", "new"}, mayFail |-> TRUE,
             patient |-> FALSE, commands |-> 1, crashes |-> 1, exits |-> 1]

SafetyScenarios == {Busy, Crashing, Operated, Patient}
LivenessScenarios == {Troubled}

Symmetric == Permutations({m1, m2})

============================================================================
