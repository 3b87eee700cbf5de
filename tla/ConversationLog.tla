-------------------------- MODULE ConversationLog --------------------------
(***************************************************************************)
(* What the daemon promises somebody who chats with it: the agent at a     *)
(* destination remembers the conversation.  Every message is appended to   *)
(* the destination's log exactly once, after all it said before; the log   *)
(* only ever starts over in the step of the user's own /new, and a log     *)
(* that is lost or cut short in any other step breaks the promise.         *)
(***************************************************************************)
EXTENDS Sequences, Naturals

CONSTANTS Destination, Message

VARIABLES log,
          commands,  \* how often the users will still say /new
          from       \* where each message comes from, which never changes

Init ==
    /\ log = [d \in Destination |-> <<>>]
    /\ commands \in Nat
    /\ from \in [Message -> Destination]

Accept(m) ==
    /\ \A d \in Destination : \A i \in DOMAIN log[d] : log[d][i] # m
    /\ log' = [log EXCEPT ![from[m]] = Append(@, m)]
    /\ UNCHANGED commands

\* /new is said at d.
Reset(d) ==
    /\ commands > 0
    /\ commands' = commands - 1
    /\ log' = [log EXCEPT ![d] = <<>>]

Next ==
    \/ \E m \in Message : Accept(m)
    \/ \E d \in Destination : Reset(d)

Spec == Init /\ [][Next /\ UNCHANGED from]_<<log, commands, from>>
============================================================================
