---------------------------- MODULE AgentOutput ----------------------------
(***************************************************************************)
(* How a client follows the output of an agent: the daemon's event journal *)
(* (apps/daemon/src/rpc/event-journal.ts), its subscriptions               *)
(* (rpc/subscriptions.ts) and connections (rpc/server.ts), the socket      *)
(* between, and `genii agent tail' (apps/cli/src/commands/agent/tail.ts)   *)
(* on the other side of it.                                                *)
(*                                                                         *)
(* A record stands for its sequence number, its place in log.  A tail is a *)
(* process of its own with one connection, and both have one name.         *)
(***************************************************************************)
EXTENDS Naturals, Sequences, FiniteSets, SequencesExt

CONSTANTS
    Agent,       \* agent sessions, all known to the coordinator
    Client,      \* tail processes, and their connections
    MaxRecords,  \* bound: records published in a behaviour
    Setups,      \* the parameters a behaviour may have
    Absent       \* no subscription, no answer

ASSUME OutputAssumption ==
    /\ MaxRecords \in Nat
    /\ Setups \subseteq
         [agents : SUBSET Agent,   \* that publish and are followed
          clients : SUBSET Client, \* that are started
          finals : SUBSET BOOLEAN, \* whether a record may end a run
          capacity : Nat \ {0},    \* records the journal keeps of an agent
          records : 0..MaxRecords] \* bound: records published
    /\ IsFiniteSet(Client)
    /\ Absent \notin [conn : Client, agent : Agent]
    /\ Absent \notin [sub : Nat, events : Seq(Nat)]

VARIABLES
    log,           \* history: every record ever appended
    journal,       \* _eventsByAgent
    nextId,        \* the next subscription id
    subscriptions, \* _subscriptions
    byConnection,  \* _byConnection
    byType,        \* _byType.get('agent.output')
    serving,       \* _listening of the transport
    open,          \* connections the server holds
    reply,         \* a handler's result on its way to sendResponse
    request,       \* the request a tail's socket carries
    wire,          \* what the server has written to each socket
    tail,          \* the tail processes
    joined,        \* history: Len(log) when the tail was subscribed
    setup          \* the parameters of this behaviour

daemonVars == <<log, journal, nextId, subscriptions, byConnection, byType>>
history == <<joined, setup>>
outputVars == <<daemonVars, serving, open, reply, request, wire, tail, history>>

Ids == 1..Cardinality(Client)
Sequence == 1..MaxRecords

Record == [agent : Agent, final : BOOLEAN]
Answer == [sub : Ids, events : Seq(Sequence)]
Note == [sub : Ids, sequence : Sequence]
NoRequest == [method |-> "none"]

\* The states of tailCommand's action: not started, awaiting the answer,
\* holding an answer whose continuation has yet to run, following, awaiting
\* unsubscribe, disconnected, gone.
Tailing == {"subscribing", "answered", "following"}
Stages == {"idle", "unsubscribing", "closing", "gone"} \cup Tailing

NewTail == [pc |-> "idle", agent |-> Absent, answer |-> Absent,
            buffered |-> <<>>, last |-> 0, printed |-> <<>>,
            completed |-> FALSE]

OutputInit ==
    /\ log = <<>>
    /\ journal = [a \in Agent |-> <<>>]
    /\ nextId = 1
    /\ subscriptions = [i \in Ids |-> Absent]
    /\ byConnection = [c \in Client |-> {}]
    /\ byType = {}
    /\ serving = TRUE
    /\ open = {}
    /\ reply = [c \in Client |-> Absent]
    /\ request = [c \in Client |-> NoRequest]
    /\ wire = [c \in Client |-> <<>>]
    /\ tail = [c \in Client |-> NewTail]
    /\ joined = [c \in Client |-> 0]
    /\ setup \in Setups

----------------------------------------------------------------------------
(* The daemon's side.                                                      *)

\* Mutation of Retained: nothing is ever dropped.
RetainedForever(s) == s

\* The splice of append(): the newest Capacity records.
Retained(s) ==
    IF Len(s) > setup.capacity THEN SubSeq(s, Len(s) - setup.capacity + 1, Len(s)) ELSE s

\* The i-th smallest number of a set.
Nth(S, i) == CHOOSE x \in S : Cardinality({y \in S : y <= x}) = i

\* notifyAgentOutput: the subscriptions of a connection that are told.
Told(c, a) == {i \in byType : /\ subscriptions[i] # Absent
                              /\ subscriptions[i].agent = a
                              /\ subscriptions[i].conn = c}

\* The runtime publisher: append() to the journal, then notify, in one turn.
Publish(a, final) ==
    LET k == Len(log) + 1
    IN  /\ k <= setup.records
        /\ log' = Append(log, [agent |-> a, final |-> final])
        /\ journal' = [journal EXCEPT ![a] = Retained(Append(@, k))]
        /\ wire' = [c \in Client |->
                        IF c \in open
                        THEN wire[c] \o [i \in 1..Cardinality(Told(c, a)) |->
                                [sub |-> Nth(Told(c, a), i), sequence |-> k]]
                        ELSE wire[c]]
        /\ UNCHANGED <<nextId, subscriptions, byConnection, byType, serving,
                       open, reply, request, tail, history>>

\* subscribe.agent.output: subscribe() and the snapshot, in one turn.
HandleSubscribe(c) ==
    LET a == request[c].agent
    IN  /\ c \in open
        /\ request[c].method = "subscribe"
        /\ request' = [request EXCEPT ![c] = NoRequest]
        /\ nextId' = nextId + 1
        /\ subscriptions' = [subscriptions EXCEPT
                                ![nextId] = [conn |-> c, agent |-> a]]
        /\ byConnection' = [byConnection EXCEPT ![c] = @ \cup {nextId}]
        /\ byType' = byType \cup {nextId}
        /\ reply' = [reply EXCEPT ![c] = [sub |-> nextId, events |-> journal[a]]]
        /\ joined' = [joined EXCEPT ![c] = Len(log)]
        /\ UNCHANGED <<log, journal, serving, open, wire, tail, setup>>

\* sendResponse, after the awaits that lead back to it.
SendReply(c) ==
    /\ c \in open
    /\ reply[c] # Absent
    /\ wire' = [wire EXCEPT ![c] = Append(@, reply[c])]
    /\ reply' = [reply EXCEPT ![c] = Absent]
    /\ UNCHANGED <<daemonVars, serving, open, request, tail, history>>

\* Mutation of Release: the type index keeps the ids.
ReleaseUntyped(ids) ==
    /\ subscriptions' = [i \in Ids |-> IF i \in ids THEN Absent
                                       ELSE subscriptions[i]]
    /\ byConnection' = [c \in Client |-> byConnection[c] \ ids]
    /\ UNCHANGED byType

\* Mutation of Release: every subscription to the same agents goes.
ReleaseByAgent(ids) ==
    LET all == {i \in Ids : /\ subscriptions[i] # Absent
                            /\ \E j \in ids : subscriptions[j] # Absent
                                /\ subscriptions[i].agent = subscriptions[j].agent}
    IN  /\ subscriptions' = [i \in Ids |-> IF i \in all THEN Absent
                                           ELSE subscriptions[i]]
        /\ byConnection' = [c \in Client |-> byConnection[c] \ all]
        /\ byType' = byType \ all

\* unsubscribe() of each of these.
Release(ids) ==
    /\ subscriptions' = [i \in Ids |-> IF i \in ids THEN Absent
                                       ELSE subscriptions[i]]
    /\ byConnection' = [c \in Client |-> byConnection[c] \ ids]
    /\ byType' = byType \ ids

\* The RPC "unsubscribe" of a subscription of this connection; one that is
\* gone or is another's is refused.  The answer only ends the tail's wait.
HandleUnsubscribe(c) ==
    LET i == request[c].sub
    IN  /\ c \in open
        /\ request[c].method = "unsubscribe"
        /\ request' = [request EXCEPT ![c] = NoRequest]
        /\ IF subscriptions[i] # Absent /\ subscriptions[i].conn = c
           THEN Release({i})
           ELSE UNCHANGED <<subscriptions, byConnection, byType>>
        /\ tail' = [tail EXCEPT ![c].pc = IF @ = "gone" THEN @ ELSE "closing"]
        /\ UNCHANGED <<log, journal, nextId, serving, open, reply, wire, history>>

\* Mutation of CloseConnection: the connection goes, its subscriptions stay.
ForgetConnection(c) ==
    /\ c \in open
    /\ tail[c].pc \in {"closing", "gone"}
    /\ open' = open \ {c}
    /\ reply' = [reply EXCEPT ![c] = Absent]
    /\ request' = [request EXCEPT ![c] = NoRequest]
    /\ tail' = [tail EXCEPT ![c].pc = "gone"]
    /\ UNCHANGED <<daemonVars, serving, wire, history>>

\* The socket's close event: cleanup() of the connection's subscriptions.
\* Requests not read by now are lost.
CloseConnection(c) ==
    /\ c \in open
    /\ tail[c].pc \in {"closing", "gone"}
    /\ open' = open \ {c}
    /\ Release(byConnection[c])
    /\ reply' = [reply EXCEPT ![c] = Absent]
    /\ request' = [request EXCEPT ![c] = NoRequest]
    /\ tail' = [tail EXCEPT ![c].pc = "gone"]
    /\ UNCHANGED <<log, journal, nextId, serving, wire, history>>

\* RpcServer.stop(): cleanup() of every connection, then the transport
\* closes them; what is written already is flushed.
StopServer ==
    /\ serving
    /\ serving' = FALSE
    /\ Release(UNION {byConnection[c] : c \in open})
    /\ open' = {}
    /\ reply' = [c \in Client |-> Absent]
    /\ request' = [c \in Client |-> NoRequest]
    /\ UNCHANGED <<log, journal, nextId, wire, tail, history>>

----------------------------------------------------------------------------
(* The tail's side.                                                        *)

\* connect(), agent.get, onNotification, then the subscribe request.
StartTail(c, a) ==
    /\ serving
    /\ tail[c].pc = "idle"
    /\ tail' = [tail EXCEPT ![c].pc = "subscribing", ![c].agent = a]
    /\ open' = open \cup {c}
    /\ request' = [request EXCEPT ![c] = [method |-> "subscribe", agent |-> a]]
    /\ UNCHANGED <<daemonVars, serving, reply, wire, history>>

\* writeRecord: prints a record unless its number is not above the last.
WriteRecord(t, k) ==
    IF k <= t.last THEN t
    ELSE [t EXCEPT !.last = k,
                   !.printed = Append(@, k),
                   !.completed = @ \/ log[k].final]

\* Mutation of Receive: a notification ahead of the answer is ignored.
ReceiveUnbuffered(t, m) ==
    IF "events" \in DOMAIN m
    THEN IF t.pc = "subscribing"
         THEN [t EXCEPT !.pc = "answered", !.answer = m]
         ELSE t
    ELSE IF t.pc = "following" /\ m.sub = t.answer.sub
         THEN WriteRecord(t, m.sequence)
         ELSE t

\* Mutation of Receive: replaying is never reset.
ReceiveReplaying(t, m) ==
    IF "events" \in DOMAIN m
    THEN IF t.pc = "subscribing"
         THEN [t EXCEPT !.pc = "answered", !.answer = m]
         ELSE t
    ELSE [t EXCEPT !.buffered = Append(@, m)]

\* The client's data handler: an answer resolves the pending request, a
\* notification is kept until the replay is written and written after that.
Receive(t, m) ==
    IF "events" \in DOMAIN m
    THEN IF t.pc = "subscribing"
         THEN [t EXCEPT !.pc = "answered", !.answer = m]
         ELSE t
    ELSE CASE t.pc \in {"subscribing", "answered"} ->
                [t EXCEPT !.buffered = Append(@, m)]
           [] t.pc = "following" /\ m.sub = t.answer.sub ->
                WriteRecord(t, m.sequence)
           [] OTHER -> t

Deliver(c) ==
    /\ wire[c] # <<>>
    /\ tail[c].pc # "gone"
    /\ wire' = [wire EXCEPT ![c] = Tail(@)]
    /\ tail' = [tail EXCEPT ![c] = Receive(@, Head(wire[c]))]
    /\ UNCHANGED <<daemonVars, serving, open, reply, request, history>>

\* The buffered records of the tail's own subscription.
Kept(t) ==
    LET own == {j \in DOMAIN t.buffered : t.buffered[j].sub = t.answer.sub}
    IN  [i \in 1..Cardinality(own) |-> t.buffered[Nth(own, i)].sequence]

\* [...records].sort((left, right) => left.sequence - right.sequence)
Ordered(s) ==
    [i \in DOMAIN s |->
        CHOOSE x \in ToSet(s) : /\ Cardinality({j \in DOMAIN s : s[j] < x}) < i
                                /\ Cardinality({j \in DOMAIN s : s[j] <= x}) >= i]

\* The loop of writeOrderedRecords, on records that are ordered.
Written(t, s) ==
    LET after[i \in 0..Len(s)] ==
            IF i = 0 THEN t ELSE WriteRecord(after[i - 1], s[i])
    IN  after[Len(s)]

\* Mutation of Replayed: buffered records first, nothing sorted.
ReplayedUnsorted(t) == Written(t, Kept(t) \o t.answer.events)

\* writeOrderedRecords of the answer's records and the buffered ones.
Replayed(t) == Written(t, Ordered(t.answer.events \o Kept(t)))

\* The continuation of subscribeAgentOutput, after the chunk that held the
\* answer has been handled to its end.
Continue(c) ==
    /\ tail[c].pc = "answered"
    /\ tail' = [tail EXCEPT ![c] = [Replayed(@) EXCEPT !.pc = "following",
                                                       !.buffered = <<>>]]
    /\ UNCHANGED <<daemonVars, serving, open, reply, request, wire, history>>

\* cleanup(), when a run's end was printed or on a signal: unsubscribe, and
\* disconnect when that has been answered.  A signal before the answer has
\* nothing to unsubscribe.
FinishTail(c) ==
    /\ tail[c].pc = "following"
    /\ IF c \in open
       THEN /\ tail' = [tail EXCEPT ![c].pc = "unsubscribing"]
            /\ request' = [request EXCEPT
                    ![c] = [method |-> "unsubscribe", sub |-> tail[c].answer.sub]]
       ELSE /\ tail' = [tail EXCEPT ![c].pc = "closing"]
            /\ UNCHANGED request
    /\ UNCHANGED <<daemonVars, serving, open, reply, wire, history>>

Complete(c) == tail[c].completed /\ FinishTail(c)

Interrupt(c) ==
    \/ FinishTail(c)
    \/ /\ tail[c].pc = "subscribing"
       /\ tail' = [tail EXCEPT ![c].pc = "closing"]
       /\ UNCHANGED <<daemonVars, serving, open, reply, request, wire, history>>

\* The process is killed, or ends because the daemon closed the socket.
Vanish(c) ==
    /\ tail[c].pc \in Stages \ {"idle", "gone"}
    /\ tail' = [tail EXCEPT ![c].pc = "gone"]
    /\ UNCHANGED <<daemonVars, serving, open, reply, request, wire, history>>

----------------------------------------------------------------------------

Daemon(c) == HandleSubscribe(c) \/ SendReply(c) \/ HandleUnsubscribe(c)

Follow(c) == Deliver(c) \/ Continue(c) \/ Complete(c)

OutputNext ==
    \/ \E a \in setup.agents, final \in setup.finals : Publish(a, final)
    \/ \E c \in setup.clients :
        \/ \E a \in setup.agents : StartTail(c, a)
        \/ Daemon(c) \/ CloseConnection(c)
        \/ Follow(c) \/ Interrupt(c) \/ Vanish(c)
    \/ StopServer

OutputSpec == OutputInit /\ [][OutputNext]_outputVars

\* The event loops of both processes and the socket between them go on.
FairOutput ==
    /\ OutputSpec
    /\ \A c \in Client :
        /\ WF_outputVars(Daemon(c))
        /\ WF_outputVars(Deliver(c))
        /\ WF_outputVars(Continue(c))
        /\ WF_outputVars(CloseConnection(c))

----------------------------------------------------------------------------
(* Properties.                                                             *)

\* Every variable has its type.
OutputTypeOK ==
    /\ log \in Seq(Record) /\ Len(log) <= MaxRecords
    /\ journal \in [Agent -> Seq(Sequence)]
    /\ \A a \in Agent : Len(journal[a]) <= setup.capacity
    /\ nextId \in 1..(Cardinality(Client) + 1)
    /\ subscriptions \in [Ids -> [conn : Client, agent : Agent] \cup {Absent}]
    /\ byConnection \in [Client -> SUBSET Ids]
    /\ byType \subseteq Ids
    /\ serving \in BOOLEAN
    /\ open \subseteq Client
    /\ reply \in [Client -> Answer \cup {Absent}]
    /\ request \in [Client -> [method : {"subscribe"}, agent : Agent]
                             \cup [method : {"unsubscribe"}, sub : Ids]
                             \cup {NoRequest}]
    /\ wire \in [Client -> Seq(Answer \cup Note)]
    /\ tail \in [Client -> [pc : Stages,
                           agent : Agent \cup {Absent},
                           answer : Answer \cup {Absent},
                           buffered : Seq(Note),
                           last : 0..MaxRecords,
                           printed : Seq(Sequence),
                           completed : BOOLEAN]]
    /\ joined \in [Client -> 0..MaxRecords]
    /\ setup \in Setups

Of(a) == {k \in DOMAIN log : log[k].agent = a}

\* The records of agent a a tail that joined after record n has to print, up
\* to record l: the newest Capacity of those published before, and every
\* later one.
Due(a, n, l) ==
    {k \in Of(a) : /\ k <= l
                   /\ \/ k > n
                      \/ Cardinality({j \in Of(a) : k <= j /\ j <= n}) <= setup.capacity}

\* "Sequence numbers let clients merge the intentional overlap without
\* duplicates or a replay-to-live gap" (ARCHITECTURE.md): whatever is
\* published between the subscription, the answer and its continuation, what
\* a tail has printed is each due record once, in order, none left out.
PrintsEveryRecordOnce ==
    \A c \in Client :
        LET t == tail[c]
        IN  /\ \A i, j \in DOMAIN t.printed : i < j => t.printed[i] < t.printed[j]
            /\ ToSet(t.printed) = Due(t.agent, joined[c], t.last)

\* The replay is whole: a tail that follows has printed everything that the
\* journal held when it was subscribed.
ReplayIsWhole ==
    \A c \in Client : tail[c].pc = "following" =>
        Due(tail[c].agent, joined[c], joined[c])
            \subseteq ToSet(tail[c].printed)

\* The two indexes name exactly the stored subscriptions, each under its
\* connection, so that cleanup() and notifyAgentOutput() miss none; no
\* subscription outlives its connection (server.ts handleConnectionClosed and
\* stop), even when the close overtakes a request; and "Closing a local IPC
\* connection releases only that connection's subscriptions"
\* (ARCHITECTURE.md): a tail that follows over an open connection keeps its
\* own whatever other clients do.
SubscriptionsBelong ==
    LET stored == {i \in Ids : subscriptions[i] # Absent}
    IN  /\ byType = stored
        /\ \A c \in Client :
            byConnection[c] = {i \in stored : subscriptions[i].conn = c}
        /\ \A i \in stored : subscriptions[i].conn \in open
        /\ \A c \in open : tail[c].pc \in {"answered", "following"} =>
            subscriptions[tail[c].answer.sub] = [conn |-> c, agent |-> tail[c].agent]

\* A record that is due is printed, as long as the tail goes on and the
\* daemon serves it: time and again nothing is owed.
DueRecordsArePrinted ==
    []<>(\A c \in Client, k \in Sequence :
            tail[c].pc \in Tailing /\ c \in open /\ joined[c] > 0
                /\ k > joined[c] /\ k \in Of(tail[c].agent)
            => tail[c].last >= k)
============================================================================
