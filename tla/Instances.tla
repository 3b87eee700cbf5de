----------------------------- MODULE Instances -----------------------------
(***************************************************************************)
(* Several daemon processes over time, and the commands that start and     *)
(* stop them: `genii daemon start' and `genii daemon stop'                 *)
(* (apps/cli/src/commands/daemon), main() of the daemon (index.ts), the    *)
(* socket server's listen() and close() (transport/socket/server.ts) and   *)
(* the file of bindings.                                                   *)
(*                                                                         *)
(* What the processes share is one path for the socket and one data        *)
(* directory.  Nothing locks either: a command knows of a daemon only what *)
(* a connection to the path tells, and a daemon knows of no other.         *)
(***************************************************************************)
EXTENDS Naturals, FiniteSets

CONSTANTS
    Instance,    \* daemon processes
    Starter,     \* runs of `daemon start'
    Stopper,     \* runs of `daemon stop'
    Chat,        \* conversations
    Setups,      \* the environments a behaviour may have
    Nobody       \* no process, no file

Command == Starter \cup Stopper

ASSUME InstancesAssumption ==
    /\ IsFiniteSet(Instance) /\ IsFiniteSet(Starter)
    /\ Cardinality(Starter) <= Cardinality(Instance)
    /\ Starter \cap Stopper = {}
    /\ Nobody \notin Instance
    /\ Setups \subseteq
         [starts : 0..Cardinality(Starter),  \* bound: runs of start
          crashes : Nat,                     \* bound: processes killed
          patient : BOOLEAN]  \* whether each command is awaited before the next

VARIABLES
    proc,     \* how far each daemon process is
    table,    \* the chats a daemon has bindings of
    file,     \* the chats the file of bindings has
    path,     \* the process whose socket the path leads to, alive or not
    asked,    \* daemons whose execute() is due in a setImmediate
    cmd,      \* the commands
    crashes,  \* what is left of the bound
    kept,     \* history: the bindings of the daemon that last shut down
    met,      \* history: daemons that lived while another did
    excused,  \* history: something happened that may lead to two daemons
    setup     \* the environment of this behaviour

daemonVars == <<proc, table, file, path>>
history == <<kept, met, excused>>
vars == <<daemonVars, asked, cmd, crashes, history, setup>>

\* Main runs start() up to listen(), which removes the path and then binds
\* it; close() ends the server, removes the path, and the later handlers
\* save.  A process "failed" has exited with code 1.
Booting == {"booting", "loaded", "unlinked"}
Stopping == {"closing", "draining"}
Alive == Booting \cup {"serving"} \cup Stopping

\* A command dials the path, sends a request on the connection, or acts; its
\* first attempt decides what to do, the others wait for the effect.
Idle == [step |-> "idle", waiting |-> FALSE, at |-> Nobody, daemon |-> Nobody,
         late |-> FALSE, told |-> ""]

Init ==
    /\ proc = [d \in Instance |-> "free"]
    /\ table = [d \in Instance |-> {}]
    /\ file = {}
    /\ path = Nobody
    /\ asked = {}
    /\ cmd = [c \in Command |-> Idle]
    /\ setup \in Setups
    /\ crashes = setup.crashes
    /\ kept = {}
    /\ met = {}
    /\ excused = FALSE

Listening(d) == d # Nobody /\ proc[d] = "serving"

----------------------------------------------------------------------------
(* A daemon process.                                                       *)

Become(d, from, to) ==
    /\ proc[d] = from
    /\ proc' = [proc EXCEPT ![d] = to]
    /\ UNCHANGED <<cmd, crashes, met, setup>>

\* The path is removed, whoever's socket it is.
RemoveSocket(d) ==
    /\ path' = Nobody
    /\ excused' = (excused \/ (path # d /\ Listening(path)))

\* main() throws before it starts a daemon: a configuration that does not
\* parse, secrets that cannot be read.
Refuse(d) ==
    /\ Become(d, "booting", "gone")
    /\ UNCHANGED <<table, file, path, asked, kept, excused>>

\* ConversationManager.start() reads the file.
Load(d) ==
    /\ Become(d, "booting", "loaded")
    /\ table' = [table EXCEPT ![d] = file]
    /\ UNCHANGED <<file, path, asked, kept, excused>>

\* Mutation of Unlink: the path is left for listen() to replace.
UnlinkNothing(d) ==
    /\ Become(d, "loaded", "unlinked")
    /\ UNCHANGED <<table, file, path, asked, kept, excused>>

\* listen() removes the path, which the last daemon may have left or another
\* one may be listening on.
Unlink(d) ==
    /\ Become(d, "loaded", "unlinked")
    /\ path' = Nobody
    /\ UNCHANGED <<table, file, asked, kept, excused>>

\* The socket is bound; on a path that exists start() throws and main exits.
Bind(d) ==
    /\ Become(d, "unlinked", IF path = Nobody THEN "serving" ELSE "failed")
    /\ path' = IF path = Nobody THEN d ELSE path
    /\ UNCHANGED <<table, file, asked, kept, excused>>

\* A message of a chat is routed; the channels are connected after listen()
\* and disconnected after close().
Inbound(d, chat) ==
    /\ proc[d] \in {"serving", "closing"}
    /\ table' = [table EXCEPT ![d] = @ \cup {chat}]
    /\ UNCHANGED <<proc, file, path, asked, cmd, crashes, history, setup>>

\* execute(): the first handler closes the server, and with its handle Node
\* removes the path that handle was bound to.
Close(d) ==
    /\ d \in asked
    /\ asked' = asked \ {d}
    /\ Become(d, "serving", "closing")
    /\ RemoveSocket(d)
    /\ UNCHANGED <<table, file, kept>>

\* The connections of the server have ended: close() removes the path once
\* more.
UnlinkAgain(d) ==
    /\ Become(d, "closing", "draining")
    /\ RemoveSocket(d)
    /\ UNCHANGED <<table, file, asked, kept>>

\* Mutation of Save: the process ends before the last handler has written.
SaveLost(d) ==
    /\ Become(d, "draining", "gone")
    /\ kept' = table[d]
    /\ UNCHANGED <<table, file, path, asked, excused>>

\* The last handler: the bindings replace the file by a rename, and nothing
\* keeps the process any longer.
Save(d) ==
    /\ Become(d, "draining", "gone")
    /\ file' = table[d]
    /\ kept' = table[d]
    /\ UNCHANGED <<table, path, asked, excused>>

\* A daemon is killed or runs into an unhandled rejection: its path stays.
Crash(d) ==
    /\ crashes > 0 /\ proc[d] \in Alive
    /\ crashes' = crashes - 1
    /\ proc' = [proc EXCEPT ![d] = "gone"]
    /\ asked' = asked \ {d}
    /\ UNCHANGED <<table, file, path, cmd, history, setup>>

----------------------------------------------------------------------------
(* The commands.                                                           *)

Over(c, told) ==
    cmd' = [cmd EXCEPT ![c] = [Idle EXCEPT !.step = "over", !.told = told,
                                           !.daemon = cmd[c].daemon]]
Redial(c) == cmd' = [cmd EXCEPT ![c].step = "dial", ![c].at = Nobody]
Underway(c) == cmd[c].step \notin {"idle", "over"}

\* A new run of start or of stop.
Begin(kind) ==
    LET idle == {c \in kind : cmd[c].step = "idle"}
    IN  /\ idle # {}
        /\ kind = Starter => Cardinality(kind \ idle) < setup.starts
        /\ setup.patient => \A c \in Command : ~Underway(c)
        /\ Redial(CHOOSE c \in idle : TRUE)
        /\ excused' = \/ excused
                      \/ kind = Starter /\ \E s \in Starter : Underway(s)
        /\ UNCHANGED <<daemonVars, asked, crashes, kept, met, setup>>

\* connect() or the request throws.  At first start goes on to spawn and stop
\* gives up; later start tries again and stop takes it for the end.
Failed(c) ==
    CASE c \in Starter /\ ~cmd[c].waiting ->
            cmd' = [cmd EXCEPT ![c].step = "act", ![c].at = Nobody]
      [] c \in Starter /\ cmd[c].waiting -> Redial(c)
      [] c \in Stopper /\ ~cmd[c].waiting -> Over(c, "not running")
      [] c \in Stopper /\ cmd[c].waiting -> Over(c, "stopped")

\* Mutation of InTime: the loops of waiting have no end.
AnyTime(c) == TRUE

\* The loops of waiting look at the clock before each attempt.
InTime(c) == ~(cmd[c].waiting /\ cmd[c].late)

\* connect(): only a path that leads to a listening process takes it.
Dial(c) ==
    /\ cmd[c].step = "dial"
    /\ InTime(c)
    /\ IF Listening(path)
       THEN cmd' = [cmd EXCEPT ![c].step = "request", ![c].at = path]
       ELSE Failed(c)
    /\ UNCHANGED <<daemonVars, asked, crashes, history, setup>>

\* waitForDaemon and waitForDaemonStop return false.
GiveUp(c) ==
    /\ cmd[c].step = "dial"
    /\ ~InTime(c)
    /\ Over(c, "timed out")
    /\ excused' = (excused \/ c \in Starter)
    /\ UNCHANGED <<daemonVars, asked, crashes, kept, met, setup>>

\* Mutation of Answered: start does not return when a daemon runs.
AnsweredRegardless(c) ==
    LET d == cmd[c].at
    IN  CASE c \in Starter ->
                /\ IF cmd[c].waiting THEN Over(c, "started")
                   ELSE cmd' = [cmd EXCEPT ![c].step = "act", ![c].at = Nobody]
                /\ UNCHANGED asked
          [] c \in Stopper /\ ~cmd[c].waiting ->
                /\ asked' = asked \cup {d}
                /\ cmd' = [cmd EXCEPT ![c].step = "dial", ![c].waiting = TRUE,
                                      ![c].at = Nobody, ![c].daemon = d]
          [] c \in Stopper /\ cmd[c].waiting -> Redial(c) /\ UNCHANGED asked

\* Mutation of Answered: stop does not wait for its effect.
AnsweredAtOnce(c) ==
    LET d == cmd[c].at
    IN  IF c \in Stopper
        THEN /\ asked' = asked \cup {d}
             /\ cmd' = [cmd EXCEPT ![c] = [Idle EXCEPT !.step = "over",
                                    !.told = "stopped", !.daemon = d]]
        ELSE /\ Over(c, IF cmd[c].waiting THEN "started" ELSE "running")
             /\ UNCHANGED asked

\* The answer arrives.  A ping tells start what it wants to know and stop to
\* wait on; the first request of stop is daemon.shutdown, answered before
\* anything is shut down.
Answered(c) ==
    LET d == cmd[c].at
    IN  CASE c \in Starter ->
                /\ Over(c, IF cmd[c].waiting THEN "started" ELSE "running")
                /\ UNCHANGED asked
          [] c \in Stopper /\ ~cmd[c].waiting ->
                /\ asked' = asked \cup {d}
                /\ cmd' = [cmd EXCEPT ![c].step = "dial", ![c].waiting = TRUE,
                                      ![c].at = Nobody, ![c].daemon = d]
          [] c \in Stopper /\ cmd[c].waiting -> Redial(c) /\ UNCHANGED asked

Answer(c) ==
    /\ cmd[c].step = "request"
    /\ Listening(cmd[c].at)
    /\ Answered(c)
    /\ UNCHANGED <<daemonVars, crashes, history, setup>>

\* The connection closes with the request unanswered.
Dropped(c) ==
    /\ cmd[c].step = "request"
    /\ ~Listening(cmd[c].at)
    /\ IF c \in Stopper /\ ~cmd[c].waiting THEN Over(c, "failed") ELSE Failed(c)
    /\ UNCHANGED <<daemonVars, asked, crashes, history, setup>>

\* A daemon that is too busy to answer in time.
TimesOut(c) ==
    /\ cmd[c].step = "request"
    /\ Listening(cmd[c].at)
    /\ IF c \in Stopper /\ ~cmd[c].waiting THEN Over(c, "failed") ELSE Failed(c)
    /\ excused' = TRUE
    /\ UNCHANGED <<daemonVars, asked, crashes, kept, met, setup>>

\* start spawns a detached process, which is on its own from here on.
Spawn(s) ==
    LET d == CHOOSE e \in Instance : proc[e] = "free"
        others == {e \in Instance : proc[e] \in Alive}
    IN  /\ cmd[s].step = "act"
        /\ proc' = [proc EXCEPT ![d] = "booting"]
        /\ cmd' = [cmd EXCEPT ![s].step = "dial", ![s].waiting = TRUE]
        /\ met' = met \cup IF others = {} THEN {} ELSE others \cup {d}
        /\ UNCHANGED <<table, file, path, asked, crashes, kept, excused, setup>>

\* There is no such program: the child's "error" event, which nothing listens
\* to, ends the command.
SpawnFails(s) ==
    /\ cmd[s].step = "act"
    /\ Over(s, "crashed")
    /\ UNCHANGED <<daemonVars, asked, crashes, history, setup>>

Elapse(c) ==
    /\ Underway(c) /\ cmd[c].waiting /\ ~cmd[c].late
    /\ cmd' = [cmd EXCEPT ![c].late = TRUE]
    /\ UNCHANGED <<daemonVars, asked, crashes, history, setup>>

----------------------------------------------------------------------------

DaemonStep(d) ==
    \/ Load(d) \/ Unlink(d) \/ Bind(d)
    \/ Close(d) \/ UnlinkAgain(d) \/ Save(d)

CommandStep(c) ==
    \/ Dial(c) \/ GiveUp(c) \/ Answer(c) \/ Dropped(c)
    \/ c \in Starter /\ Spawn(c)

Next ==
    \/ \E d \in Instance : DaemonStep(d) \/ Refuse(d) \/ Crash(d)
    \/ \E d \in Instance, chat \in Chat : Inbound(d, chat)
    \/ Begin(Starter) \/ Begin(Stopper)
    \/ \E c \in Command : CommandStep(c) \/ TimesOut(c) \/ Elapse(c)
    \/ \E s \in Starter : SpawnFails(s)

Spec == Init /\ [][Next]_vars

\* Processes run, and time passes.
FairSpec ==
    /\ Spec
    /\ \A d \in Instance : WF_vars(DaemonStep(d))
    /\ \A c \in Command : WF_vars(CommandStep(c)) /\ WF_vars(Elapse(c))

----------------------------------------------------------------------------
(* Properties.                                                             *)

\* Every variable has its type.
TypeOK ==
    /\ proc \in [Instance -> Alive \cup {"free", "failed", "gone"}]
    /\ table \in [Instance -> SUBSET Chat]
    /\ file \subseteq Chat /\ kept \subseteq Chat
    /\ path \in Instance \cup {Nobody}
    /\ asked \subseteq Instance /\ met \subseteq Instance
    /\ cmd \in [Command ->
                  [step : {"idle", "dial", "request", "act", "over"},
                   waiting : BOOLEAN, late : BOOLEAN,
                   at : Instance \cup {Nobody},
                   daemon : Instance \cup {Nobody},
                   told : {"", "not running", "running", "started", "stopped",
                           "timed out", "failed", "crashed"}]]
    /\ crashes \in 0..setup.crashes /\ setup \in Setups
    /\ excused \in BOOLEAN

\* Two daemons serve one data directory only after one of four things: two
\* starts at once, a start that gave up on a slow child, a request a busy
\* daemon left unanswered, or a daemon that removed, at its end, the path of
\* its successor.  Any order of starts, stops and crashes besides these keeps
\* them apart (isDaemonRunning of start.ts, listen() of server.ts).
ServesAlone ==
    ~excused => \A d, e \in Instance :
        proc[d] = "serving" /\ proc[e] = "serving" => d = e

\* "Daemon stopped successfully" (stop.ts): the daemon asked does not serve
\* any more, unless one of those four things happened.
StoppedIsStopped ==
    \A t \in Stopper :
        cmd[t].told = "stopped" /\ ~excused => proc[cmd[t].daemon] # "serving"

\* Unless two daemons lived at once, a start works over what the last daemon
\* left, however it ended: the socket file of one that was killed does not
\* keep it from binding, and it knows every binding that was saved.
RestartsCarryOn ==
    /\ \A d \in Instance : proc[d] = "failed" => d \in met
    /\ met = {} => \A d \in Instance :
            proc[d] \in Alive \ {"booting"} => kept \subseteq table[d]

\* Every command comes to an end, whatever becomes of the daemon it waits for
\* (waitForDaemon, waitForDaemonStop).
CommandsEnd == []<>(\A c \in Command : ~Underway(c))
============================================================================
