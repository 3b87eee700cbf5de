----------------------------- MODULE Lifecycle -----------------------------
(***************************************************************************)
(* The daemon process from start to exit: DaemonImpl.start and stop        *)
(* (apps/daemon/src/daemon.ts), the ShutdownManager (shutdown/manager.ts), *)
(* the signal handlers of index.ts and the RPC "daemon.shutdown"           *)
(* (rpc/handlers.ts), which calls the manager without asking the daemon.   *)
(*                                                                         *)
(* Each shutdown handler is one asynchronous job.  Of what the subsystems  *)
(* do this module keeps what the order is for: ingress that is open, the   *)
(* spawns it leads to, which nobody waits for, and the bindings these      *)
(* make, which only the last handler makes durable.                        *)
(***************************************************************************)
EXTENDS Integers, FiniteSets, FiniteSetsExt, Sequences

CONSTANTS
    Channel,      \* the configured channels
    Message,      \* inbound messages, and agent.spawn requests that bind
    Handler,      \* the shutdown handlers, a subset of HandlerNames
    MayFail,      \* whether start() and shutdown handlers may throw
    MayHang,      \* the handlers that may never settle
    MaxSignals,   \* bound: SIGINTs and SIGTERMs
    MaxRequests   \* bound: RPC shutdown requests

\* The names and priorities of _registerShutdownHandlers.
priority == [rpc |-> 0, scheduler |-> 5, channels |-> 10, router |-> 20,
             tracker |-> 25, coordinator |-> 30, conversations |-> 40]
HandlerNames == DOMAIN priority

ASSUME LifecycleAssumption ==
    /\ IsFiniteSet(Channel)
    /\ Handler \subseteq HandlerNames
    /\ {"rpc", "channels", "router", "coordinator", "conversations"}
            \subseteq Handler
    /\ MayFail \in BOOLEAN /\ MayHang \subseteq Handler
    /\ MaxSignals \in Nat /\ MaxRequests \in Nat

VARIABLES
    alive,       \* the process: "yes", or what ended it
    state,       \* DaemonImpl._state
    booted,      \* the boot steps start() has behind it
    channel,     \* the status of each channel
    serving,     \* the RPC server takes requests
    routing,     \* the router takes inbound messages
    task,        \* how far the spawn for each message has come
    saved,       \* the bindings of this process that are in the file
    stage,       \* ShutdownManager.execute: "none", "executing", "complete"
    mode,        \* its mode
    level,       \* the priority being executed
    job,         \* what each handler's promise has come to
    runs,        \* history: how often each handler was called
    dropping,    \* the channels that the "channels" handler disconnects
    overdue,     \* history: the spawns under way when "coordinator" was called
    saving,      \* the bindings the "conversations" handler has copied
    interrupted, \* index.ts: shuttingDown
    recent,      \* index.ts: the last SIGINT is less than 3s old
    requested,   \* modes of shutdowns scheduled by RPC, not yet executed
    signals, requests  \* what is left of the bounds

found == <<dropping, overdue, saving>>
bindings == <<task, saved>>
manager == <<stage, mode, level, job, runs, found>>
daemon == <<state, booted, channel, serving, routing, bindings>>
process == <<interrupted, recent, requested, signals, requests>>
vars == <<alive, manager, daemon, process>>

Boot == <<"coordinator", "conversations", "router", "tracker", "scheduler",
          "handlers", "rpc">>
Modes == {"graceful", "hard"}
Jobs == {"idle", "running", "hung", "done", "failed"}
Over == {"done", "failed"}
Polling == {"connected", "reconnecting"}
UnderWay == {"adapting", "spawning"}
Tasks == {"none", "bound", "refused"} \cup UnderWay

Init ==
    /\ alive = "yes"
    /\ state = "starting"
    /\ booted = 0
    /\ channel = [c \in Channel |-> "disconnected"]
    /\ serving = FALSE
    /\ routing = FALSE
    /\ task = [m \in Message |-> "none"]
    /\ saved = {}
    /\ stage = "none"
    /\ mode = "graceful"
    /\ level = 0
    /\ job = [h \in Handler |-> "idle"]
    /\ runs = [h \in Handler |-> 0]
    /\ dropping = {} /\ overdue = {} /\ saving = {}
    /\ interrupted = FALSE
    /\ recent = FALSE
    /\ requested = {}
    /\ signals = MaxSignals
    /\ requests = MaxRequests

Exit(why) ==
    /\ alive' = why
    /\ UNCHANGED <<manager, daemon, process>>

----------------------------------------------------------------------------
(* DaemonImpl.start().                                                     *)

BootStep ==
    /\ alive = "yes" /\ state = "starting"
    /\ booted < Len(Boot)
    /\ booted' = booted + 1
    /\ routing' = (routing \/ Boot[booted + 1] = "router")
    /\ serving' = (serving \/ Boot[booted + 1] = "rpc")
    /\ UNCHANGED <<alive, manager, state, channel, bindings, process>>

\* A step throws: main() exits with code 1.
BootFails ==
    /\ MayFail
    /\ alive = "yes" /\ state = "starting"
    /\ booted < Len(Boot)
    /\ Exit("failed start")

\* _connectChannels: one after the other, each awaited.
Connect(c) ==
    /\ alive = "yes" /\ state = "starting"
    /\ booted = Len(Boot)
    /\ channel[c] = "disconnected"
    /\ \A d \in Channel : channel[d] # "connecting"
    /\ channel' = [channel EXCEPT ![c] = "connecting"]
    /\ UNCHANGED <<alive, manager, state, booted, serving, routing, bindings,
                   process>>

\* connect() settles; an error is logged and the channel stays away.
Connected(c) ==
    /\ alive = "yes"
    /\ channel[c] = "connecting"
    /\ \E s \in {"connected"} \cup (IF MayFail THEN {"error"} ELSE {}) :
            channel' = [channel EXCEPT ![c] = s]
    /\ UNCHANGED <<alive, manager, state, booted, serving, routing, bindings,
                   process>>

\* Every channel was tried; state is set whatever happened meanwhile.
Started ==
    /\ alive = "yes" /\ state = "starting"
    /\ booted = Len(Boot)
    /\ \A c \in Channel : channel[c] \notin {"disconnected", "connecting"}
    /\ state' = "running"
    /\ UNCHANGED <<alive, manager, booted, channel, serving, routing, bindings,
                   process>>

\* A poll fails: the channel is "reconnecting" from now on, and goes on polling.
Disrupted(c) ==
    /\ MayFail
    /\ alive = "yes"
    /\ channel[c] = "connected"
    /\ channel' = [channel EXCEPT ![c] = "reconnecting"]
    /\ UNCHANGED <<alive, manager, state, booted, serving, routing, bindings,
                   process>>

\* A message is routed to a destination without an agent (_routeToAgent), or a
\* client calls agent.spawn with bind: the adapter is asked for and awaited.
\* Nothing keeps a list of these handlers; router.stop() waits for none.
Inbound(m) ==
    /\ alive = "yes"
    /\ serving \/ (routing /\ \E c \in Channel : channel[c] \in Polling)
    /\ task[m] = "none"
    /\ task' = [task EXCEPT ![m] = "adapting"]
    /\ UNCHANGED <<alive, manager, state, booted, channel, serving, routing,
                   saved, process>>

\* Mutation of CallSpawn: no look at the coordinator's status.
CallSpawnAnyway(m) ==
    /\ alive = "yes"
    /\ task[m] = "adapting"
    /\ task' = [task EXCEPT ![m] = "spawning"]
    /\ UNCHANGED <<alive, manager, state, booted, channel, serving, routing,
                   saved, process>>

\* The adapter is there: spawn() looks at the coordinator's status, once.  Its
\* shutdown(), which its handler calls first of all, has it say "stopping".
CallSpawn(m) ==
    /\ alive = "yes"
    /\ task[m] = "adapting"
    /\ task' = [task EXCEPT ![m] =
                    IF job["coordinator"] = "idle" THEN "spawning"
                    ELSE "refused"]
    /\ UNCHANGED <<alive, manager, state, booted, channel, serving, routing,
                   saved, process>>

\* spawn() resolves, whatever has been stopped since, and bind() works still.
Bound(m) ==
    /\ alive = "yes"
    /\ task[m] = "spawning"
    /\ task' = [task EXCEPT ![m] = "bound"]
    /\ UNCHANGED <<alive, manager, state, booted, channel, serving, routing,
                   saved, process>>

\* The adapter factory or spawn() throws.
Refused(m) ==
    /\ MayFail
    /\ alive = "yes"
    /\ task[m] \in UnderWay
    /\ task' = [task EXCEPT ![m] = "refused"]
    /\ UNCHANGED <<alive, manager, state, booted, channel, serving, routing,
                   saved, process>>

----------------------------------------------------------------------------
(* ShutdownManager.                                                        *)

\* Mutation of First: the highest number first.
Last(hs) == Max({priority[h] : h \in hs})

\* The priority whose turn it is.
First(hs) == Min({priority[h] : h \in hs})

\* _disconnectChannels: the channels it finds connected.
Dropped == {c \in Channel : channel[c] = "connected"}

\* The messages whose spawn has come to t.
With(t) == {m \in Message : task[m] = t}

\* The handlers of one priority are called, and what each does before its
\* first await is done.
Call(p) ==
    LET hs == {h \in Handler : priority[h] = p}
    IN  /\ level' = p
        /\ job' = [h \in Handler |-> IF h \in hs THEN "running" ELSE job[h]]
        /\ runs' = [h \in Handler |-> runs[h] + IF h \in hs THEN 1 ELSE 0]
        /\ serving' = (serving /\ "rpc" \notin hs)
        /\ routing' = (routing /\ "router" \notin hs)
        /\ dropping' = IF "channels" \in hs THEN Dropped ELSE dropping
        /\ overdue' = IF "coordinator" \in hs THEN With("spawning") ELSE overdue
        /\ saving' = IF "conversations" \in hs THEN With("bound") ELSE saving

\* Mutation of Execute: no look at isShuttingDown.
ExecuteAgain(m) ==
    /\ stage' = "executing" /\ mode' = m
    /\ Call(First(Handler))

\* execute(): the first call starts the sequence, any other returns at once.
Execute(m) ==
    IF stage = "none"
    THEN /\ stage' = "executing" /\ mode' = m
         /\ Call(First(Handler))
    ELSE UNCHANGED <<manager, serving, routing>>

\* A handler settles.  An error is logged, nothing more; the conversation
\* manager does so itself when it cannot write.
Settle(h) ==
    /\ alive = "yes"
    /\ job[h] = "running"
    /\ \E r \in {"done"} \cup (IF MayFail THEN {"failed"} ELSE {}) :
        /\ job' = [job EXCEPT ![h] = r]
        /\ channel' = [c \in Channel |->
                        IF h = "channels" /\ c \in dropping THEN "disconnected"
                        ELSE channel[c]]
        /\ saved' = IF h = "conversations" /\ r = "done" THEN saving ELSE saved
    /\ UNCHANGED <<alive, stage, mode, level, runs, found, state, booted,
                   serving, routing, task, process>>

Hang(h) ==
    /\ alive = "yes"
    /\ h \in MayHang /\ job[h] = "running"
    /\ job' = [job EXCEPT ![h] = "hung"]
    /\ UNCHANGED <<alive, stage, mode, level, runs, found, daemon, process>>

\* Mutation of LevelOver: an error keeps the sequence from going on.
LevelSucceeded ==
    \A h \in Handler : priority[h] = level => job[h] = "done"

\* Mutation of LevelOver: the time limit of the hard mode in both modes.
LevelTimed == TRUE

\* _executePriorityLevel: all have settled, or in hard mode the time is up.
LevelOver ==
    \/ mode = "hard"
    \/ \A h \in Handler : priority[h] = level => job[h] \in Over

Advance ==
    LET next == {h \in Handler : priority[h] > level}
    IN  /\ alive = "yes" /\ stage = "executing"
        /\ LevelOver
        /\ IF next = {}
           THEN /\ stage' = "complete"
                /\ UNCHANGED <<level, job, runs, found, serving, routing>>
           ELSE /\ Call(First(next))
                /\ UNCHANGED stage
        /\ UNCHANGED <<alive, mode, state, booted, channel, bindings,
                       process>>

----------------------------------------------------------------------------
(* What asks for a shutdown.                                               *)

\* `genii daemon stop' sends a mode, with --force "hard"; the handler looks
\* for graceful, which other clients may send.
Params == {"mode=graceful", "mode=hard", "graceful=true", "graceful=false"}

Wanted(params) == IF params = "graceful=false" THEN "hard" ELSE "graceful"

\* RPC daemon.shutdown: answered at once, executed by a setImmediate.
RpcShutdown(params) ==
    /\ alive = "yes" /\ serving
    /\ requests > 0
    /\ requests' = requests - 1
    /\ requested' = requested \cup {Wanted(params)}
    /\ UNCHANGED <<alive, manager, daemon, interrupted, recent, signals>>

RunRequested(m) ==
    /\ alive = "yes"
    /\ m \in requested
    /\ requested' = requested \ {m}
    /\ Execute(m)
    /\ UNCHANGED <<alive, state, booted, channel, bindings, interrupted,
                   recent, signals, requests>>

\* daemon.stop('graceful') from a signal handler, which exits when stop()
\* returns: at once unless the daemon runs and no shutdown is on its way.
Stop ==
    /\ interrupted' = TRUE
    /\ IF state = "running" /\ stage = "none"
       THEN /\ state' = "stopping"
            /\ Execute("graceful")
            /\ UNCHANGED alive
       ELSE /\ alive' = "exit 0"
            /\ UNCHANGED <<state, manager, serving, routing>>
    /\ UNCHANGED <<booted, channel, bindings, requested, requests>>

Signal == alive = "yes" /\ signals > 0 /\ signals' = signals - 1

Sigterm ==
    /\ Signal
    /\ UNCHANGED recent
    /\ IF interrupted
       THEN UNCHANGED <<alive, manager, daemon, interrupted, requested, requests>>
       ELSE Stop

\* A second SIGINT within 3s calls stop('hard'), which returns at once for a
\* daemon that is stopping, and exits.
Sigint ==
    /\ Signal
    /\ IF interrupted /\ recent
       THEN /\ alive' = "hard exit"
            /\ UNCHANGED <<manager, daemon, interrupted, recent, requested,
                           requests>>
       ELSE /\ recent' = TRUE
            /\ IF interrupted
               THEN UNCHANGED <<alive, manager, daemon, interrupted, requested,
                                requests>>
               ELSE Stop

Elapse ==
    /\ alive = "yes"
    /\ recent
    /\ recent' = FALSE
    /\ UNCHANGED <<alive, manager, daemon, interrupted, requested, signals,
                   requests>>

\* The stop() of a signal handler returns.
StopReturns ==
    /\ alive = "yes" /\ state = "stopping" /\ stage = "complete"
    /\ Exit("exit 0")

\* Node ends a process that waits for nothing: no server, no start() or spawn
\* under way, no channel polling.
Idle ==
    /\ alive = "yes" /\ stage = "complete"
    /\ state # "starting"
    /\ \A c \in Channel : channel[c] \notin Polling \cup {"connecting"}
    /\ \A m \in Message : task[m] \notin UnderWay
    /\ Exit("idle")

----------------------------------------------------------------------------

Sequencing == Advance \/ \E m \in Modes : RunRequested(m)

Next ==
    \/ BootStep \/ BootFails \/ Started
    \/ \E c \in Channel : Connect(c) \/ Connected(c) \/ Disrupted(c)
    \/ \E m \in Message : Inbound(m) \/ CallSpawn(m) \/ Bound(m) \/ Refused(m)
    \/ \E h \in Handler : Settle(h) \/ Hang(h)
    \/ \E p \in Params : RpcShutdown(p)
    \/ Sequencing
    \/ Sigterm \/ Sigint \/ Elapse
    \/ StopReturns \/ Idle

Spec == Init /\ [][Next]_vars

\* Jobs that do not hang settle, timers fire, promises run on.
FairSpec ==
    /\ Spec
    /\ WF_vars(Sequencing)
    /\ WF_vars(StopReturns)
    /\ \A h \in Handler : WF_vars(Settle(h))

----------------------------------------------------------------------------
(* Properties.                                                             *)

\* Every variable has its type.
TypeOK ==
    /\ alive \in {"yes", "failed start", "exit 0", "hard exit", "idle"}
    /\ state \in {"starting", "running", "stopping"}
    /\ booted \in 0..Len(Boot)
    /\ channel \in [Channel -> {"disconnected", "connecting", "error"} \cup Polling]
    /\ {serving, routing, interrupted, recent} \subseteq BOOLEAN
    /\ task \in [Message -> Tasks]
    /\ saved \subseteq Message
    /\ stage \in {"none", "executing", "complete"}
    /\ mode \in Modes
    /\ level \in {priority[h] : h \in HandlerNames}
    /\ job \in [Handler -> Jobs]
    /\ runs \in [Handler -> Nat]
    /\ dropping \subseteq Channel
    /\ overdue \subseteq Message /\ saving \subseteq Message
    /\ requested \subseteq Modes
    /\ signals \in 0..MaxSignals /\ requests \in 0..MaxRequests

\* However often and by whomever a shutdown is asked for - signals, RPC, in
\* any order - no handler is called twice (ShutdownManager.execute).
CalledOnce == \A h \in Handler : runs[h] <= 1

\* "In graceful mode, wait for all handlers to complete" (shutdown/manager.ts
\* _executePriorityLevel): while a handler is at work, those of every lower
\* priority are over, failed ones included.
GracefulIsOrdered ==
    mode = "graceful" =>
        \A g, h \in Handler : priority[g] < priority[h] /\ job[h] # "idle" =>
            job[g] \in Over

\* Once the conversation manager has written, every binding made for a message
\* is in the file, made before or after the write, in either mode - but for
\* those of spawns that were past the coordinator's status check when it began
\* to stop.  Nobody waits for these: one that resolves when the snapshot has
\* been taken binds in memory only, and a complete graceful shutdown loses it.
\* No later spawn can, by channel or by RPC, though handlers that wait for
\* their adapter outlive the router's stop and the server's.
OnlyOverdueIsLost ==
    job["conversations"] = "done" => With("bound") \subseteq saved \cup overdue

\* What execute() keeps in order, whoever asks and whatever fails.
ShutdownIsOrderly == CalledOnce /\ GracefulIsOrdered /\ OnlyOverdueIsLost

\* A shutdown that has begun comes to its end: errors do not stop it, in hard
\* mode a handler that hangs does not either, in graceful mode only that does.
ShutdownEnds ==
    stage = "executing" ~> \/ stage = "complete"
                           \/ alive # "yes"
                           \/ mode = "graceful" /\ \E h \in Handler : job[h] = "hung"
============================================================================
