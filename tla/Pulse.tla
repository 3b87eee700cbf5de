------------------------------- MODULE Pulse -------------------------------
(***************************************************************************)
(* Scheduled pulses: the scheduler (daemon/src/scheduler/scheduler.ts), the *)
(* pulse job, the last active destination and its file, with the steps of  *)
(* the daemon's start and stop they depend on (daemon.ts, factory.ts), the *)
(* coordinator's spawn() and shutdown() (orchestrator/src/coordinator) and *)
(* what the pulse's agent is told (context-injectors).                     *)
(*                                                                         *)
(* A run of the job is named by the order of the runs.  What stands between *)
(* two awaits is one step.  The sessions are the pulses' own; texts are     *)
(* told apart by what the job looks for in them.                           *)
(***************************************************************************)
EXTENDS Naturals, Sequences, SequencesExt

CONSTANTS
    Destination, \* chats
    None,        \* no destination, no file
    Torn,        \* a file with a part of its text
    Named,       \* the destination of the configured name, or None
    Scenarios,   \* the configured answer ("silent", "lastActive" or "named"), with bounds on
                 \* runs, messages of users and starts of the daemon
    MaxRuns,     \* bound over all scenarios
    MaxTexts     \* bound: texts an agent writes

ASSUME PulseAssumption ==
    /\ None \notin Destination /\ Torn \notin Destination /\ Torn # None
    /\ Named \in Destination \cup {None} /\ MaxRuns \in Nat
    /\ Scenarios \subseteq [responseTo : {"silent", "lastActive", "named"},
                            runs : 0..MaxRuns, inbound : Nat, boots : Nat]

VARIABLES
    phase,     \* the daemon: down, starting, up, stopping
    step,      \* steps of starting or stopping that are done
    boots,     \* starts so far
    routing,   \* the router is subscribed
    connected, \* the channels are connected
    cron,      \* the job's timer: paused, going, stopped
    serving,   \* the RPC server
    coord,     \* the coordinator's _status
    scenario,  \* one of Scenarios
    tracker,   \* _destination of the tracker
    file,      \* last-active.json
    temp,      \* the temporary file of a save under way
    run,       \* the runs of the job
    agent,     \* the session of each run
    written,   \* history: what the agent wrote before its end
    latest,    \* history: where a user was last seen
    sure,      \* history: the file holds, or will hold, latest
    heard      \* inbound messages so far

daemonVars == <<phase, step, boots, routing, connected, cron, serving>>
trackerVars == <<tracker, file, temp, latest, sure, heard>>
vars == <<daemonVars, coord, scenario, trackerVars, run, agent, written>>

Run == 1..MaxRuns
NoRun == [at |-> "none", to |-> None, buffer |-> <<>>, late |-> FALSE, sent |-> <<>>]
Active == {r \in Run : run[r].at \notin {"none", "ended"}}

Init ==
    /\ phase = "down" /\ step = 0 /\ boots = 0
    /\ routing = FALSE /\ connected = FALSE /\ cron = "paused" /\ serving = FALSE
    /\ coord = "stopped" /\ scenario \in Scenarios
    /\ tracker = None /\ file = None /\ temp = None
    /\ run = [r \in Run |-> NoRun]
    /\ agent = [r \in Run |-> "none"] /\ written = [r \in Run |-> <<>>]
    /\ latest = None /\ sure = TRUE /\ heard = 0

(***************************************************************************)
(* The tracker.                                                            *)
(***************************************************************************)
\* handleInbound: the router notes where a message came from before all else.
Inbound(d) ==
    /\ connected /\ routing /\ heard < scenario.inbound
    /\ tracker' = d /\ latest' = d /\ sure' = TRUE /\ heard' = heard + 1
    /\ UNCHANGED <<daemonVars, coord, scenario, file, temp, run, agent, written>>

\* load(): a file that is missing or malformed leaves it as it is.
Loaded == IF file \in Destination THEN file ELSE tracker

(***************************************************************************)
(* The daemon's start and stop.                                            *)
(***************************************************************************)
\* start() of the daemon, in order.
StartOrder == <<"coordinator", "router", "tracker", "scheduler", "rpc", "channels">>

\* Mutation of StopOrder: the tracker is saved with the scheduler.
StopOrderEarly == <<"rpc", "scheduler", "tracker", "channels", "router", "coordinator">>
\* The shutdown handlers by priority.
StopOrder == <<"rpc", "scheduler", "channels", "router", "tracker", "coordinator">>

Boot ==
    /\ phase = "down" /\ boots < scenario.boots
    /\ phase' = "starting" /\ step' = 0 /\ boots' = boots + 1
    /\ UNCHANGED <<routing, connected, cron, serving, coord, scenario, trackerVars,
                   run, agent, written>>

StartStep ==
    /\ phase = "starting"
    /\ LET s == StartOrder[step + 1] IN
       /\ coord' = IF s = "coordinator" THEN "running" ELSE coord
       /\ routing' = (routing \/ s = "router")
       /\ tracker' = IF s = "tracker" THEN Loaded ELSE tracker
       /\ cron' = IF s = "scheduler" THEN "going" ELSE cron
       /\ serving' = (serving \/ s = "rpc")
       /\ connected' = (connected \/ s = "channels")
    /\ step' = step + 1
    /\ phase' = IF step' = Len(StartOrder) THEN "up" ELSE phase
    /\ UNCHANGED <<boots, scenario, file, temp, latest, sure, heard, run, agent, written>>

StopBegins ==
    /\ phase = "up"
    /\ phase' = "stopping" /\ step' = 0
    /\ UNCHANGED <<boots, routing, connected, cron, serving, coord, scenario, trackerVars,
                   run, agent, written>>

Stopping(s) == phase = "stopping" /\ step < Len(StopOrder) /\ StopOrder[step + 1] = s

\* The handlers that do their work in one turn.  stop() of the scheduler leaves runs
\* under way alone.
StopStep ==
    /\ \E s \in {"rpc", "scheduler", "channels", "router"} :
        /\ Stopping(s)
        /\ serving' = (serving /\ s # "rpc")
        /\ cron' = IF s = "scheduler" THEN "stopped" ELSE cron
        /\ connected' = (connected /\ s # "channels")
        /\ routing' = (routing /\ s # "router")
    /\ step' = step + 1
    /\ UNCHANGED <<phase, boots, coord, scenario, trackerVars, run, agent, written>>

\* Mutation of SaveBegins: the file is written in place.
SaveBeginsInPlace ==
    /\ Stopping("tracker") /\ temp = None /\ tracker # None
    /\ temp' = tracker /\ file' = Torn
    /\ UNCHANGED <<daemonVars, coord, scenario, tracker, latest, sure, heard, run, agent,
                   written>>

\* save(): the temporary file is opened and written, ...
SaveBegins ==
    /\ Stopping("tracker") /\ temp = None /\ tracker # None
    /\ temp' = tracker
    /\ UNCHANGED <<daemonVars, coord, scenario, tracker, file, latest, sure, heard, run,
                   agent, written>>

\* ... then renamed; or an error removes it.  With no destination there is nothing to do.
SaveEnds ==
    /\ Stopping("tracker") /\ (temp # None \/ tracker = None)
    /\ \/ file' = (IF temp = None THEN file ELSE temp) /\ UNCHANGED sure
       \/ temp # None /\ sure' = FALSE /\ UNCHANGED file
    /\ temp' = None /\ step' = step + 1
    /\ UNCHANGED <<phase, boots, routing, connected, cron, serving, coord, scenario,
                   tracker, latest, heard, run, agent, written>>

(***************************************************************************)
(* The runs.                                                               *)
(***************************************************************************)
\* resolve() of the DestinationResolver.
Resolve ==
    CASE scenario.responseTo = "silent" -> None
      [] scenario.responseTo = "lastActive" -> tracker
      [] scenario.responseTo = "named" -> Named

\* The job is executed, whatever runs are under way.  The destination is looked up first.
BeginRun ==
    /\ \E r \in 1..scenario.runs :
        /\ run[r].at = "none" /\ \A q \in Run : q < r => run[q].at # "none"
        /\ run' = [run EXCEPT ![r].at = "adapter", ![r].to = Resolve]
    /\ UNCHANGED <<daemonVars, coord, scenario, trackerVars, agent, written>>

\* The cron of the job fires, or an operator triggers it.
Fire == cron = "going" /\ BeginRun
Trigger == serving /\ phase = "up" /\ BeginRun

\* The adapter is there, and spawn() checks the coordinator and goes on to the guidance;
\* or there is no model, or the coordinator does not run.
AdapterReady(r) ==
    /\ run[r].at = "adapter"
    /\ \/ coord = "running" /\ run' = [run EXCEPT ![r].at = "spawning"]
       \/ run' = [run EXCEPT ![r].at = "ended"]
    /\ UNCHANGED <<daemonVars, coord, scenario, trackerVars, agent, written>>

\* Mutation of Spawned: an await between start() and the subscription.
SpawnedLate(r) ==
    /\ run[r].at = "spawning"
    /\ \/ agent[r] # "none" /\ run' = [run EXCEPT ![r].at = "collecting"] /\ UNCHANGED agent
       \/ agent[r] = "none" /\ agent' = [agent EXCEPT ![r] = "running"] /\ UNCHANGED run
    /\ UNCHANGED <<daemonVars, coord, scenario, trackerVars, written>>

\* spawn() returns, and in the same turn start() and the subscription; or it threw.  The
\* coordinator is not looked at again.
Spawned(r) ==
    /\ run[r].at = "spawning"
    /\ \/ /\ run' = [run EXCEPT ![r].at = "collecting"]
          /\ agent' = [agent EXCEPT ![r] = "running"]
       \/ run' = [run EXCEPT ![r].at = "ended"] /\ UNCHANGED agent
    /\ UNCHANGED <<daemonVars, coord, scenario, trackerVars, written>>

\* Mutation of Hears: any session's events count.
HearsAll(r, q) == run[q].at = "collecting"
\* Whether the subscription of run q takes an event of run r's agent.
Hears(r, q) == q = r /\ run[q].at = "collecting"

\* An output event.
Write(r, text) ==
    /\ agent[r] = "running" /\ Len(written[r]) < MaxTexts
    /\ written' = [written EXCEPT ![r] = Append(@, text)]
    /\ run' = [q \in Run |-> IF Hears(r, q)
                              THEN [run[q] EXCEPT !.buffer = Append(@, text)] ELSE run[q]]
    /\ UNCHANGED <<daemonVars, coord, scenario, trackerVars, agent>>

\* The agent is paused, or ends up waiting for an answer: no event settles the run.
Hold(r) ==
    /\ agent[r] = "running"
    /\ agent' = [agent EXCEPT ![r] = "held"]
    /\ UNCHANGED <<daemonVars, coord, scenario, trackerVars, run, written>>

\* The runs as the ends of some agents leave them: those that listen have their response,
\* nothing after a fatal error.
After(ends, fatal) ==
    [q \in Run |-> IF \E r \in ends : Hears(r, q)
                   THEN [run[q] EXCEPT !.at = "responding",
                                       !.buffer = IF fatal THEN <<>> ELSE @]
                   ELSE run[q]]

\* done, after a fatal error or without one; or an operator's terminate().
AgentEnds(r) ==
    /\ agent[r] \in {"running", "held"}
    /\ \E fatal \in BOOLEAN : run' = After({r}, fatal)
    /\ agent' = [agent EXCEPT ![r] = "done"]
    /\ UNCHANGED <<daemonVars, coord, scenario, trackerVars, written>>

\* Mutation of TimesOut: only an agent that runs is given up.
TimesOutRunning(r) ==
    /\ run[r].at = "collecting" /\ agent[r] = "running"
    /\ run' = [run EXCEPT ![r].at = "responding", ![r].late = TRUE]
    /\ UNCHANGED <<daemonVars, coord, scenario, trackerVars, agent, written>>

\* Ten minutes have passed: what there is is the response; the agent goes on.
TimesOut(r) ==
    /\ run[r].at = "collecting"
    /\ run' = [run EXCEPT ![r].at = "responding", ![r].late = TRUE]
    /\ UNCHANGED <<daemonVars, coord, scenario, trackerVars, agent, written>>

\* Mutation of Suppressed: only a response that is nothing but the token.
SuppressedAlone(texts) == texts = <<"rest">>
\* containsRestToken, anywhere in the response.
Suppressed(texts) == Contains(texts, "rest")

Delivers(r) == run[r].to # None /\ run[r].buffer # <<>> /\ ~Suppressed(run[r].buffer)

\* The continuation of _collectResponse: a response is sent if its channel is connected and
\* does not fail.
Respond(r) ==
    /\ run[r].at = "responding"
    /\ run' = [run EXCEPT ![r].at = "ended",
                          ![r].sent = IF Delivers(r) /\ connected THEN run[r].buffer ELSE <<>>]
    /\ UNCHANGED <<daemonVars, coord, scenario, trackerVars, agent, written>>

\* The channel fails: nothing is sent.
RespondFails(r) ==
    /\ run[r].at = "responding" /\ Delivers(r) /\ connected
    /\ run' = [run EXCEPT ![r].at = "ended"]
    /\ UNCHANGED <<daemonVars, coord, scenario, trackerVars, agent, written>>

(***************************************************************************)
(* The coordinator's shutdown, and the end of the process.                 *)
(***************************************************************************)
\* It waits for the agents that run, for a time.
ShutdownBegins ==
    /\ Stopping("coordinator") /\ coord = "running"
    /\ coord' = "stopping"
    /\ UNCHANGED <<daemonVars, scenario, trackerVars, run, agent, written>>

Live == {r \in Run : agent[r] \in {"running", "held"}}

\* It terminates the agents it knows of.  One whose spawn() is under way comes after.
ShutdownEnds ==
    /\ coord = "stopping"
    /\ run' = After(Live, FALSE)
    /\ agent' = [r \in Run |-> IF r \in Live THEN "done" ELSE agent[r]]
    /\ coord' = "stopped" /\ step' = step + 1
    /\ UNCHANGED <<phase, boots, routing, connected, cron, serving, scenario, trackerVars,
                   written>>

\* What ends with the process.
ProcessEnds ==
    /\ phase' = "down" /\ step' = 0
    /\ routing' = FALSE /\ connected' = FALSE /\ cron' = "paused" /\ serving' = FALSE
    /\ coord' = "stopped" /\ tracker' = None /\ temp' = None
    /\ run' = [r \in Run |-> IF r \in Active THEN [run[r] EXCEPT !.at = "ended"] ELSE run[r]]
    /\ agent' = [r \in Run |-> IF r \in Live THEN "done" ELSE agent[r]]
    /\ UNCHANGED <<boots, scenario, file, latest, heard, written>>

Exit == phase = "stopping" /\ step = Len(StopOrder) /\ ProcessEnds /\ UNCHANGED sure

\* The process dies: what was not saved is forgotten.
Crash == phase # "down" /\ ProcessEnds /\ sure' = (sure /\ file = latest)

RunStep(r) == AdapterReady(r) \/ Spawned(r) \/ TimesOut(r) \/ Respond(r) \/ RespondFails(r)

Next ==
    \/ \E d \in Destination : Inbound(d)
    \/ Boot \/ StartStep \/ StopBegins \/ StopStep \/ SaveBegins \/ SaveEnds
    \/ ShutdownBegins \/ ShutdownEnds \/ Exit \/ Crash
    \/ Fire \/ Trigger
    \/ \E r \in Run : \/ RunStep(r) \/ Hold(r) \/ AgentEnds(r)
                      \/ \E text \in {"text", "rest"} : Write(r, text)

\* Timers fire and promises are settled.
Spec == Init /\ [][Next]_vars /\ \A r \in Run : WF_vars(RunStep(r))

(***************************************************************************)
(* Properties.                                                             *)
(***************************************************************************)
\* What a user is sent by a pulse is what its own session wrote, however runs overlap: all
\* of it, up to the end of the session or the time limit, and never with the rest token in
\* it (pulse.ts, _collectResponse subscribes after start()).
ResponsesAreOwn ==
    \A r \in Run : run[r].sent # <<>> =>
        /\ run[r].to # None /\ ~Contains(run[r].sent, "rest")
        /\ IF run[r].late THEN IsPrefix(run[r].sent, written[r]) ELSE run[r].sent = written[r]

\* A daemon that was stopped in order starts with the destination a user was last active
\* from, whatever arrives while it stops, and a crash never leaves a part of the file
\* (last-active-tracker.ts, shutdown priorities of daemon.ts).
LastActiveSurvives == file # Torn /\ (phase = "up" /\ sure => tracker = latest)

\* Every run of the job comes to an end, also when its agent waits for an answer nobody
\* gives or is left paused; so a caller of scheduler.trigger is answered.
PulsesEnd == \A r \in Run : run[r].at = "adapter" ~> run[r].at = "ended"
=============================================================================
