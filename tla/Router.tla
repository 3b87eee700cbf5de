------------------------------- MODULE Router -------------------------------
(***************************************************************************)
(* The MessageRouter (apps/daemon/src/router/router.ts) with the           *)
(* coordinator it drives (shared/orchestrator/src/coordinator/impl.ts),    *)
(* the checkpoint files (snapshot/store.ts) and the conversation bindings  *)
(* of module Conversations.                                                *)
(*                                                                         *)
(* Channel events are handled as they come: router.start() does not await  *)
(* handleInbound(), so the handlers of several messages run interleaved,   *)
(* switching at every await that waits for I/O.  Code that follows an      *)
(* await of settled promises only runs in the same turn of the event loop  *)
(* and belongs to the same step.                                           *)
(*                                                                         *)
(* A message's handler creates at most one agent handle, and a session is  *)
(* created by exactly one handler: handles and sessions are named after    *)
(* the message, which stands for the freshness of the generated UUIDs.     *)
(***************************************************************************)
EXTENDS Conversations, Sequences, Naturals

CONSTANT Scenarios  \* the environments to consider, a set of Scenario

Message == Session
OpNames == {"spawn", "new", "terminate", "pause", "resume", "unbind"}

\* from: the chat each message comes from.  ops: the commands the operator
\* uses.  mayFail: whether model calls, adapters and the store may fail.
\* patient: the user waits for the reply and for the checkpoint before writing
\* again.  commands, crashes, exits: bounds on the operator's commands, on
\* deaths of the process outside a clean exit, and on clean shutdowns.
Scenario == [from : [Message -> Destination], ops : SUBSET OpNames,
             mayFail : BOOLEAN, patient : BOOLEAN,
             commands : Nat, crashes : Nat, exits : Nat]

\* A patient user lives in a world where nothing fails and the operator says
\* nothing but /new.
ASSUME ScenarioAssumption ==
    /\ Scenarios \subseteq Scenario
    /\ \A s \in Scenarios : s.patient =>
            ~s.mayFail /\ s.crashes = 0 /\ s.ops \subseteq {"new"}

VARIABLES
    routing,     \* the router's _running, with its subscriptions
    coord,       \* the coordinator's _status
    agents,      \* its map: the handle that answers for a session
    handle,      \* the agent handles, with their instances
    checkpoint,  \* <session>.json in the snapshot directory
    writes,      \* checkpoint writes in flight
    task,        \* the handler of each inbound message
    env          \* the scenario, with what is left of its bounds

volatile == <<routing, coord, agents, handle, writes, task>>
routerVars == <<convVars, volatile, checkpoint, env>>

from == env.from

\* status: what AgentHandleImpl._status says.  inst: the instance's _status.
\* busy: run() has been entered and has not returned.  held: run() stops at
\* the next event it pulls, if there is one (pausePromise).  history: the
\* user messages of the model's context.  queue: follow-ups the model loop
\* will still take.  unread: inputs that lie in inputQueue, which nothing
\* reads after the start.
Handle == [session : Session,
           status  : {"running", "paused", "completed", "terminated"},
           inst    : {"running", "paused", "completed", "failed", "aborted"},
           busy    : BOOLEAN,
           held    : BOOLEAN,
           history : Seq(Message),
           queue   : Seq(Message),
           unread  : SUBSET Message]

\* The mark for "no handle" is none, and those for a file that is missing or
\* cut off are no conversations.
ASSUME HandleAssumption ==
    /\ Absent \notin Handle
    /\ \A mark \in {Absent, Torn} : mark \notin Seq(Message)

Settled == {"handled", "rejected", "lost"}
Steps == {"none", "adapting", "spawning", "loading", "readapting", "reading",
          "resuming"} \cup Settled

\* path: which branch of _routeToAgent the handler is in.  session: its local
\* agentId.  loaded: the checkpoint continue() has read.
Task == [pc : Steps,
         path : {"none", "spawn", "restore", "continue", "send"},
         session : Session \cup {Null},
         loaded : Seq(Message)]

Idle == [pc |-> "none", path |-> "none", session |-> Null, loaded |-> <<>>]

Saved(c) == c \notin {Absent, Torn}

NewHandle(s, history) ==
    [session |-> s, status |-> "running", inst |-> "running", busy |-> TRUE,
     held |-> FALSE, history |-> history, queue |-> <<>>, unread |-> {}]

\* A save() in flight.  kind: which done event asked for it.  mixed: another
\* writer has had the file open at the same time.
CheckpointWrite == [handle : Message, kind : {"run", "terminate"},
                    session : Session, history : Seq(Message),
                    open : BOOLEAN, mixed : BOOLEAN]

----------------------------------------------------------------------------
(* Agent handles and their checkpoints.                                    *)

\* The done event: checkpoint() copies the conversation at once and save()
\* writes it later, with nobody waiting for it.
Write(h, kind, history) ==
    [handle |-> h, kind |-> kind, session |-> handle[h].session,
     history |-> history, open |-> FALSE, mixed |-> FALSE]

RequestSave(kind, hs) ==
    writes' = writes \cup {Write(h, kind, handle[h].history) : h \in hs}

\* writeFile() truncates the file when it opens it.
OpenWrite(w) ==
    LET rivals == {x \in writes : x.open /\ x.session = w.session}
    IN  /\ ~w.open
        /\ writes' = ((writes \ {w}) \ rivals)
                     \cup {[x EXCEPT !.mixed = TRUE] : x \in rivals}
                     \cup {[w EXCEPT !.open = TRUE, !.mixed = rivals # {}]}
        /\ checkpoint' = [checkpoint EXCEPT ![w.session] = Torn]
        /\ UNCHANGED <<convVars, routing, coord, agents, handle, task, env>>

\* Two writers of one file may leave the tail of the longer text behind.
CloseWrite(w) ==
    /\ w.open
    /\ writes' = writes \ {w}
    /\ \E content \in IF w.mixed THEN {w.history, Torn} ELSE {w.history} :
            checkpoint' = [checkpoint EXCEPT ![w.session] = content]
    /\ UNCHANGED <<convVars, routing, coord, agents, handle, task, env>>

\* The model loop takes a follow-up, one at a time, paused or not.
TakeFollowUp(h) ==
    /\ handle[h] # Absent
    /\ handle[h].busy /\ handle[h].inst \in {"running", "paused"}
    /\ handle[h].queue # <<>>
    /\ handle' = [handle EXCEPT
                    ![h].history = Append(@, Head(handle[h].queue)),
                    ![h].queue = Tail(@)]
    /\ UNCHANGED <<convVars, routing, coord, agents, checkpoint, writes, task,
                   env>>

\* Mutation of Complete: no status event, as when run() throws.
CompleteQuietly(h) ==
    /\ handle[h] # Absent
    /\ handle[h].busy
    /\ handle[h].inst # "aborted" => handle[h].queue = <<>>
    /\ handle' = [handle EXCEPT ![h].busy = FALSE, ![h].inst = "completed"]
    /\ RequestSave("run", {h})
    /\ UNCHANGED <<convVars, routing, coord, agents, checkpoint, task, env>>

\* run() ends: status completed, then done.  An aborted run ends the same
\* way, and its status event overwrites "terminated".  A paused run may end as
\* well: run() looks at pausePromise only when it has pulled another event.
Complete(h) ==
    /\ handle[h] # Absent
    /\ handle[h].busy
    /\ handle[h].inst # "aborted" => handle[h].queue = <<>>
    /\ handle' = [handle EXCEPT ![h].busy = FALSE, ![h].inst = "completed",
                                ![h].status = "completed"]
    /\ RequestSave("run", {h})
    /\ UNCHANGED <<convVars, routing, coord, agents, checkpoint, task, env>>

\* run() throws: an error event and done with a failed result, but no status
\* event, so the handle keeps the status it had.
Fail(h) ==
    /\ env.mayFail
    /\ handle[h] # Absent
    /\ handle[h].busy
    /\ handle' = [handle EXCEPT ![h].busy = FALSE, ![h].inst = "failed"]
    /\ RequestSave("run", {h})
    /\ UNCHANGED <<convVars, routing, coord, agents, checkpoint, task, env>>

\* handle.terminate(): abort, status, and a done event of its own.
Terminate(hs) ==
    /\ handle' = [h \in Message |->
                    IF h \in hs
                    THEN [handle[h] EXCEPT !.inst = "aborted",
                                           !.status = "terminated"]
                    ELSE handle[h]]
    /\ RequestSave("terminate", hs)

\* handle.send(): only a running instance passes the message on.
Send(h, m) ==
    handle' = IF handle[h].inst = "running"
              THEN [handle EXCEPT ![h].queue = Append(@, m)]
              ELSE [handle EXCEPT ![h].unread = @ \cup {m}]

----------------------------------------------------------------------------
(* The handler of one inbound message: handleInbound, _routeToAgent,       *)
(* _spawnAgent, _tryRestoreFromCheckpoint, Coordinator.spawn and continue. *)

Goto(m, pc) == task' = [task EXCEPT ![m].pc = pc]

\* What a patient user waits for: nothing of the last turn is in flight.
Quiet(d) ==
    /\ \A m \in Message : from[m] = d => task[m].pc \in Settled \cup {"none"}
    /\ \A h \in Message :
            handle[h] # Absent /\ from[h] = d => ~handle[h].busy
    /\ \A w \in writes : from[w.session] # d

\* The synchronous part of handleInbound: getOrCreate and the choice of the
\* branch.  A message for a handle in any status but "completed" is sent to it.
HandleInbound(m) ==
    LET d == from[m]
        s == WithEntry(d)[d]
        to(pc, path) == task' = [task EXCEPT
                ![m] = [pc |-> pc, path |-> path, session |-> s,
                        loaded |-> <<>>]]
    IN  /\ routing
        /\ task[m].pc = "none"
        /\ env.patient => Quiet(d)
        /\ GetOrCreate(d)
        /\ \/ /\ s = Null
              /\ to("adapting", "spawn")
              /\ UNCHANGED handle
           \/ /\ s # Null /\ agents[s] = Absent
              /\ to("loading", "restore")
              /\ UNCHANGED handle
           \/ /\ s # Null /\ agents[s] # Absent
              /\ handle[agents[s]].status = "completed"
              /\ to("reading", "continue")
              /\ UNCHANGED handle
           \/ /\ s # Null /\ agents[s] # Absent
              /\ handle[agents[s]].status # "completed"
              /\ to("handled", "send")
              /\ Send(agents[s], m)
        /\ UNCHANGED <<disk, temp, snap, phase, routing, coord, agents,
                       checkpoint, writes, env>>

\* RPC agent.spawn with bind: a spawn that never looks at the old binding.
RpcSpawn(m) ==
    /\ "spawn" \in env.ops
    /\ routing
    /\ task[m].pc = "none"
    /\ task' = [task EXCEPT ![m] = [pc |-> "adapting", path |-> "spawn",
                                    session |-> Null, loaded |-> <<>>]]
    /\ UNCHANGED <<convVars, routing, coord, agents, handle, checkpoint,
                   writes, env>>

\* The adapter is there: spawn() checks the coordinator's status, once.
CallSpawn(m) ==
    /\ task[m].pc = "adapting"
    /\ Goto(m, IF coord = "running" THEN "spawning" ELSE "rejected")
    /\ UNCHANGED <<convVars, routing, coord, agents, handle, checkpoint,
                   writes, env>>

\* Mutation of Spawned: binds whichever destination waits for an agent.
SpawnedForAnother(m) ==
    /\ task[m].pc = "spawning"
    /\ handle' = [handle EXCEPT ![m] = NewHandle(m, <<m>>)]
    /\ agents' = [agents EXCEPT ![m] = m]
    /\ \E d \in Destination : byDestination[d] = Null /\ Bind(d, m)
    /\ Goto(m, "handled")
    /\ UNCHANGED <<disk, temp, snap, phase, routing, coord, checkpoint, writes,
                   env>>

\* spawn() resolves: agents.set, then the router binds and starts.
Spawned(m) ==
    /\ task[m].pc = "spawning"
    /\ handle' = [handle EXCEPT ![m] = NewHandle(m, <<m>>)]
    /\ agents' = [agents EXCEPT ![m] = m]
    /\ Bind(from[m], m)
    /\ Goto(m, "handled")
    /\ UNCHANGED <<disk, temp, snap, phase, routing, coord, checkpoint, writes,
                   env>>

\* The adapter factory or spawn() throws: the router logs it and that is all.
SpawnFails(m) ==
    /\ env.mayFail
    /\ task[m].pc \in {"adapting", "spawning"}
    /\ Goto(m, "rejected")
    /\ UNCHANGED <<convVars, routing, coord, agents, handle, checkpoint,
                   writes, env>>

\* _tryRestoreFromCheckpoint: loadCheckpoint answers.  A file that does not
\* parse throws, outside the try, and leaves the binding as it is.
LoadCheckpoint(m) ==
    LET c == checkpoint[task[m].session]
    IN  /\ task[m].pc = "loading"
        /\ \/ /\ c = Absent
              /\ Unbind(from[m])
              /\ task' = [task EXCEPT ![m].pc = "adapting", ![m].path = "spawn"]
           \/ /\ c = Torn
              /\ Goto(m, "rejected")
              /\ UNCHANGED <<byDestination, byAgent>>
           \/ /\ Saved(c)
              /\ Goto(m, "readapting")
              /\ UNCHANGED <<byDestination, byAgent>>
        /\ UNCHANGED <<disk, temp, snap, phase, routing, coord, agents, handle,
                       checkpoint, writes, env>>

\* Mutation of ContinueFails: the restore path starts over.
RestoreRetries(m) ==
    /\ UNCHANGED <<byDestination, byAgent>>
    /\ Goto(m, IF task[m].path = "restore" THEN "loading" ELSE "rejected")
    /\ UNCHANGED <<disk, temp, snap, phase, routing, coord, agents, handle,
                   checkpoint, writes, env>>

\* An error of continue(): unbind, then spawn afresh on the restore path and
\* give the message up on the other.
ContinueFails(m) ==
    /\ Unbind(from[m])
    /\ IF task[m].path = "restore"
       THEN task' = [task EXCEPT ![m].pc = "adapting", ![m].path = "spawn"]
       ELSE Goto(m, "rejected")
    /\ UNCHANGED <<disk, temp, snap, phase, routing, coord, agents, handle,
                   checkpoint, writes, env>>

\* The restored agent's adapter is there: continue() checks the status.
CallContinue(m) ==
    /\ task[m].pc = "readapting"
    /\ \/ /\ coord = "running"
          /\ Goto(m, "reading")
          /\ UNCHANGED <<convVars, routing, coord, agents, handle, checkpoint,
                         writes, env>>
       \/ /\ coord # "running"
          /\ ContinueFails(m)

\* continue() has read the checkpoint; guidance and skills come next.
ReadCheckpoint(m) ==
    LET c == checkpoint[task[m].session]
    IN  /\ task[m].pc = "reading"
        /\ \/ /\ Saved(c)
              /\ task' = [task EXCEPT ![m].pc = "resuming", ![m].loaded = c]
              /\ UNCHANGED <<convVars, routing, coord, agents, handle,
                             checkpoint, writes, env>>
           \/ /\ ~Saved(c)
              /\ ContinueFails(m)

\* Mutation of Continued: the instance is built without the checkpoint.
ContinuedBlank(m) ==
    /\ task[m].pc = "resuming"
    /\ handle' = [handle EXCEPT ![m] = NewHandle(task[m].session, <<m>>)]
    /\ agents' = [agents EXCEPT ![task[m].session] = m]
    /\ Goto(m, "handled")
    /\ UNCHANGED <<convVars, routing, coord, checkpoint, writes, env>>

\* Mutation of Continued: the session is bound again, whatever happened since.
ContinuedRebinds(m) ==
    LET s == task[m].session
    IN  /\ task[m].pc = "resuming"
        /\ handle' = [handle EXCEPT
                        ![m] = NewHandle(s, Append(task[m].loaded, m))]
        /\ agents' = [agents EXCEPT ![s] = m]
        /\ Bind(from[m], s)
        /\ Goto(m, "handled")
        /\ UNCHANGED <<disk, temp, snap, phase, routing, coord, checkpoint,
                       writes, env>>

\* adapter.restore has built the instance: agents.set replaces the session's
\* handle, and the router starts the new one whatever is bound by now.
Continued(m) ==
    LET s == task[m].session
    IN  /\ task[m].pc = "resuming"
        /\ handle' = [handle EXCEPT
                        ![m] = NewHandle(s, Append(task[m].loaded, m))]
        /\ agents' = [agents EXCEPT ![s] = m]
        /\ Goto(m, "handled")
        /\ UNCHANGED <<convVars, routing, coord, checkpoint, writes, env>>

\* A step of continue(), or the adapter factory before it, throws.
ContinueThrows(m) ==
    /\ env.mayFail
    /\ task[m].pc \in {"readapting", "reading", "resuming"}
    /\ ContinueFails(m)

----------------------------------------------------------------------------
(* What the operator and the /new command do to a session.                 *)

Spend(kind) ==
    /\ env[kind] > 0
    /\ env' = [env EXCEPT ![kind] = @ - 1]

Command(op) ==
    /\ op \in env.ops
    /\ routing
    /\ Spend("commands")

\* /new: terminate the bound agent when the coordinator has it, then unbind.
NewCommand(d) ==
    /\ Command("new")
    /\ env.patient => Quiet(d)
    /\ Terminate({agents[s] : s \in {x \in Session :
                                byDestination[d] = x /\ agents[x] # Absent}})
    /\ Unbind(d)
    /\ UNCHANGED <<disk, temp, snap, phase, routing, coord, agents, checkpoint,
                   task>>

\* RPC agent.terminate.
RpcTerminate(s) ==
    /\ Command("terminate")
    /\ agents[s] # Absent
    /\ Terminate({agents[s]})
    /\ UNCHANGED <<convVars, routing, coord, agents, checkpoint, task>>

\* RPC agent.pause: the handle says "paused" even when the instance ignored it.
RpcPause(s) ==
    LET h == agents[s]
    IN  /\ Command("pause")
        /\ h # Absent
        /\ handle' = [handle EXCEPT
                        ![h].status = "paused",
                        ![h].held = @ \/ handle[h].inst = "running",
                        ![h].inst = IF @ = "running" THEN "paused" ELSE @]
        /\ UNCHANGED <<convVars, routing, coord, agents, checkpoint, writes,
                       task>>

\* RPC agent.resume.
RpcResume(s) ==
    LET h == agents[s]
    IN  /\ Command("resume")
        /\ h # Absent
        /\ handle' = [handle EXCEPT
                        ![h].status = "running",
                        ![h].held = FALSE,
                        ![h].inst = IF handle[h].held THEN "running" ELSE @]
        /\ UNCHANGED <<convVars, routing, coord, agents, checkpoint, writes,
                       task>>

\* RPC conversation.unbind: the session keeps running.
RpcUnbind(d) ==
    /\ Command("unbind")
    /\ Unbind(d)
    /\ UNCHANGED <<disk, temp, snap, phase, routing, coord, agents, handle,
                   checkpoint, writes, task>>

----------------------------------------------------------------------------
(* The daemon's life: start and stop of coordinator, bindings and router.  *)

Init ==
    /\ ConvInit
    /\ routing = FALSE
    /\ coord = "stopped"
    /\ agents = [s \in Session |-> Absent]
    /\ handle = [m \in Message |-> Absent]
    /\ checkpoint = [s \in Session |-> Absent]
    /\ writes = {}
    /\ task = [m \in Message |-> Idle]
    /\ env \in Scenarios

Boot ==
    /\ BeginLoad
    /\ coord' = "running"
    /\ UNCHANGED <<routing, agents, handle, checkpoint, writes, task, env>>

StartRouter ==
    /\ FinishLoad \/ (env.mayFail /\ FailLoad)
    /\ routing' = TRUE
    /\ UNCHANGED <<coord, agents, handle, checkpoint, writes, task, env>>

\* Shutdown handler "router": handlers already running are not waited for.
StopRouter ==
    /\ routing
    /\ env.patient => \A d \in Destination : Quiet(d)
    /\ Spend("exits")
    /\ routing' = FALSE
    /\ UNCHANGED <<convVars, coord, agents, handle, checkpoint, writes, task>>

\* Shutdown handler "coordinator": no more spawns.
BeginShutdown ==
    /\ ~routing /\ phase = "up"
    /\ coord = "running"
    /\ coord' = "stopping"
    /\ UNCHANGED <<convVars, routing, agents, handle, checkpoint, writes, task,
                   env>>

\* Mutation of EndShutdown: waits for the runs without a time limit.
EndShutdownWaits ==
    /\ coord = "stopping"
    /\ \A s \in Session : agents[s] # Absent => ~handle[agents[s]].busy
    /\ coord' = "stopped"
    /\ agents' = [s \in Session |-> Absent]
    /\ UNCHANGED <<convVars, routing, handle, checkpoint, writes, task, env>>

\* The runs have ended, the time is up, or the mode is hard: whatever still
\* says it runs is terminated and the map is cleared.
EndShutdown ==
    /\ coord = "stopping"
    /\ coord' = "stopped"
    /\ Terminate({h \in Message :
                    /\ \E s \in Session : agents[s] = h
                    /\ handle[h].status \in {"running", "paused"}})
    /\ agents' = [s \in Session |-> Absent]
    /\ UNCHANGED <<convVars, routing, checkpoint, task, env>>

\* Shutdown handler "conversation-manager".
StopConversations ==
    /\ coord = "stopped"
    /\ BeginStop
    /\ UNCHANGED <<volatile, checkpoint, env>>

SaveBindings ==
    /\ BeginWrite \/ EndWrite \/ Rename \/ (env.mayFail /\ FailSave)
    /\ UNCHANGED <<volatile, checkpoint, env>>

\* The process is gone, with its handles, its handlers and its open writes.
Die ==
    /\ Exit
    /\ routing' = FALSE
    /\ coord' = "stopped"
    /\ agents' = [s \in Session |-> Absent]
    /\ handle' = [m \in Message |-> Absent]
    /\ writes' = {}
    /\ task' = [m \in Message |->
                    IF task[m].pc \in Settled \cup {"none"} THEN task[m]
                    ELSE [task[m] EXCEPT !.pc = "lost"]]
    /\ UNCHANGED checkpoint

CleanExit ==
    /\ phase = "stopped"
    /\ Die
    /\ UNCHANGED env

\* Also what index.ts makes of the unhandled rejection of a checkpoint save.
Crash ==
    /\ phase # "stopped"
    /\ Spend("crashes")
    /\ Die

----------------------------------------------------------------------------

Handler(m) ==
    \/ CallSpawn(m) \/ Spawned(m)
    \/ LoadCheckpoint(m) \/ CallContinue(m) \/ ReadCheckpoint(m) \/ Continued(m)

Run(h) == TakeFollowUp(h) \/ Complete(h) \/ Fail(h)

Shutdown ==
    \/ BeginShutdown \/ EndShutdown
    \/ StopConversations \/ SaveBindings
    \/ CleanExit

Next ==
    \/ Boot \/ StartRouter \/ StopRouter \/ Shutdown \/ Crash
    \/ \E m \in Message :
        \/ HandleInbound(m) \/ RpcSpawn(m)
        \/ Handler(m) \/ SpawnFails(m) \/ ContinueThrows(m)
        \/ Run(m)
        \/ RpcTerminate(m) \/ RpcPause(m) \/ RpcResume(m)
    \/ \E w \in writes : OpenWrite(w) \/ CloseWrite(w)
    \/ \E d \in Destination : NewCommand(d) \/ RpcUnbind(d)

Spec == Init /\ [][Next]_routerVars

\* Pending promises settle and the shutdown sequence runs on by itself.
FairSpec ==
    /\ Spec
    /\ \A m \in Message : WF_routerVars(Handler(m))
    /\ WF_routerVars(Shutdown)
    /\ WF_routerVars(Boot \/ StartRouter)

----------------------------------------------------------------------------
(* Properties.                                                             *)

\* Every variable of router and coordinator has its type.
RouterTypeOK ==
    /\ routing \in BOOLEAN
    /\ coord \in {"running", "stopping", "stopped"}
    /\ agents \in [Session -> Message \cup {Absent}]
    /\ handle \in [Message -> Handle \cup {Absent}]
    /\ checkpoint \in [Session -> Seq(Message) \cup {Absent, Torn}]
    /\ writes \subseteq CheckpointWrite
    /\ task \in [Message -> Task]
    /\ env \in Scenario

\* Every variable has its type.
TypeOK == ConvTypeOK /\ RouterTypeOK

\* Everything in a sequence was said at one destination.
SaidAt(d, seq) == \A i \in DOMAIN seq : from[seq[i]] = d

\* Conversations stay apart: whatever is awaited, restored, replaced or lost,
\* a session's context, its queue, its checkpoint and a checkpoint on its way
\* to the disk hold messages of one destination only, and while a binding
\* names the session it names that destination - so no reply, which goes to
\* getByAgent(session), shows one user another user's conversation
\* (handleAgentEvent, _routeToAgent, Coordinator.continue).
ConversationsStayApart ==
    \A s \in Session :
        /\ byAgent[s] \in {Absent, from[s]}
        /\ Saved(checkpoint[s]) => SaidAt(from[s], checkpoint[s])
        /\ \A w \in writes : w.session = s =>
                SaidAt(from[s], w.history)
        /\ \A h \in Message : handle[h] # Absent /\ handle[h].session = s =>
                /\ SaidAt(from[s], handle[h].history)
                /\ SaidAt(from[s], handle[h].queue)
                /\ \A m \in handle[h].unread : from[m] = from[s]

\* A user who comes back while the agent is at work is heard: unless a run
\* failed or an operator paused, resumed or terminated the session, a
\* follow-up is never left where nothing reads it, through /new, rebinding,
\* restarts and crashes (_routeToAgent's choice of branch, handle status and
\* instance status, which two objects keep).
FollowUpsReachARun ==
    ~env.mayFail /\ env.ops \cap {"pause", "resume", "terminate"} = {} =>
        \A h \in Message : handle[h] # Absent => handle[h].unread = {}

\* The bindings that count: those in memory while the manager serves, and
\* those in the file otherwise.
CurrentTable ==
    IF phase \in {"up", "saving", "writing", "written"} THEN byDestination
    ELSE IF disk \in {Absent, Torn} THEN NoBindings ELSE disk

\* What the agent at d knows of the conversation: the context of the live
\* handle with what is queued for it, else the checkpoint.
Remembered(d) ==
    LET s == CurrentTable[d]
    IN  IF s \notin Session THEN <<>>
        ELSE IF agents[s] # Absent
             THEN handle[agents[s]].history \o handle[agents[s]].queue
        ELSE IF Saved(checkpoint[s]) THEN checkpoint[s] ELSE <<>>

\* The log of a patient user without failures or crashes; to others nothing
\* is promised.  All that is ever said to the operator's side in that world is
\* /new, so its bound falls in the step of NewCommand and in no other.
Promised == INSTANCE ConversationLog WITH
                log <- [d \in Destination |->
                            IF env.patient THEN Remembered(d) ELSE <<>>],
                commands <- IF env.patient THEN env.commands ELSE 0

\* For a user who waits for each reply, and without failures or crashes, the
\* daemon keeps its promise: through follow-ups, /new and clean restarts the
\* agent's memory is exactly what was said since the last /new.  A log may
\* start over in the step of NewCommand only: a binding or a checkpoint that
\* is lost on any other path (LoadCheckpoint, ContinueFails, a restart without
\* the bindings' file) takes back what was said and is refused.
KeepsTheConversation == Promised!Spec

\* Every inbound message's handler comes to an end: delivered, given up with
\* a log entry, or lost with the process (router.ts handleInbound).
HandlersSettle ==
    \A m \in Message : task[m].pc # "none" ~> task[m].pc \in Settled

\* Once ingress has stopped the process ends: no handler, run or write keeps
\* the shutdown from reaching the bindings' save and the exit.
ShutdownEnds == (~routing /\ phase = "up") ~> phase = "down"
============================================================================
