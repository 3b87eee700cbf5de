-------------------------- MODULE InstancesProofs --------------------------
(***************************************************************************)
(* Theorems about the programs a user runs: Instances, for any number of   *)
(* daemons, commands and chats and any bounds on starts and crashes (which *)
(* daemons may serve at once, what the answer of `daemon stop' says, and   *)
(* what a restart finds), and TerminalUi, for any agents, channels, mounts *)
(* and bounds (what a view that reports an action as done shows).          *)
(***************************************************************************)
EXTENDS Instances, TerminalUi, FiniteSetTheorems, SequenceTheorems, TLAPS

(***************************************************************************)
(* The invariant.                                                          *)
(***************************************************************************)
\* How a command comes by its fields.
Wellformed(c) ==
    /\ cmd[c].step = "idle" => ~cmd[c].waiting
    /\ cmd[c].step # "over" => cmd[c].told = ""
    /\ cmd[c].step = "act" => c \in Starter /\ ~cmd[c].waiting
    /\ cmd[c].step = "request" => cmd[c].at \in Instance
    /\ c \in Stopper /\ (cmd[c].waiting \/ cmd[c].told = "stopped") => cmd[c].daemon \in Instance

\* There is a process left for each start that has not spawned one.
Free == {d \in Instance : proc[d] = "free"}
Unspawned == {s \in Starter : ~cmd[s].waiting /\ cmd[s].step # "over"}
EnoughProcesses == Cardinality(Unspawned) <= Cardinality(Free)

\* Daemons that lived at once are known.
Met ==
    /\ \A d, e \in Instance : d # e /\ proc[d] \in Alive /\ proc[e] \in Alive => d \in met
    /\ \A d \in Instance : proc[d] = "unlinked" /\ path # Nobody => d \in met
    /\ \A d \in Instance : proc[d] = "failed" => d \in met

\* The file is what the last daemon to shut down had, and one that lived alone knows it.
Known ==
    /\ file = kept
    /\ met = {} => \A d \in Instance : proc[d] \in Alive \ {"booting"} => kept \subseteq table[d]

\* A daemon `stop' has asked has served, and does not start again.
Asked ==
    \A t \in Stopper : cmd[t].daemon # Nobody =>
        proc[cmd[t].daemon] \in {"serving", "closing", "draining", "gone"}

\* As long as nothing excuses two daemons: one at most is on its way or serves, and then
\* at the path; a start that waits for it is the only start, and one that is about to spawn
\* has nothing to fear.
Up == {d \in Instance : proc[d] \in Booting \cup {"serving"}}
AtPath == \A d \in Instance : proc[d] = "serving" => path = d
Alone ==
    /\ \A d, e \in Up : d = e
    /\ \A s, r \in Starter : Underway(s) /\ Underway(r) => s = r
    /\ \A d \in Instance : proc[d] \in Booting =>
            \E s \in Starter : Underway(s) /\ cmd[s].waiting
    /\ \A s \in Starter, d \in Instance : ~cmd[s].waiting /\ proc[d] = "serving" =>
            cmd[s].step # "act" /\ (cmd[s].step = "request" => cmd[s].at = d)

\* And `stop' waits on a connection to the daemon it has asked, if that one serves.
Stops ==
    \A t \in Stopper : cmd[t].daemon \in Instance /\ proc[cmd[t].daemon] = "serving" =>
        /\ cmd[t].told # "stopped"
        /\ cmd[t].waiting /\ cmd[t].step = "request" => cmd[t].at = cmd[t].daemon

InstancesInv ==
    /\ TypeOK /\ \A c \in Command : Wellformed(c)
    /\ EnoughProcesses /\ Met /\ Known /\ Asked
    /\ ~excused => Alone /\ AtPath /\ Stops

(***************************************************************************)
(* Lemmas about the parts of the invariant.                                *)
(***************************************************************************)
Process == Alive \cup {"free", "failed", "gone"}
Served == {"serving", "closing", "draining", "gone"}
CommandType ==
    [step : {"idle", "dial", "request", "act", "over"}, waiting : BOOLEAN, late : BOOLEAN,
     at : Instance \cup {Nobody}, daemon : Instance \cup {Nobody},
     told : {"", "not running", "running", "started", "stopped", "timed out", "failed",
             "crashed"}]

LEMMA InstancesInit == Init => InstancesInv
<1> SUFFICES ASSUME Init PROVE InstancesInv
  OBVIOUS
<1>1. /\ \A d \in Instance : proc[d] = "free" /\ proc[d] \notin Alive
      /\ \A c \in Command : cmd[c] = Idle
      /\ Idle.step = "idle" /\ Idle.waiting = FALSE /\ Idle.told = "" /\ Idle.daemon = Nobody
  BY DEF Init, Idle, Alive, Booting, Stopping
<1>2. TypeOK
  <2>1. Idle \in CommandType
    BY DEF Idle, CommandType
  <2>2. crashes \in 0..setup.crashes
    BY InstancesAssumption DEF Init
  <2>3. excused \in BOOLEAN
    BY DEF Init
  <2> QED BY <2>1, <2>2, <2>3 DEF Init, TypeOK, CommandType
<1>3. \A c \in Command : Wellformed(c)
  BY <1>1, InstancesAssumption DEF Wellformed
<1>4. EnoughProcesses
  <2>1. Free = Instance /\ Unspawned = Starter
    BY <1>1 DEF Free, Unspawned, Command
  <2> QED BY <2>1, InstancesAssumption DEF EnoughProcesses
<1>5. Met /\ Known /\ Asked
  BY <1>1 DEF Init, Met, Known, Asked, Command
<1>6. Alone /\ AtPath /\ Stops
  BY <1>1, InstancesAssumption
  DEF Alone, AtPath, Stops, Up, Underway, Command, Booting
<1> QED BY <1>2, <1>3, <1>4, <1>5, <1>6 DEF InstancesInv

\* A step of one daemon process d: no process is started, and none comes back.
Moves(d, to) ==
    /\ proc' = [proc EXCEPT ![d] = to] /\ to \in Process \ {"free"} /\ proc[d] # "free"
    /\ UNCHANGED <<cmd, met, setup>>
    /\ to \in Alive => proc[d] \in Alive
    /\ to \in Booting => proc[d] \in Booting
    /\ to = "serving" => proc[d] = "unlinked"
    /\ proc[d] \in Served => to \in Served

\* What such a step leaves as it is.
LEMMA MoveKeeps ==
    ASSUME InstancesInv, NEW d \in Instance, NEW to, Moves(d, to)
    PROVE  /\ \A c \in Command : Wellformed(c)'
           /\ EnoughProcesses' /\ Asked'
           /\ \A e, f \in Instance :
                e # f /\ proc'[e] \in Alive /\ proc'[f] \in Alive => e \in met'
           /\ ~excused => Alone' /\ Stops'
<1> USE DEF Moves
<1>0. /\ proc \in [Instance -> Process] /\ proc'[d] = to
      /\ \A e \in Instance \ {d} : proc'[e] = proc[e]
  BY DEF InstancesInv, TypeOK, Process
<1>1. \A c \in Command : Wellformed(c)'
  BY DEF InstancesInv, Wellformed
<1>2. EnoughProcesses'
  <2>1. Free' = Free
    BY <1>0 DEF Free
  <2>2. Unspawned' = Unspawned
    BY DEF Unspawned
  <2> QED BY <2>1, <2>2 DEF InstancesInv, EnoughProcesses
<1>3. Asked'
  <2> SUFFICES ASSUME NEW t \in Stopper, cmd[t].daemon # Nobody
               PROVE  proc'[cmd[t].daemon] \in Served
    BY DEF Asked, Served
  <2>1. cmd[t].daemon \in Instance /\ proc[cmd[t].daemon] \in Served
    BY DEF InstancesInv, TypeOK, Asked, Served, Command
  <2> QED BY <1>0, <2>1
<1>4. \A e, f \in Instance :
        e # f /\ proc'[e] \in Alive /\ proc'[f] \in Alive => e \in met'
  BY <1>0 DEF InstancesInv, Met
<1>5. ASSUME ~excused PROVE Alone' /\ Stops'
  <2>1. Alone /\ Stops /\ Asked
    BY <1>5 DEF InstancesInv
  <2>2. \A e \in Up' : e \in Up
    BY <1>0 DEF Up, Booting
  <2>3. \A e \in Instance : proc'[e] \in Booting => proc[e] \in Booting
    BY <1>0
  <2>4. ASSUME NEW s \in Starter, NEW e \in Instance, ~cmd[s].waiting, proc'[e] = "serving"
        PROVE  cmd[s].step # "act" /\ (cmd[s].step = "request" => cmd[s].at = e)
    <3>1. CASE proc[e] = "serving"
      BY <2>1, <2>4, <3>1 DEF Alone
    <3>2. CASE proc[e] # "serving"
      <4>1. proc[e] \in Booting
        BY <1>0, <2>4, <3>2 DEF Booting
      <4>2. PICK r \in Starter : Underway(r) /\ cmd[r].waiting
        BY <2>1, <4>1 DEF Alone
      <4>3. ~Underway(s)
        BY <2>1, <2>4, <4>2 DEF Alone
      <4> QED BY <4>3 DEF Underway
    <3> QED BY <3>1, <3>2
  <2>5. Alone'
    BY <2>1, <2>2, <2>3, <2>4 DEF Alone, Underway
  <2>6. Stops'
    <3> SUFFICES ASSUME NEW t \in Stopper, cmd[t].daemon \in Instance,
                        proc'[cmd[t].daemon] = "serving"
                 PROVE  proc[cmd[t].daemon] = "serving"
      BY <2>1 DEF Stops
    <3>1. proc[cmd[t].daemon] \in Served
      BY <2>1, InstancesAssumption DEF Asked, Served
    <3> QED BY <1>0, <3>1 DEF Served
  <2> QED BY <2>5, <2>6
<1> QED BY <1>1, <1>2, <1>3, <1>4, <1>5
\* What remains to be shown of such a step.
LEMMA MoveInv ==
    ASSUME InstancesInv, NEW d \in Instance, NEW to, Moves(d, to),
           table' \in [Instance -> SUBSET Chat], file' \subseteq Chat, kept' \subseteq Chat,
           path' \in Instance \cup {Nobody}, asked' \subseteq Instance,
           crashes' \in 0..setup.crashes, excused' \in BOOLEAN, excused => excused',
           \A e \in Instance : proc'[e] = "unlinked" /\ path' # Nobody => e \in met,
           to = "failed" => d \in met,
           Known', ~excused' => AtPath'
    PROVE  InstancesInv'
<1>1. /\ proc \in [Instance -> Process] /\ proc'[d] = to
      /\ \A e \in Instance \ {d} : proc'[e] = proc[e]
  BY DEF InstancesInv, TypeOK, Process, Moves
<1>2. proc' \in [Instance -> Process]
  BY <1>1 DEF Moves
<1>3. TypeOK'
  BY <1>2 DEF InstancesInv, TypeOK, Process, Moves
<1>4. \A e \in Instance : proc'[e] = "failed" => e \in met'
  BY <1>1 DEF InstancesInv, Met, Moves
<1>5. Met'
  BY <1>4, MoveKeeps DEF Met, Moves
<1>6. (~excused => Alone /\ AtPath /\ Stops)'
  BY MoveKeeps
<1> QED BY <1>3, <1>5, <1>6, MoveKeeps DEF InstancesInv

\* The facts a step of a daemon starts from.
LEMMA Typed ==
    ASSUME InstancesInv
    PROVE  /\ proc \in [Instance -> Process] /\ table \in [Instance -> SUBSET Chat]
           /\ file \subseteq Chat /\ kept \subseteq Chat /\ file = kept
           /\ path \in Instance \cup {Nobody} /\ asked \subseteq Instance
           /\ crashes \in 0..setup.crashes /\ setup.crashes \in Nat /\ excused \in BOOLEAN
           /\ cmd \in [Command -> CommandType] /\ met \subseteq Instance
           /\ \A e \in Instance : proc[e] = "unlinked" /\ path # Nobody => e \in met
           /\ met = {} => \A e \in Instance :
                proc[e] \in Alive \ {"booting"} => kept \subseteq table[e]
           /\ ~excused => \A e \in Instance : proc[e] = "serving" => path = e
  BY InstancesAssumption
  DEF InstancesInv, TypeOK, Process, CommandType, Known, Met, AtPath

\* A process that ends without saving: Refuse and Crash.
LEMMA EndKept ==
    ASSUME InstancesInv, NEW d \in Instance, Refuse(d) \/ Crash(d) PROVE InstancesInv'
<1> USE Typed
<1>1. /\ proc[d] \in Alive /\ proc' = [proc EXCEPT ![d] = "gone"]
      /\ UNCHANGED <<cmd, met, setup, table, file, kept, path, excused>>
      /\ asked' \subseteq asked
  BY DEF Refuse, Crash, Become, history, Alive, Booting
<1>2. crashes' \in 0..setup.crashes
  BY DEF Refuse, Crash, Become
<1>3. Moves(d, "gone")
  BY <1>1 DEF Moves, Process, Alive, Booting, Stopping, Served
<1>4. \A e \in Instance : e # d => proc'[e] = proc[e]
  BY <1>1
<1>5. proc'[d] = "gone"
  BY <1>1
<1>6. Known'
  BY <1>1, <1>4, <1>5 DEF Known, Alive, Booting, Stopping
<1>7. ~excused' => AtPath'
  BY <1>1, <1>4, <1>5 DEF AtPath
<1>8. \A e \in Instance : proc'[e] = "unlinked" /\ path' # Nobody => e \in met
  BY <1>1, <1>4, <1>5
<1> QED BY <1>1, <1>2, <1>3, <1>6, <1>7, <1>8, MoveInv

LEMMA LoadKept == ASSUME InstancesInv, NEW d \in Instance, Load(d) PROVE InstancesInv'
<1> USE Typed
<1>1. /\ proc[d] = "booting" /\ proc' = [proc EXCEPT ![d] = "loaded"]
      /\ table' = [table EXCEPT ![d] = file]
      /\ UNCHANGED <<cmd, crashes, met, setup, file, kept, path, asked, excused>>
  BY DEF Load, Become
<1>2. Moves(d, "loaded")
  BY <1>1 DEF Moves, Process, Alive, Booting, Stopping, Served
<1>3. /\ \A e \in Instance : e # d => proc'[e] = proc[e] /\ table'[e] = table[e]
      /\ proc'[d] = "loaded" /\ table'[d] = file
  BY <1>1
<1>4. Known'
  BY <1>1, <1>3 DEF Known
<1>5. ~excused' => AtPath'
  BY <1>1, <1>3 DEF AtPath
<1>6. \A e \in Instance : proc'[e] = "unlinked" /\ path' # Nobody => e \in met
  BY <1>1, <1>3
<1>7. table' \in [Instance -> SUBSET Chat]
  BY <1>1
<1> QED BY <1>1, <1>2, <1>4, <1>5, <1>6, <1>7, MoveInv

LEMMA UnlinkKept == ASSUME InstancesInv, NEW d \in Instance, Unlink(d) PROVE InstancesInv'
<1> USE Typed
<1>1. /\ proc[d] = "loaded" /\ proc' = [proc EXCEPT ![d] = "unlinked"] /\ path' = Nobody
      /\ UNCHANGED <<cmd, crashes, met, setup, table, file, kept, asked, excused>>
  BY DEF Unlink, Become
<1>2. Moves(d, "unlinked")
  BY <1>1 DEF Moves, Process, Alive, Booting, Stopping, Served
<1>3. (\A e \in Instance : e # d => proc'[e] = proc[e]) /\ proc'[d] = "unlinked"
  BY <1>1
<1>4. Known'
  BY <1>1, <1>3 DEF Known, Alive, Booting
<1>5. ~excused' => AtPath'
  <2> SUFFICES ASSUME ~excused, NEW e \in Instance, proc'[e] = "serving" PROVE FALSE
    BY <1>1 DEF AtPath
  <2>1. e # d /\ e \in Up /\ d \in Up
    BY <1>1, <1>3 DEF Up, Booting
  <2> QED BY <2>1 DEF InstancesInv, Alone
<1> QED BY <1>1, <1>2, <1>4, <1>5, MoveInv

LEMMA BindKept == ASSUME InstancesInv, NEW d \in Instance, Bind(d) PROVE InstancesInv'
<1> USE Typed
<1>1. /\ proc[d] = "unlinked"
      /\ UNCHANGED <<cmd, crashes, met, setup, table, file, kept, asked, excused>>
  BY DEF Bind, Become
<1>2. CASE path = Nobody
  <2>1. proc' = [proc EXCEPT ![d] = "serving"] /\ path' = d
    BY <1>2 DEF Bind, Become
  <2>2. Moves(d, "serving")
    BY <1>1, <2>1 DEF Moves, Process, Alive, Booting, Stopping, Served
  <2>3. (\A e \in Instance : e # d => proc'[e] = proc[e]) /\ proc'[d] = "serving"
    BY <2>1
  <2>4. Known'
    BY <1>1, <2>3 DEF Known, Alive, Booting
  <2>5. ~excused' => AtPath'
    <3> SUFFICES ASSUME ~excused, NEW e \in Instance, proc'[e] = "serving", e # d PROVE FALSE
      BY <1>1, <2>1 DEF AtPath
    <3>1. e \in Up /\ d \in Up
      BY <1>1, <2>3 DEF Up, Booting
    <3> QED BY <3>1 DEF InstancesInv, Alone
  <2>6. \A e \in Instance : proc'[e] = "unlinked" => e \in met
    <3> SUFFICES ASSUME NEW e \in Instance, e # d, proc[e] = "unlinked" PROVE e \in met
      BY <2>3
    <3>1. proc[e] \in Alive /\ proc[d] \in Alive
      BY <1>1 DEF Alive, Booting
    <3> QED BY <3>1 DEF InstancesInv, Met
  <2> QED BY <1>1, <2>1, <2>2, <2>4, <2>5, <2>6, MoveInv
<1>3. CASE path # Nobody
  <2>1. proc' = [proc EXCEPT ![d] = "failed"] /\ path' = path /\ d \in met
    BY <1>1, <1>3 DEF Bind, Become
  <2>2. Moves(d, "failed")
    BY <1>1, <2>1 DEF Moves, Process, Alive, Booting, Stopping, Served
  <2>3. (\A e \in Instance : e # d => proc'[e] = proc[e]) /\ proc'[d] = "failed"
    BY <2>1
  <2>4. Known'
    BY <1>1, <2>3 DEF Known, Alive, Booting, Stopping
  <2>5. ~excused' => AtPath'
    BY <1>1, <2>1, <2>3 DEF AtPath
  <2>6. \A e \in Instance : proc'[e] = "unlinked" /\ path' # Nobody => e \in met
    BY <2>1, <2>3
  <2> QED BY <1>1, <2>1, <2>2, <2>4, <2>5, <2>6, MoveInv
<1> QED BY <1>2, <1>3

\* The path is removed: Close and UnlinkAgain.
LEMMA RemoveKept ==
    ASSUME InstancesInv, NEW d \in Instance, Close(d) \/ UnlinkAgain(d) PROVE InstancesInv'
<1> USE Typed
<1>1. PICK to \in {"closing", "draining"} :
        /\ proc' = [proc EXCEPT ![d] = to]
        /\ proc[d] = IF to = "closing" THEN "serving" ELSE "closing"
  BY DEF Close, UnlinkAgain, Become
<1>2. /\ path' = Nobody /\ excused' = (excused \/ (path # d /\ Listening(path)))
      /\ asked' \subseteq asked
      /\ UNCHANGED <<cmd, crashes, met, setup, table, file, kept>>
  BY DEF Close, UnlinkAgain, Become, RemoveSocket
<1>3. Moves(d, to)
  BY <1>1, <1>2 DEF Moves, Process, Alive, Booting, Stopping, Served
<1>4. (\A e \in Instance : e # d => proc'[e] = proc[e]) /\ proc'[d] = to
  BY <1>1
<1>5. Known'
  BY <1>1, <1>2, <1>4 DEF Known, Alive, Booting, Stopping
<1>6. ~excused' => AtPath'
  <2> SUFFICES ASSUME ~excused', NEW e \in Instance, proc'[e] = "serving" PROVE FALSE
    BY DEF AtPath
  <2>1. ~excused /\ e # d /\ proc[e] = "serving"
    BY <1>1, <1>2, <1>4
  <2>2. path = e
    BY <2>1
  <2> QED BY <1>2, <2>1, <2>2, InstancesAssumption DEF Listening
<1>7. excused' \in BOOLEAN /\ (excused => excused')
  BY <1>2
<1> QED BY <1>2, <1>3, <1>5, <1>6, <1>7, MoveInv

LEMMA SaveKept == ASSUME InstancesInv, NEW d \in Instance, Save(d) PROVE InstancesInv'
<1> USE Typed
<1>1. /\ proc[d] = "draining" /\ proc' = [proc EXCEPT ![d] = "gone"]
      /\ file' = table[d] /\ kept' = table[d]
      /\ UNCHANGED <<cmd, crashes, met, setup, table, path, asked, excused>>
  BY DEF Save, Become
<1>2. Moves(d, "gone")
  BY <1>1 DEF Moves, Process, Alive, Booting, Stopping, Served
<1>3. (\A e \in Instance : e # d => proc'[e] = proc[e]) /\ proc'[d] = "gone"
  BY <1>1
<1>4. Known'
  <2> SUFFICES ASSUME met = {}, NEW e \in Instance, proc'[e] \in Alive PROVE FALSE
    BY <1>1 DEF Known
  <2>1. e # d /\ proc[e] \in Alive /\ proc[d] \in Alive
    BY <1>1, <1>3 DEF Alive, Booting, Stopping
  <2> QED BY <2>1 DEF InstancesInv, Met
<1>5. ~excused' => AtPath'
  BY <1>1, <1>3 DEF AtPath
<1>6. \A e \in Instance : proc'[e] = "unlinked" /\ path' # Nobody => e \in met
  BY <1>1, <1>3
<1> QED BY <1>1, <1>2, <1>4, <1>5, <1>6, MoveInv

LEMMA InboundKept ==
    ASSUME InstancesInv, NEW d \in Instance, NEW chat \in Chat, Inbound(d, chat)
    PROVE  InstancesInv'
<1> USE Typed
<1>1. /\ table' = [table EXCEPT ![d] = table[d] \cup {chat}]
      /\ UNCHANGED <<proc, file, path, asked, cmd, crashes, kept, met, excused, setup>>
  BY DEF Inbound, history
<1>2. table' \in [Instance -> SUBSET Chat] /\ \A e \in Instance : table[e] \subseteq table'[e]
  BY <1>1
<1>3. TypeOK'
  BY <1>1, <1>2 DEF InstancesInv, TypeOK
<1>4. Known'
  BY <1>1, <1>2 DEF Known
<1> QED
  BY <1>1, <1>3, <1>4
  DEF InstancesInv, Wellformed, EnoughProcesses, Free, Unspawned, Met, Asked, Alone, Up,
      Underway, AtPath, Stops
(***************************************************************************)
(* The commands.                                                           *)
(***************************************************************************)
\* A step of one command c: only a spawn uses a process up.
Changes(c) ==
    /\ cmd' \in [Command -> CommandType]
    /\ \A q \in Command : q # c => cmd'[q] = cmd[q]
    /\ cmd'[c].step # "idle" \/ ~cmd'[c].waiting
    /\ cmd'[c].step # "over" => cmd'[c].told = ""
    /\ cmd'[c].step = "act" => c \in Starter /\ ~cmd'[c].waiting
    /\ cmd'[c].step = "request" => cmd'[c].at \in Instance
    /\ c \in Stopper /\ (cmd'[c].waiting \/ cmd'[c].told = "stopped") =>
            cmd'[c].daemon \in Instance
    /\ \/ cmd'[c].daemon = cmd[c].daemon
       \/ cmd'[c].daemon \in Instance /\ proc[cmd'[c].daemon] = "serving"
    /\ UNCHANGED <<daemonVars, crashes, kept, met, setup>>
    /\ asked' \subseteq Instance /\ excused' \in BOOLEAN /\ (excused => excused')

\* What a start may do while nothing excuses two daemons, ...
StarterSafe(s) ==
    /\ Underway(s)' => Underway(s) \/ \A r \in Starter : ~Underway(r)
    /\ (Underway(s) /\ cmd[s].waiting) =>
            \/ Underway(s)' /\ cmd'[s].waiting
            \/ \A d \in Instance : proc[d] \notin Booting
    /\ \A d \in Instance : ~cmd'[s].waiting /\ proc[d] = "serving" =>
            cmd'[s].step # "act" /\ (cmd'[s].step = "request" => cmd'[s].at = d)

\* ... and what a stop may.
StopperSafe(t) ==
    cmd'[t].daemon \in Instance /\ proc[cmd'[t].daemon] = "serving" =>
        /\ cmd'[t].told # "stopped"
        /\ cmd'[t].waiting /\ cmd'[t].step = "request" => cmd'[t].at = cmd'[t].daemon

LEMMA ChangeInv ==
    ASSUME InstancesInv, NEW c \in Command, Changes(c),
           c \in Starter => cmd'[c].waiting \/ cmd'[c].step = "over"
                             \/ (~cmd[c].waiting /\ cmd[c].step # "over"),
           ~excused' => (c \in Starter => StarterSafe(c)) /\ (c \in Stopper => StopperSafe(c))
    PROVE  InstancesInv'
<1>0. /\ \A q \in Command : q # c => cmd'[q] = cmd[q]
      /\ UNCHANGED <<proc, table, file, path, crashes, kept, met, setup>>
      /\ excused => excused'
  BY DEF Changes, daemonVars
<1>1. TypeOK'
  <2>1. cmd' \in [Command -> CommandType] /\ asked' \subseteq Instance /\ excused' \in BOOLEAN
    BY DEF Changes
  <2> QED BY <1>0, <2>1 DEF InstancesInv, TypeOK, CommandType
<1>2. ASSUME NEW q \in Command PROVE Wellformed(q)'
  <2>1. CASE q = c
    BY <2>1 DEF Changes, Wellformed
  <2>2. CASE q # c
    BY <1>0, <2>2 DEF InstancesInv, Wellformed
  <2> QED BY <2>1, <2>2
<1>3. EnoughProcesses'
  <2>1. Unspawned' \subseteq Unspawned
    BY <1>0 DEF Unspawned, Command
  <2>2. IsFiniteSet(Unspawned) /\ IsFiniteSet(Free)
    BY InstancesAssumption, FS_Subset DEF Unspawned, Free
  <2>3. IsFiniteSet(Unspawned') /\ Cardinality(Unspawned') <= Cardinality(Unspawned)
    BY <2>1, <2>2, FS_Subset
  <2>4. /\ Cardinality(Unspawned') \in Nat /\ Cardinality(Unspawned) \in Nat
        /\ Cardinality(Free) \in Nat
    BY <2>2, <2>3, FS_CardinalityType
  <2>5. Free' = Free
    BY <1>0 DEF Free
  <2> QED BY <2>3, <2>4, <2>5 DEF InstancesInv, EnoughProcesses
<1>4. Met' /\ Known'
  BY <1>0 DEF InstancesInv, Met, Known
<1>5. Asked'
  <2> SUFFICES ASSUME NEW t \in Stopper, cmd'[t].daemon # Nobody
               PROVE  proc[cmd'[t].daemon] \in Served
    BY <1>0 DEF Asked, Served
  <2>1. t \in Command /\ Asked
    BY DEF Command, InstancesInv
  <2>2. cmd'[t].daemon = cmd[t].daemon \/ proc[cmd'[t].daemon] = "serving"
    BY <1>0, <2>1 DEF Changes
  <2> QED BY <2>1, <2>2 DEF Asked, Served
<1>6. ASSUME ~excused' PROVE (Alone /\ AtPath /\ Stops)'
  <2>1. Alone /\ AtPath /\ Stops
    BY <1>0, <1>6 DEF InstancesInv
  <2>2. AtPath'
    BY <1>0, <2>1 DEF AtPath
  <2>3. Stops'
    <3> SUFFICES ASSUME NEW t \in Stopper PROVE StopperSafe(t)
      BY <1>0 DEF Stops, StopperSafe
    <3>1. CASE t = c
      BY <1>6, <3>1
    <3>2. CASE t # c
      <4>1. cmd'[t] = cmd[t]
        BY <1>0, <3>2 DEF Command
      <4> QED BY <2>1, <4>1 DEF Stops, StopperSafe
    <3> QED BY <3>1, <3>2
  <2>4. CASE c \in Starter
    <3>1. StarterSafe(c)
      BY <1>6, <2>4
    <3>2. \A q \in Starter : q # c => cmd'[q] = cmd[q] /\ (Underway(q)' <=> Underway(q))
      BY <1>0 DEF Underway, Command
    <3>3. \A s, r \in Starter : Underway(s)' /\ Underway(r)' => s = r
      BY <2>1, <3>1, <3>2 DEF StarterSafe, Alone
    <3>4. ASSUME NEW d \in Instance, proc'[d] \in Booting
          PROVE  \E s \in Starter : Underway(s)' /\ cmd'[s].waiting
      <4>1. proc[d] \in Booting
        BY <1>0, <3>4
      <4>2. PICK s \in Starter : Underway(s) /\ cmd[s].waiting
        BY <2>1, <4>1 DEF Alone
      <4>3. Underway(s)' /\ cmd'[s].waiting
        BY <3>1, <3>2, <4>1, <4>2 DEF StarterSafe
      <4> QED BY <4>3
    <3>5. ASSUME NEW s \in Starter, NEW d \in Instance, ~cmd'[s].waiting, proc'[d] = "serving"
          PROVE  cmd'[s].step # "act" /\ (cmd'[s].step = "request" => cmd'[s].at = d)
      <4>1. proc[d] = "serving"
        BY <1>0, <3>5
      <4>2. CASE s = c
        BY <3>1, <3>5, <4>1, <4>2 DEF StarterSafe
      <4>3. CASE s # c
        BY <2>1, <3>2, <3>5, <4>1, <4>3 DEF Alone
      <4> QED BY <4>2, <4>3
    <3>6. \A d, e \in Up' : d = e
      BY <1>0, <2>1 DEF Alone, Up
    <3>7. Alone'
      BY <3>3, <3>4, <3>5, <3>6 DEF Alone
    <3> QED BY <2>2, <2>3, <3>7
  <2>5. CASE c \notin Starter
    <3>1. \A s \in Starter : cmd'[s] = cmd[s]
      BY <1>0, <2>5 DEF Command
    <3>2. Alone'
      BY <1>0, <2>1, <3>1 DEF Alone, Up, Underway
    <3> QED BY <2>2, <2>3, <3>2
  <2> QED BY <2>4, <2>5
<1> QED BY <1>1, <1>2, <1>3, <1>4, <1>5, <1>6 DEF InstancesInv

\* The facts a step of a command starts from.
LEMMA CommandFacts ==
    ASSUME InstancesInv, NEW c \in Command
    PROVE  /\ cmd \in [Command -> CommandType] /\ cmd[c] \in CommandType
           /\ path \in Instance \cup {Nobody} /\ asked \subseteq Instance
           /\ excused \in BOOLEAN /\ Nobody \notin Instance
           /\ c \in Stopper <=> c \notin Starter
           /\ cmd[c].step = "idle" => ~cmd[c].waiting
           /\ cmd[c].step # "over" => cmd[c].told = ""
           /\ cmd[c].step = "act" => c \in Starter /\ ~cmd[c].waiting
           /\ cmd[c].step = "request" => cmd[c].at \in Instance
           /\ c \in Stopper /\ (cmd[c].waiting \/ cmd[c].told = "stopped") =>
                cmd[c].daemon \in Instance
           /\ \A d \in Instance : Listening(d) <=> proc[d] = "serving"
           /\ Listening(path) => path \in Instance
           /\ ~excused => Alone /\ AtPath /\ Stops
  BY InstancesAssumption
  DEF InstancesInv, TypeOK, CommandType, Wellformed, Listening, Command

\* When a command is over, whatever it is told.
LEMMA OverChanges ==
    ASSUME InstancesInv, NEW c \in Command, NEW told, Over(c, told),
           told \in {"not running", "running", "started", "stopped", "timed out", "failed",
                     "crashed"},
           c \in Stopper /\ told = "stopped" => cmd[c].daemon \in Instance
    PROVE  /\ cmd' \in [Command -> CommandType]
           /\ \A q \in Command : q # c => cmd'[q] = cmd[q]
           /\ cmd'[c].step = "over" /\ ~cmd'[c].waiting /\ cmd'[c].told = told
           /\ cmd'[c].daemon = cmd[c].daemon
<1>1. cmd' = [cmd EXCEPT ![c] = [Idle EXCEPT !.step = "over", !.told = told,
                                            !.daemon = cmd[c].daemon]]
  BY DEF Over
<1> DEFINE x == [Idle EXCEPT !.step = "over", !.told = told, !.daemon = cmd[c].daemon]
<1>2. x \in CommandType
  BY CommandFacts DEF CommandType, Idle
<1>3. x.step = "over" /\ ~x.waiting /\ x.told = told /\ x.daemon = cmd[c].daemon
  BY DEF Idle
<1> HIDE DEF x
<1> QED BY <1>1, <1>2, <1>3, CommandFacts DEF x

LEMMA RedialFields ==
    ASSUME InstancesInv, NEW c \in Command, Redial(c)
    PROVE  /\ cmd' \in [Command -> CommandType]
           /\ \A q \in Command : q # c => cmd'[q] = cmd[q]
           /\ cmd'[c].step = "dial" /\ cmd'[c].waiting = cmd[c].waiting
           /\ cmd'[c].daemon = cmd[c].daemon /\ cmd'[c].told = cmd[c].told
<1>1. cmd' = [cmd EXCEPT ![c] = [cmd[c] EXCEPT !.step = "dial", !.at = Nobody]]
  BY DEF Redial
<1>2. cmd[c] \in CommandType
  BY CommandFacts
<1> DEFINE x == [cmd[c] EXCEPT !.step = "dial", !.at = Nobody]
<1>3. /\ x \in CommandType /\ x.step = "dial" /\ x.waiting = cmd[c].waiting
      /\ x.daemon = cmd[c].daemon /\ x.told = cmd[c].told
  BY <1>2 DEF CommandType
<1> HIDE DEF x
<1> QED BY <1>1, <1>3, CommandFacts DEF x

LEMMA BeginKept ==
    ASSUME InstancesInv, NEW kind \in {Starter, Stopper}, Begin(kind) PROVE InstancesInv'
<1> DEFINE idle == {c \in kind : cmd[c].step = "idle"}
           c == CHOOSE b \in idle : TRUE
<1>1. /\ c \in kind /\ c \in Command /\ cmd[c].step = "idle" /\ Redial(c)
      /\ excused' = \/ excused
                    \/ kind = Starter /\ \E s \in Starter : Underway(s)
      /\ UNCHANGED <<daemonVars, asked, crashes, kept, met, setup>>
  BY DEF Begin, Command
<1> HIDE DEF c
<1>2. Changes(c)
  BY <1>1, CommandFacts, RedialFields DEF Changes
<1>3. ASSUME ~excused', c \in Starter PROVE StarterSafe(c)
  <2>1. \A s \in Starter : ~Underway(s)
    BY <1>1, <1>3, InstancesAssumption
  <2>2. cmd'[c].step = "dial"
    BY <1>1, RedialFields
  <2> QED BY <1>3, <2>1, <2>2 DEF StarterSafe
<1>4. ASSUME ~excused', c \in Stopper PROVE StopperSafe(c)
  BY <1>1, <1>4, CommandFacts, RedialFields DEF StopperSafe, Stops
<1> QED BY <1>1, <1>2, <1>3, <1>4, ChangeInv, CommandFacts

LEMMA GiveUpKept == ASSUME InstancesInv, NEW c \in Command, GiveUp(c) PROVE InstancesInv'
<1>1. /\ Over(c, "timed out") /\ excused' = (excused \/ c \in Starter)
      /\ UNCHANGED <<daemonVars, asked, crashes, kept, met, setup>>
  BY DEF GiveUp
<1>2. Changes(c) /\ cmd'[c].step = "over" /\ cmd'[c].told = "timed out"
  BY <1>1, CommandFacts, OverChanges DEF Changes
<1>3. ASSUME ~excused', c \in Stopper PROVE StopperSafe(c)
  BY <1>2, OverChanges, <1>1 DEF StopperSafe
<1>4. ~excused' => c \notin Starter
  BY <1>1
<1> QED BY <1>2, <1>3, <1>4, ChangeInv

LEMMA ElapseKept == ASSUME InstancesInv, NEW c \in Command, Elapse(c) PROVE InstancesInv'
<1>1. /\ cmd' = [cmd EXCEPT ![c] = [cmd[c] EXCEPT !.late = TRUE]]
      /\ UNCHANGED <<daemonVars, asked, crashes, kept, met, excused, setup>>
  BY DEF Elapse, history
<1> DEFINE x == [cmd[c] EXCEPT !.late = TRUE]
<1>2. /\ x \in CommandType /\ x.step = cmd[c].step /\ x.waiting = cmd[c].waiting
      /\ x.at = cmd[c].at /\ x.daemon = cmd[c].daemon /\ x.told = cmd[c].told
  BY CommandFacts DEF CommandType
<1> HIDE DEF x
<1>3. /\ cmd' \in [Command -> CommandType] /\ cmd'[c] = x
      /\ \A q \in Command : q # c => cmd'[q] = cmd[q]
  BY <1>1, <1>2, CommandFacts DEF x
<1>4. Changes(c)
  BY <1>1, <1>2, <1>3, CommandFacts DEF Changes
<1>5. Elapse(c) => Underway(c) /\ cmd[c].waiting
  BY DEF Elapse
<1>6. ASSUME ~excused', c \in Starter PROVE StarterSafe(c)
  BY <1>1, <1>2, <1>3, <1>5 DEF StarterSafe, Underway
<1>7. ASSUME ~excused', c \in Stopper PROVE StopperSafe(c)
  <2>1. Stops
    BY <1>1, <1>7, CommandFacts
  <2> QED BY <1>2, <1>3, <1>7, <2>1 DEF StopperSafe, Stops
<1> QED BY <1>2, <1>3, <1>4, <1>5, <1>6, <1>7, ChangeInv
\* An attempt fails.
LEMMA FailedKept ==
    ASSUME InstancesInv, NEW c \in Command, Failed(c), cmd[c].step \in {"dial", "request"},
           UNCHANGED <<daemonVars, asked, crashes, kept, met, setup>>,
           excused' \in BOOLEAN, excused => excused',
           ~excused' => /\ c \in Starter /\ ~cmd[c].waiting =>
                              \A d \in Instance : proc[d] # "serving"
                        /\ c \in Stopper /\ cmd[c].waiting =>
                              proc[cmd[c].daemon] # "serving"
    PROVE  InstancesInv'
<1>1. Underway(c) /\ (c \in Stopper <=> c \notin Starter) /\ cmd[c] \in CommandType
  BY CommandFacts DEF Underway
<1>2. CASE c \in Starter /\ ~cmd[c].waiting
  <2> DEFINE x == [cmd[c] EXCEPT !.step = "act", !.at = Nobody]
  <2>1. cmd' = [cmd EXCEPT ![c] = x]
    BY <1>1, <1>2 DEF Failed
  <2>2. /\ x \in CommandType /\ x.step = "act" /\ x.waiting = cmd[c].waiting
        /\ x.daemon = cmd[c].daemon /\ x.told = cmd[c].told
    BY <1>1 DEF CommandType
  <2> HIDE DEF x
  <2>3. cmd' \in [Command -> CommandType] /\ cmd'[c] = x
    BY <2>1, <2>2, CommandFacts
  <2>4. Changes(c)
    BY <1>2, <2>1, <2>2, <2>3, CommandFacts DEF Changes
  <2>5. ~excused' => StarterSafe(c)
    BY <1>1, <1>2, <2>2, <2>3 DEF StarterSafe
  <2> QED BY <1>2, <2>4, <2>5, ChangeInv, CommandFacts
<1>3. CASE cmd[c].waiting /\ c \in Starter
  <2>1. Redial(c)
    BY <1>1, <1>3 DEF Failed
  <2>2. Changes(c)
    BY <1>3, <2>1, RedialFields, CommandFacts DEF Changes
  <2>3. cmd'[c].step = "dial" /\ cmd'[c].waiting
    BY <1>3, <2>1, RedialFields
  <2>4. StarterSafe(c)
    BY <1>1, <2>3 DEF StarterSafe, Underway
  <2> QED BY <1>3, <2>2, <2>3, <2>4, ChangeInv, CommandFacts
<1>4. CASE c \in Stopper
  <2>1. PICK told \in {"not running", "stopped"} :
          /\ Over(c, told)
          /\ told = "stopped" => cmd[c].waiting /\ cmd[c].daemon \in Instance
    BY <1>4, CommandFacts DEF Failed
  <2>2. Changes(c) /\ ~cmd'[c].waiting
    BY <1>4, <2>1, OverChanges, CommandFacts DEF Changes
  <2>3. cmd'[c].told = told /\ cmd'[c].daemon = cmd[c].daemon
    BY <1>4, <2>1, OverChanges
  <2>4. ~excused' => StopperSafe(c)
    BY <1>4, <2>1, <2>2, <2>3 DEF StopperSafe
  <2> QED BY <1>4, <2>2, <2>4, ChangeInv, CommandFacts
<1> QED BY <1>2, <1>3, <1>4, CommandFacts

LEMMA DialKept == ASSUME InstancesInv, NEW c \in Command, Dial(c) PROVE InstancesInv'
<1>1. /\ cmd[c].step = "dial"
      /\ UNCHANGED <<daemonVars, asked, crashes, kept, met, excused, setup>>
  BY DEF Dial, history
<1>2. CASE Listening(path)
  <2> DEFINE x == [cmd[c] EXCEPT !.step = "request", !.at = path]
  <2>1. cmd' = [cmd EXCEPT ![c] = x] /\ path \in Instance
    BY <1>2, CommandFacts DEF Dial
  <2>2. /\ x \in CommandType /\ x.step = "request" /\ x.waiting = cmd[c].waiting
        /\ x.at = path /\ x.daemon = cmd[c].daemon /\ x.told = cmd[c].told
    BY <2>1, CommandFacts DEF CommandType
  <2> HIDE DEF x
  <2>3. /\ cmd' \in [Command -> CommandType] /\ cmd'[c] = x
        /\ \A q \in Command : q # c => cmd'[q] = cmd[q]
    BY <2>1, <2>2, CommandFacts
  <2>4. Changes(c)
    BY <1>1, <2>1, <2>2, <2>3, CommandFacts DEF Changes
  <2>5. ASSUME ~excused' PROVE StarterSafe(c) /\ (c \in Stopper => StopperSafe(c))
    <3>1. \A d \in Instance : proc[d] = "serving" => path = d
      BY <1>1, <2>5, CommandFacts DEF AtPath
    <3>2. Underway(c) /\ Underway(c)'
      BY <1>1, <2>2, <2>3 DEF Underway
    <3>3. StarterSafe(c)
      BY <2>2, <2>3, <3>1, <3>2 DEF StarterSafe
    <3>4. c \in Stopper => StopperSafe(c)
      BY <1>1, <2>2, <2>3, <2>5, <3>1, CommandFacts DEF StopperSafe, Stops
    <3> QED BY <3>3, <3>4
  <2> QED BY <1>1, <2>2, <2>3, <2>4, <2>5, ChangeInv
<1>3. CASE ~Listening(path)
  <2>1. Failed(c)
    BY <1>3 DEF Dial
  <2>2. ~excused' => \A d \in Instance : proc[d] # "serving"
    BY <1>1, <1>3, CommandFacts DEF AtPath
  <2>3. c \in Stopper /\ cmd[c].waiting => cmd[c].daemon \in Instance
    BY CommandFacts
  <2> QED BY <1>1, <2>1, <2>2, <2>3, FailedKept, CommandFacts
<1> QED BY <1>2, <1>3

LEMMA AnswerKept == ASSUME InstancesInv, NEW c \in Command, Answer(c) PROVE InstancesInv'
<1> DEFINE d == cmd[c].at
<1>1. /\ cmd[c].step = "request" /\ d \in Instance /\ proc[d] = "serving" /\ Answered(c)
      /\ UNCHANGED <<daemonVars, crashes, kept, met, excused, setup>>
  BY CommandFacts DEF Answer, history
<1>2. CASE c \in Starter
  <2>1. PICK told \in {"started", "running"} : Over(c, told) /\ UNCHANGED asked
    BY <1>1, <1>2, CommandFacts DEF Answered
  <2>2. Changes(c) /\ cmd'[c].step = "over"
    BY <1>1, <1>2, <2>1, OverChanges, CommandFacts DEF Changes
  <2>3. ASSUME ~excused' PROVE StarterSafe(c)
    <3>1. \A e \in Instance : proc[e] \notin Booting
      <4> SUFFICES ASSUME NEW e \in Instance, proc[e] \in Booting PROVE FALSE
        OBVIOUS
      <4>1. e \in Up /\ d \in Up /\ e # d
        BY <1>1 DEF Up, Booting
      <4> QED BY <1>1, <2>3, <4>1, CommandFacts DEF Alone
    <3> QED BY <2>2, <3>1 DEF StarterSafe, Underway
  <2> QED BY <1>2, <2>2, <2>3, ChangeInv, CommandFacts
<1>3. CASE c \in Stopper /\ ~cmd[c].waiting
  <2> DEFINE x == [cmd[c] EXCEPT !.step = "dial", !.waiting = TRUE, !.at = Nobody,
                                 !.daemon = d]
  <2>1. cmd' = [cmd EXCEPT ![c] = x] /\ asked' = asked \cup {d}
    BY <1>3, CommandFacts DEF Answered, Answer
  <2>2. /\ x \in CommandType /\ x.step = "dial" /\ x.waiting /\ x.daemon = d
        /\ x.told = cmd[c].told
    BY <1>1, CommandFacts DEF CommandType
  <2> HIDE DEF x
  <2>3. cmd' \in [Command -> CommandType] /\ cmd'[c] = x
    BY <2>1, <2>2, CommandFacts
  <2>4. Changes(c)
    BY <1>1, <1>3, <2>1, <2>2, <2>3, CommandFacts DEF Changes
  <2>5. ~excused' => StopperSafe(c)
    BY <1>1, <2>2, <2>3, CommandFacts DEF StopperSafe
  <2> QED BY <1>3, <2>4, <2>5, ChangeInv, CommandFacts
<1>4. CASE c \in Stopper /\ cmd[c].waiting
  <2>1. Redial(c) /\ UNCHANGED asked
    BY <1>1, <1>4, CommandFacts DEF Answered
  <2>2. Changes(c)
    BY <1>1, <1>4, <2>1, RedialFields, CommandFacts DEF Changes
  <2>3. ~excused' => StopperSafe(c)
    BY <1>1, <1>4, <2>1, RedialFields, CommandFacts DEF StopperSafe, Stops
  <2> QED BY <1>4, <2>2, <2>3, ChangeInv, CommandFacts
<1> QED BY <1>2, <1>3, <1>4, CommandFacts

\* The connection closes, or the time limit of the request has passed.
LEMMA DropKept ==
    ASSUME InstancesInv, NEW c \in Command, Dropped(c) \/ TimesOut(c) PROVE InstancesInv'
<1>1. /\ cmd[c].step = "request" /\ cmd[c].at \in Instance
      /\ excused' \in BOOLEAN /\ (excused => excused')
      /\ ~excused' => ~excused /\ proc[cmd[c].at] # "serving"
      /\ UNCHANGED <<daemonVars, asked, crashes, kept, met, setup>>
      /\ IF c \in Stopper /\ ~cmd[c].waiting THEN Over(c, "failed") ELSE Failed(c)
  <2>1. cmd[c].step = "request" /\ cmd[c].at \in Instance
    BY CommandFacts DEF Dropped, TimesOut
  <2>2. CASE Dropped(c)
    BY <2>1, <2>2, CommandFacts DEF Dropped, history
  <2>3. CASE TimesOut(c)
    BY <2>1, <2>3 DEF TimesOut
  <2> QED BY <2>2, <2>3
<1>2. CASE c \in Stopper /\ ~cmd[c].waiting
  <2>1. Over(c, "failed")
    BY <1>1, <1>2
  <2>2. /\ cmd' \in [Command -> CommandType]
        /\ \A q \in Command : q # c => cmd'[q] = cmd[q]
        /\ cmd'[c].step = "over" /\ ~cmd'[c].waiting /\ cmd'[c].told = "failed"
        /\ cmd'[c].daemon = cmd[c].daemon
    BY <2>1, OverChanges
  <2>4. Changes(c)
    BY <1>1, <2>2, CommandFacts DEF Changes
  <2>3. StopperSafe(c)
    BY <2>2 DEF StopperSafe
  <2> QED BY <1>2, <2>4, <2>3, ChangeInv, CommandFacts
<1>3. CASE ~(c \in Stopper /\ ~cmd[c].waiting)
  <2>1. Failed(c)
    BY <1>1, <1>3
  <2>2. ASSUME ~excused', c \in Starter, ~cmd[c].waiting, NEW d \in Instance
        PROVE  proc[d] # "serving"
    BY <1>1, <2>2, CommandFacts DEF Alone
  <2>3. ASSUME ~excused', c \in Stopper, cmd[c].waiting
        PROVE  proc[cmd[c].daemon] # "serving"
    BY <1>1, <2>3, CommandFacts DEF Stops
  <2> QED BY <1>1, <2>1, <2>2, <2>3, FailedKept
<1> QED BY <1>2, <1>3

LEMMA SpawnFailsKept ==
    ASSUME InstancesInv, NEW s \in Starter, SpawnFails(s) PROVE InstancesInv'
<1>1. /\ s \in Command /\ cmd[s].step = "act" /\ ~cmd[s].waiting /\ Over(s, "crashed")
      /\ UNCHANGED <<daemonVars, asked, crashes, kept, met, excused, setup>>
  BY CommandFacts DEF SpawnFails, history, Command
<1>2. Changes(s) /\ cmd'[s].step = "over"
  BY <1>1, OverChanges, CommandFacts DEF Changes
<1>3. StarterSafe(s)
  BY <1>1, <1>2 DEF StarterSafe, Underway
<1> QED BY <1>1, <1>2, <1>3, ChangeInv, CommandFacts
LEMMA SpawnKept == ASSUME InstancesInv, NEW s \in Starter, Spawn(s) PROVE InstancesInv'
<1> DEFINE d == CHOOSE e \in Instance : proc[e] = "free"
           others == {e \in Instance : proc[e] \in Alive}
           x == [cmd[s] EXCEPT !.step = "dial", !.waiting = TRUE]
<1>1. /\ s \in Command /\ s \notin Stopper /\ cmd[s].step = "act" /\ ~cmd[s].waiting
      /\ cmd[s] \in CommandType
  BY CommandFacts DEF Spawn, Command
<1>2. /\ proc' = [proc EXCEPT ![d] = "booting"] /\ cmd' = [cmd EXCEPT ![s] = x]
      /\ met' = met \cup (IF others = {} THEN {} ELSE others \cup {d})
      /\ UNCHANGED <<table, file, path, asked, crashes, kept, excused, setup>>
  BY DEF Spawn
<1>3. /\ IsFiniteSet(Unspawned) /\ IsFiniteSet(Free)
      /\ Cardinality(Unspawned) \in Nat /\ Cardinality(Free) \in Nat
      /\ Cardinality(Unspawned) <= Cardinality(Free)
  <2>1. IsFiniteSet(Unspawned) /\ IsFiniteSet(Free)
    BY InstancesAssumption, FS_Subset DEF Unspawned, Free
  <2> QED BY <2>1, FS_CardinalityType DEF InstancesInv, EnoughProcesses
<1>4. s \in Unspawned
  BY <1>1 DEF Unspawned
<1>5. Free # {}
  BY <1>3, <1>4, FS_EmptySet
<1>6. d \in Free /\ d \in Instance /\ proc[d] = "free"
  BY <1>5 DEF Free
<1>7. /\ x \in CommandType /\ x.step = "dial" /\ x.waiting
      /\ x.told = cmd[s].told /\ x.daemon = cmd[s].daemon
  BY <1>1 DEF CommandType
<1> HIDE DEF d, x
<1>8. /\ cmd' \in [Command -> CommandType] /\ cmd'[s] = x
      /\ \A q \in Command : q # s => cmd'[q] = cmd[q]
  BY <1>1, <1>2, <1>7, CommandFacts
<1>9. /\ proc' \in [Instance -> Process] /\ proc'[d] = "booting"
      /\ \A e \in Instance : e # d => proc'[e] = proc[e]
  BY <1>2, <1>6, Typed DEF Process, Alive, Booting
<1>10. TypeOK'
  <2>1. met' \subseteq Instance
    BY <1>2, <1>6, Typed
  <2> QED BY <1>2, <1>8, <1>9, <2>1 DEF InstancesInv, TypeOK, Process, CommandType
<1>11. ASSUME NEW q \in Command PROVE Wellformed(q)'
  <2>1. CASE q = s
    BY <1>1, <1>7, <1>8, <2>1, CommandFacts DEF Wellformed
  <2>2. CASE q # s
    BY <1>8, <2>2 DEF InstancesInv, Wellformed
  <2> QED BY <2>1, <2>2
<1>12. EnoughProcesses'
  <2>1. Unspawned' = Unspawned \ {s}
    BY <1>7, <1>8 DEF Unspawned, Command
  <2>2. Free' = Free \ {d}
    BY <1>9 DEF Free
  <2>3. /\ Cardinality(Unspawned') = Cardinality(Unspawned) - 1
        /\ Cardinality(Free') = Cardinality(Free) - 1
    BY <1>3, <1>4, <1>6, <2>1, <2>2, FS_RemoveElement
  <2> QED BY <1>3, <2>3 DEF EnoughProcesses
<1>13. Met'
  <2>1. ASSUME NEW e \in Instance, NEW f \in Instance, e # f,
               proc'[e] \in Alive, proc'[f] \in Alive
        PROVE  e \in met'
    <3>1. CASE e # d /\ f # d
      BY <1>2, <1>9, <2>1, <3>1 DEF InstancesInv, Met
    <3>2. CASE e = d \/ f = d
      BY <1>2, <1>9, <2>1, <3>2
    <3> QED BY <3>1, <3>2
  <2>2. \A e \in Instance : proc'[e] \in {"unlinked", "failed"} => proc'[e] = proc[e] /\ e # d
    BY <1>9
  <2> QED BY <1>2, <2>1, <2>2 DEF InstancesInv, Met
<1>14. Known'
  <2>1. met' = {} => met = {}
    BY <1>2
  <2>2. \A e \in Instance : proc'[e] \in Alive \ {"booting"} => proc[e] \in Alive \ {"booting"}
    BY <1>9
  <2> QED BY <1>2, <2>1, <2>2 DEF InstancesInv, Known
<1>15. \A t \in Stopper : cmd'[t] = cmd[t]
  BY <1>1, <1>8 DEF Command
<1>16. Asked'
  <2> SUFFICES ASSUME NEW t \in Stopper, cmd[t].daemon # Nobody
               PROVE  proc'[cmd[t].daemon] \in Served
    BY <1>15 DEF Asked, Served
  <2>1. cmd[t].daemon \in Instance
    BY CommandFacts DEF Command, CommandType
  <2>2. proc[cmd[t].daemon] \in Served
    BY DEF InstancesInv, Asked, Served
  <2> QED BY <1>6, <1>9, <2>1, <2>2 DEF Served
<1>17. ASSUME ~excused' PROVE (Alone /\ AtPath /\ Stops)'
  <2>1. Alone /\ AtPath /\ Stops
    BY <1>2, <1>17 DEF InstancesInv
  <2>2. Underway(s) /\ Underway(s)' /\ \A r \in Starter : r # s => ~Underway(r) /\ ~Underway(r)'
    BY <1>1, <1>7, <1>8, <2>1 DEF Underway, Alone, Command
  <2>3. \A e \in Instance : proc[e] \notin Booting
    BY <1>1, <2>1, <2>2 DEF Alone
  <2>4. \A e \in Instance : proc[e] # "serving"
    BY <1>1, <2>1 DEF Alone
  <2>5. \A e \in Instance : proc'[e] # "serving"
    BY <1>9, <2>4
  <2>6. \A e \in Up' : e = d
    BY <1>9, <2>3, <2>5 DEF Up
  <2>7. Alone'
    BY <1>7, <1>8, <2>2, <2>5, <2>6 DEF Alone
  <2>8. AtPath' /\ Stops'
    BY <2>5 DEF AtPath, Stops
  <2> QED BY <2>7, <2>8
<1> QED
  BY <1>10, <1>11, <1>12, <1>13, <1>14, <1>16, <1>17 DEF InstancesInv

LEMMA InstancesNext == ASSUME InstancesInv, [Next]_vars PROVE InstancesInv'
<1>1. ASSUME NEW d \in Instance, DaemonStep(d) \/ Refuse(d) \/ Crash(d) PROVE InstancesInv'
  BY <1>1, EndKept, LoadKept, UnlinkKept, BindKept, RemoveKept, SaveKept DEF DaemonStep
<1>2. ASSUME NEW d \in Instance, NEW chat \in Chat, Inbound(d, chat) PROVE InstancesInv'
  BY <1>2, InboundKept
<1>3. CASE Begin(Starter) \/ Begin(Stopper)
  BY <1>3, BeginKept
<1>4. ASSUME NEW c \in Command, CommandStep(c) \/ TimesOut(c) \/ Elapse(c)
      PROVE  InstancesInv'
  BY <1>4, DialKept, GiveUpKept, AnswerKept, DropKept, SpawnKept, ElapseKept DEF CommandStep
<1>5. ASSUME NEW s \in Starter, SpawnFails(s) PROVE InstancesInv'
  BY <1>5, SpawnFailsKept
<1>6. CASE UNCHANGED vars
  <2>1. UNCHANGED <<proc, table, file, path, asked, cmd, crashes, kept, met, excused, setup>>
    BY <1>6 DEF vars, daemonVars, history
  <2>2. TypeOK'
    BY <2>1 DEF InstancesInv, TypeOK
  <2>3. (\A c \in Command : Wellformed(c)') /\ EnoughProcesses' /\ Met' /\ Known' /\ Asked'
    BY <2>1
    DEF InstancesInv, Wellformed, EnoughProcesses, Free, Unspawned, Met, Known, Asked
  <2>4. ~excused' => Alone' /\ AtPath' /\ Stops'
    BY <2>1 DEF InstancesInv, Alone, Up, Underway, AtPath, Stops
  <2> QED BY <2>2, <2>3, <2>4 DEF InstancesInv
<1> QED BY <1>1, <1>2, <1>3, <1>4, <1>5, <1>6 DEF Next

THEOREM InstancesInvariant == Spec => []InstancesInv
<1>1. InstancesInv /\ [Next]_vars => InstancesInv'
  BY InstancesNext
<1> QED BY <1>1, InstancesInit, PTL DEF Spec

(***************************************************************************)
(* The properties.                                                         *)
(***************************************************************************)
\* Two daemons serve one data directory only after one of the four excuses, whatever
\* starts, stops, crashes and time limits come in whatever order.
THEOREM DaemonsServeAlone == Spec => []ServesAlone
<1>1. InstancesInv => ServesAlone
  BY DEF InstancesInv, AtPath, ServesAlone
<1> QED BY <1>1, InstancesInvariant, PTL

\* When `daemon stop' says that the daemon has stopped, the daemon it has asked does not
\* serve, and never will again.
THEOREM StopMeansStopped == Spec => []StoppedIsStopped
<1>1. InstancesInv => StoppedIsStopped
  <2> SUFFICES ASSUME InstancesInv, NEW t \in Stopper, cmd[t].told = "stopped", ~excused
               PROVE  proc[cmd[t].daemon] # "serving"
    BY DEF StoppedIsStopped
  <2>1. cmd[t].daemon \in Instance
    BY CommandFacts DEF Command
  <2> QED BY <2>1 DEF InstancesInv, Stops
<1> QED BY <1>1, InstancesInvariant, PTL

\* Daemons that lived one after the other bind over what the last one left, and know the
\* bindings it saved.
THEOREM RestartsFindTheRest == Spec => []RestartsCarryOn
<1>1. InstancesInv => RestartsCarryOn
  BY DEF InstancesInv, Met, Known, RestartsCarryOn
<1> QED BY <1>1, InstancesInvariant, PTL

(***************************************************************************)
(* TerminalUi.                                                             *)
(***************************************************************************)
\* A sequence, of whatever.
IsSequence(s) == s \in Seq({s[n] : n \in DOMAIN s})

\* A hook at a time, as far as the reports of its view depend on it.
IsHook(h, time) ==
    h \in [kind : {h.kind}, mounted : {h.mounted}, sock : {h.sock}, on : {h.on}, rows : {h.rows},
           at : 0..time, error : {h.error}, row : {h.row}, chosen : {h.chosen},
           message : {None} \cup [ok : BOOLEAN, at : Nat]]

\* What is reported as done is no newer than the list, or the connection is gone with an
\* error, for good.
Truthful(h) ==
    h.message # None /\ h.message.ok =>
        h.message.at <= h.at \/ (h.error /\ h.sock = "closed")

\* A list is fetched for an action that is done by now,
Requested(m) ==
    /\ IsSequence(up[m])
    /\ \A n \in DOMAIN up[m] : up[m][n].after \in 0..now
Deferred(m) ==
    /\ IsSequence(pending[m])
    /\ \A n \in DOMAIN pending[m] : pending[m][n].after \in 0..now

\* and was made after it, and the answers come in the order of the lists they carry.
InOrder(m) ==
    /\ IsSequence(down[m])
    /\ \A n \in DOMAIN down[m] :
          /\ down[m][n].at \in 0..now
          /\ down[m][n].request.after \in 0..down[m][n].at
          /\ \A k \in 1..n : down[m][k].at <= down[m][n].at
          /\ m \in DOMAIN hooks => hooks[m].at <= down[m][n].at

\* The views there are.
Views == {"dashboard", "agents", "agent-detail", "channels", "logs"}
KnownViews == view \in Views /\ previous \in Views

\* The hooks there are.
KnownHooks == bound \in Bounds /\ DOMAIN hooks \subseteq Mount

UiInv ==
    /\ now \in Nat
    /\ IsSequence(hooks) /\ \A m \in DOMAIN hooks : IsHook(hooks[m], now) /\ Truthful(hooks[m])
    /\ DOMAIN up = Mount /\ DOMAIN down = Mount /\ DOMAIN pending = Mount
    /\ \A m \in Mount : Requested(m) /\ Deferred(m) /\ InOrder(m)

-----------------------------------------------------------------------------
LEMMA SequenceOf ==
    ASSUME NEW S, NEW s \in Seq(S)
    PROVE  /\ IsSequence(s) /\ Len(s) \in Nat /\ DOMAIN s = 1..Len(s)
           /\ \A n \in 1..Len(s) : s[n] \in S
<1>1. Len(s) \in Nat /\ DOMAIN s = 1..Len(s) /\ s \in [1..Len(s) -> S]
  BY LenProperties
<1>2. s \in [1..Len(s) -> {s[n] : n \in DOMAIN s}]
  BY <1>1
<1> QED BY <1>1, <1>2, IsASeq DEF IsSequence

LEMMA SequenceIs ==
    ASSUME NEW s, IsSequence(s)
    PROVE  Len(s) \in Nat /\ DOMAIN s = 1..Len(s) /\ (s = <<>> <=> Len(s) = 0)
BY LenProperties, EmptySeq DEF IsSequence

LEMMA SequenceMade ==
    ASSUME NEW n \in Nat, NEW s, s = [i \in 1..n |-> s[i]]
    PROVE  IsSequence(s) /\ Len(s) = n
<1>1. DOMAIN s = 1..n
  OBVIOUS
<1>2. s \in [1..n -> {s[i] : i \in DOMAIN s}]
  BY <1>1
<1>3. s \in Seq({s[i] : i \in DOMAIN s})
  BY <1>2, IsASeq
<1> QED BY <1>1, <1>3, LenProperties DEF IsSequence

LEMMA SequenceGrows ==
    ASSUME NEW s, IsSequence(s), NEW e
    PROVE  /\ IsSequence(Append(s, e)) /\ Len(Append(s, e)) = Len(s) + 1
           /\ \A n \in 1..Len(s) : Append(s, e)[n] = s[n]
           /\ Append(s, e)[Len(s) + 1] = e
<1> DEFINE S == {s[n] : n \in DOMAIN s} \cup {e}
<1>1. s \in Seq(S) /\ e \in S
  BY SeqMonotonic DEF IsSequence
<1> HIDE DEF S
<1>2. Append(s, e) \in Seq(S)
  BY <1>1, AppendProperties
<1>3. IsSequence(Append(s, e))
  BY <1>2, SequenceOf
<1> QED BY <1>1, <1>3, AppendProperties

LEMMA SequenceShrinks ==
    ASSUME NEW s, IsSequence(s), s # <<>>
    PROVE  /\ IsSequence(Tail(s)) /\ Len(Tail(s)) = Len(s) - 1 /\ Len(s) >= 1 /\ Head(s) = s[1]
           /\ \A n \in 1..Len(s) - 1 : Tail(s)[n] = s[n + 1]
<1> DEFINE S == {s[n] : n \in DOMAIN s}
<1>1. s \in Seq(S)
  BY DEF IsSequence
<1> HIDE DEF S
<1>2. Tail(s) \in Seq(S)
  BY <1>1, HeadTailProperties
<1>3. IsSequence(Tail(s))
  BY <1>2, SequenceOf
<1>4. Len(s) \in Nat /\ Len(s) # 0
  BY SequenceIs
<1>5. Head(s) = s[1]
  OBVIOUS
<1>6. Len(Tail(s)) = Len(s) - 1 /\ \A n \in 1..Len(Tail(s)) : Tail(s)[n] = s[n + 1]
  BY <1>1, HeadTailProperties
<1> QED BY <1>3, <1>4, <1>5, <1>6

LEMMA SequencesJoin ==
    ASSUME NEW s, IsSequence(s), NEW t, IsSequence(t)
    PROVE  /\ IsSequence(s \o t) /\ Len(s \o t) = Len(s) + Len(t)
           /\ \A n \in 1..Len(s) : (s \o t)[n] = s[n]
           /\ \A n \in Len(s) + 1..Len(s) + Len(t) : (s \o t)[n] = t[n - Len(s)]
<1> DEFINE S == {s[n] : n \in DOMAIN s} \cup {t[n] : n \in DOMAIN t}
<1>1. s \in Seq(S) /\ t \in Seq(S)
  BY SeqMonotonic DEF IsSequence
<1> HIDE DEF S
<1>2. s \o t \in Seq(S)
  BY <1>1, ConcatProperties
<1>3. Len(s) \in Nat /\ Len(t) \in Nat
  BY SequenceIs
<1>4. IsSequence(s \o t)
  BY <1>2, SequenceOf
<1>5. /\ Len(s \o t) = Len(s) + Len(t)
      /\ \A i \in 1..Len(s) + Len(t) :
            (s \o t)[i] = IF i <= Len(s) THEN s[i] ELSE t[i - Len(s)]
  BY <1>1, ConcatProperties
<1> QED BY <1>3, <1>4, <1>5

-----------------------------------------------------------------------------
LEMMA HooksAge ==
    ASSUME NEW h, NEW t \in Nat, NEW u \in Nat, t <= u, IsHook(h, t)
    PROVE  IsHook(h, u)
BY DEF IsHook

LEMMA FreshIsHook ==
    ASSUME NEW kind, NEW t \in Nat
    PROVE  IsHook(Fresh(kind), t) /\ Truthful(Fresh(kind)) /\ Fresh(kind).at = 0
BY DEF IsHook, Fresh, Truthful

LEMMA UnmountIsHook ==
    ASSUME NEW h, NEW t \in Nat
    PROVE  IsHook(Unmount(h), t) /\ Truthful(Unmount(h)) /\ Unmount(h).at = 0
<1> DEFINE f == Fresh(h.kind)
           sock == IF h.sock = "open" THEN "ending" ELSE h.sock
           u == [f EXCEPT !.mounted = FALSE, !.on = h.on, !.sock = sock]
<1>1. Unmount(h) = u
  BY DEF Unmount
<1>2. f \in [kind : {h.kind}, mounted : {TRUE}, sock : {"connecting"}, on : {FALSE},
             rows : {<<>>}, at : {0}, error : {FALSE}, row : {1}, chosen : {None},
             message : {None}]
  BY DEF Fresh
<1> HIDE DEF f, sock
<1>3. u \in [kind : {h.kind}, mounted : {FALSE}, sock : {sock}, on : {h.on},
             rows : {<<>>}, at : {0}, error : {FALSE}, row : {1}, chosen : {None},
             message : {None}]
  BY <1>2
<1> HIDE DEF u
<1> QED BY <1>1, <1>3 DEF IsHook, Truthful

LEMMA RenderedIsHook ==
    ASSUME NEW h, NEW t \in Nat, IsHook(h, t)
    PROVE  /\ IsHook(Rendered(h), t) /\ Rendered(h).at = h.at /\ Rendered(h).message = h.message
           /\ Rendered(h).error = h.error /\ Rendered(h).sock = h.sock
BY DEF IsHook, Rendered

(* A step that may ask something or forget answers, and lets no list grow   *)
(* newer.                                                                   *)
Asking(m) == up'[m] = up[m] \/ \E r : r.after \in 0..now /\ up'[m] = Append(up[m], r)
NoNewer ==
    /\ IsSequence(hooks')
    /\ \A m \in DOMAIN hooks' :
          /\ IsHook(hooks'[m], now) /\ Truthful(hooks'[m])
          /\ hooks'[m].at = 0 \/ (m \in DOMAIN hooks /\ hooks'[m].at = hooks[m].at)

LEMMA ViewStep ==
    ASSUME UiInv, now' = now, NoNewer, DOMAIN up' = Mount, DOMAIN down' = Mount,
           pending' = pending, \A m \in Mount : Asking(m) /\ down'[m] \in {down[m], <<>>}
    PROVE  UiInv'
<1>1. now \in Nat /\ \A m \in Mount : Requested(m) /\ InOrder(m)
  BY DEF UiInv
<1>2. ASSUME NEW m \in Mount PROVE Requested(m)'
  <2>1. CASE up'[m] = up[m]
    BY <1>1, <2>1 DEF Requested
  <2>2. CASE \E r : r.after \in 0..now /\ up'[m] = Append(up[m], r)
    <3>1. PICK r : r.after \in 0..now /\ up'[m] = Append(up[m], r)
      BY <2>2
    <3> DEFINE s == up[m]
               n == Len(s)
    <3>2. IsSequence(s) /\ n \in Nat /\ DOMAIN s = 1..n /\ \A k \in 1..n : s[k].after \in 0..now
      BY <1>1, SequenceIs DEF Requested
    <3>3. /\ IsSequence(up'[m]) /\ DOMAIN up'[m] = 1..n + 1
          /\ (\A k \in 1..n : up'[m][k] = s[k]) /\ up'[m][n + 1] = r
      BY <3>1, <3>2, SequenceGrows, SequenceIs
    <3> HIDE DEF s, n
    <3>4. ASSUME NEW k \in 1..n + 1 PROVE up'[m][k].after \in 0..now
      BY <3>1, <3>2, <3>3
    <3> QED BY <3>3, <3>4 DEF Requested
  <2> QED BY <2>1, <2>2 DEF Asking
<1>3. ASSUME NEW m \in Mount PROVE InOrder(m)'
  <2>1. InOrder(m)
    BY <1>1
  <2>2. CASE down'[m] = <<>>
    BY <2>2, EmptySeq DEF InOrder, IsSequence
  <2>3. CASE down'[m] = down[m]
    <3>1. ASSUME NEW n \in DOMAIN down[m], m \in DOMAIN hooks'
          PROVE  hooks'[m].at <= down[m][n].at
      <4>1. down[m][n].at \in 0..now /\ (m \in DOMAIN hooks => hooks[m].at <= down[m][n].at)
        BY <2>1 DEF InOrder
      <4>2. hooks'[m].at = 0 \/ (m \in DOMAIN hooks /\ hooks'[m].at = hooks[m].at)
        BY <3>1 DEF NoNewer
      <4> QED BY <1>1, <4>1, <4>2
    <3> QED BY <2>1, <2>3, <3>1 DEF InOrder
  <2> QED BY <2>2, <2>3
<1>4. DOMAIN pending' = Mount /\ \A m \in Mount : Deferred(m)'
  BY DEF UiInv, Deferred
<1> QED BY <1>1, <1>2, <1>3, <1>4 DEF UiInv, NoNewer

LEMMA ScreenStep ==
    ASSUME UiInv, UNCHANGED <<wires, now>>, NoNewer
    PROVE  UiInv'
BY ViewStep DEF UiInv, Asking, wires

(* One hook changes.                                                        *)
LEMMA OneHook ==
    ASSUME UiInv, NEW m \in DOMAIN hooks, NEW h, hooks' = [hooks EXCEPT ![m] = h]
    PROVE  IsSequence(hooks') /\ DOMAIN hooks' = DOMAIN hooks /\ hooks'[m] = h
           /\ \A k \in DOMAIN hooks : k # m => hooks'[k] = hooks[k]
<1>1. IsSequence(hooks) /\ Len(hooks) \in Nat /\ DOMAIN hooks = 1..Len(hooks)
  BY SequenceIs DEF UiInv
<1>2. hooks' = [i \in 1..Len(hooks) |-> hooks'[i]]
  BY <1>1
<1>3. IsSequence(hooks')
  BY <1>1, <1>2, SequenceMade
<1> QED BY <1>1, <1>3

(* Every hook changes.                                                      *)
LEMMA EachHook ==
    ASSUME UiInv, NEW s, s = [m \in DOMAIN hooks |-> s[m]]
    PROVE  IsSequence(s) /\ Len(s) = Len(hooks) /\ DOMAIN s = DOMAIN hooks
<1>1. IsSequence(hooks) /\ Len(hooks) \in Nat /\ DOMAIN hooks = 1..Len(hooks)
  BY SequenceIs DEF UiInv
<1>2. s = [i \in 1..Len(hooks) |-> s[i]]
  BY <1>1
<1> QED BY <1>1, <1>2, SequenceMade

(* The views.                                                               *)
LEMMA UnmountedHooks ==
    ASSUME UiInv
    PROVE  /\ IsSequence(Unmounted) /\ DOMAIN Unmounted = DOMAIN hooks
           /\ \A m \in DOMAIN hooks :
                 /\ IsHook(Unmounted[m], now) /\ Truthful(Unmounted[m])
                 /\ Unmounted[m].at \in {0, hooks[m].at}
<1>1. Unmounted = [m \in DOMAIN hooks |-> Unmounted[m]]
  BY DEF Unmounted
<1>2. ASSUME NEW m \in DOMAIN hooks
      PROVE  /\ IsHook(Unmounted[m], now) /\ Truthful(Unmounted[m])
             /\ Unmounted[m].at \in {0, hooks[m].at}
  <2>1. Unmounted[m] = IF hooks[m].mounted THEN Unmount(hooks[m]) ELSE hooks[m]
    BY DEF Unmounted
  <2>2. IsHook(hooks[m], now) /\ Truthful(hooks[m]) /\ now \in Nat
    BY DEF UiInv
  <2> QED BY <2>1, <2>2, UnmountIsHook
<1> QED BY <1>1, <1>2, EachHook

LEMMA Leaving ==
    ASSUME UiInv, UNCHANGED <<wires, now>>, hooks' = Unmounted
    PROVE  UiInv'
<1>1. NoNewer
  BY UnmountedHooks DEF NoNewer
<1> QED BY <1>1, ScreenStep

LEMMA ViewsHaveHooks ==
    ASSUME NEW v \in Views
    PROVE  \E k \in Nat : DOMAIN HooksOf(v) = 1..k
<1>1. CASE v = "dashboard"
  BY <1>1 DEF HooksOf
<1>2. CASE v # "dashboard"
  <2>1. HooksOf(v) \in {<<"agents">>, <<"channels">>, <<"notes">>}
    BY <1>2 DEF HooksOf, Views
  <2>2. DOMAIN HooksOf(v) = 1..1
    BY <2>1
  <2> QED BY <2>2
<1> QED BY <1>1, <1>2

LEMMA Showing ==
    ASSUME UiInv, UNCHANGED <<wires, now>>, NEW v \in Views, Show(v)
    PROVE  UiInv'
<1> DEFINE t == [n \in DOMAIN HooksOf(v) |-> Fresh(HooksOf(v)[n])]
<1>1. hooks' = Unmounted \o t
  BY DEF Show
<1>2. PICK k \in Nat : DOMAIN HooksOf(v) = 1..k
  BY ViewsHaveHooks
<1>3. t = [n \in 1..k |-> t[n]]
  BY <1>2
<1>4. \A n \in 1..k : t[n] = Fresh(HooksOf(v)[n])
  BY <1>2
<1> HIDE DEF t
<1>5. IsSequence(t) /\ Len(t) = k
  BY <1>2, <1>3, SequenceMade
<1>6. IsSequence(Unmounted) /\ Len(Unmounted) \in Nat /\ DOMAIN Unmounted = 1..Len(Unmounted)
  BY UnmountedHooks, SequenceIs
<1> DEFINE n == Len(Unmounted)
           u == Unmounted
<1>7. /\ IsSequence(u \o t) /\ Len(u \o t) = n + k
      /\ \A i \in 1..n : (u \o t)[i] = u[i]
      /\ \A i \in n + 1..n + k : (u \o t)[i] = t[i - n]
  BY <1>5, <1>6, SequencesJoin
<1>8. now \in Nat
  BY DEF UiInv
<1>9. ASSUME NEW m \in DOMAIN hooks'
      PROVE  /\ IsHook(hooks'[m], now) /\ Truthful(hooks'[m])
             /\ hooks'[m].at = 0 \/ (m \in DOMAIN hooks /\ hooks'[m].at = hooks[m].at)
  <2>1. n \in Nat /\ m \in 1..n + k
    BY <1>1, <1>6, <1>7, SequenceIs
  <2>2. CASE m \in 1..n
    <3>1. hooks'[m] = u[m] /\ m \in DOMAIN hooks
      BY <2>2, <1>1, <1>6, <1>7, UnmountedHooks
    <3> QED BY <3>1, UnmountedHooks
  <2>3. CASE m \in n + 1..n + k
    <3>1. hooks'[m] = t[m - n] /\ m - n \in 1..k
      BY <2>3, <2>1, <1>1, <1>2, <1>7
    <3>2. hooks'[m] = Fresh(HooksOf(v)[m - n])
      BY <3>1, <1>4
    <3> QED BY <3>2, <1>8, FreshIsHook
  <2> QED BY <2>1, <2>2, <2>3, <1>2
<1>10. NoNewer
  BY <1>1, <1>7, <1>9 DEF NoNewer
<1> QED BY <1>10, ScreenStep

LEMMA OneScreen ==
    ASSUME UiInv, NEW m, NEW h, hooks' = [hooks EXCEPT ![m] = h],
           m \in DOMAIN hooks => IsHook(h, now) /\ Truthful(h) /\ h.at = hooks[m].at
    PROVE  NoNewer
<1>1. IsSequence(hooks) /\ \A k \in DOMAIN hooks : IsHook(hooks[k], now) /\ Truthful(hooks[k])
  BY DEF UiInv
<1>2. CASE m \in DOMAIN hooks
  <2>1. IsSequence(hooks') /\ DOMAIN hooks' = DOMAIN hooks /\ hooks'[m] = h
        /\ \A k \in DOMAIN hooks : k # m => hooks'[k] = hooks[k]
    BY <1>2, OneHook
  <2> QED BY <1>1, <1>2, <2>1 DEF NoNewer
<1>3. CASE m \notin DOMAIN hooks
  <2>1. hooks = [k \in DOMAIN hooks |-> hooks[k]]
    <3> DEFINE S == {hooks[n] : n \in DOMAIN hooks}
    <3>1. hooks \in Seq(S)
      BY <1>1 DEF IsSequence
    <3> HIDE DEF S
    <3> QED BY <3>1, LenProperties
  <2>2. hooks' = hooks
    BY <1>3, <2>1
  <2> QED BY <1>1, <2>2 DEF NoNewer
<1> QED BY <1>2, <1>3

LEMMA Sending ==
    ASSUME UiInv, NEW m, NEW request, request.after = 0, Send(m, request),
           UNCHANGED <<down, pending, now>>
    PROVE  UiInv'
<1>1. now \in Nat /\ DOMAIN up = Mount /\ DOMAIN down = Mount /\ pending' = pending
  BY DEF UiInv
<1>2. CASE hooks[m].sock = "open"
  <2>1. up' = [up EXCEPT ![m] = Append(@, request)] /\ hooks' = hooks
    BY <1>2 DEF Send
  <2>2. NoNewer
    BY <2>1 DEF NoNewer, UiInv
  <2>3. \A k \in Mount : Asking(k)
    BY <1>1, <2>1 DEF Asking
  <2> QED BY <1>1, <2>1, <2>2, <2>3, ViewStep
<1>3. CASE hooks[m].sock # "open"
  <2> DEFINE h == hooks[m]
             e == IF request.op = "list" THEN h.message ELSE Say(FALSE, 0)
             g == [h EXCEPT !.error = TRUE, !.message = e]
  <2>1. hooks' = [hooks EXCEPT ![m] = Rendered(g)] /\ up' = up
    BY <1>3 DEF Send
  <2>2. ASSUME m \in DOMAIN hooks
        PROVE  IsHook(Rendered(g), now) /\ Truthful(Rendered(g)) /\ Rendered(g).at = h.at
    <3>1. IsHook(h, now) /\ Truthful(h)
      BY <2>2 DEF UiInv
    <3> DEFINE Messages == {None} \cup [ok : BOOLEAN, at : Nat]
    <3>2. Say(FALSE, 0) \in Messages /\ ~Say(FALSE, 0).ok
      BY DEF Say
    <3>3. h.message \in Messages
      BY <3>1 DEF IsHook
    <3>4. e \in Messages /\ (e = h.message \/ ~e.ok)
      BY <3>2, <3>3
    <3> HIDE DEF h, e
    <3>5. IsHook(g, now) /\ g.at = h.at /\ g.message = e /\ g.error = TRUE /\ g.sock = h.sock
      BY <3>1, <3>4 DEF IsHook
    <3>6. Truthful(g)
      BY <3>1, <3>4, <3>5 DEF Truthful
    <3> HIDE DEF g
    <3> QED BY <1>1, <3>5, <3>6, RenderedIsHook DEF Truthful
  <2>3. NoNewer
    BY <2>1, <2>2, OneScreen
  <2> QED BY <1>1, <2>1, <2>3, ScreenStep DEF wires
<1> QED BY <1>2, <1>3

-----------------------------------------------------------------------------
(* A mount that only grows older.                                           *)
LEMMA Elsewhere ==
    ASSUME UiInv, now' \in Nat, now <= now', NEW k \in Mount,
           up'[k] = up[k], down'[k] = down[k], pending'[k] = pending[k],
           k \in DOMAIN hooks' => k \in DOMAIN hooks /\ hooks'[k] = hooks[k]
    PROVE  Requested(k)' /\ Deferred(k)' /\ InOrder(k)'
<1>1. now \in Nat /\ Requested(k) /\ Deferred(k) /\ InOrder(k)
  BY DEF UiInv
<1>2. Requested(k)' /\ Deferred(k)'
  BY <1>1 DEF Requested, Deferred
<1>3. InOrder(k)'
  BY <1>1 DEF InOrder
<1> QED BY <1>2, <1>3

LEMMA Connecting ==
    ASSUME UiInv, NEW m \in Mount, Connect(m)
    PROVE  UiInv'
<1> DEFINE h == hooks[m]
           sock == IF live THEN "open" ELSE "closed"
           on == live /\ h.mounted
           g == [h EXCEPT !.sock = sock, !.on = on]
<1>1. m \in DOMAIN hooks /\ IsHook(h, now) /\ Truthful(h) /\ h.sock = "connecting"
      /\ DOMAIN up = Mount /\ DOMAIN down = Mount /\ now \in Nat
  BY DEF Connect, UiInv
<1>2. hooks' = [hooks EXCEPT ![m] = g]
  BY <1>1 DEF Connect
<1>3. IsHook(g, now) /\ Truthful(g) /\ g.at = h.at
  <2> HIDE DEF h, sock, on
  <2> QED BY <1>1 DEF IsHook, Truthful
<1> HIDE DEF g
<1>4. NoNewer
  BY <1>2, <1>3, OneScreen
<1>5. down' = down /\ pending' = pending /\ now' = now /\ DOMAIN up' = Mount
  BY <1>1 DEF Connect, daemon
<1>6. ASSUME NEW k \in Mount PROVE Asking(k)
  <2>1. up' = up \/ up' = [up EXCEPT ![m] = Append(@, Request("list", None, 0))]
    BY DEF Connect
  <2>2. Request("list", None, 0).after \in 0..now
    BY <1>1 DEF Request
  <2> QED BY <1>1, <2>1, <2>2 DEF Asking
<1> QED BY <1>1, <1>4, <1>5, <1>6, ViewStep

LEMMA Ticking ==
    ASSUME UiInv, NEW m \in Mount, Tick(m)
    PROVE  UiInv'
<1>1. Send(m, Request("list", None, 0)) /\ UNCHANGED <<down, pending, now>>
  BY DEF Tick, daemon
<1>2. Request("list", None, 0).after = 0
  BY DEF Request
<1> QED BY <1>1, <1>2, Sending

LEMMA Fading ==
    ASSUME UiInv, NEW m \in Mount, Fade(m)
    PROVE  UiInv'
<1> DEFINE h == hooks[m]
           g == [h EXCEPT !.message = None]
<1>1. m \in DOMAIN hooks /\ IsHook(h, now) /\ Truthful(h)
  BY DEF Fade, Here, UiInv
<1>2. hooks' = [hooks EXCEPT ![m] = g] /\ UNCHANGED <<wires, now>>
  BY DEF Fade, daemon
<1>3. IsHook(g, now) /\ Truthful(g) /\ g.at = h.at
  <2> HIDE DEF h
  <2> QED BY <1>1 DEF IsHook, Truthful
<1> HIDE DEF g
<1>4. NoNewer
  BY <1>2, <1>3, OneScreen
<1> QED BY <1>2, <1>4, ScreenStep

LEMMA HangingUp ==
    ASSUME UiInv, NEW m \in Mount, Hangup(m)
    PROVE  UiInv'
<1> DEFINE h == hooks[m]
           g == [h EXCEPT !.sock = "closed"]
<1>1. m \in DOMAIN hooks /\ IsHook(h, now) /\ Truthful(h) /\ h.sock = "ending"
      /\ DOMAIN up = Mount /\ DOMAIN down = Mount
  BY DEF Hangup, UiInv
<1>2. hooks' = [hooks EXCEPT ![m] = g] /\ down' = [down EXCEPT ![m] = <<>>]
      /\ up' = up /\ pending' = pending /\ now' = now
  BY DEF Hangup, daemon
<1>3. IsHook(g, now) /\ Truthful(g) /\ g.at = h.at
  <2> HIDE DEF h
  <2> QED BY <1>1 DEF IsHook, Truthful
<1> HIDE DEF g
<1>4. NoNewer
  BY <1>2, <1>3, OneScreen
<1>5. \A k \in Mount : Asking(k) /\ down'[k] \in {down[k], <<>>}
  BY <1>1, <1>2 DEF Asking
<1> QED BY <1>1, <1>2, <1>4, <1>5, ViewStep

LEMMA Acting ==
    ASSUME UiInv, Act
    PROVE  UiInv'
<1>1. PICK op : Send(Listing, Request(op, Target, 0))
  BY DEF Act
<1>2. Request(op, Target, 0).after = 0
  BY DEF Request
<1>3. UNCHANGED <<down, pending, now>>
  BY DEF Act, daemon
<1> QED BY <1>1, <1>2, <1>3, Sending

LEMMA ChangingRows ==
    ASSUME UiInv, NEW m, NEW r, hooks' = [hooks EXCEPT ![m].row = r], UNCHANGED <<wires, now>>
    PROVE  UiInv'
<1> DEFINE h == hooks[m]
           g == [h EXCEPT !.row = r]
<1>1. hooks' = [hooks EXCEPT ![m] = g]
  OBVIOUS
<1>2. ASSUME m \in DOMAIN hooks PROVE IsHook(g, now) /\ Truthful(g) /\ g.at = h.at
  <2>1. IsHook(h, now) /\ Truthful(h)
    BY <1>2 DEF UiInv
  <2> HIDE DEF h
  <2> QED BY <2>1 DEF IsHook, Truthful
<1> HIDE DEF g
<1>3. NoNewer
  BY <1>1, <1>2, OneScreen
<1> QED BY <1>3, ScreenStep

LEMMA ChangingChoices ==
    ASSUME UiInv, NEW m, NEW c, hooks' = [hooks EXCEPT ![m].chosen = c], UNCHANGED <<wires, now>>
    PROVE  UiInv'
<1> DEFINE h == hooks[m]
           g == [h EXCEPT !.chosen = c]
<1>1. hooks' = [hooks EXCEPT ![m] = g]
  OBVIOUS
<1>2. ASSUME m \in DOMAIN hooks PROVE IsHook(g, now) /\ Truthful(g) /\ g.at = h.at
  <2>1. IsHook(h, now) /\ Truthful(h)
    BY <1>2 DEF UiInv
  <2> HIDE DEF h
  <2> QED BY <2>1 DEF IsHook, Truthful
<1> HIDE DEF g
<1>3. NoNewer
  BY <1>1, <1>2, OneScreen
<1> QED BY <1>3, ScreenStep

LEMMA Standing ==
    ASSUME UiInv, UNCHANGED <<hooks, wires, now>>
    PROVE  UiInv'
<1>1. NoNewer
  BY DEF UiInv, NoNewer
<1> QED BY <1>1, ScreenStep

(* The daemon changes, and time with it.                                    *)
LEMMA Changing ==
    ASSUME UiInv, UNCHANGED <<hooks, wires>>, now' = now + 1
    PROVE  UiInv'
<1>1. now \in Nat /\ up' = up /\ down' = down /\ pending' = pending
  BY DEF UiInv, wires
<1>2. \A k \in Mount : Requested(k)' /\ Deferred(k)' /\ InOrder(k)'
  BY <1>1, Elsewhere
<1>3. \A m \in DOMAIN hooks : IsHook(hooks[m], now + 1) /\ Truthful(hooks[m])
  BY <1>1, HooksAge DEF UiInv
<1>4. (\A m \in DOMAIN hooks : IsHook(hooks[m], now) /\ Truthful(hooks[m]))'
  BY <1>3
<1> QED BY <1>1, <1>2, <1>4 DEF UiInv

(* What is said of the requests whose connection is lost.                   *)
LEMMA LossesAreTold ==
    ASSUME UiInv, NEW m \in Mount, NEW e \in Outcomes(m)
    PROVE  e \in [ok : BOOLEAN, at : Nat] /\ Waiting(m) # {}
<1>1. ASSUME NEW r \in Waiting(m) PROVE r.after \in Nat
  <2>1. now \in Nat /\ Requested(m) /\ Deferred(m) /\ InOrder(m)
    BY DEF UiInv
  <2>2. CASE \E n \in DOMAIN up[m] : r = up[m][n]
    BY <2>1, <2>2 DEF Requested
  <2>3. CASE \E n \in DOMAIN pending[m] : r = pending[m][n]
    BY <2>1, <2>3 DEF Deferred
  <2>4. CASE \E n \in DOMAIN down[m] : r = down[m][n].request
    <3>1. PICK n \in DOMAIN down[m] : r = down[m][n].request
      BY <2>4
    <3>2. down[m][n].at \in 0..now /\ r.after \in 0..down[m][n].at
      BY <2>1, <3>1 DEF InOrder
    <3> QED BY <2>1, <3>2
  <2> QED BY <2>2, <2>3, <2>4 DEF Waiting, ToSet
<1>2. \E r \in Waiting(m) : e = Say(FALSE, 0) \/ e = Say(TRUE, r.after)
  BY DEF Outcomes
<1>3. Say(FALSE, 0) \in [ok : BOOLEAN, at : Nat]
  BY DEF Say
<1>4. \A r \in Waiting(m) : Say(TRUE, r.after) \in [ok : BOOLEAN, at : Nat]
  BY <1>1 DEF Say
<1> QED BY <1>2, <1>3, <1>4

LEMMA Dying ==
    ASSUME UiInv, KnownHooks, Die
    PROVE  UiInv'
<1>1. PICK said :
          /\ \A m \in DOMAIN hooks :
                said[m] \in IF Outcomes(m) = {} THEN {hooks[m].message} ELSE Outcomes(m)
          /\ hooks' = [m \in DOMAIN hooks |-> Lost(m, said[m])]
  BY DEF Die
<1>2. now' = now + 1 /\ up' = [m \in Mount |-> <<>>] /\ down' = [m \in Mount |-> <<>>]
      /\ pending' = [m \in Mount |-> <<>>]
  BY DEF Die
<1>3. now \in Nat /\ now + 1 \in Nat
  BY DEF UiInv
<1>4. IsSequence(hooks') /\ DOMAIN hooks' = DOMAIN hooks
  <2>1. hooks' = [m \in DOMAIN hooks |-> hooks'[m]]
    BY <1>1
  <2> QED BY <2>1, EachHook
<1>5. ASSUME NEW m \in DOMAIN hooks, NEW e,
             e \in IF Outcomes(m) = {} THEN {hooks[m].message} ELSE Outcomes(m)
      PROVE  IsHook(Lost(m, e), now + 1) /\ Truthful(Lost(m, e))
  <2> DEFINE h == hooks[m]
             error == h.error \/ Waiting(m) # {}
             g == [h EXCEPT !.sock = "closed", !.error = error, !.message = e]
             Messages == {None} \cup [ok : BOOLEAN, at : Nat]
  <2>1. Lost(m, e) = IF h.sock \in {"connecting", "closed"} THEN h ELSE Rendered(g)
    BY DEF Lost
  <2>2. IsHook(h, now + 1) /\ Truthful(h)
    BY <1>3, HooksAge DEF UiInv
  <2>3. h.message \in Messages
    BY <2>2 DEF IsHook
  <2>4. e \in Messages /\ (e = h.message \/ Waiting(m) # {})
    <3>1. CASE Outcomes(m) = {}
      BY <1>5, <2>3, <3>1
    <3>2. CASE e \in Outcomes(m)
      <4>1. m \in Mount
        BY DEF KnownHooks
      <4> QED BY <3>2, <4>1, LossesAreTold
    <3> QED BY <1>5, <3>1, <3>2
  <2>5. e = h.message \/ error = TRUE
    BY <2>4
  <2> HIDE DEF h, error
  <2>6. /\ IsHook(g, now + 1) /\ g.at = h.at /\ g.message = e /\ g.error = error
        /\ g.sock = "closed"
    BY <2>2, <2>4 DEF IsHook
  <2>7. ASSUME h.sock # "closed" PROVE Truthful(g)
    BY <2>2, <2>5, <2>6, <2>7 DEF Truthful
  <2> HIDE DEF g
  <2>8. h.sock # "closed" => IsHook(Rendered(g), now + 1) /\ Truthful(Rendered(g))
    BY <1>3, <2>6, <2>7, RenderedIsHook DEF Truthful
  <2> QED BY <2>1, <2>2, <2>8
<1>6. (\A m \in DOMAIN hooks : IsHook(hooks[m], now) /\ Truthful(hooks[m]))'
  <2>1. \A m \in DOMAIN hooks : hooks'[m] = Lost(m, said[m])
    BY <1>1
  <2>2. \A m \in DOMAIN hooks : IsHook(Lost(m, said[m]), now + 1) /\ Truthful(Lost(m, said[m]))
    BY <1>1, <1>5
  <2> QED BY <1>2, <1>4, <2>1, <2>2
<1>7. ASSUME NEW m \in Mount PROVE Requested(m)' /\ Deferred(m)' /\ InOrder(m)'
  <2>1. up'[m] = <<>> /\ down'[m] = <<>> /\ pending'[m] = <<>> /\ DOMAIN <<>> = {}
    BY <1>2
  <2>2. IsSequence(<<>>)
    BY EmptySeq DEF IsSequence
  <2> QED BY <2>1, <2>2 DEF Requested, Deferred, InOrder
<1> QED BY <1>2, <1>3, <1>4, <1>6, <1>7 DEF UiInv

(* The first of some requests is taken out, and none of them is from later. *)
LEMMA FirstIsTaken ==
    ASSUME NEW s, IsSequence(s), s # <<>>, NEW t \in Nat, NEW u \in Nat, t <= u,
           \A n \in DOMAIN s : s[n].after \in 0..t
    PROVE  /\ Head(s).after \in 0..t /\ IsSequence(Tail(s))
           /\ \A n \in DOMAIN Tail(s) : Tail(s)[n].after \in 0..u
<1> DEFINE n == Len(s)
<1>1. n \in Nat /\ DOMAIN s = 1..n
  BY SequenceIs
<1>2. /\ IsSequence(Tail(s)) /\ n >= 1 /\ DOMAIN Tail(s) = 1..n - 1 /\ Head(s) = s[1]
      /\ \A k \in 1..n - 1 : Tail(s)[k] = s[k + 1]
  BY <1>1, SequenceShrinks, SequenceIs
<1> HIDE DEF n
<1>3. Head(s).after \in 0..t
  BY <1>1, <1>2
<1>4. ASSUME NEW k \in 1..n - 1 PROVE Tail(s)[k].after \in 0..u
  <2>1. s[k + 1].after \in 0..t
    BY <1>1
  <2> QED BY <1>1, <1>2, <2>1
<1> QED BY <1>2, <1>3, <1>4

(* A request is answered, and the list it carries is the newest.            *)
LEMMA Answering ==
    ASSUME UiInv, NEW m \in Mount, m \in DOMAIN hooks, hooks' = hooks,
           now' = now \/ now' = now + 1, NEW a, a.at = now', a.request.after \in 0..now,
           down' = down \/ down' = [down EXCEPT ![m] = Append(@, a)],
           DOMAIN up' = Mount, DOMAIN pending' = Mount,
           \A k \in Mount : k # m => up'[k] = up[k] /\ pending'[k] = pending[k],
           Requested(m)', Deferred(m)'
    PROVE  UiInv'
<1>1. /\ now \in Nat /\ now' \in Nat /\ now <= now' /\ DOMAIN down = Mount
      /\ InOrder(m) /\ hooks[m].at \in 0..now
  BY DEF UiInv, IsHook
<1>2. ASSUME NEW k \in Mount, k # m PROVE Requested(k)' /\ Deferred(k)' /\ InOrder(k)'
  <2>1. down'[k] = down[k]
    BY <1>1, <1>2
  <2> QED BY <1>1, <1>2, <2>1, Elsewhere
<1>3. (\A k \in DOMAIN hooks : IsHook(hooks[k], now) /\ Truthful(hooks[k]))'
  <2>1. \A k \in DOMAIN hooks : IsHook(hooks[k], now') /\ Truthful(hooks[k])
    BY <1>1, HooksAge DEF UiInv
  <2> QED BY <2>1
<1>4. InOrder(m)'
  <2>1. CASE down' = down
    <3>1. ASSUME NEW k \in DOMAIN down[m] PROVE down[m][k].at \in 0..now'
      BY <1>1 DEF InOrder
    <3> QED BY <1>1, <2>1, <3>1 DEF InOrder
  <2>2. CASE down' = [down EXCEPT ![m] = Append(@, a)]
    <3> DEFINE d == down[m]
               l == Len(d)
    <3>1. IsSequence(d) /\ l \in Nat /\ DOMAIN d = 1..l
      BY <1>1, SequenceIs DEF InOrder
    <3>2. down'[m] = Append(d, a)
      BY <1>1, <2>2
    <3>3. /\ IsSequence(down'[m]) /\ DOMAIN down'[m] = 1..l + 1
          /\ (\A k \in 1..l : down'[m][k] = d[k]) /\ down'[m][l + 1] = a
      BY <3>1, <3>2, SequenceGrows, SequenceIs
    <3>4. \A i \in 1..l :
              /\ d[i].at \in 0..now /\ d[i].request.after \in 0..d[i].at
              /\ (\A k \in 1..i : d[k].at <= d[i].at) /\ hooks[m].at <= d[i].at
      BY <1>1, <3>1 DEF InOrder
    <3> HIDE DEF d, l
    <3>5. ASSUME NEW i \in 1..l + 1
          PROVE  /\ down'[m][i].at \in 0..now'
                 /\ down'[m][i].request.after \in 0..down'[m][i].at
                 /\ \A k \in 1..i : down'[m][k].at <= down'[m][i].at
                 /\ hooks[m].at <= down'[m][i].at
      <4>1. CASE i = l + 1
        <5>1. \A k \in 1..l : down'[m][k].at <= now'
          BY <1>1, <3>3, <3>4
        <5> QED BY <1>1, <3>1, <3>3, <4>1, <5>1
      <4>2. CASE i \in 1..l
        <5>1. down'[m][i] = d[i] /\ \A k \in 1..i : k \in 1..l /\ down'[m][k] = d[k]
          BY <3>1, <3>3, <4>2
        <5> QED BY <1>1, <3>4, <4>2, <5>1
      <4> QED BY <3>1, <4>1, <4>2
    <3> QED BY <3>3, <3>5 DEF InOrder
  <2> QED BY <2>1, <2>2
<1>5. \A k \in Mount : Requested(k)' /\ Deferred(k)' /\ InOrder(k)'
  BY <1>2, <1>4
<1>6. IsSequence(hooks)' /\ DOMAIN down' = Mount
  BY <1>1 DEF UiInv
<1> QED BY <1>1, <1>3, <1>5, <1>6 DEF UiInv

LEMMA Serving ==
    ASSUME UiInv, NEW m \in Mount, Serve(m)
    PROVE  UiInv'
<1> DEFINE r == Head(up[m])
           ok == r.op = "list" \/ Accepted(r)
           rows == IF r.op = "list" THEN Rows(hooks[m].kind) ELSE <<>>
           a == [request |-> r, ok |-> ok, at |-> now', rows |-> rows]
<1>1. /\ m \in DOMAIN hooks /\ up[m] # <<>> /\ up' = [up EXCEPT ![m] = Tail(@)]
      /\ down' = down \/ down' = [down EXCEPT ![m] = Append(@, a)]
      /\ now' = now \/ now' = now + 1
      /\ hooks' = hooks /\ pending' = pending
  BY DEF Serve, Reply
<1>2. a.at = now' /\ a.request = r
  OBVIOUS
<1> HIDE DEF a, ok, rows
<1>3. /\ now \in Nat /\ now' \in Nat /\ now <= now'
      /\ DOMAIN up = Mount /\ DOMAIN pending = Mount /\ Requested(m) /\ Deferred(m)
  BY <1>1 DEF UiInv
<1>4. r.after \in 0..now /\ IsSequence(Tail(up[m]))
      /\ \A n \in DOMAIN Tail(up[m]) : Tail(up[m])[n].after \in 0..now'
  BY <1>1, <1>3, FirstIsTaken DEF Requested
<1>5. up'[m] = Tail(up[m]) /\ DOMAIN up' = Mount /\ \A k \in Mount : k # m => up'[k] = up[k]
  BY <1>1, <1>3
<1>6. Requested(m)' /\ Deferred(m)'
  BY <1>1, <1>3, <1>4, <1>5 DEF Requested, Deferred
<1> HIDE DEF r
<1> QED BY <1>1, <1>2, <1>3, <1>4, <1>5, <1>6, Answering

LEMMA Reconnecting ==
    ASSUME UiInv, NEW m \in Mount, Reconnect(m)
    PROVE  UiInv'
<1> DEFINE s == up[m]
           r == Head(s)
           p == pending[m]
           n == Len(p)
<1>1. /\ m \in DOMAIN hooks /\ s # <<>> /\ up' = [up EXCEPT ![m] = Tail(@)]
      /\ pending' = [pending EXCEPT ![m] = Append(@, r)]
      /\ now' = now + 1 /\ UNCHANGED <<hooks, down>>
  BY DEF Reconnect
<1>2. /\ now \in Nat /\ now' \in Nat /\ now <= now' /\ DOMAIN up = Mount
      /\ DOMAIN down = Mount /\ DOMAIN pending = Mount
      /\ Requested(m) /\ Deferred(m) /\ InOrder(m)
  BY <1>1 DEF UiInv
<1>3. r.after \in 0..now /\ IsSequence(Tail(s))
      /\ \A i \in DOMAIN Tail(s) : Tail(s)[i].after \in 0..now'
  BY <1>1, <1>2, FirstIsTaken DEF Requested
<1>4. /\ up'[m] = Tail(s) /\ pending'[m] = Append(p, r)
      /\ DOMAIN up' = Mount /\ DOMAIN pending' = Mount
      /\ \A k \in Mount : k # m => up'[k] = up[k] /\ pending'[k] = pending[k]
  BY <1>1, <1>2
<1>5. IsSequence(p) /\ n \in Nat /\ DOMAIN p = 1..n /\ \A i \in 1..n : p[i].after \in 0..now
  BY <1>2, SequenceIs DEF Deferred
<1>6. /\ IsSequence(Append(p, r)) /\ DOMAIN Append(p, r) = 1..n + 1
      /\ (\A i \in 1..n : Append(p, r)[i] = p[i]) /\ Append(p, r)[n + 1] = r
  BY <1>5, SequenceGrows, SequenceIs
<1>7. Requested(m)'
  BY <1>3, <1>4 DEF Requested
<1> HIDE DEF s, r, p, n
<1>8. Deferred(m)'
  <2>1. ASSUME NEW i \in 1..n + 1 PROVE Append(p, r)[i].after \in 0..now'
    BY <1>2, <1>3, <1>5, <1>6
  <2> QED BY <1>4, <1>6, <2>1 DEF Deferred
<1>9. InOrder(m)'
  <2>1. ASSUME NEW k \in DOMAIN down[m] PROVE down[m][k].at \in 0..now'
    BY <1>2 DEF InOrder
  <2> QED BY <1>1, <1>2, <2>1 DEF InOrder
<1>10. ASSUME NEW k \in Mount, k # m PROVE Requested(k)' /\ Deferred(k)' /\ InOrder(k)'
  BY <1>1, <1>2, <1>4, <1>10, Elsewhere
<1>11. \A k \in Mount : Requested(k)' /\ Deferred(k)' /\ InOrder(k)'
  BY <1>7, <1>8, <1>9, <1>10
<1>12. (\A k \in DOMAIN hooks : IsHook(hooks[k], now) /\ Truthful(hooks[k]))'
  <2>1. \A k \in DOMAIN hooks : IsHook(hooks[k], now') /\ Truthful(hooks[k])
    BY <1>2, HooksAge DEF UiInv
  <2> QED BY <1>1, <2>1
<1>13. IsSequence(hooks)' /\ DOMAIN down' = Mount
  BY <1>1, <1>2 DEF UiInv
<1> QED BY <1>2, <1>4, <1>11, <1>12, <1>13 DEF UiInv

LEMMA ReconnectEnds ==
    ASSUME UiInv, NEW m \in Mount, Reconnected(m)
    PROVE  UiInv'
<1> DEFINE r == Head(pending[m])
<1>1. /\ m \in DOMAIN hooks /\ pending[m] # <<>>
      /\ pending' = [pending EXCEPT ![m] = Tail(@)] /\ UNCHANGED <<hooks, up>>
  BY DEF Reconnected
<1>2. PICK ok \in BOOLEAN : (now' = now \/ now' = now + 1) /\ Reply(m, r, ok, <<>>)
  BY DEF Reconnected
<1> DEFINE a == [request |-> r, ok |-> ok, at |-> now', rows |-> <<>>]
<1>3. down' = down \/ down' = [down EXCEPT ![m] = Append(@, a)]
  BY <1>2 DEF Reply
<1>4. a.at = now' /\ a.request = r
  OBVIOUS
<1> HIDE DEF a
<1>5. /\ now \in Nat /\ now' \in Nat /\ now <= now'
      /\ DOMAIN up = Mount /\ DOMAIN pending = Mount /\ Requested(m) /\ Deferred(m)
  BY <1>2 DEF UiInv
<1>6. r.after \in 0..now /\ IsSequence(Tail(pending[m]))
      /\ \A n \in DOMAIN Tail(pending[m]) : Tail(pending[m])[n].after \in 0..now'
  BY <1>1, <1>5, FirstIsTaken DEF Deferred
<1>7. pending'[m] = Tail(pending[m]) /\ DOMAIN pending' = Mount
      /\ \A k \in Mount : k # m => pending'[k] = pending[k]
  BY <1>1, <1>5
<1>8. Requested(m)' /\ Deferred(m)'
  BY <1>1, <1>5, <1>6, <1>7 DEF Requested, Deferred
<1> HIDE DEF r
<1> QED BY <1>1, <1>2, <1>3, <1>4, <1>5, <1>6, <1>7, <1>8, Answering

LEMMA Taking ==
    ASSUME UiInv, NEW m \in Mount, Take(m)
    PROVE  UiInv'
<1> DEFINE d == down[m]
           a == Head(d)
           h == hooks[m]
           l == Len(d)
<1>1. /\ m \in DOMAIN hooks /\ d # <<>> /\ down' = [down EXCEPT ![m] = Tail(@)]
      /\ now' = now /\ pending' = pending /\ h.sock = "open"
  BY DEF Take, Here, daemon
<1>2. /\ now \in Nat /\ DOMAIN up = Mount /\ DOMAIN down = Mount /\ DOMAIN pending = Mount
      /\ Requested(m) /\ Deferred(m) /\ InOrder(m) /\ IsHook(h, now) /\ Truthful(h)
  BY <1>1 DEF UiInv
<1>3. IsSequence(d) /\ l \in Nat /\ DOMAIN d = 1..l
  BY <1>2, SequenceIs DEF InOrder
<1>4. \A i \in 1..l :
          /\ d[i].at \in 0..now /\ d[i].request.after \in 0..d[i].at
          /\ (\A k \in 1..i : d[k].at <= d[i].at) /\ h.at <= d[i].at
  BY <1>1, <1>2, <1>3 DEF InOrder
<1>5. /\ IsSequence(Tail(d)) /\ l >= 1 /\ DOMAIN Tail(d) = 1..l - 1 /\ a = d[1]
      /\ \A k \in 1..l - 1 : Tail(d)[k] = d[k + 1]
  BY <1>1, <1>3, SequenceShrinks, SequenceIs
<1>6. down'[m] = Tail(d) /\ DOMAIN down' = Mount
  BY <1>1, <1>2
<1>7. /\ a.at \in 0..now /\ a.request.after \in 0..a.at /\ h.at <= a.at /\ h.at \in 0..now
      /\ \A i \in 1..l : a.at <= d[i].at
  <2>1. a = d[1] /\ 1 \in 1..l /\ \A i \in 1..l : 1 \in 1..i
    BY <1>3, <1>5
  <2>2. h.at \in 0..now
    BY <1>2 DEF IsHook
  <2> QED BY <1>4, <2>1, <2>2
\* What is left to come, for any list the hook may show by now.
<1>8. ASSUME IsSequence(hooks'), DOMAIN hooks' = DOMAIN hooks,
             \A k \in DOMAIN hooks : k # m => hooks'[k] = hooks[k],
             IsHook(hooks'[m], now), Truthful(hooks'[m]), hooks'[m].at \in {h.at, a.at},
             DOMAIN up' = Mount, \A k \in Mount : k # m => up'[k] = up[k], Requested(m)'
      PROVE  UiInv'
  <2>1. InOrder(m)'
    <3>1. ASSUME NEW i \in 1..l - 1
          PROVE  /\ Tail(d)[i].at \in 0..now
                 /\ Tail(d)[i].request.after \in 0..Tail(d)[i].at
                 /\ \A k \in 1..i : Tail(d)[k].at <= Tail(d)[i].at
                 /\ hooks'[m].at <= Tail(d)[i].at
      <4> HIDE DEF a, d, h, l
      <4>1. Tail(d)[i] = d[i + 1] /\ i + 1 \in 1..l
            /\ \A k \in 1..i : Tail(d)[k] = d[k + 1] /\ k + 1 \in 1..i + 1
        BY <1>3, <1>5
      <4>2. hooks'[m].at <= d[i + 1].at
        BY <1>4, <1>7, <1>8, <4>1
      <4>3. d[i + 1].at \in 0..now /\ d[i + 1].request.after \in 0..d[i + 1].at
        BY <1>4, <4>1
      <4>4. \A k \in 1..i : Tail(d)[k].at <= d[i + 1].at
        BY <1>4, <4>1
      <4> QED BY <4>1, <4>2, <4>3, <4>4
    <3> HIDE DEF d
    <3> QED BY <1>1, <1>5, <1>6, <3>1 DEF InOrder
  <2>2. ASSUME NEW k \in Mount, k # m PROVE Requested(k)' /\ Deferred(k)' /\ InOrder(k)'
    <3>1. down'[k] = down[k] /\ up'[k] = up[k] /\ pending' = pending
          /\ now' \in Nat /\ now <= now'
      BY <1>1, <1>2, <1>8, <2>2
    <3>2. k \in DOMAIN hooks' => k \in DOMAIN hooks /\ hooks'[k] = hooks[k]
      BY <1>8, <2>2
    <3> QED BY <3>1, <3>2, Elsewhere
  <2>3. \A k \in DOMAIN hooks' : IsHook(hooks'[k], now) /\ Truthful(hooks'[k])
    BY <1>8 DEF UiInv
  <2>4. Deferred(m)'
    BY <1>1, <1>2 DEF Deferred
  <2>5. \A k \in Mount : Requested(k)' /\ Deferred(k)' /\ InOrder(k)'
    BY <1>8, <2>1, <2>2, <2>4
  <2> QED BY <1>1, <1>2, <1>6, <1>8, <2>3, <2>5 DEF UiInv
<1>9. ASSUME UNCHANGED hooks
      PROVE  /\ IsSequence(hooks') /\ DOMAIN hooks' = DOMAIN hooks
             /\ \A k \in DOMAIN hooks : k # m => hooks'[k] = hooks[k]
             /\ IsHook(hooks'[m], now) /\ Truthful(hooks'[m]) /\ hooks'[m].at \in {h.at, a.at}
  BY <1>2, <1>9 DEF UiInv
<1>10. ASSUME NEW g, hooks' = [hooks EXCEPT ![m] = Rendered(g)], UNCHANGED up,
              IsHook(g, now), Truthful(g), g.at \in {h.at, a.at}
       PROVE  UiInv'
  <2>1. /\ IsHook(Rendered(g), now) /\ Truthful(Rendered(g)) /\ Rendered(g).at = g.at
    BY <1>2, <1>10, RenderedIsHook DEF Truthful
  <2>2. IsSequence(hooks') /\ DOMAIN hooks' = DOMAIN hooks /\ hooks'[m] = Rendered(g)
        /\ \A k \in DOMAIN hooks : k # m => hooks'[k] = hooks[k]
    BY <1>1, <1>10, OneHook
  <2>3. Requested(m)'
    BY <1>1, <1>2, <1>10 DEF Requested
  <2> QED BY <1>2, <1>8, <1>10, <2>1, <2>2, <2>3
<1> DEFINE Messages == {None} \cup [ok : BOOLEAN, at : Nat]
<1>11. h.message \in Messages
  BY <1>2 DEF IsHook
<1>12. CASE a.request.op = "list"
  <2> DEFINE e == IF a.request.after = 0 THEN h.message ELSE Say(TRUE, a.request.after)
             g == [h EXCEPT !.rows = a.rows, !.at = a.at, !.error = FALSE, !.message = e]
  <2>1. hooks' = [hooks EXCEPT ![m] = Rendered(g)] /\ UNCHANGED up
    BY <1>12 DEF Take
  <2> HIDE DEF a, h
  <2>2. Say(TRUE, a.request.after) \in Messages /\ Say(TRUE, a.request.after).at = a.request.after
    BY <1>2, <1>7 DEF Say
  <2>3. e \in Messages /\ (e = h.message \/ e.at = a.request.after)
    BY <1>11, <2>2
  <2> HIDE DEF e
  <2>4. IsHook(g, now) /\ g.at = a.at /\ g.message = e
    BY <1>2, <1>7, <2>3 DEF IsHook
  <2> HIDE DEF g
  <2>5. ASSUME e = h.message PROVE Truthful(g)
    <3>1. ASSUME e # None, e.ok PROVE e.at <= a.at
      <4>1. h.message.at <= h.at
        BY <1>1, <1>2, <2>5, <3>1 DEF Truthful
      <4>2. h.message.at \in Nat
        BY <1>11, <2>5, <3>1
      <4> QED BY <1>2, <1>7, <2>5, <4>1, <4>2
    <3> QED BY <2>4, <3>1 DEF Truthful
  <2>6. ASSUME e.at = a.request.after PROVE Truthful(g)
    BY <1>2, <1>7, <2>4, <2>6 DEF Truthful
  <2>7. Truthful(g)
    BY <2>3, <2>5, <2>6
  <2> QED BY <1>10, <2>1, <2>4, <2>7
<1>13. CASE a.request.op # "list" /\ a.ok
  <2> DEFINE q == Request("list", None, a.at)
  <2>1. hooks' = hooks /\ up' = [up EXCEPT ![m] = Append(@, q)]
    BY <1>13 DEF Take
  <2>2. q.after \in 0..now
    BY <1>7 DEF Request
  <2> HIDE DEF q
  <2> DEFINE s == up[m]
             n == Len(s)
  <2>3. IsSequence(s) /\ n \in Nat /\ DOMAIN s = 1..n /\ \A k \in 1..n : s[k].after \in 0..now
    BY <1>2, SequenceIs DEF Requested
  <2>4. up'[m] = Append(s, q) /\ DOMAIN up' = Mount /\ \A k \in Mount : k # m => up'[k] = up[k]
    BY <1>2, <2>1
  <2>5. /\ IsSequence(up'[m]) /\ DOMAIN up'[m] = 1..n + 1
        /\ (\A k \in 1..n : up'[m][k] = s[k]) /\ up'[m][n + 1] = q
    BY <2>3, <2>4, SequenceGrows, SequenceIs
  <2> HIDE DEF s, n
  <2>6. ASSUME NEW k \in 1..n + 1 PROVE up'[m][k].after \in 0..now
    BY <2>2, <2>3, <2>5
  <2>7. Requested(m)'
    BY <1>1, <2>5, <2>6 DEF Requested
  <2> QED BY <1>8, <1>9, <2>1, <2>4, <2>7
<1>14. CASE a.request.op # "list" /\ ~a.ok
  <2> DEFINE e == Say(FALSE, 0)
             g == [h EXCEPT !.error = TRUE, !.message = e]
  <2>1. hooks' = [hooks EXCEPT ![m] = Rendered(g)] /\ UNCHANGED up
    BY <1>14 DEF Take
  <2>2. e \in Messages /\ ~e.ok
    BY DEF Say
  <2> HIDE DEF a, h, e
  <2>3. IsHook(g, now) /\ g.at = h.at /\ g.message = e
    BY <1>2, <2>2 DEF IsHook
  <2>4. Truthful(g)
    BY <2>2, <2>3 DEF Truthful
  <2> HIDE DEF g
  <2> QED BY <1>10, <2>1, <2>3, <2>4
<1> QED BY <1>12, <1>13, <1>14

(* The keys.                                                                *)
LEMMA Keying ==
    ASSUME UiInv,
           \/ \E v \in {"dashboard", "agents", "channels", "logs"} : navigateToView(v)
           \/ Quit \/ Help \/ Escape \/ KeyBack \/ Move \/ Enter \/ Act,
           KnownViews
    PROVE  UiInv'
<1>1. ASSUME NEW v \in {"dashboard", "agents", "channels", "logs"}, navigateToView(v)
      PROVE  UiInv'
  BY <1>1, Showing DEF navigateToView, daemon, Views
<1>2. ASSUME Quit PROVE UiInv'
  BY <1>2, Leaving DEF Quit, daemon
<1>3. ASSUME Help PROVE UiInv'
  BY <1>3, Standing DEF Help, daemon
<1>4. ASSUME Back, UNCHANGED <<wires, now>> PROVE UiInv'
  <2>1. (IF previous = "agent-detail" THEN "agents" ELSE previous) \in Views
    BY DEF KnownViews, Views
  <2> QED BY <1>4, <2>1, Showing DEF Back, Views
<1>5. ASSUME Escape PROVE UiInv'
  <2>1. UNCHANGED <<wires, now>> /\ (Back \/ UNCHANGED hooks)
    BY <1>5 DEF Escape, daemon
  <2> QED BY <1>4, <2>1, Standing
<1>6. ASSUME KeyBack PROVE UiInv'
  BY <1>4, <1>6 DEF KeyBack, daemon
<1>7. ASSUME Move PROVE UiInv'
  <2>1. PICK r : hooks' = [hooks EXCEPT ![Listing].row = r]
    BY <1>7 DEF Move
  <2>2. UNCHANGED <<wires, now>>
    BY <1>7 DEF Move, daemon
  <2> QED BY <2>1, <2>2, ChangingRows
<1>8. ASSUME Enter PROVE UiInv'
  <2>1. UNCHANGED <<wires, now>>
    BY <1>8 DEF Enter, daemon
  <2>2. Show("agent-detail") \/ \E c : hooks' = [hooks EXCEPT ![Listing].chosen = c]
    BY <1>8 DEF Enter
  <2> QED BY <2>1, <2>2, Showing, ChangingChoices DEF Views
<1> QED BY <1>1, <1>2, <1>3, <1>5, <1>6, <1>7, <1>8, Acting

(* The views there are.                                                     *)
LEMMA ViewsAreKnown ==
    ASSUME KnownViews, [UiNext]_uiVars
    PROVE  KnownViews'
<1>1. \A v : v \in {"dashboard", "agents", "channels", "logs"} => v \in Views
  BY DEF Views
<1>2. ASSUME NEW v \in {"dashboard", "agents", "channels", "logs"}, navigateToView(v)
      PROVE  KnownViews'
  BY <1>1, <1>2 DEF navigateToView, Show, KnownViews
<1>3. ASSUME Quit PROVE KnownViews'
  BY <1>3 DEF Quit, KnownViews, Views
<1>4. ASSUME Back PROVE KnownViews'
  BY <1>4 DEF Back, Show, KnownViews, Views
<1>5. ASSUME Enter PROVE KnownViews'
  BY <1>5 DEF Enter, Show, KnownViews, Views, screen
<1>6. ASSUME Escape \/ KeyBack PROVE KnownViews'
  BY <1>4, <1>6 DEF Escape, KeyBack, KnownViews
<1>7. ASSUME UNCHANGED screen PROVE KnownViews'
  BY <1>7 DEF KnownViews, screen
<1>8. ASSUME Move \/ Act \/ Check \/ Die \/ Boot PROVE UNCHANGED screen
  BY <1>8 DEF Move, Act, Check, Die, Boot
<1>9. ASSUME NEW m \in Mount, SocketStep(m) \/ Tick(m) \/ Fade(m) PROVE UNCHANGED screen
  BY <1>9 DEF SocketStep, Connect, Serve, Reconnect, Reconnected, Take, Hangup, Tick, Fade
<1>10. ASSUME NEW i, Change(i) PROVE UNCHANGED screen
  BY <1>10 DEF Change
<1>11. ASSUME Help PROVE KnownViews'
  BY <1>11 DEF Help, KnownViews
<1>12. ASSUME UNCHANGED uiVars PROVE UNCHANGED screen
  BY <1>12 DEF uiVars
<1> QED BY <1>2, <1>3, <1>5, <1>6, <1>7, <1>8, <1>9, <1>10, <1>11, <1>12 DEF UiNext

(* The hooks there are.                                                     *)
LEMMA ShownHooksAreKnown ==
    ASSUME UiInv, KnownHooks, NEW v \in Views, Show(v), UNCHANGED bound
    PROVE  KnownHooks'
<1> DEFINE t == [n \in DOMAIN HooksOf(v) |-> Fresh(HooksOf(v)[n])]
           k == Len(HooksOf(v))
<1>1. hooks' = Unmounted \o t /\ Len(hooks) + k <= bound.mounts
  BY DEF Show
<1>2. k \in Nat /\ DOMAIN HooksOf(v) = 1..k
  <2>1. HooksOf(v) \in {<<"agents", "channels", "notes">>, <<"agents">>, <<"channels">>, <<"notes">>}
    BY DEF HooksOf, Views
  <2> QED BY <2>1
<1>3. t = [n \in 1..k |-> t[n]]
  BY <1>2
<1> HIDE DEF t, k
<1>4. IsSequence(t) /\ Len(t) = k
  BY <1>2, <1>3, SequenceMade
<1>5. IsSequence(hooks) /\ Len(hooks) \in Nat /\ DOMAIN hooks = 1..Len(hooks)
  BY SequenceIs DEF UiInv
<1>6. Unmounted = [m \in DOMAIN hooks |-> Unmounted[m]]
  BY DEF Unmounted
<1>7. IsSequence(Unmounted) /\ Len(Unmounted) = Len(hooks)
  BY <1>6, EachHook
<1>8. IsSequence(hooks') /\ Len(hooks') = Len(hooks) + k
  BY <1>1, <1>4, <1>7, SequencesJoin
<1>9. DOMAIN hooks' = 1..Len(hooks) + k
  BY <1>8, SequenceIs
<1>10. bound \in Bounds /\ bound.mounts \in Nat /\ 1..bound.mounts \subseteq Mount
  BY TerminalUiAssumption DEF KnownHooks
<1>11. 1..Len(hooks) + k \subseteq 1..bound.mounts
  BY <1>1, <1>2, <1>5, <1>10
<1> QED BY <1>9, <1>10, <1>11 DEF KnownHooks

LEMMA HooksAreKnown ==
    ASSUME UiInv, KnownViews, KnownHooks, [UiNext]_uiVars
    PROVE  KnownHooks'
<1>1. ASSUME UNCHANGED bound, DOMAIN hooks' = DOMAIN hooks PROVE KnownHooks'
  BY <1>1 DEF KnownHooks
<1>2. DOMAIN Unmounted = DOMAIN hooks
  BY DEF Unmounted
<1>3. ASSUME NEW m \in Mount, SocketStep(m) \/ Tick(m) \/ Fade(m) PROVE KnownHooks'
  <2>1. DOMAIN hooks' = DOMAIN hooks
    BY <1>3 DEF SocketStep, Connect, Serve, Reconnect, Reconnected, Take, Hangup, Tick, Fade, Send
  <2>2. UNCHANGED bound
    BY <1>3 DEF SocketStep, Connect, Serve, Reconnect, Reconnected, Take, Hangup, Tick, Fade, bounded
  <2> QED BY <1>1, <2>1, <2>2
<1>4. ASSUME (\E i : Change(i)) \/ Boot \/ Help PROVE KnownHooks'
  BY <1>1, <1>4 DEF Change, Boot, Help, bounded
<1>5. ASSUME Die PROVE KnownHooks'
  <2>1. DOMAIN hooks' = DOMAIN hooks
    BY <1>5 DEF Die
  <2> QED BY <1>1, <1>5, <2>1 DEF Die, bounded
<1>6. ASSUME Check \/ Quit PROVE KnownHooks'
  BY <1>1, <1>2, <1>6 DEF Check, Quit, bounded
<1>7. ASSUME NEW v \in {"dashboard", "agents", "channels", "logs"}, navigateToView(v)
      PROVE  KnownHooks'
  BY <1>7, ShownHooksAreKnown DEF navigateToView, bounded, Views
<1>8. ASSUME Back, UNCHANGED bound PROVE KnownHooks'
  <2>1. (IF previous = "agent-detail" THEN "agents" ELSE previous) \in Views
    BY DEF KnownViews, Views
  <2> QED BY <1>8, <2>1, ShownHooksAreKnown DEF Back
<1>9. ASSUME Escape PROVE KnownHooks'
  <2>1. UNCHANGED bound /\ (Back \/ UNCHANGED hooks)
    BY <1>9 DEF Escape, bounded
  <2> QED BY <1>1, <1>8, <2>1
<1>10. ASSUME KeyBack PROVE KnownHooks'
  BY <1>8, <1>10 DEF KeyBack, bounded
<1>11. ASSUME Move PROVE KnownHooks'
  <2>1. DOMAIN hooks' = DOMAIN hooks
    BY <1>11 DEF Move
  <2> QED BY <1>1, <1>11, <2>1 DEF Move, bounded
<1>12. ASSUME Enter PROVE KnownHooks'
  <2>1. UNCHANGED bound
    BY <1>12 DEF Enter, bounded
  <2>2. Show("agent-detail") \/ DOMAIN hooks' = DOMAIN hooks
    BY <1>12 DEF Enter
  <2> QED BY <1>1, <2>1, <2>2, ShownHooksAreKnown DEF Views
<1>13. ASSUME Act PROVE KnownHooks'
  <2>1. DOMAIN hooks' = DOMAIN hooks
    BY <1>13 DEF Act, Send
  <2> QED BY <1>1, <1>13, <2>1 DEF Act
<1>14. CASE UNCHANGED uiVars
  BY <1>1, <1>14 DEF uiVars, bounded
<1>15. CASE UiNext
  BY <1>3, <1>4, <1>5, <1>6, <1>7, <1>9, <1>10, <1>11, <1>12, <1>13, <1>15 DEF UiNext
<1> QED BY <1>14, <1>15

LEMMA UiInvStarts == UiInit => UiInv /\ KnownViews /\ KnownHooks
<1> SUFFICES ASSUME UiInit PROVE UiInv /\ KnownViews /\ KnownHooks
  OBVIOUS
<1>1. /\ hooks = [n \in DOMAIN HooksOf(view) |-> Fresh(HooksOf(view)[n])]
      /\ up = [m \in Mount |-> <<>>] /\ down = [m \in Mount |-> <<>>]
      /\ pending = [m \in Mount |-> <<>>] /\ now = 0
  BY DEF UiInit
<1>2. KnownViews
  BY TerminalUiAssumption DEF UiInit, KnownViews, Views
<1>3. PICK k \in Nat : DOMAIN HooksOf(view) = 1..k
  BY <1>2, ViewsHaveHooks DEF KnownViews
<1>4. hooks = [n \in 1..k |-> hooks[n]] /\ DOMAIN hooks = 1..k
  BY <1>1, <1>3
<1>5. IsSequence(hooks)
  BY <1>4, SequenceMade
<1>6. ASSUME NEW m \in DOMAIN hooks PROVE IsHook(hooks[m], now) /\ Truthful(hooks[m])
  <2>1. hooks[m] = Fresh(HooksOf(view)[m])
    BY <1>1
  <2> QED BY <1>1, <2>1, FreshIsHook
<1>7. ASSUME NEW m \in Mount PROVE Requested(m) /\ Deferred(m) /\ InOrder(m)
  <2>1. up[m] = <<>> /\ down[m] = <<>> /\ pending[m] = <<>> /\ DOMAIN <<>> = {}
    BY <1>1
  <2>2. IsSequence(<<>>)
    BY EmptySeq DEF IsSequence
  <2> QED BY <2>1, <2>2 DEF Requested, Deferred, InOrder
<1>8. KnownHooks
  <2>1. DOMAIN hooks = 1..Len(HooksOf(view)) /\ Len(HooksOf(view)) \in Nat
    <3>1. HooksOf(view) \in
              {<<"agents", "channels", "notes">>, <<"agents">>, <<"channels">>, <<"notes">>}
      BY <1>2 DEF HooksOf, KnownViews, Views
    <3>2. DOMAIN HooksOf(view) = 1..Len(HooksOf(view)) /\ Len(HooksOf(view)) \in Nat
      BY <3>1
    <3> QED BY <1>1, <3>2
  <2>2. bound \in Bounds /\ Len(HooksOf(view)) <= bound.mounts
    BY DEF UiInit
  <2>3. bound.mounts \in Nat /\ 1..bound.mounts \subseteq Mount
    BY <2>2, TerminalUiAssumption
  <2> QED BY <2>1, <2>2, <2>3 DEF KnownHooks
<1> QED BY <1>1, <1>2, <1>5, <1>6, <1>7, <1>8 DEF UiInv

LEMMA UiInvHolds ==
    ASSUME UiInv, KnownViews, KnownHooks, [UiNext]_uiVars
    PROVE  UiInv'
<1>1. ASSUME NEW m \in Mount, SocketStep(m) \/ Tick(m) \/ Fade(m) PROVE UiInv'
  BY <1>1, Connecting, Serving, Reconnecting, ReconnectEnds, Taking, HangingUp, Ticking, Fading
  DEF SocketStep
<1>2. ASSUME NEW i, Change(i) PROVE UiInv'
  BY <1>2, Changing DEF Change
<1>3. ASSUME Boot PROVE UiInv'
  BY <1>3, Changing DEF Boot
<1>4. ASSUME Check PROVE UiInv'
  <2>1. UNCHANGED <<wires, now>> /\ (hooks' = hooks \/ hooks' = Unmounted)
    BY <1>4 DEF Check, daemon
  <2> QED BY <2>1, Standing, Leaving
<1>5. ASSUME UNCHANGED uiVars PROVE UiInv'
  BY <1>5, Standing DEF uiVars, daemon
<1>6. CASE UNCHANGED uiVars
  BY <1>5, <1>6
<1>7. CASE UiNext
  BY <1>1, <1>2, <1>3, <1>4, <1>7, Dying, Keying DEF UiNext
<1> QED BY <1>6, <1>7

(* The invariant of the terminal UI holds in every state.                   *)
THEOREM UiInvariant == UiSpec => [](UiInv /\ KnownViews /\ KnownHooks)
<1>1. UiInit => UiInv /\ KnownViews /\ KnownHooks
  BY UiInvStarts
<1>2. UiInv /\ KnownViews /\ KnownHooks /\ [UiNext]_uiVars => (UiInv /\ KnownViews /\ KnownHooks)'
  BY UiInvHolds, ViewsAreKnown, HooksAreKnown
<1> QED BY <1>1, <1>2, PTL DEF UiSpec

(* A report that an action is done stands beside a list at least as new.    *)
THEOREM ReportsAreTrue == UiSpec => []ReportsFollowTheirEffect
<1>1. UiInv => ReportsFollowTheirEffect
  BY DEF UiInv, IsHook, Truthful, ReportsFollowTheirEffect
<1> QED BY <1>1, UiInvariant, PTL
=============================================================================
