---------------------------- MODULE RouterProofs ----------------------------
(* Proofs about Router, for every set of destinations and messages and     *)
(* every environment.                                                      *)
EXTENDS Router, TLAPS

----------------------------------------------------------------------------
(* The conversation manager alone, for every caller that uses it as         *)
(* ConvSpec says.                                                          *)

(***************************************************************************)
(* The inductive invariant.  Agreement of the two Maps alone is not        *)
(* inductive: restore() rebuilds them from the file, so the file, the      *)
(* temporary file that is renamed onto it and the snapshot that is written *)
(* into that one must be injective too, and the temporary file must be     *)
(* whole by the time it is renamed.                                        *)
(***************************************************************************)
ConvInv ==
    /\ ConvTypeOK
    /\ IndexesAgree
    /\ SavedInjective
    /\ NeverTorn
    /\ Injective(snap)
    /\ phase = "written" => temp = snap

\* Two Maps that agree list no session twice: the reverse index names one
\* destination per session.
LEMMA AgreeingIsInjective ==
    ASSUME ConvTypeOK, IndexesAgree
    PROVE  Injective(byDestination)
BY DEF ConvTypeOK, IndexesAgree, Injective

\* The markers are told apart from sessions, destinations and tables.
LEMMA Markers ==
    /\ Null \notin Session
    /\ Absent \notin Session
    /\ Absent \notin Destination
    /\ Absent \notin Table
    /\ Torn \notin Table
    /\ Absent # Torn
BY ValuesAssumption DEF Table

\* restore() of a table without double bindings leaves agreeing Maps.
LEMMA RestoreAgrees ==
    ASSUME NEW table \in Table, Injective(table), Restore(table)
    PROVE  /\ byDestination' \in Table
           /\ byAgent' \in [Session -> Destination \cup {Absent}]
           /\ IndexesAgree'
<1> DEFINE owner(s) == CHOOSE d \in Destination : table[d] = s
           index(s) == IF \E d \in Destination : table[d] = s
                       THEN owner(s) ELSE Absent
<1>1. byDestination' = table /\ byAgent' = [s \in Session |-> index(s)]
  BY DEF Restore
<1>2. ASSUME NEW s \in Session, NEW d \in Destination, table[d] = s
      PROVE  index(s) = d
  <2>1. owner(s) \in Destination /\ table[owner(s)] = s
    BY <1>2
  <2>2. owner(s) = d
    BY <1>2, <2>1 DEF Injective
  <2> QED
    BY <1>2, <2>2
<1>3. ASSUME NEW s \in Session, NEW d \in Destination, index(s) = d
      PROVE  table[d] = s
  <2>1. \E e \in Destination : table[e] = s
    BY <1>3, Markers
  <2>2. owner(s) \in Destination /\ table[owner(s)] = s
    BY <2>1
  <2> QED
    BY <1>3, <2>1, <2>2
<1>4. \A s \in Session : index(s) \in Destination \cup {Absent}
  <2> SUFFICES ASSUME NEW s \in Session
               PROVE  index(s) \in Destination \cup {Absent}
    OBVIOUS
  <2>1. CASE \E d \in Destination : table[d] = s
    BY <2>1
  <2>2. CASE ~ \E d \in Destination : table[d] = s
    BY <2>2
  <2> QED
    BY <2>1, <2>2
<1>5. \A s \in Session : byAgent'[s] = index(s)
  BY <1>1
<1> HIDE DEF index
<1> QED
  BY <1>1, <1>2, <1>3, <1>4, <1>5 DEF IndexesAgree, Table

\* Clearing both Maps leaves agreeing Maps.
LEMMA ClearAgrees ==
    ASSUME Clear
    PROVE  /\ byDestination' \in Table
           /\ byAgent' \in [Session -> Destination \cup {Absent}]
           /\ IndexesAgree'
BY Markers DEF Clear, NoBindings, NoIndex, Table, IndexesAgree

\* bind() of a session no destination has.
LEMMA BindAgrees ==
    ASSUME ConvTypeOK, IndexesAgree,
           NEW d \in Destination, NEW s \in Session,
           \A e \in Destination : byDestination[e] # s,
           Bind(d, s)
    PROVE  /\ byDestination' \in Table
           /\ byAgent' \in [Session -> Destination \cup {Absent}]
           /\ IndexesAgree'
<1>1. byDestination' \in Table /\ byAgent' \in [Session -> Destination \cup {Absent}]
  BY DEF Bind, ConvTypeOK, Table
<1>2. ASSUME NEW e \in Destination, NEW x \in Session
      PROVE  byDestination'[e] = x <=> byAgent'[x] = e
  <2>1. byDestination'[e] = IF e = d THEN s ELSE byDestination[e]
    BY DEF Bind, ConvTypeOK, Table
  <2>2. byAgent'[x] = IF x = s THEN d
                      ELSE IF x = byDestination[d] THEN Absent ELSE byAgent[x]
    BY DEF Bind
  <2>3. byDestination[e] = x <=> byAgent[x] = e
    BY DEF IndexesAgree
  <2>4. byDestination[d] = x <=> byAgent[x] = d
    BY DEF IndexesAgree
  <2> QED
    BY <2>1, <2>2, <2>3, <2>4, Markers
<1> QED
  BY <1>1, <1>2 DEF IndexesAgree

\* unbind().
LEMMA UnbindAgrees ==
    ASSUME ConvTypeOK, IndexesAgree, NEW d \in Destination, Unbind(d)
    PROVE  /\ byDestination' \in Table
           /\ byAgent' \in [Session -> Destination \cup {Absent}]
           /\ IndexesAgree'
<1>1. byDestination' \in Table /\ byAgent' \in [Session -> Destination \cup {Absent}]
  BY DEF Unbind, ConvTypeOK, Table
<1>2. ASSUME NEW e \in Destination, NEW x \in Session
      PROVE  byDestination'[e] = x <=> byAgent'[x] = e
  <2>1. byDestination'[e] = IF e = d /\ byDestination[d] \in Session
                            THEN Null ELSE byDestination[e]
    BY DEF Unbind, ConvTypeOK, Table
  <2>2. byAgent'[x] = IF x = byDestination[d] THEN Absent ELSE byAgent[x]
    BY DEF Unbind
  <2>3. byDestination[e] = x <=> byAgent[x] = e
    BY DEF IndexesAgree
  <2>4. byDestination[d] = x <=> byAgent[x] = d
    BY DEF IndexesAgree
  <2> QED
    BY <2>1, <2>2, <2>3, <2>4, Markers
<1> QED
  BY <1>1, <1>2 DEF IndexesAgree

\* getOrCreate() inserts an entry that names no session.
LEMMA GetOrCreateAgrees ==
    ASSUME ConvTypeOK, IndexesAgree, NEW d \in Destination, GetOrCreate(d)
    PROVE  /\ byDestination' \in Table
           /\ byAgent' \in [Session -> Destination \cup {Absent}]
           /\ IndexesAgree'
<1>1. byDestination' \in Table /\ byAgent' = byAgent
  BY DEF GetOrCreate, WithEntry, ConvTypeOK, Table
<1>2. ASSUME NEW e \in Destination, NEW x \in Session
      PROVE  byDestination'[e] = x <=> byDestination[e] = x
  BY Markers DEF GetOrCreate, WithEntry, ConvTypeOK, Table
<1> QED
  BY <1>1, <1>2 DEF IndexesAgree, ConvTypeOK

\* The invariant holds before the daemon has ever run.
LEMMA ConvInitInv == ConvInit => ConvInv
<1> SUFFICES ASSUME ConvInit PROVE ConvInv
  OBVIOUS
<1>1. /\ NoBindings \in Table
      /\ \A d \in Destination : NoBindings[d] \notin Session
  BY Markers DEF NoBindings, Table
<1>2. /\ NoIndex \in [Session -> Destination \cup {Absent}]
      /\ \A s \in Session : NoIndex[s] \notin Destination
  BY Markers DEF NoIndex
<1>3. ConvTypeOK
  BY <1>1, <1>2 DEF ConvInit, ConvTypeOK, Phases
<1>4. IndexesAgree
  BY <1>1, <1>2 DEF ConvInit, IndexesAgree
<1>5. Injective(snap)
  BY <1>1 DEF ConvInit, Injective
<1> QED
  BY <1>3, <1>4, <1>5, Markers DEF ConvInit, ConvInv, SavedInjective, NeverTorn

\* Every step of the manager, of its store and of its callers keeps it.
LEMMA ConvNextInv == ConvInv /\ [ConvNext]_convVars => ConvInv'
<1> SUFFICES ASSUME ConvInv, [ConvNext]_convVars PROVE ConvInv'
  OBVIOUS
<1> USE Markers
<1>n. NoBindings \in Table /\ Injective(NoBindings)
  BY DEF NoBindings, Table, Injective
<1>1. CASE BeginLoad
  BY <1>1 DEF BeginLoad, ConvInv, ConvTypeOK, IndexesAgree, SavedInjective, NeverTorn,
              Injective, Phases
<1>2. CASE FinishLoad
  <2> DEFINE loaded == IF disk \in {Absent, Torn} THEN NoBindings ELSE disk
  <2>1. loaded \in Table /\ Injective(loaded)
    BY <1>n DEF ConvInv, ConvTypeOK, SavedInjective
  <2>2. Restore(loaded)
    BY <1>2 DEF FinishLoad
  <2> HIDE DEF loaded
  <2>3. /\ byDestination' \in Table
        /\ byAgent' \in [Session -> Destination \cup {Absent}]
        /\ IndexesAgree'
    BY <2>1, <2>2, RestoreAgrees
  <2>4. UNCHANGED <<disk, temp, snap>> /\ phase' = "up"
    BY <1>2 DEF FinishLoad
  <2> QED
    BY <2>3, <2>4 DEF ConvInv, ConvTypeOK, SavedInjective, NeverTorn, Injective, Phases
<1>3. CASE FailLoad
  <2>1. /\ byDestination' \in Table
        /\ byAgent' \in [Session -> Destination \cup {Absent}]
        /\ IndexesAgree'
    BY <1>3, <1>n, RestoreAgrees DEF FailLoad
  <2>2. UNCHANGED <<disk, temp, snap>> /\ phase' = "up"
    BY <1>3 DEF FailLoad
  <2> QED
    BY <2>1, <2>2 DEF ConvInv, ConvTypeOK, SavedInjective, NeverTorn, Injective, Phases
<1>4. CASE BeginStop
  <2>1. Injective(byDestination)
    BY AgreeingIsInjective DEF ConvInv
  <2> QED
    BY <1>4, <2>1 DEF BeginStop, ConvInv, ConvTypeOK, IndexesAgree, SavedInjective,
                      NeverTorn, Injective, Phases
<1>5. CASE BeginWrite
  BY <1>5 DEF BeginWrite, ConvInv, ConvTypeOK, IndexesAgree, SavedInjective, NeverTorn,
              Injective, Phases
<1>6. CASE EndWrite
  BY <1>6 DEF EndWrite, ConvInv, ConvTypeOK, IndexesAgree, SavedInjective, NeverTorn,
              Injective, Phases
<1>7. CASE Rename
  <2>1. /\ byDestination' \in Table
        /\ byAgent' \in [Session -> Destination \cup {Absent}]
        /\ IndexesAgree'
    BY <1>7, ClearAgrees DEF Rename
  <2>2. /\ disk' = snap /\ temp' = Absent /\ snap' = snap
        /\ phase' = "stopped"
    BY <1>7 DEF Rename, ConvInv
  <2>3. snap \in Table /\ Injective(snap)
    BY DEF ConvInv, ConvTypeOK
  <2> QED
    BY <2>1, <2>2, <2>3 DEF ConvInv, ConvTypeOK, SavedInjective, NeverTorn, Injective,
                            Phases
<1>8. CASE FailSave
  <2>1. /\ byDestination' \in Table
        /\ byAgent' \in [Session -> Destination \cup {Absent}]
        /\ IndexesAgree'
    BY <1>8, ClearAgrees DEF FailSave
  <2> QED
    BY <1>8, <2>1 DEF FailSave, ConvInv, ConvTypeOK, SavedInjective, NeverTorn,
                      Injective, Phases
<1>9. CASE Exit
  <2>1. /\ byDestination' \in Table
        /\ byAgent' \in [Session -> Destination \cup {Absent}]
        /\ IndexesAgree'
    BY <1>9, ClearAgrees DEF Exit
  <2>2. snap' \in Table /\ Injective(snap')
    BY <1>9, <1>n DEF Exit
  <2>3. UNCHANGED <<disk, temp>> /\ phase' = "down"
    BY <1>9 DEF Exit
  <2> QED
    BY <2>1, <2>2, <2>3 DEF ConvInv, ConvTypeOK, SavedInjective, NeverTorn, Injective,
                            Phases
<1>10. ASSUME NEW d \in Destination, CallGetOrCreate(d) PROVE ConvInv'
  <2>1. /\ byDestination' \in Table
        /\ byAgent' \in [Session -> Destination \cup {Absent}]
        /\ IndexesAgree'
    BY <1>10, GetOrCreateAgrees DEF CallGetOrCreate, ConvInv
  <2>2. UNCHANGED <<disk, temp, snap, phase>>
    BY <1>10 DEF CallGetOrCreate
  <2> QED
    BY <2>1, <2>2 DEF ConvInv, ConvTypeOK, SavedInjective, NeverTorn, Injective
<1>11. ASSUME NEW d \in Destination, CallUnbind(d) PROVE ConvInv'
  <2>1. /\ byDestination' \in Table
        /\ byAgent' \in [Session -> Destination \cup {Absent}]
        /\ IndexesAgree'
    BY <1>11, UnbindAgrees DEF CallUnbind, ConvInv
  <2>2. UNCHANGED <<disk, temp, snap, phase>>
    BY <1>11 DEF CallUnbind
  <2> QED
    BY <2>1, <2>2 DEF ConvInv, ConvTypeOK, SavedInjective, NeverTorn, Injective
<1>12. ASSUME NEW d \in Destination, NEW s \in Session, CallBind(d, s)
       PROVE  ConvInv'
  <2>1. /\ byDestination' \in Table
        /\ byAgent' \in [Session -> Destination \cup {Absent}]
        /\ IndexesAgree'
    BY <1>12, BindAgrees DEF CallBind, Fresh, ConvInv
  <2>2. UNCHANGED <<disk, temp, snap, phase>>
    BY <1>12 DEF CallBind
  <2> QED
    BY <2>1, <2>2 DEF ConvInv, ConvTypeOK, SavedInjective, NeverTorn, Injective
<1>13. CASE UNCHANGED convVars
  BY <1>13 DEF convVars, ConvInv, ConvTypeOK, IndexesAgree, SavedInjective, NeverTorn,
               Injective
<1> QED
  BY <1>1, <1>2, <1>3, <1>4, <1>5, <1>6, <1>7, <1>8, <1>9, <1>10, <1>11,
     <1>12, <1>13 DEF ConvNext

\* The invariant holds of every behaviour.
LEMMA ConvSpecInv == ConvSpec => []ConvInv
BY ConvInitInv, ConvNextInv, PTL DEF ConvSpec

\* The variables stay in their types: what is on the disk is a table, nothing
\* or (so far) a torn file.
THEOREM TypeCorrect == ConvSpec => []ConvTypeOK
<1>1. ConvInv => ConvTypeOK
  BY DEF ConvInv
<1> QED
  BY <1>1, ConvSpecInv, PTL

\* The two Maps of the ConversationManager agree in every reachable state,
\* however often bindings are made, dropped, saved, lost and restored: the
\* destination an agent's output goes to is the one it is bound to.
THEOREM RoutingAgrees == ConvSpec => []IndexesAgree
<1>1. ConvInv => IndexesAgree
  BY DEF ConvInv
<1> QED
  BY <1>1, ConvSpecInv, PTL

\* No crash between two steps of a save, and no failure of one, leaves a torn
\* file or one that gives a session to two destinations.
THEOREM FileIsSound == ConvSpec => []FileSound
<1>1. ConvInv => FileSound
  BY DEF ConvInv, FileSound
<1> QED
  BY <1>1, ConvSpecInv, PTL

----------------------------------------------------------------------------
(* The router.                                                             *)

(***************************************************************************)
(* The inductive invariant.  That conversations stay apart depends on      *)
(* every place a message or a session can wait in: the tables of bindings  *)
(* in memory, in flight and on the disk, the local variables of handlers,  *)
(* the handles, and the checkpoints in flight and on the disk.             *)
(***************************************************************************)

\* A table gives a session to the destination of the message that created
\* it, and only once the handler of that message is over.
Owned(table) ==
    \A d \in Destination, s \in Session :
        table[d] = s => from[s] = d /\ task[s].pc \in Settled

TablesOwned ==
    /\ Owned(byDestination)
    /\ Owned(snap)
    /\ disk \in Table => Owned(disk)
    /\ temp \in Table => Owned(temp)

\* A handler works for the session of its own chat, and what it has read from
\* a checkpoint was said there.
TasksOwned ==
    \A m \in Message :
        /\ task[m].session \in Session => from[task[m].session] = from[m]
        /\ task[m].pc \in {"loading", "readapting", "reading", "resuming"} =>
                task[m].session \in Session
        /\ SaidAt(from[m], task[m].loaded)

\* A handle has the session and the messages of its own chat, and the handler
\* that made it is over.
HandlesOwned ==
    \A h \in Message : handle[h] # Absent =>
        /\ task[h].pc \in Settled
        /\ from[handle[h].session] = from[h]
        /\ SaidAt(from[h], handle[h].history)
        /\ SaidAt(from[h], handle[h].queue)
        /\ \A m \in handle[h].unread : from[m] = from[h]

\* The coordinator's map names handles by their session.
AgentsNamed ==
    \A s \in Session : agents[s] # Absent =>
        handle[agents[s]] # Absent /\ handle[agents[s]].session = s

\* A checkpoint, and one on its way to the disk, holds messages of its own chat.
FilesOwned ==
    /\ \A s \in Session :
        Saved(checkpoint[s]) => SaidAt(from[s], checkpoint[s])
    /\ \A w \in writes : SaidAt(from[w.session], w.history)

\* What runs when: handlers only while the conversation manager serves.
Phased ==
    /\ routing => phase = "up" /\ coord = "running"
    /\ phase = "loading" => coord = "running"
    /\ \A m \in Message : task[m].pc \notin Settled \cup {"none"} => Serving

RouterInv ==
    /\ ConvInv
    /\ RouterTypeOK
    /\ Phased
    /\ TablesOwned
    /\ TasksOwned
    /\ HandlesOwned
    /\ AgentsNamed
    /\ FilesOwned

USE DEF Message

----------------------------------------------------------------------------
(* What a step leaves alone.                                               *)

\* Messages do not change where they came from.
LEMMA FromStays ==
    ASSUME env \in Scenario, Next
    PROVE  from' = from /\ env' \in Scenario
<1>1. ASSUME NEW kind \in {"commands", "crashes", "exits"}, Spend(kind)
      PROVE  from' = from /\ env' \in Scenario
  BY <1>1 DEF Spend, from, Scenario
<1>2. CASE UNCHANGED env
  BY <1>2 DEF from
<1>3. UNCHANGED env \/ \E kind \in {"commands", "crashes", "exits"} : Spend(kind)
  BY DEF Next, Boot, StartRouter, StopRouter, Shutdown, BeginShutdown, EndShutdown,
         StopConversations, SaveBindings, CleanExit, Crash, HandleInbound, RpcSpawn,
         Handler, CallSpawn, Spawned, LoadCheckpoint, CallContinue, ReadCheckpoint,
         Continued, ContinueFails, SpawnFails, ContinueThrows, Run, TakeFollowUp,
         Complete, Fail, RpcTerminate, RpcPause, RpcResume, NewCommand, RpcUnbind,
         Command, OpenWrite, CloseWrite
<1> QED
  BY <1>1, <1>2, <1>3

\* The files and the saves in flight are the writers' and the runs' alone.
LEMMA FilesStay ==
    ASSUME Next
    PROVE  \/ UNCHANGED <<checkpoint, writes>>
           \/ \E w \in writes : OpenWrite(w) \/ CloseWrite(w)
           \/ \E m \in Message : Complete(m) \/ Fail(m) \/ RpcTerminate(m)
           \/ \E d \in Destination : NewCommand(d)
           \/ EndShutdown
           \/ Die
  BY DEF Next, Boot, StartRouter, StopRouter, Shutdown, BeginShutdown,
         StopConversations, SaveBindings, CleanExit, Crash, HandleInbound, RpcSpawn,
         Handler, CallSpawn, Spawned, LoadCheckpoint, CallContinue, ReadCheckpoint,
         Continued, ContinueFails, SpawnFails, ContinueThrows, Run, TakeFollowUp,
         RpcPause, RpcResume, RpcUnbind, volatile

----------------------------------------------------------------------------
(* The handlers' local variables.                                          *)

\* A handler that is not over goes on to a step of its own.
LEMMA TaskGoes ==
    ASSUME task \in [Message -> Task], TasksOwned, from' = from,
           NEW m \in Message, NEW r \in Task,
           task' = [task EXCEPT ![m] = r],
           task[m].pc \notin Settled,
           r.session \in Session => from[r.session] = from[m],
           r.pc \in {"loading", "readapting", "reading", "resuming"} =>
                r.session \in Session,
           SaidAt(from[m], r.loaded)
    PROVE  /\ task' \in [Message -> Task]
           /\ TasksOwned'
           /\ \A x \in Message : task[x].pc \in Settled => task'[x].pc \in Settled
<1>1. \A x \in Message : task'[x] = IF x = m THEN r ELSE task[x]
  OBVIOUS
<1>2. TasksOwned'
  BY <1>1 DEF TasksOwned, SaidAt
<1> QED
  BY <1>1, <1>2

\* The same for a handler that keeps its local variables.
LEMMA TaskGoto ==
    ASSUME task \in [Message -> Task], TasksOwned, from' = from,
           NEW m \in Message, NEW pc \in Steps,
           task' = [task EXCEPT ![m].pc = pc],
           task[m].pc \notin Settled,
           pc \in {"loading", "readapting", "reading", "resuming"} =>
                task[m].session \in Session
    PROVE  /\ task' \in [Message -> Task]
           /\ TasksOwned'
           /\ \A x \in Message : task[x].pc \in Settled => task'[x].pc \in Settled
<1> DEFINE r == [task[m] EXCEPT !.pc = pc]
<1>1. r \in Task /\ r.session = task[m].session /\ r.loaded = task[m].loaded /\ r.pc = pc
  BY DEF Task
<1>2. task' = [task EXCEPT ![m] = r]
  OBVIOUS
<1> HIDE DEF r
<1> QED
  BY <1>1, <1>2, TaskGoes DEF TasksOwned

\* The same for one that turns to spawning.
LEMMA TaskTurns ==
    ASSUME task \in [Message -> Task], TasksOwned, from' = from,
           NEW m \in Message,
           task' = [task EXCEPT ![m].pc = "adapting", ![m].path = "spawn"],
           task[m].pc \notin Settled
    PROVE  /\ task' \in [Message -> Task]
           /\ TasksOwned'
           /\ \A x \in Message : task[x].pc \in Settled => task'[x].pc \in Settled
<1> DEFINE r == [task[m] EXCEPT !.pc = "adapting", !.path = "spawn"]
<1>1. /\ r \in Task /\ r.session = task[m].session /\ r.loaded = task[m].loaded
      /\ r.pc = "adapting"
  BY DEF Task, Steps
<1>2. task' = [task EXCEPT ![m] = r]
  BY DEF Task
<1> HIDE DEF r
<1> QED
  BY <1>1, <1>2, TaskGoes DEF TasksOwned

\* Only the handlers themselves, and the end of the process, change tasks.
LEMMA TasksStay ==
    ASSUME Next
    PROVE  \/ UNCHANGED task
           \/ Die
           \/ \E m \in Message :
                \/ HandleInbound(m) \/ RpcSpawn(m) \/ Handler(m)
                \/ SpawnFails(m) \/ ContinueThrows(m)
  BY DEF Next, Boot, StartRouter, StopRouter, Shutdown, BeginShutdown, EndShutdown,
         StopConversations, SaveBindings, CleanExit, Crash, Run, TakeFollowUp,
         Complete, Fail, RpcTerminate, RpcPause, RpcResume, NewCommand, RpcUnbind,
         Command, OpenWrite, CloseWrite, volatile

\* What TasksKept shows.
TasksNext ==
    /\ task' \in [Message -> Task]
    /\ TasksOwned'
    /\ \A x \in Message : task[x].pc \in Settled => task'[x].pc \in Settled

LEMMA TasksKept ==
    ASSUME RouterInv, Next
    PROVE  TasksNext
<1> USE DEF TasksNext
<1>0. /\ from' = from /\ task \in [Message -> Task] /\ TasksOwned /\ TablesOwned
      /\ byDestination \in Table /\ from \in [Message -> Destination]
      /\ checkpoint \in [Session -> Seq(Message) \cup {Absent, Torn}] /\ FilesOwned
  BY FromStays DEF RouterInv, RouterTypeOK, ConvInv, ConvTypeOK, Scenario, from
<1>1. CASE UNCHANGED task
  BY <1>0, <1>1 DEF TasksOwned, SaidAt
<1>2. CASE Die
  <2>1. \A m \in Message : /\ task'[m] \in Task
                           /\ task'[m].session = task[m].session
                           /\ task'[m].loaded = task[m].loaded
                           /\ task'[m].pc \in Settled \cup {"none"}
    BY <1>0, <1>2 DEF Die, Task, Steps, Settled
  <2>2. task' \in [Message -> Task]
    BY <1>2, <2>1 DEF Die
  <2>3. TasksOwned'
    BY <1>0, <2>1 DEF TasksOwned, SaidAt, Settled
  <2>4. \A x \in Message : task[x].pc \in Settled => task'[x].pc \in Settled
    BY <1>0, <1>2 DEF Die, Task
  <2> QED
    BY <2>2, <2>3, <2>4
<1>3. ASSUME NEW m \in Message, HandleInbound(m)
      PROVE  TasksNext
  <2> DEFINE s == WithEntry(from[m])[from[m]]
             r(pc, path) == [pc |-> pc, path |-> path, session |-> s, loaded |-> <<>>]
  <2>1. s \in Session \cup {Null}
    BY <1>0 DEF WithEntry, Table
  <2>2. s \in Session => from[s] = from[m]
    BY <1>0, Markers DEF WithEntry, Table, TablesOwned, Owned
  <2>3. task[m].pc \notin Settled
    BY <1>3 DEF HandleInbound, Settled
  <2>4. PICK pc \in {"adapting", "loading", "reading", "handled"},
             path \in {"spawn", "restore", "continue", "send"} :
            /\ task' = [task EXCEPT ![m] = r(pc, path)]
            /\ pc = "adapting" \/ s # Null
    BY <1>3 DEF HandleInbound
  <2>5. r(pc, path) \in Task /\ SaidAt(from[m], r(pc, path).loaded)
    BY <2>1 DEF Task, Steps, Settled, SaidAt
  <2>6. r(pc, path).session = s /\ r(pc, path).pc = pc
    OBVIOUS
  <2> HIDE DEF s, r
  <2> QED
    BY <1>0, <2>1, <2>2, <2>3, <2>4, <2>5, <2>6, TaskGoes
<1>4. ASSUME NEW m \in Message, RpcSpawn(m)
      PROVE  TasksNext
  <2> DEFINE r == [pc |-> "adapting", path |-> "spawn", session |-> Null, loaded |-> <<>>]
  <2>1. /\ r \in Task /\ SaidAt(from[m], r.loaded)
        /\ r.session = Null /\ r.pc = "adapting"
    BY DEF Task, Steps, SaidAt
  <2>2. task' = [task EXCEPT ![m] = r] /\ task[m].pc \notin Settled
    BY <1>4 DEF RpcSpawn, Settled
  <2> HIDE DEF r
  <2> QED
    BY <1>0, <2>1, <2>2, Markers, TaskGoes
<1>5. ASSUME NEW m \in Message, ContinueFails(m),
             task[m].pc \in {"readapting", "reading", "resuming"}
      PROVE  TasksNext
  <2>1. CASE task' = [task EXCEPT ![m].pc = "adapting", ![m].path = "spawn"]
    BY <1>0, <1>5, <2>1, TaskTurns DEF Settled
  <2>2. CASE task' = [task EXCEPT ![m].pc = "rejected"]
    BY <1>0, <1>5, <2>2, TaskGoto DEF Settled, Steps
  <2> QED
    BY <1>5, <2>1, <2>2 DEF ContinueFails, Goto
<1>6. ASSUME NEW m \in Message, CallSpawn(m) \/ Spawned(m) \/ SpawnFails(m)
      PROVE  TasksNext
  <2>1. PICK pc \in {"spawning", "rejected", "handled"} :
            task' = [task EXCEPT ![m].pc = pc] /\ task[m].pc \notin Settled
    BY <1>6 DEF CallSpawn, Spawned, SpawnFails, Goto, Settled
  <2> QED
    BY <1>0, <2>1, TaskGoto DEF Steps, Settled
<1>7. ASSUME NEW m \in Message, LoadCheckpoint(m)
      PROVE  TasksNext
  <2>1. task[m].pc = "loading" /\ task[m].session \in Session
    BY <1>0, <1>7 DEF LoadCheckpoint, TasksOwned
  <2>2. CASE task' = [task EXCEPT ![m].pc = "adapting", ![m].path = "spawn"]
    BY <1>0, <2>1, <2>2, TaskTurns DEF Settled
  <2>3. CASE task' = [task EXCEPT ![m].pc = "rejected"]
    BY <1>0, <2>1, <2>3, TaskGoto DEF Settled, Steps
  <2>4. CASE task' = [task EXCEPT ![m].pc = "readapting"]
    BY <1>0, <2>1, <2>4, TaskGoto DEF Settled, Steps
  <2> QED
    BY <1>7, <2>2, <2>3, <2>4 DEF LoadCheckpoint, Goto
<1>8. ASSUME NEW m \in Message, CallContinue(m)
      PROVE  TasksNext
  <2>1. task[m].pc = "readapting" /\ task[m].session \in Session
    BY <1>0, <1>8 DEF CallContinue, TasksOwned
  <2>2. CASE task' = [task EXCEPT ![m].pc = "reading"]
    BY <1>0, <2>1, <2>2, TaskGoto DEF Settled, Steps
  <2>3. CASE ContinueFails(m)
    BY <1>5, <2>1, <2>3
  <2> QED
    BY <1>8, <2>2, <2>3 DEF CallContinue, Goto
<1>9. ASSUME NEW m \in Message, ReadCheckpoint(m)
      PROVE  TasksNext
  <2> DEFINE c == checkpoint[task[m].session]
  <2>1. task[m].pc = "reading" /\ task[m].session \in Session
    BY <1>0, <1>9 DEF ReadCheckpoint, TasksOwned
  <2>2. CASE Saved(c) /\ task' = [task EXCEPT ![m].pc = "resuming", ![m].loaded = c]
    <3> DEFINE r == [task[m] EXCEPT !.pc = "resuming", !.loaded = c]
    <3>1. c \in Seq(Message) /\ SaidAt(from[m], c)
      BY <1>0, <2>1, <2>2 DEF Saved, FilesOwned, TasksOwned
    <3>2. /\ r \in Task /\ r.session = task[m].session /\ r.loaded = c
          /\ r.pc = "resuming"
      BY <1>0, <3>1 DEF Task, Steps
    <3>3. task' = [task EXCEPT ![m] = r]
      BY <1>0, <2>2 DEF Task
    <3> HIDE DEF r, c
    <3> QED
      BY <1>0, <2>1, <3>1, <3>2, <3>3, TaskGoes DEF TasksOwned, Settled
  <2>3. CASE ContinueFails(m)
    BY <1>5, <2>1, <2>3
  <2> QED
    BY <1>9, <2>2, <2>3 DEF ReadCheckpoint
<1>10. ASSUME NEW m \in Message, Continued(m)
       PROVE  TasksNext
  BY <1>0, <1>10, TaskGoto DEF Continued, Goto, Settled, Steps
<1>11. ASSUME NEW m \in Message, ContinueThrows(m)
       PROVE  TasksNext
  BY <1>5, <1>11 DEF ContinueThrows
<1> QED
  BY TasksStay, <1>1, <1>2, <1>3, <1>4, <1>6, <1>7, <1>8, <1>9, <1>10, <1>11
     DEF Handler

----------------------------------------------------------------------------
(* The agent handles.                                                      *)

\* What was said at one place stays so when a message from there is added.
LEMMA SaidMore ==
    ASSUME NEW seq \in Seq(Message), NEW m \in Message, SaidAt(from[m], seq)
    PROVE  /\ Append(seq, m) \in Seq(Message)
           /\ SaidAt(from[m], Append(seq, m))
<1>1. \A i \in DOMAIN Append(seq, m) :
        Append(seq, m)[i] = IF i = Len(seq) + 1 THEN m ELSE seq[i]
  OBVIOUS
<1>2. \A i \in DOMAIN Append(seq, m) : i # Len(seq) + 1 => i \in DOMAIN seq
  OBVIOUS
<1> QED
  BY <1>1, <1>2 DEF SaidAt

\* Taking the first of a queue leaves the rest of it.
LEMMA SaidFirst ==
    ASSUME NEW seq \in Seq(Message), seq # <<>>, NEW d, SaidAt(d, seq)
    PROVE  /\ Head(seq) \in Message /\ from[Head(seq)] = d
           /\ Tail(seq) \in Seq(Message) /\ SaidAt(d, Tail(seq))
<1>1. /\ Head(seq) = seq[1] /\ 1 \in DOMAIN seq
      /\ \A i \in DOMAIN Tail(seq) : Tail(seq)[i] = seq[i + 1] /\ i + 1 \in DOMAIN seq
  OBVIOUS
<1> QED
  BY <1>1 DEF SaidAt

\* What HandlesKept shows.
HandlesNext ==
    /\ handle' \in [Message -> Handle \cup {Absent}]
    /\ agents' \in [Session -> Message \cup {Absent}]
    /\ HandlesOwned'
    /\ AgentsNamed'

\* The part of the invariant that is about handles.
HandlesInv ==
    /\ handle \in [Message -> Handle \cup {Absent}]
    /\ agents \in [Session -> Message \cup {Absent}]
    /\ HandlesOwned
    /\ AgentsNamed

\* Handles change in their progress only; the coordinator may forget them.
LEMMA HandlesMove ==
    ASSUME HandlesInv, TasksNext, from' = from,
           handle' \in [Message -> Handle \cup {Absent}],
           \A h \in Message :
                \/ handle'[h] = handle[h]
                \/ /\ handle[h] # Absent /\ handle'[h] # Absent
                   /\ handle'[h].session = handle[h].session
                   /\ SaidAt(from[h], handle'[h].history)
                   /\ SaidAt(from[h], handle'[h].queue)
                   /\ \A m \in handle'[h].unread : from[m] = from[h],
           agents' = agents \/ agents' = [s \in Session |-> Absent]
    PROVE  HandlesNext
<1>1. HandlesOwned'
  BY DEF HandlesInv, HandlesOwned, TasksNext, SaidAt
<1>2. agents' \in [Session -> Message \cup {Absent}]
  BY DEF HandlesInv
<1>3. AgentsNamed'
  BY DEF HandlesInv, AgentsNamed
<1> QED
  BY <1>1, <1>2, <1>3 DEF HandlesNext

\* The handle of a handler that was not over is a new one.
LEMMA HandleIsNew ==
    ASSUME HandlesInv, TasksNext, from' = from,
           NEW m \in Message, NEW s \in Session, NEW history \in Seq(Message),
           task[m].pc \notin Settled, task'[m].pc \in Settled,
           handle' = [handle EXCEPT ![m] = NewHandle(s, history)],
           agents' = [agents EXCEPT ![s] = m],
           from[s] = from[m], SaidAt(from[m], history)
    PROVE  HandlesNext
<1> DEFINE r == NewHandle(s, history)
<1>1. /\ r \in Handle /\ r.session = s /\ r.history = history
      /\ r.queue = <<>> /\ r.unread = {}
  BY DEF NewHandle, Handle
<1>2. handle[m] = Absent /\ r # Absent
  BY <1>1, HandleAssumption DEF HandlesInv, HandlesOwned
<1> HIDE DEF r
<1>3. \A h \in Message : handle'[h] = IF h = m THEN r ELSE handle[h]
  BY DEF HandlesInv, r
<1>4. handle' \in [Message -> Handle \cup {Absent}]
  BY <1>1 DEF HandlesInv, r
<1>5. SaidAt(from[m], r.queue)
  BY <1>1 DEF SaidAt
<1>6. HandlesOwned'
  <2> SUFFICES ASSUME NEW h \in Message, handle'[h] # Absent
               PROVE  /\ task'[h].pc \in Settled
                      /\ from[handle'[h].session] = from[h]
                      /\ SaidAt(from[h], handle'[h].history)
                      /\ SaidAt(from[h], handle'[h].queue)
                      /\ \A x \in handle'[h].unread : from[x] = from[h]
    BY DEF HandlesOwned, SaidAt
  <2>1. CASE h = m
    BY <1>1, <1>3, <1>5, <2>1
  <2>2. CASE h # m
    BY <1>3, <2>2 DEF HandlesInv, HandlesOwned, TasksNext
  <2> QED
    BY <2>1, <2>2
<1>7. agents' \in [Session -> Message \cup {Absent}]
  BY DEF HandlesInv
<1>8. AgentsNamed'
  BY <1>1, <1>2, <1>3 DEF HandlesInv, AgentsNamed
<1> QED
  BY <1>4, <1>6, <1>7, <1>8 DEF HandlesNext

\* Who changes handles, or which of them the coordinator knows.
LEMMA HandlesStay ==
    ASSUME Next
    PROVE  \/ UNCHANGED <<handle, agents>>
           \/ \E m \in Message :
                \/ HandleInbound(m) \/ Spawned(m) \/ Continued(m) \/ Run(m)
                \/ RpcTerminate(m) \/ RpcPause(m) \/ RpcResume(m)
           \/ \E d \in Destination : NewCommand(d)
           \/ EndShutdown
           \/ Die
  BY DEF Next, Boot, StartRouter, StopRouter, Shutdown, BeginShutdown,
         StopConversations, SaveBindings, CleanExit, Crash, RpcSpawn,
         Handler, CallSpawn, LoadCheckpoint, CallContinue, ReadCheckpoint,
         ContinueFails, SpawnFails, ContinueThrows, RpcUnbind, OpenWrite, CloseWrite,
         volatile

LEMMA HandlesKept ==
    ASSUME RouterInv, Next, TasksNext, from' = from
    PROVE  HandlesNext
<1>0. /\ HandlesInv /\ task \in [Message -> Task] /\ TasksOwned /\ TablesOwned
      /\ byDestination \in Table /\ from \in [Message -> Destination]
  BY DEF RouterInv, RouterTypeOK, HandlesInv, ConvInv, ConvTypeOK, Scenario, from
<1>1. ASSUME UNCHANGED handle,
             agents' = agents \/ agents' = [s \in Session |-> Absent]
      PROVE  HandlesNext
  BY <1>0, <1>1, HandlesMove DEF HandlesInv
<1>2. ASSUME NEW h \in Message, NEW r \in Handle,
             handle[h] # Absent,
             handle' = [handle EXCEPT ![h] = r], UNCHANGED agents,
             r.session = handle[h].session,
             SaidAt(from[h], r.history), SaidAt(from[h], r.queue),
             \A m \in r.unread : from[m] = from[h]
      PROVE  HandlesNext
  <2>1. \A x \in Message : handle'[x] = IF x = h THEN r ELSE handle[x]
    BY <1>0, <1>2 DEF HandlesInv
  <2>2. handle' \in [Message -> Handle \cup {Absent}]
    BY <1>0, <1>2 DEF HandlesInv
  <2> QED
    BY <1>0, <1>2, <2>1, <2>2, HandleAssumption, HandlesMove
<1>3. ASSUME NEW h \in Message, handle[h] # Absent
      PROVE  /\ handle[h] \in Handle
             /\ SaidAt(from[h], handle[h].history) /\ SaidAt(from[h], handle[h].queue)
             /\ \A m \in handle[h].unread : from[m] = from[h]
             /\ from[handle[h].session] = from[h]
  BY <1>0, <1>3 DEF HandlesInv, HandlesOwned
<1>4. ASSUME NEW s \in Session, agents[s] # Absent
      PROVE  agents[s] \in Message /\ handle[agents[s]] # Absent
             /\ handle[agents[s]].session = s
  BY <1>0, <1>4 DEF HandlesInv, AgentsNamed
<1>5. ASSUME NEW hs \in SUBSET Message, \A h \in hs : handle[h] # Absent,
             Terminate(hs),
             agents' = agents \/ agents' = [s \in Session |-> Absent]
      PROVE  HandlesNext
  <2> DEFINE ended(h) == [handle[h] EXCEPT !.inst = "aborted", !.status = "terminated"]
  <2>1. ASSUME NEW h \in hs
        PROVE  /\ ended(h) \in Handle /\ ended(h).session = handle[h].session
               /\ ended(h).history = handle[h].history /\ ended(h).queue = handle[h].queue
               /\ ended(h).unread = handle[h].unread
    <3>1. handle[h] \in Handle
      BY <1>3, <1>5
    <3> QED
      BY <3>1 DEF Handle
  <2>2. handle' = [h \in Message |-> IF h \in hs THEN ended(h) ELSE handle[h]]
    BY <1>5 DEF Terminate
  <2> HIDE DEF ended
  <2>3. handle' \in [Message -> Handle \cup {Absent}]
    BY <1>0, <2>1, <2>2 DEF HandlesInv
  <2>4. \A h \in Message : handle'[h] = IF h \in hs THEN ended(h) ELSE handle[h]
    BY <2>2
  <2>5. \A h \in Message :
            \/ handle'[h] = handle[h]
            \/ /\ handle[h] # Absent /\ handle'[h] # Absent
               /\ handle'[h].session = handle[h].session
               /\ SaidAt(from[h], handle'[h].history)
               /\ SaidAt(from[h], handle'[h].queue)
               /\ \A m \in handle'[h].unread : from[m] = from[h]
    BY <1>3, <1>5, <2>1, <2>4, HandleAssumption
  <2> QED
    BY <1>0, <1>5, <2>3, <2>5, HandlesMove
<1>6. ASSUME NEW m \in Message, HandleInbound(m)
      PROVE  HandlesNext
  <2> DEFINE s == WithEntry(from[m])[from[m]]
  <2>1. CASE UNCHANGED handle
    BY <1>1, <1>6, <2>1 DEF HandleInbound
  <2>2. CASE s # Null /\ agents[s] # Absent /\ Send(agents[s], m)
    <3>1. s \in Session /\ from[s] = from[m]
      BY <1>0, <2>2, Markers DEF WithEntry, Table, TablesOwned, Owned
    <3> DEFINE h == agents[s]
               queued == [handle[h] EXCEPT !.queue = Append(@, m)]
               left == [handle[h] EXCEPT !.unread = @ \cup {m}]
    <3>2. /\ h \in Message /\ handle[h] # Absent /\ from[h] = from[m]
          /\ handle[h] \in Handle
      BY <1>3, <1>4, <2>2, <3>1
    <3>3. handle[h].queue \in Seq(Message)
      BY <3>2 DEF Handle
    <3>4. /\ Append(handle[h].queue, m) \in Seq(Message)
          /\ SaidAt(from[h], Append(handle[h].queue, m))
      BY <1>3, <3>2, <3>3, SaidMore
    <3>5. /\ queued \in Handle /\ queued.session = handle[h].session
          /\ queued.history = handle[h].history /\ queued.unread = handle[h].unread
          /\ queued.queue = Append(handle[h].queue, m)
      BY <3>2, <3>4 DEF Handle
    <3>6. /\ left \in Handle /\ left.session = handle[h].session
          /\ left.history = handle[h].history /\ left.queue = handle[h].queue
          /\ left.unread = handle[h].unread \cup {m}
      BY <3>2 DEF Handle
    <3>7. \/ handle' = [handle EXCEPT ![h] = queued]
          \/ handle' = [handle EXCEPT ![h] = left]
      BY <2>2 DEF Send
    <3>8. UNCHANGED agents
      BY <1>6 DEF HandleInbound
    <3> HIDE DEF h, s, queued, left
    <3>9. /\ SaidAt(from[h], handle[h].history) /\ SaidAt(from[h], handle[h].queue)
          /\ \A x \in handle[h].unread : from[x] = from[h]
      BY <1>3, <3>2
    <3>10. CASE handle' = [handle EXCEPT ![h] = queued]
      BY <1>2, <3>2, <3>4, <3>5, <3>8, <3>9, <3>10
    <3>11. CASE handle' = [handle EXCEPT ![h] = left]
      <4>1. \A x \in left.unread : from[x] = from[h]
        BY <3>2, <3>6, <3>9
      <4> QED
        BY <1>2, <3>2, <3>6, <3>8, <3>9, <3>11, <4>1
    <3> QED
      BY <3>7, <3>10, <3>11
  <2> QED
    BY <1>6, <2>1, <2>2 DEF HandleInbound
<1>7. ASSUME NEW m \in Message, Spawned(m)
      PROVE  HandlesNext
  <2>1. /\ task[m].pc \notin Settled /\ task'[m].pc \in Settled
        /\ handle' = [handle EXCEPT ![m] = NewHandle(m, <<m>>)]
        /\ agents' = [agents EXCEPT ![m] = m]
    BY <1>0, <1>7 DEF Spawned, Goto, Settled, Task
  <2>2. <<m>> \in Seq(Message) /\ SaidAt(from[m], <<m>>)
    BY DEF SaidAt
  <2> QED
    BY <1>0, <2>1, <2>2, HandleIsNew
<1>8. ASSUME NEW m \in Message, Continued(m)
      PROVE  HandlesNext
  <2> DEFINE s == task[m].session
             history == Append(task[m].loaded, m)
  <2>1. /\ task[m].pc = "resuming" /\ task[m].pc \notin Settled
        /\ task'[m].pc \in Settled
        /\ handle' = [handle EXCEPT ![m] = NewHandle(s, history)]
        /\ agents' = [agents EXCEPT ![s] = m]
    BY <1>0, <1>8 DEF Continued, Goto, Settled, Task
  <2>2. /\ s \in Session /\ from[s] = from[m]
        /\ SaidAt(from[m], task[m].loaded) /\ task[m].loaded \in Seq(Message)
    BY <1>0, <2>1 DEF TasksOwned, Task
  <2>3. history \in Seq(Message) /\ SaidAt(from[m], history)
    BY <2>2, SaidMore
  <2> HIDE DEF s, history
  <2> QED
    BY <1>0, <2>1, <2>2, <2>3, HandleIsNew
<1>9. ASSUME NEW h \in Message, TakeFollowUp(h)
      PROVE  HandlesNext
  <2> DEFINE r == [handle[h] EXCEPT !.history = Append(@, Head(handle[h].queue)),
                                    !.queue = Tail(@)]
  <2>1. handle[h] # Absent /\ handle[h].queue # <<>> /\ UNCHANGED agents
    BY <1>9 DEF TakeFollowUp
  <2>2. handle[h].queue \in Seq(Message) /\ handle[h].history \in Seq(Message)
    BY <1>3, <2>1 DEF Handle
  <2>3. /\ Head(handle[h].queue) \in Message /\ from[Head(handle[h].queue)] = from[h]
        /\ Tail(handle[h].queue) \in Seq(Message)
        /\ SaidAt(from[h], Tail(handle[h].queue))
    BY <1>3, <2>1, <2>2, SaidFirst
  <2>4. /\ Append(handle[h].history, Head(handle[h].queue)) \in Seq(Message)
        /\ SaidAt(from[h], Append(handle[h].history, Head(handle[h].queue)))
    BY <1>3, <2>1, <2>2, <2>3, SaidMore
  <2>5. /\ r \in Handle /\ r.session = handle[h].session
        /\ r.history = Append(handle[h].history, Head(handle[h].queue))
        /\ r.queue = Tail(handle[h].queue) /\ r.unread = handle[h].unread
    BY <1>3, <2>1, <2>3, <2>4 DEF Handle
  <2>6. handle' = [handle EXCEPT ![h] = r]
    BY <1>9 DEF TakeFollowUp
  <2> HIDE DEF r
  <2> QED
    BY <1>2, <1>3, <2>1, <2>3, <2>4, <2>5, <2>6
<1>10. ASSUME NEW h \in Message, NEW b \in BOOLEAN, NEW held \in BOOLEAN,
              NEW inst \in {"running", "paused", "completed", "failed", "aborted"},
              NEW status \in {"running", "paused", "completed", "terminated"},
              handle[h] # Absent, UNCHANGED agents,
              handle' = [handle EXCEPT ![h].busy = b, ![h].inst = inst,
                                       ![h].status = status, ![h].held = held]
       PROVE  HandlesNext
  <2> DEFINE r == [handle[h] EXCEPT !.busy = b, !.inst = inst, !.status = status,
                                    !.held = held]
  <2>1. /\ r \in Handle /\ r.session = handle[h].session
        /\ r.history = handle[h].history /\ r.queue = handle[h].queue
        /\ r.unread = handle[h].unread
    BY <1>3, <1>10 DEF Handle
  <2>2. handle' = [handle EXCEPT ![h] = r]
    BY <1>0, <1>10 DEF HandlesInv
  <2>3. /\ SaidAt(from[h], handle[h].history) /\ SaidAt(from[h], handle[h].queue)
        /\ \A m \in handle[h].unread : from[m] = from[h]
        /\ handle[h] # Absent /\ UNCHANGED agents
    BY <1>3, <1>10
  <2> HIDE DEF r
  <2>4. /\ SaidAt(from[h], r.history) /\ SaidAt(from[h], r.queue)
        /\ \A m \in r.unread : from[m] = from[h]
    BY <2>1, <2>3
  <2> QED
    BY <1>2, <2>1, <2>2, <2>3, <2>4
<1>11. ASSUME NEW h \in Message, Complete(h)
       PROVE  HandlesNext
  <2>1. /\ handle[h] # Absent /\ handle[h] \in Handle /\ UNCHANGED agents
        /\ handle' = [handle EXCEPT ![h].busy = FALSE, ![h].inst = "completed",
                                    ![h].status = "completed"]
    BY <1>3, <1>11 DEF Complete
  <2>2. handle' = [handle EXCEPT ![h].busy = FALSE, ![h].inst = "completed",
                                 ![h].status = "completed", ![h].held = handle[h].held]
    BY <1>0, <2>1 DEF HandlesInv, Handle
  <2> QED
    BY <1>10, <2>1, <2>2 DEF Handle
<1>12. ASSUME NEW h \in Message, Fail(h)
       PROVE  HandlesNext
  <2>1. /\ handle[h] # Absent /\ handle[h] \in Handle /\ UNCHANGED agents
        /\ handle' = [handle EXCEPT ![h].busy = FALSE, ![h].inst = "failed"]
    BY <1>3, <1>12 DEF Fail
  <2>2. handle' = [handle EXCEPT ![h].busy = FALSE, ![h].inst = "failed",
                                 ![h].status = handle[h].status,
                                 ![h].held = handle[h].held]
    BY <1>0, <2>1 DEF HandlesInv, Handle
  <2> QED
    BY <1>10, <2>1, <2>2 DEF Handle
<1>13. ASSUME NEW s \in Session, RpcTerminate(s)
       PROVE  HandlesNext
  BY <1>4, <1>5, <1>13 DEF RpcTerminate
<1>14. ASSUME NEW s \in Session, RpcPause(s) \/ RpcResume(s)
       PROVE  HandlesNext
  <2> DEFINE h == agents[s]
  <2>1. /\ h \in Message /\ handle[h] # Absent /\ handle[h] \in Handle
        /\ UNCHANGED agents
    BY <1>3, <1>4, <1>14 DEF RpcPause, RpcResume
  <2>2. PICK held \in BOOLEAN, status \in {"running", "paused"},
             inst \in {"running", "paused", "completed", "failed", "aborted"} :
            handle' = [handle EXCEPT ![h].status = status, ![h].held = held,
                                     ![h].inst = inst]
    BY <1>14, <2>1 DEF RpcPause, RpcResume, Handle
  <2>3. handle' = [handle EXCEPT ![h].busy = handle[h].busy, ![h].inst = inst,
                                 ![h].status = status, ![h].held = held]
    BY <1>0, <2>1, <2>2 DEF HandlesInv, Handle
  <2> HIDE DEF h
  <2> QED
    BY <1>10, <2>1, <2>3 DEF Handle
<1>15. ASSUME NEW d \in Destination, NewCommand(d)
       PROVE  HandlesNext
  <2> DEFINE hs == {agents[s] : s \in {x \in Session :
                                  byDestination[d] = x /\ agents[x] # Absent}}
  <2>1. hs \in SUBSET Message /\ \A h \in hs : handle[h] # Absent
    BY <1>4
  <2>2. Terminate(hs) /\ UNCHANGED agents
    BY <1>15 DEF NewCommand
  <2> HIDE DEF hs
  <2> QED
    BY <1>5, <2>1, <2>2
<1>16. CASE EndShutdown
  <2> DEFINE hs == {h \in Message : /\ \E s \in Session : agents[s] = h
                                    /\ handle[h].status \in {"running", "paused"}}
  <2>1. hs \in SUBSET Message /\ \A h \in hs : handle[h] # Absent
    BY <1>4, Markers
  <2>2. Terminate(hs) /\ agents' = [s \in Session |-> Absent]
    BY <1>16 DEF EndShutdown
  <2> HIDE DEF hs
  <2> QED
    BY <1>5, <2>1, <2>2
<1>17. CASE Die
  <2>1. /\ handle' = [h \in Message |-> Absent]
        /\ agents' = [s \in Session |-> Absent]
    BY <1>17 DEF Die
  <2> QED
    BY <2>1 DEF HandlesNext, HandlesOwned, AgentsNamed
<1> QED
  BY HandlesStay, <1>1, <1>6, <1>7, <1>8, <1>9, <1>11, <1>12, <1>13, <1>14, <1>15,
     <1>16, <1>17 DEF Run

----------------------------------------------------------------------------
(* The checkpoints.                                                        *)

\* What FilesKept shows.
FilesNext ==
    /\ checkpoint' \in [Session -> Seq(Message) \cup {Absent, Torn}]
    /\ writes' \subseteq CheckpointWrite
    /\ FilesOwned'

\* The part of the invariant that is about checkpoints.
FilesInv ==
    /\ checkpoint \in [Session -> Seq(Message) \cup {Absent, Torn}]
    /\ writes \subseteq CheckpointWrite
    /\ FilesOwned

\* A done event of a handle asks for a save of its own conversation.
LEMMA SaveIsOwned ==
    ASSUME FilesInv, HandlesInv, from' = from, UNCHANGED checkpoint,
           NEW kind \in {"run", "terminate"}, NEW hs \in SUBSET Message,
           \A h \in hs : handle[h] # Absent,
           RequestSave(kind, hs)
    PROVE  FilesNext
<1> DEFINE w(h) == Write(h, kind, handle[h].history)
<1>1. ASSUME NEW h \in hs
      PROVE  w(h) \in CheckpointWrite /\ SaidAt(from[w(h).session], w(h).history)
  <2>1. /\ handle[h] \in Handle /\ from[handle[h].session] = from[h]
        /\ SaidAt(from[h], handle[h].history)
    BY <1>1 DEF HandlesInv, HandlesOwned
  <2>2. handle[h].session \in Session /\ handle[h].history \in Seq(Message)
    BY <2>1 DEF Handle
  <2>3. w(h).session = handle[h].session /\ w(h).history = handle[h].history
    BY DEF Write
  <2>4. w(h) \in CheckpointWrite
    BY <2>2 DEF Write, CheckpointWrite
  <2> QED
    BY <2>1, <2>3, <2>4
<1>2. writes' = writes \cup {w(h) : h \in hs}
  BY DEF RequestSave
<1> HIDE DEF w
<1>3. \A x \in writes' : x \in CheckpointWrite /\ SaidAt(from[x.session], x.history)
  BY <1>1, <1>2 DEF FilesInv, FilesOwned
<1>4. FilesOwned'
  BY <1>3 DEF FilesInv, FilesOwned, SaidAt, Saved
<1> QED
  BY <1>3, <1>4 DEF FilesInv, FilesNext

LEMMA FilesKept ==
    ASSUME RouterInv, Next, from' = from
    PROVE  FilesNext
<1>0. FilesInv /\ HandlesInv
  BY DEF RouterInv, RouterTypeOK, FilesInv, HandlesInv
<1>1. CASE UNCHANGED <<checkpoint, writes>>
  BY <1>0, <1>1 DEF FilesInv, FilesNext, FilesOwned, SaidAt, Saved
<1>2. ASSUME NEW w \in writes, OpenWrite(w)
      PROVE  FilesNext
  <2>1. w \in CheckpointWrite /\ w.session \in Session
    BY <1>0 DEF FilesInv, CheckpointWrite
  <2>2. ASSUME NEW x \in writes, NEW mixed \in BOOLEAN
        PROVE  /\ [x EXCEPT !.mixed = TRUE] \in CheckpointWrite
               /\ [x EXCEPT !.mixed = TRUE].session = x.session
               /\ [x EXCEPT !.mixed = TRUE].history = x.history
               /\ [x EXCEPT !.open = TRUE, !.mixed = mixed] \in CheckpointWrite
               /\ [x EXCEPT !.open = TRUE, !.mixed = mixed].session = x.session
               /\ [x EXCEPT !.open = TRUE, !.mixed = mixed].history = x.history
    <3>1. x \in CheckpointWrite
      BY <1>0 DEF FilesInv
    <3> QED
      BY <3>1 DEF CheckpointWrite
  <2>3. \A y \in writes' : \E x \in writes :
            y \in CheckpointWrite /\ y.session = x.session /\ y.history = x.history
    <3> SUFFICES ASSUME NEW y \in writes'
                 PROVE  \E x \in writes : /\ y \in CheckpointWrite
                                          /\ y.session = x.session
                                          /\ y.history = x.history
      OBVIOUS
    <3>1. CASE y \in writes
      BY <1>0, <3>1 DEF FilesInv
    <3> DEFINE rivals == {x \in writes : x.open /\ x.session = w.session}
    <3>2. CASE y \in {[x EXCEPT !.mixed = TRUE] : x \in rivals}
      <4>1. PICK x \in writes : y = [x EXCEPT !.mixed = TRUE]
        BY <3>2
      <4> QED
        BY <2>2, <4>1
    <3>3. CASE y = [w EXCEPT !.open = TRUE, !.mixed = rivals # {}]
      BY <2>2, <3>3
    <3>4. writes' = ((writes \ {w}) \ rivals) \cup {[x EXCEPT !.mixed = TRUE] : x \in rivals}
                    \cup {[w EXCEPT !.open = TRUE, !.mixed = rivals # {}]}
      BY <1>2 DEF OpenWrite
    <3> HIDE DEF rivals
    <3> QED
      BY <3>1, <3>2, <3>3, <3>4
  <2>4. checkpoint' = [checkpoint EXCEPT ![w.session] = Torn]
    BY <1>2 DEF OpenWrite
  <2>5. checkpoint' \in [Session -> Seq(Message) \cup {Absent, Torn}]
    BY <1>0, <2>1, <2>4 DEF FilesInv
  <2>6. ASSUME NEW s \in Session, Saved(checkpoint'[s])
        PROVE  SaidAt(from[s], checkpoint'[s])
    <3>1. checkpoint'[s] = checkpoint[s]
      BY <1>0, <2>1, <2>4, <2>6 DEF FilesInv, Saved
    <3> QED
      BY <1>0, <2>6, <3>1 DEF FilesInv, FilesOwned
  <2>7. \A y \in writes' : SaidAt(from[y.session], y.history)
    BY <1>0, <2>3 DEF FilesInv, FilesOwned
  <2>8. FilesOwned'
    BY <2>6, <2>7 DEF FilesOwned, SaidAt, Saved
  <2> QED
    BY <2>3, <2>5, <2>8 DEF FilesNext
<1>3. ASSUME NEW w \in writes, CloseWrite(w)
      PROVE  FilesNext
  <2>1. /\ w.session \in Session /\ w.history \in Seq(Message)
        /\ SaidAt(from[w.session], w.history)
    BY <1>0 DEF FilesInv, FilesOwned, CheckpointWrite
  <2>2. PICK content \in {w.history, Torn} :
            checkpoint' = [checkpoint EXCEPT ![w.session] = content]
    BY <1>3 DEF CloseWrite
  <2>3. writes' \subseteq writes
    BY <1>3 DEF CloseWrite
  <2>4. checkpoint' \in [Session -> Seq(Message) \cup {Absent, Torn}]
    BY <1>0, <2>1, <2>2 DEF FilesInv
  <2>5. ASSUME NEW s \in Session, Saved(checkpoint'[s])
        PROVE  SaidAt(from[s], checkpoint'[s])
    <3>1. CASE s = w.session
      <4>1. checkpoint'[s] = content
        BY <1>0, <2>2, <3>1 DEF FilesInv
      <4>2. content = w.history
        BY <2>5, <4>1 DEF Saved
      <4> QED
        BY <2>1, <3>1, <4>1, <4>2
    <3>2. CASE s # w.session
      <4>1. checkpoint'[s] = checkpoint[s]
        BY <1>0, <2>2, <3>2 DEF FilesInv
      <4> QED
        BY <1>0, <2>5, <4>1 DEF FilesInv, FilesOwned
    <3> QED
      BY <3>1, <3>2
  <2>6. \A y \in writes' : SaidAt(from[y.session], y.history)
    BY <1>0, <2>3 DEF FilesInv, FilesOwned
  <2>7. FilesOwned'
    BY <2>5, <2>6 DEF FilesOwned, SaidAt, Saved
  <2> QED
    BY <1>0, <2>3, <2>4, <2>7 DEF FilesInv, FilesNext
<1>4. ASSUME NEW s \in Session, agents[s] # Absent
      PROVE  agents[s] \in Message /\ handle[agents[s]] # Absent
  BY <1>0, <1>4 DEF HandlesInv, AgentsNamed
<1>5. ASSUME NEW h \in Message, Complete(h) \/ Fail(h)
      PROVE  FilesNext
  <2>1. handle[h] # Absent /\ RequestSave("run", {h}) /\ UNCHANGED checkpoint
    BY <1>5 DEF Complete, Fail
  <2> QED
    BY <1>0, <2>1, SaveIsOwned
<1>6. ASSUME NEW s \in Session, RpcTerminate(s)
      PROVE  FilesNext
  <2>1. agents[s] # Absent /\ RequestSave("terminate", {agents[s]}) /\ UNCHANGED checkpoint
    BY <1>6 DEF RpcTerminate, Terminate
  <2> QED
    BY <1>0, <1>4, <2>1, SaveIsOwned
<1>7. ASSUME NEW d \in Destination, NewCommand(d)
      PROVE  FilesNext
  <2> DEFINE hs == {agents[s] : s \in {x \in Session :
                                  byDestination[d] = x /\ agents[x] # Absent}}
  <2>1. hs \in SUBSET Message /\ \A h \in hs : handle[h] # Absent
    BY <1>4
  <2>2. RequestSave("terminate", hs) /\ UNCHANGED checkpoint
    BY <1>7 DEF NewCommand, Terminate
  <2> HIDE DEF hs
  <2> QED
    BY <1>0, <2>1, <2>2, SaveIsOwned
<1>8. CASE EndShutdown
  <2> DEFINE hs == {h \in Message : /\ \E s \in Session : agents[s] = h
                                    /\ handle[h].status \in {"running", "paused"}}
  <2>1. hs \in SUBSET Message /\ \A h \in hs : handle[h] # Absent
    BY <1>4, Markers
  <2>2. RequestSave("terminate", hs) /\ UNCHANGED checkpoint
    BY <1>8 DEF EndShutdown, Terminate
  <2> HIDE DEF hs
  <2> QED
    BY <1>0, <2>1, <2>2, SaveIsOwned
<1>9. CASE Die
  <2>1. writes' = {} /\ UNCHANGED checkpoint
    BY <1>9 DEF Die
  <2> QED
    BY <1>0, <2>1 DEF FilesInv, FilesNext, FilesOwned, SaidAt, Saved
<1> QED
  BY FilesStay, <1>1, <1>2, <1>3, <1>5, <1>6, <1>7, <1>8, <1>9

----------------------------------------------------------------------------
(* The bindings: what the router does with the conversation manager is      *)
(* what the manager of module Conversations expects of its callers.         *)

\* Who changes bindings, or moves the manager on.
LEMMA BindingsStay ==
    ASSUME Next
    PROVE  \/ UNCHANGED convVars
           \/ Boot \/ StartRouter \/ StopConversations \/ SaveBindings \/ Die
           \/ \E m \in Message :
                \/ HandleInbound(m) \/ Spawned(m) \/ LoadCheckpoint(m)
                \/ /\ task[m].pc \in {"readapting", "reading", "resuming"}
                   /\ ContinueFails(m)
           \/ \E d \in Destination : NewCommand(d) \/ RpcUnbind(d)
  BY DEF Next, StopRouter, Shutdown, BeginShutdown, EndShutdown, CleanExit, Crash,
         RpcSpawn, Handler, CallSpawn, CallContinue, ReadCheckpoint, Continued,
         SpawnFails, ContinueThrows, Run, TakeFollowUp, Complete, Fail, RpcTerminate,
         RpcPause, RpcResume, OpenWrite, CloseWrite

\* A handler that works has the conversation manager at its service.
LEMMA WorkingIsServed ==
    ASSUME Phased, NEW m \in Message, task[m].pc \notin Settled \cup {"none"}
    PROVE  Serving
  BY DEF Phased

\* Every step is one of the manager, or one a caller may take.
LEMMA ConvStep == RouterInv /\ [Next]_routerVars => [ConvNext]_convVars
<1> SUFFICES ASSUME RouterInv, Next PROVE [ConvNext]_convVars
  BY DEF routerVars, convVars
<1>0. /\ Phased /\ TablesOwned /\ task \in [Message -> Task]
      /\ from \in [Message -> Destination]
      /\ disk \in Table \cup {Absent, Torn} /\ temp \in Table \cup {Absent, Torn}
  BY DEF RouterInv, RouterTypeOK, ConvInv, ConvTypeOK, Scenario, from
<1>1. routing => Serving
  BY <1>0 DEF Phased, Serving
<1>2. CASE Boot \/ StartRouter \/ StopConversations \/ SaveBindings \/ Die
  BY <1>2 DEF Boot, StartRouter, StopConversations, SaveBindings, Die, ConvNext
<1>3. ASSUME NEW m \in Message, HandleInbound(m)
      PROVE  ConvNext
  <2>1. CallGetOrCreate(from[m]) /\ from[m] \in Destination
    BY <1>0, <1>1, <1>3 DEF HandleInbound, CallGetOrCreate
  <2> QED
    BY <2>1 DEF ConvNext
<1>4. ASSUME NEW m \in Message, Spawned(m)
      PROVE  ConvNext
  <2>1. task[m].pc = "spawning"
    BY <1>4 DEF Spawned
  <2>2. task[m].pc \notin Settled /\ Serving
    BY <1>0, <2>1, WorkingIsServed DEF Settled
  <2>3. Fresh(m)
    BY <1>0, <2>2 DEF Fresh, TablesOwned, Owned
  <2>4. CallBind(from[m], m) /\ from[m] \in Destination
    BY <1>0, <1>4, <2>2, <2>3 DEF Spawned, CallBind
  <2> QED
    BY <2>4 DEF ConvNext
<1>5. ASSUME NEW m \in Message,
             task[m].pc \in {"loading", "readapting", "reading", "resuming"},
             LoadCheckpoint(m) \/ ContinueFails(m)
      PROVE  ConvNext \/ UNCHANGED convVars
  <2>1. Serving
    BY <1>0, <1>5, WorkingIsServed DEF Settled
  <2>2. /\ Unbind(from[m]) \/ UNCHANGED <<byDestination, byAgent>>
        /\ UNCHANGED <<disk, temp, snap, phase>>
    BY <1>5 DEF LoadCheckpoint, ContinueFails
  <2> QED
    BY <1>0, <2>1, <2>2 DEF CallUnbind, ConvNext, convVars
<1>6. ASSUME NEW d \in Destination, NewCommand(d) \/ RpcUnbind(d)
      PROVE  ConvNext
  <2>1. CallUnbind(d)
    BY <1>1, <1>6 DEF NewCommand, RpcUnbind, Command, CallUnbind
  <2> QED
    BY <2>1 DEF ConvNext
<1>7. ASSUME NEW m \in Message, LoadCheckpoint(m)
      PROVE  ConvNext \/ UNCHANGED convVars
  BY <1>5, <1>7 DEF LoadCheckpoint
<1> QED
  BY BindingsStay, <1>2, <1>3, <1>4, <1>5, <1>6, <1>7

\* No table ever gains an entry for a handler that is still at work.
LEMMA TablesKept ==
    ASSUME RouterInv, Next, TasksNext, from' = from
    PROVE  TablesOwned'
<1> DEFINE Ok(d, s) == from[s] = d /\ task[s].pc \in Settled
           Fine(table) == \A d \in Destination, s \in Session : table[d] = s => Ok(d, s)
<1>0. /\ task \in [Message -> Task] /\ from \in [Message -> Destination]
      /\ byDestination \in Table /\ snap \in Table
      /\ disk \in Table \cup {Absent, Torn} /\ temp \in Table \cup {Absent, Torn}
      /\ phase = "written" => temp = snap
      /\ Fine(byDestination) /\ Fine(snap)
      /\ disk \in Table => Fine(disk)
      /\ temp \in Table => Fine(temp)
  BY DEF RouterInv, RouterTypeOK, ConvInv, ConvTypeOK, Scenario, from, TablesOwned, Owned
<1>1. \A d \in Destination, s \in Session :
        Ok(d, s) => from'[s] = d /\ task'[s].pc \in Settled
  BY DEF TasksNext
<1> HIDE DEF Ok
<1>2. Fine(NoBindings)
  BY Markers DEF NoBindings
<1>3. ASSUME Fine(byDestination'), Fine(snap'), disk' \in Table => Fine(disk'),
             temp' \in Table => Fine(temp')
      PROVE  TablesOwned'
  BY <1>1, <1>3 DEF TablesOwned, Owned
<1>4. CASE UNCHANGED convVars
  BY <1>0, <1>3, <1>4 DEF convVars
<1>5. CASE BeginLoad
  BY <1>0, <1>3, <1>5 DEF BeginLoad
<1>6. CASE FinishLoad
  BY <1>0, <1>2, <1>3, <1>6 DEF FinishLoad, Restore
<1>7. CASE FailLoad
  BY <1>0, <1>2, <1>3, <1>7 DEF FailLoad, Restore
<1>8. CASE BeginStop
  BY <1>0, <1>3, <1>8 DEF BeginStop
<1>9. CASE BeginWrite
  BY <1>0, <1>3, <1>9, Markers DEF BeginWrite
<1>10. CASE EndWrite
  BY <1>0, <1>3, <1>10 DEF EndWrite
<1>11. CASE Rename
  BY <1>0, <1>2, <1>3, <1>11, Markers DEF Rename, Clear
<1>12. CASE FailSave
  BY <1>0, <1>2, <1>3, <1>12, Markers DEF FailSave, Clear
<1>13. CASE Exit
  BY <1>0, <1>2, <1>3, <1>13 DEF Exit, Clear
<1>14. ASSUME UNCHANGED <<disk, temp, snap>>, NEW d \in Destination,
              GetOrCreate(d) \/ Unbind(d) \/ UNCHANGED byDestination
       PROVE  TablesOwned'
  <2>1. Fine(byDestination')
    BY <1>0, <1>14, Markers DEF GetOrCreate, WithEntry, Unbind, Table
  <2> QED
    BY <1>0, <1>3, <1>14, <2>1
<1>15. ASSUME NEW m \in Message, Spawned(m)
       PROVE  TablesOwned'
  <2>1. /\ byDestination' = [byDestination EXCEPT ![from[m]] = m]
        /\ UNCHANGED <<disk, temp, snap>>
    BY <1>15 DEF Spawned, Bind
  <2>2. task'[m].pc \in Settled /\ from'[m] = from[m]
    BY <1>0, <1>15 DEF Spawned, Goto, Settled, Task
  <2>3. ASSUME NEW d \in Destination, NEW s \in Session, byDestination'[d] = s
        PROVE  from'[s] = d /\ task'[s].pc \in Settled
    <3>1. CASE d = from[m]
      BY <1>0, <2>1, <2>2, <2>3, <3>1 DEF Table
    <3>2. CASE d # from[m]
      BY <1>0, <1>1, <2>1, <2>3, <3>2 DEF Table
    <3> QED
      BY <3>1, <3>2
  <2>4. /\ Owned(snap)'
        /\ disk' \in Table => Owned(disk)'
        /\ temp' \in Table => Owned(temp)'
    BY <1>0, <1>1, <2>1 DEF Owned
  <2> QED
    BY <2>3, <2>4 DEF TablesOwned, Owned
<1>16. ASSUME NEW m \in Message,
              HandleInbound(m) \/ LoadCheckpoint(m) \/ ContinueFails(m)
       PROVE  TablesOwned'
  <2>1. from[m] \in Destination
    BY <1>0
  <2>2. \/ GetOrCreate(from[m]) \/ Unbind(from[m]) \/ UNCHANGED byDestination
    BY <1>16 DEF HandleInbound, LoadCheckpoint, ContinueFails
  <2>3. UNCHANGED <<disk, temp, snap>>
    BY <1>16 DEF HandleInbound, LoadCheckpoint, ContinueFails
  <2> QED
    BY <1>14, <2>1, <2>2, <2>3
<1>17. ASSUME NEW d \in Destination, NewCommand(d) \/ RpcUnbind(d)
       PROVE  TablesOwned'
  BY <1>14, <1>17 DEF NewCommand, RpcUnbind
<1>18. CASE Boot \/ StartRouter \/ StopConversations \/ SaveBindings \/ Die
  BY <1>5, <1>6, <1>7, <1>8, <1>9, <1>10, <1>11, <1>12, <1>13, <1>18
     DEF Boot, StartRouter, StopConversations, SaveBindings, Die
<1> QED
  BY BindingsStay, <1>4, <1>15, <1>16, <1>17, <1>18

\* Who moves routing, coordinator and manager.
LEMMA PhaseStays ==
    ASSUME Next
    PROVE  \/ UNCHANGED <<routing, coord, phase>>
           \/ Boot \/ StartRouter \/ StopRouter \/ BeginShutdown \/ EndShutdown
           \/ StopConversations \/ SaveBindings \/ Die
<1>1. ASSUME NEW m \in Message,
             \/ HandleInbound(m) \/ RpcSpawn(m) \/ Handler(m)
             \/ SpawnFails(m) \/ ContinueThrows(m)
      PROVE  UNCHANGED <<routing, coord, phase>>
  BY <1>1 DEF HandleInbound, RpcSpawn, Handler, CallSpawn, Spawned, LoadCheckpoint,
              CallContinue, ReadCheckpoint, Continued, ContinueFails, SpawnFails,
              ContinueThrows, convVars
<1>2. ASSUME NEW m \in Message,
             Run(m) \/ RpcTerminate(m) \/ RpcPause(m) \/ RpcResume(m)
      PROVE  UNCHANGED <<routing, coord, phase>>
  BY <1>2 DEF Run, TakeFollowUp, Complete, Fail, RpcTerminate, RpcPause, RpcResume,
              convVars
<1>3. ASSUME NEW w, OpenWrite(w) \/ CloseWrite(w)
      PROVE  UNCHANGED <<routing, coord, phase>>
  BY <1>3 DEF OpenWrite, CloseWrite, convVars
<1>4. ASSUME NEW d, NewCommand(d) \/ RpcUnbind(d)
      PROVE  UNCHANGED <<routing, coord, phase>>
  BY <1>4 DEF NewCommand, RpcUnbind
<1> QED
  BY <1>1, <1>2, <1>3, <1>4 DEF Next, Shutdown, CleanExit, Crash

\* A handler starts only while the router serves.
LEMMA HandlersStart ==
    ASSUME Next, task \in [Message -> Task], NEW m \in Message,
           task[m].pc \in Settled \cup {"none"},
           task'[m].pc \notin Settled \cup {"none"}
    PROVE  routing /\ UNCHANGED <<routing, coord, phase>>
<1>1. CASE UNCHANGED task
  BY <1>1
<1>2. CASE Die
  BY <1>2 DEF Die
<1>3. ASSUME NEW x \in Message, HandleInbound(x) \/ RpcSpawn(x)
      PROVE  routing /\ UNCHANGED <<routing, coord, phase>>
  BY <1>3 DEF HandleInbound, RpcSpawn, convVars
<1>4. ASSUME NEW x \in Message,
             Handler(x) \/ SpawnFails(x) \/ ContinueThrows(x)
      PROVE  FALSE
  <2>1. task[x].pc \notin Settled \cup {"none"}
    BY <1>4 DEF Handler, CallSpawn, Spawned, LoadCheckpoint, CallContinue,
                ReadCheckpoint, Continued, SpawnFails, ContinueThrows, Settled
  <2>2. \A y \in Message : y # x => task'[y] = task[y]
    BY <1>4 DEF Handler, CallSpawn, Spawned, LoadCheckpoint, CallContinue,
                ReadCheckpoint, Continued, ContinueFails, SpawnFails, ContinueThrows,
                Goto
  <2> QED
    BY <2>1, <2>2
<1> QED
  BY TasksStay, <1>1, <1>2, <1>3, <1>4

LEMMA PhasedKept ==
    ASSUME RouterInv, Next
    PROVE  /\ Phased'
           /\ routing' \in BOOLEAN
           /\ coord' \in {"running", "stopping", "stopped"}
<1>0. /\ Phased /\ task \in [Message -> Task] /\ routing \in BOOLEAN
      /\ coord \in {"running", "stopping", "stopped"}
  BY DEF RouterInv, RouterTypeOK
<1> DEFINE Working == \E m \in Message : task[m].pc \notin Settled \cup {"none"}
           WorkingNext == \E m \in Message : task'[m].pc \notin Settled \cup {"none"}
<1>1. ASSUME WorkingNext, ~Working
      PROVE  routing /\ UNCHANGED <<routing, coord, phase>>
  BY <1>0, <1>1, HandlersStart
<1>2. Working => Serving
  BY <1>0 DEF Phased
<1>3. ASSUME /\ routing' => phase' = "up" /\ coord' = "running"
             /\ phase' = "loading" => coord' = "running"
             /\ WorkingNext => Serving'
             /\ routing' \in BOOLEAN /\ coord' \in {"running", "stopping", "stopped"}
      PROVE  /\ Phased'
             /\ routing' \in BOOLEAN /\ coord' \in {"running", "stopping", "stopped"}
  BY <1>3 DEF Phased
<1>4. Die => ~WorkingNext
  BY <1>0 DEF Die, Settled, Task
<1> HIDE DEF Working, WorkingNext
<1>5. CASE UNCHANGED <<routing, coord, phase>>
  BY <1>0, <1>1, <1>2, <1>3, <1>5 DEF Phased, Serving
<1>6. CASE Boot
  BY <1>0, <1>1, <1>2, <1>3, <1>6 DEF Boot, BeginLoad, Phased, Serving
<1>7. CASE StartRouter
  BY <1>0, <1>1, <1>2, <1>3, <1>7 DEF StartRouter, FinishLoad, FailLoad, Phased, Serving
<1>8. CASE StopRouter
  BY <1>0, <1>1, <1>2, <1>3, <1>8 DEF StopRouter, Phased, Serving, convVars
<1>9. CASE BeginShutdown
  BY <1>0, <1>1, <1>2, <1>3, <1>9 DEF BeginShutdown, Phased, Serving, convVars
<1>10. CASE EndShutdown
  BY <1>0, <1>1, <1>2, <1>3, <1>10 DEF EndShutdown, Phased, Serving, convVars
<1>11. CASE StopConversations
  BY <1>0, <1>1, <1>2, <1>3, <1>11
     DEF StopConversations, BeginStop, volatile, Phased, Serving
<1>12. CASE SaveBindings
  BY <1>0, <1>1, <1>2, <1>3, <1>12
     DEF SaveBindings, BeginWrite, EndWrite, Rename, FailSave, volatile, Phased, Serving
<1>13. CASE Die
  BY <1>3, <1>4, <1>13 DEF Die, Exit
<1> QED
  BY PhaseStays, <1>5, <1>6, <1>7, <1>8, <1>9, <1>10, <1>11, <1>12, <1>13

----------------------------------------------------------------------------
(* The invariant, and what follows from it.                                *)

LEMMA RouterInitInv == Init => RouterInv
<1> SUFFICES ASSUME Init PROVE RouterInv
  OBVIOUS
<1>1. ConvInv
  BY ConvInitInv DEF Init
<1>2. /\ NoBindings \in Table
      /\ \A d \in Destination : NoBindings[d] \notin Session
  BY Markers DEF NoBindings, Table
<1>3. Idle \in Task /\ Idle.pc = "none" /\ Idle.session = Null /\ Idle.loaded = <<>>
  BY DEF Idle, Task, Steps
<1>4. env \in Scenario
  BY ScenarioAssumption DEF Init
<1>5. RouterTypeOK
  BY <1>3, <1>4 DEF Init, RouterTypeOK
<1>6. Phased
  BY <1>3 DEF Init, ConvInit, Phased
<1>7. TablesOwned
  BY <1>2, Markers DEF Init, ConvInit, TablesOwned, Owned
<1>8. TasksOwned
  BY <1>3, Markers DEF Init, TasksOwned, SaidAt
<1>9. HandlesOwned /\ AgentsNamed
  BY DEF Init, HandlesOwned, AgentsNamed
<1>10. FilesOwned
  BY DEF Init, FilesOwned, Saved
<1> QED
  BY <1>1, <1>5, <1>6, <1>7, <1>8, <1>9, <1>10 DEF RouterInv

LEMMA RouterNextInv == RouterInv /\ [Next]_routerVars => RouterInv'
<1>1. ASSUME RouterInv, Next PROVE RouterInv'
  <2>1. from' = from /\ env' \in Scenario
    BY <1>1, FromStays DEF RouterInv, RouterTypeOK
  <2>2. TasksNext
    BY <1>1, TasksKept
  <2>3. HandlesNext
    BY <1>1, <2>1, <2>2, HandlesKept
  <2>4. FilesNext
    BY <1>1, <2>1, FilesKept
  <2>5. TablesOwned'
    BY <1>1, <2>1, <2>2, TablesKept
  <2>6. /\ Phased' /\ routing' \in BOOLEAN
        /\ coord' \in {"running", "stopping", "stopped"}
    BY <1>1, PhasedKept
  <2>7. ConvInv'
    BY <1>1, ConvStep, ConvNextInv DEF RouterInv
  <2> QED
    BY <2>1, <2>2, <2>3, <2>4, <2>5, <2>6, <2>7
       DEF RouterInv, RouterTypeOK, TasksNext, HandlesNext, FilesNext
<1>2. ASSUME RouterInv, UNCHANGED routerVars PROVE RouterInv'
  <2>1. /\ UNCHANGED <<byDestination, byAgent, disk, temp, snap, phase>>
        /\ UNCHANGED <<routing, coord, agents, handle, checkpoint, writes, task, env>>
        /\ from' = from
    BY <1>2 DEF routerVars, convVars, volatile, from
  <2>2. ConvInv'
    BY <1>2, <2>1, ConvNextInv DEF RouterInv, convVars
  <2>3. RouterTypeOK' /\ Phased' /\ AgentsNamed'
    BY <1>2, <2>1 DEF RouterInv, RouterTypeOK, Phased, Serving, AgentsNamed
  <2>4. TablesOwned' /\ TasksOwned' /\ HandlesOwned' /\ FilesOwned'
    BY <1>2, <2>1 DEF RouterInv, TablesOwned, Owned, TasksOwned, HandlesOwned,
                      FilesOwned, SaidAt, Saved
  <2> QED
    BY <2>2, <2>3, <2>4 DEF RouterInv
<1> QED
  BY <1>1, <1>2

LEMMA RouterSpecInv == Spec => []RouterInv
BY RouterInitInv, RouterNextInv, PTL DEF Spec

----------------------------------------------------------------------------
(* Where a follow-up goes.  Handle and instance each keep a status, and a   *)
(* message goes to an instance by the status of the handle: so the two must *)
(* tell the same, for every handle that a bound session leads to.           *)

\* Nothing fails, and the operator leaves the runs alone.
Untroubled == ~env.mayFail /\ env.ops \cap {"pause", "resume", "terminate"} = {}

\* A handle whose run has come to its end says so.
Honest(r) ==
    /\ r.unread = {}
    /\ r.inst \in {"running", "completed", "aborted"}
    /\ r.inst = "completed" => r.status = "completed"

\* What /new or a shutdown has aborted, no binding leads to.
AbortedIsLeft ==
    \A d \in Destination, s \in Session :
        byDestination[d] = s /\ agents[s] # Absent => handle[agents[s]].inst # "aborted"

\* Bindings are restored before there is a handle.
HandlesComeLater == phase \in {"down", "loading"} => \A s \in Session : agents[s] = Absent

Heard ==
    /\ \A h \in Message : handle[h] # Absent => Honest(handle[h])
    /\ AbortedIsLeft /\ HandlesComeLater

\* The environment stays as it is.
LEMMA UntroubledStays ==
    ASSUME env \in Scenario, Next
    PROVE  Untroubled' <=> Untroubled
<1>1. ASSUME NEW kind \in {"commands", "crashes", "exits"}, Spend(kind)
      PROVE  Untroubled' <=> Untroubled
  BY <1>1 DEF Spend, Untroubled, Scenario
<1>2. CASE UNCHANGED env
  BY <1>2 DEF Untroubled
<1>3. UNCHANGED env \/ \E kind \in {"commands", "crashes", "exits"} : Spend(kind)
  BY DEF Next, Boot, StartRouter, StopRouter, Shutdown, BeginShutdown, EndShutdown,
         StopConversations, SaveBindings, CleanExit, Crash, HandleInbound, RpcSpawn,
         Handler, CallSpawn, Spawned, LoadCheckpoint, CallContinue, ReadCheckpoint,
         Continued, ContinueFails, SpawnFails, ContinueThrows, Run, TakeFollowUp,
         Complete, Fail, RpcTerminate, RpcPause, RpcResume, NewCommand, RpcUnbind,
         Command, OpenWrite, CloseWrite
<1> QED
  BY <1>1, <1>2, <1>3

\* Unless a message's handler binds its own session, or the file is read, a session is
\* bound after a step only if it was before.
LEMMA BindingsShrink ==
    ASSUME RouterInv, Next
    PROVE  \/ \A d \in Destination, s \in Session : byDestination'[d] = s => byDestination[d] = s
           \/ \E m \in Message : Spawned(m)
           \/ phase = "loading" /\ StartRouter
<1> DEFINE Shrinks == \A d \in Destination, s \in Session : byDestination'[d] = s => byDestination[d] = s
<1>0. byDestination \in Table
  BY DEF RouterInv, ConvInv, ConvTypeOK
<1>1. ASSUME NEW d, Unbind(d) PROVE Shrinks
  BY <1>0, <1>1, Markers DEF Unbind, Table
<1>2. Clear => Shrinks
  BY Markers DEF Clear, NoBindings
<1>3. ASSUME NEW d, GetOrCreate(d) PROVE Shrinks
  BY <1>0, <1>3, Markers DEF GetOrCreate, WithEntry, Table
<1>4. UNCHANGED byDestination => Shrinks
  OBVIOUS
<1> HIDE DEF Shrinks
<1>5. Boot \/ StopConversations \/ UNCHANGED convVars => Shrinks
  BY <1>4 DEF Boot, BeginLoad, StopConversations, BeginStop, convVars
<1>6. SaveBindings => Shrinks
  BY <1>2, <1>4 DEF SaveBindings, BeginWrite, EndWrite, Rename, FailSave
<1>7. Die => Shrinks
  BY <1>2 DEF Die, Exit
<1>8. ASSUME NEW m \in Message, HandleInbound(m) \/ LoadCheckpoint(m) \/ ContinueFails(m)
      PROVE  Shrinks
  BY <1>1, <1>3, <1>4, <1>8 DEF HandleInbound, LoadCheckpoint, ContinueFails
<1>9. ASSUME NEW d, NewCommand(d) \/ RpcUnbind(d) PROVE Shrinks
  BY <1>1, <1>9 DEF NewCommand, RpcUnbind
<1>10. StartRouter => phase = "loading"
  BY DEF StartRouter, FinishLoad, FailLoad
<1> QED
  BY BindingsStay, <1>5, <1>6, <1>7, <1>8, <1>9, <1>10 DEF Shrinks

LEMMA LaterKept ==
    ASSUME RouterInv, Next, HandlesComeLater,
           \/ UNCHANGED agents \/ agents' = [s \in Session |-> Absent]
           \/ \E m \in Message : Spawned(m) \/ Continued(m)
    PROVE  HandlesComeLater'
<1> DEFINE Low == phase \in {"down", "loading"}
           LowNext == phase' \in {"down", "loading"}
<1>1. LowNext => Low \/ Die
  <2>1. CASE UNCHANGED phase
    BY <2>1
  <2>2. Boot \/ StartRouter \/ StopRouter \/ BeginShutdown \/ EndShutdown => (LowNext => Low)
    BY DEF Boot, BeginLoad, StartRouter, FinishLoad, FailLoad, StopRouter, BeginShutdown,
           EndShutdown, convVars
  <2>3. StopConversations \/ SaveBindings => ~LowNext
    BY DEF StopConversations, BeginStop, SaveBindings, BeginWrite, EndWrite, Rename, FailSave
  <2> QED
    BY PhaseStays, <2>1, <2>2, <2>3
<1>2. ASSUME NEW m \in Message, Spawned(m) \/ Continued(m) PROVE ~LowNext
  <2>1. task[m].pc \notin Settled \cup {"none"}
    BY <1>2 DEF Spawned, Continued, Settled
  <2>2. Serving
    BY <2>1, WorkingIsServed DEF RouterInv
  <2> QED
    BY <1>2, <2>2 DEF Spawned, Continued, Serving, convVars
<1>3. Die => agents' = [s \in Session |-> Absent]
  BY DEF Die
<1> QED
  BY <1>1, <1>2, <1>3 DEF HandlesComeLater

\* A new handle runs, and no other session leads to it.
LEMMA NewIsHeard ==
    ASSUME RouterInv, Heard, NEW m \in Message, NEW s \in Session, NEW history \in Seq(Message),
           task[m].pc \notin Settled,
           handle' = [handle EXCEPT ![m] = NewHandle(s, history)],
           agents' = [agents EXCEPT ![s] = m],
           \A d \in Destination, x \in Session : x # s /\ byDestination'[d] = x => byDestination[d] = x
    PROVE  (\A h \in Message : handle'[h] # Absent => Honest(handle'[h])) /\ AbortedIsLeft'
<1> DEFINE r == NewHandle(s, history)
<1>1. r.unread = {} /\ r.inst = "running"
  BY DEF NewHandle
<1>2. Honest(r) /\ r.inst # "aborted"
  BY <1>1 DEF Honest
<1>3. handle[m] = Absent
  BY DEF RouterInv, HandlesOwned
<1> HIDE DEF r
<1>4. /\ \A h \in Message : handle'[h] = IF h = m THEN r ELSE handle[h]
      /\ \A x \in Session : agents'[x] = IF x = s THEN m ELSE agents[x]
  BY DEF RouterInv, RouterTypeOK, r
<1>5. \A x \in Session : agents[x] # Absent => agents[x] \in Message /\ agents[x] # m
  BY <1>3 DEF RouterInv, RouterTypeOK, AgentsNamed
<1>6. AbortedIsLeft'
  <2> SUFFICES ASSUME NEW d \in Destination, NEW x \in Session, byDestination'[d] = x, agents'[x] # Absent
               PROVE  handle'[agents'[x]].inst # "aborted"
    BY DEF AbortedIsLeft
  <2>1. CASE x = s
    BY <1>2, <1>4, <2>1
  <2>2. CASE x # s
    BY <1>4, <1>5, <2>2 DEF Heard, AbortedIsLeft
  <2> QED
    BY <2>1, <2>2
<1> QED
  BY <1>2, <1>4, <1>6 DEF Heard

\* One handle goes on.
LEMMA OneIsHeard ==
    ASSUME RouterInv, Heard, NEW h \in Message, NEW r \in Handle, handle[h] # Absent,
           handle' = [handle EXCEPT ![h] = r], UNCHANGED agents,
           Honest(r), r.inst = handle[h].inst \/ r.inst # "aborted",
           \A d \in Destination, x \in Session : byDestination'[d] = x => byDestination[d] = x
    PROVE  (\A x \in Message : handle'[x] # Absent => Honest(handle'[x])) /\ AbortedIsLeft'
<1>1. \A x \in Message : handle'[x] = IF x = h THEN r ELSE handle[x]
  BY DEF RouterInv, RouterTypeOK
<1>2. \A x \in Session : agents[x] # Absent => agents[x] \in Message
  BY DEF RouterInv, RouterTypeOK
<1> QED
  BY <1>1, <1>2 DEF Heard, AbortedIsLeft

\* The handles of a session that is bound no more may be aborted.
LEMMA AbortedAreHeard ==
    ASSUME RouterInv, Heard, NEW hs \in SUBSET Message, Terminate(hs),
           \A h \in hs : handle[h] # Absent,
           \A d \in Destination, x \in Session :
                byDestination'[d] = x /\ agents'[x] # Absent =>
                    byDestination[d] = x /\ agents'[x] = agents[x] /\ agents[x] \notin hs
    PROVE  (\A x \in Message : handle'[x] # Absent => Honest(handle'[x])) /\ AbortedIsLeft'
<1> DEFINE ended(h) == [handle[h] EXCEPT !.inst = "aborted", !.status = "terminated"]
<1>1. ASSUME NEW h \in hs PROVE Honest(ended(h))
  <2>1. handle[h] \in Handle /\ Honest(handle[h])
    BY DEF RouterInv, RouterTypeOK, Heard
  <2>2. ended(h).inst = "aborted" /\ ended(h).unread = handle[h].unread
    BY <2>1 DEF Handle
  <2> QED
    BY <2>1, <2>2 DEF Honest
<1>2. \A h \in Message : handle'[h] = IF h \in hs THEN ended(h) ELSE handle[h]
  BY DEF Terminate
<1> HIDE DEF ended
<1>3. \A x \in Session : agents[x] # Absent => agents[x] \in Message
  BY DEF RouterInv, RouterTypeOK
<1>4. AbortedIsLeft'
  BY <1>2, <1>3 DEF Heard, AbortedIsLeft
<1> QED
  BY <1>1, <1>2, <1>4 DEF Heard

LEMMA HeardKept ==
    ASSUME RouterInv, Next, Untroubled, Heard
    PROVE  Heard'
<1> DEFINE Shrinks == \A d \in Destination, s \in Session : byDestination'[d] = s => byDestination[d] = s
           Goal == (\A h \in Message : handle'[h] # Absent => Honest(handle'[h])) /\ AbortedIsLeft'
<1>0. /\ byDestination \in Table /\ handle \in [Message -> Handle \cup {Absent}]
      /\ agents \in [Session -> Message \cup {Absent}] /\ task \in [Message -> Task]
      /\ from \in [Message -> Destination]
  BY DEF RouterInv, RouterTypeOK, ConvInv, ConvTypeOK, Scenario, from
<1>1. CASE UNCHANGED <<handle, agents>>
  <2>1. ASSUME Shrinks PROVE Goal
    BY <1>1, <2>1 DEF Heard, AbortedIsLeft
  <2>2. ASSUME NEW m \in Message, Spawned(m) PROVE FALSE
    <3>1. handle'[m] # Absent /\ handle[m] = Absent
      <4>1. handle'[m] = NewHandle(m, <<m>>)
        BY <1>0, <2>2 DEF Spawned
      <4>2. <<m>> \in Seq(Message)
        OBVIOUS
      <4>3. NewHandle(m, <<m>>) \in Handle
        BY <4>2 DEF NewHandle, Handle
      <4> QED
        BY <2>2, <4>1, <4>3, HandleAssumption DEF Spawned, Settled, RouterInv, HandlesOwned
    <3> QED
      BY <1>1, <3>1
  <2>3. ASSUME phase = "loading", StartRouter PROVE Goal
    BY <1>1, <2>3 DEF Heard, AbortedIsLeft, HandlesComeLater
  <2>4. Goal
    BY BindingsShrink, <2>1, <2>2, <2>3
  <2> QED
    BY <1>1, <2>4, LaterKept DEF Heard
<1>2. ASSUME NEW m \in Message, HandleInbound(m) PROVE Heard'
  <2> DEFINE s == WithEntry(from[m])[from[m]]
  <2>0. Shrinks /\ UNCHANGED agents
    BY <1>0, <1>2, Markers DEF HandleInbound, GetOrCreate, WithEntry, Table
  <2>1. CASE UNCHANGED handle
    BY <1>1, <2>0, <2>1
  <2>2. CASE s # Null /\ agents[s] # Absent /\ handle[agents[s]].status # "completed" /\ Send(agents[s], m)
    <3>1. s \in Session /\ byDestination[from[m]] = s
      BY <1>0, <2>2, Markers DEF WithEntry, Table
    <3> DEFINE h == agents[s]
               r == [handle[h] EXCEPT !.queue = Append(@, m)]
    <3>2. h \in Message /\ handle[h] # Absent /\ handle[h] \in Handle
      BY <1>0, <2>2, <3>1 DEF RouterInv, AgentsNamed
    <3>3. Honest(handle[h]) /\ handle[h].inst # "aborted"
      BY <1>0, <2>2, <3>1, <3>2 DEF Heard, AbortedIsLeft
    <3>4. handle[h].inst = "running"
      BY <2>2, <3>3 DEF Honest
    <3>5. r \in Handle /\ r.inst = handle[h].inst /\ r.status = handle[h].status
          /\ r.unread = handle[h].unread
      <4>1. handle[h].queue \in Seq(Message)
        BY <3>2 DEF Handle
      <4>2. Append(handle[h].queue, m) \in Seq(Message)
        BY <4>1
      <4> HIDE DEF h, s
      <4> QED
        BY <3>2, <4>2 DEF Handle
    <3>6. handle' = [handle EXCEPT ![h] = r]
      BY <1>0, <2>2, <3>2, <3>4 DEF Send
    <3>7. Honest(r)
      BY <3>3, <3>5 DEF Honest
    <3> HIDE DEF h, r
    <3>8. Goal
      BY <2>0, <3>2, <3>5, <3>6, <3>7, OneIsHeard
    <3> QED
      BY <2>0, <3>8, LaterKept DEF Heard
  <2> QED
    BY <1>2, <2>1, <2>2 DEF HandleInbound
<1>3. ASSUME NEW m \in Message, Spawned(m) PROVE Heard'
  <2>1. /\ task[m].pc \notin Settled /\ <<m>> \in Seq(Message)
        /\ handle' = [handle EXCEPT ![m] = NewHandle(m, <<m>>)] /\ agents' = [agents EXCEPT ![m] = m]
    BY <1>3 DEF Spawned, Settled
  <2>2. \A d \in Destination, x \in Session : x # m /\ byDestination'[d] = x => byDestination[d] = x
    BY <1>0, <1>3 DEF Spawned, Bind, Table
  <2>3. Goal
    BY <2>1, <2>2, NewIsHeard
  <2> QED
    BY <1>3, <2>3, LaterKept DEF Heard
<1>4. ASSUME NEW m \in Message, Continued(m) PROVE Heard'
  <2> DEFINE s == task[m].session
             history == Append(task[m].loaded, m)
  <2>1. /\ task[m].pc = "resuming" /\ task[m].pc \notin Settled /\ UNCHANGED byDestination
        /\ handle' = [handle EXCEPT ![m] = NewHandle(s, history)] /\ agents' = [agents EXCEPT ![s] = m]
    BY <1>4 DEF Continued, Settled, convVars
  <2>2. s \in Session /\ history \in Seq(Message)
    <3>1. task[m].loaded \in Seq(Message)
      BY <1>0 DEF Task
    <3> QED
      BY <2>1, <3>1 DEF RouterInv, TasksOwned
  <2> HIDE DEF s, history
  <2>3. Goal
    BY <2>1, <2>2, NewIsHeard
  <2> QED
    BY <1>4, <2>3, LaterKept DEF Heard
<1>5. ASSUME NEW h \in Message, Run(h) PROVE Heard'
  <2>1. /\ UNCHANGED agents /\ UNCHANGED byDestination /\ handle[h] # Absent /\ handle[h] \in Handle
        /\ Honest(handle[h])
    <3>1. UNCHANGED agents /\ UNCHANGED byDestination /\ handle[h] # Absent
      BY <1>5 DEF Run, TakeFollowUp, Complete, Fail, convVars
    <3> QED
      BY <1>0, <3>1 DEF Heard
  <2>2. CASE TakeFollowUp(h)
    <3> DEFINE r == [handle[h] EXCEPT !.history = Append(@, Head(handle[h].queue)), !.queue = Tail(@)]
    <3>1. handle[h].queue \in Seq(Message) /\ handle[h].queue # <<>> /\ handle[h].history \in Seq(Message)
      BY <2>1, <2>2 DEF TakeFollowUp, Handle
    <3>2. Append(handle[h].history, Head(handle[h].queue)) \in Seq(Message) /\ Tail(handle[h].queue) \in Seq(Message)
      BY <3>1
    <3>3. /\ r \in Handle /\ r.inst = handle[h].inst /\ r.status = handle[h].status
          /\ r.unread = handle[h].unread
      BY <2>1, <3>2 DEF Handle
    <3>4. handle' = [handle EXCEPT ![h] = r]
      BY <1>0, <2>2 DEF TakeFollowUp
    <3>5. Honest(r)
      BY <2>1, <3>3 DEF Honest
    <3> HIDE DEF r
    <3>6. Goal
      BY <2>1, <3>3, <3>4, <3>5, OneIsHeard
    <3> QED
      BY <2>1, <3>6, LaterKept DEF Heard
  <2>3. CASE Complete(h)
    <3> DEFINE r == [handle[h] EXCEPT !.busy = FALSE, !.inst = "completed", !.status = "completed"]
    <3>1. /\ r \in Handle /\ r.inst = "completed" /\ r.status = "completed"
          /\ r.unread = handle[h].unread
      BY <2>1 DEF Handle
    <3>2. handle' = [handle EXCEPT ![h] = r]
      BY <1>0, <2>3 DEF Complete
    <3>3. Honest(r)
      BY <2>1, <3>1 DEF Honest
    <3> HIDE DEF r
    <3>4. Goal
      BY <2>1, <3>1, <3>2, <3>3, OneIsHeard
    <3> QED
      BY <2>1, <3>4, LaterKept DEF Heard
  <2> QED
    BY <1>5, <2>2, <2>3 DEF Run, Fail, Untroubled
<1>6. ASSUME NEW m \in Message, RpcTerminate(m) \/ RpcPause(m) \/ RpcResume(m) PROVE FALSE
  BY <1>6 DEF RpcTerminate, RpcPause, RpcResume, Command, Untroubled
<1>7. ASSUME NEW d \in Destination, NewCommand(d) PROVE Heard'
  <2> DEFINE hs == {agents[s] : s \in {x \in Session : byDestination[d] = x /\ agents[x] # Absent}}
  <2>1. Terminate(hs) /\ Unbind(d) /\ UNCHANGED agents
    BY <1>7 DEF NewCommand
  <2>2. \A h \in hs : \E s \in Session : h = agents[s] /\ byDestination[d] = s /\ agents[s] # Absent
    OBVIOUS
  <2> HIDE DEF hs
  <2>3. hs \subseteq Message /\ \A h \in hs : handle[h] # Absent /\ byDestination[d] = handle[h].session
    BY <1>0, <2>2 DEF RouterInv, AgentsNamed
  <2>4. ASSUME NEW e \in Destination, NEW x \in Session, byDestination'[e] = x, agents'[x] # Absent
        PROVE  byDestination[e] = x /\ agents'[x] = agents[x] /\ agents[x] \notin hs
    <3>1. byDestination[e] = x /\ e # d
      BY <1>0, <2>1, <2>4, Markers DEF Unbind, Table
    <3>2. byDestination[d] # x
      BY <3>1 DEF RouterInv, TablesOwned, Owned
    <3>3. handle[agents[x]].session = x
      BY <2>1, <2>4 DEF RouterInv, AgentsNamed
    <3> QED
      BY <2>1, <2>3, <3>1, <3>2, <3>3
  <2>5. Goal
    BY <2>1, <2>3, <2>4, AbortedAreHeard
  <2> QED
    BY <2>1, <2>5, LaterKept DEF Heard
<1>8. CASE EndShutdown
  <2> DEFINE hs == {h \in Message : /\ \E s \in Session : agents[s] = h
                                   /\ handle[h].status \in {"running", "paused"}}
  <2>1. Terminate(hs) /\ agents' = [s \in Session |-> Absent]
    BY <1>8 DEF EndShutdown
  <2>2. hs \subseteq Message /\ \A h \in hs : \E s \in Session : agents[s] = h
    OBVIOUS
  <2>3. \A h \in hs : handle[h] # Absent
    <3>1. Absent \notin Message
      BY ValuesAssumption
    <3> QED
      BY <2>2, <3>1 DEF RouterInv, AgentsNamed
  <2> HIDE DEF hs
  <2>4. Goal
    BY <2>1, <2>2, <2>3, AbortedAreHeard
  <2> QED
    BY <2>1, <2>4, LaterKept DEF Heard
<1>9. CASE Die
  <2>1. handle' = [m \in Message |-> Absent] /\ agents' = [s \in Session |-> Absent]
    BY <1>9 DEF Die
  <2>2. Goal
    BY <2>1 DEF AbortedIsLeft
  <2> QED
    BY <2>1, <2>2, LaterKept DEF Heard
<1> QED
  BY HandlesStay, <1>1, <1>2, <1>3, <1>4, <1>5, <1>6, <1>7, <1>8, <1>9

\* Heard holds at the start,
LEMMA HeardInitInv == Init => Heard
BY DEF Init, Heard, AbortedIsLeft, HandlesComeLater

\* and every step keeps it in an untroubled world.
LEMMA HeardNextInv ==
    RouterInv /\ (Untroubled => Heard) /\ [Next]_routerVars => (Untroubled' => Heard')
<1>1. ASSUME RouterInv, Untroubled => Heard, Next PROVE Untroubled' => Heard'
  <2>1. Untroubled' <=> Untroubled
    BY <1>1, UntroubledStays DEF RouterInv, RouterTypeOK
  <2> QED
    BY <1>1, <2>1, HeardKept
<1>2. ASSUME Untroubled => Heard, UNCHANGED routerVars PROVE Untroubled' => Heard'
  <2>1. UNCHANGED <<byDestination, phase, agents, handle, env>>
    BY <1>2 DEF routerVars, convVars, volatile
  <2> QED
    BY <1>2, <2>1 DEF Untroubled, Heard, AbortedIsLeft, HandlesComeLater
<1> QED
  BY <1>1, <1>2

\* A user who comes back is heard: a follow-up goes to a handle only while its run still
\* takes it, unless runs fail or an operator pauses, resumes or terminates one.
THEOREM FollowUpsAreHeard == Spec => []FollowUpsReachARun
<1> DEFINE Inv == RouterInv /\ (Untroubled => Heard)
<1>1. Init => Inv
  BY RouterInitInv, HeardInitInv
<1>2. Inv /\ [Next]_routerVars => Inv'
  BY RouterNextInv, HeardNextInv
<1>3. Inv => FollowUpsReachARun
  BY DEF FollowUpsReachARun, Untroubled, Heard, Honest
<1> QED
  BY <1>1, <1>2, <1>3, PTL DEF Spec

\* The variables of router, coordinator, agent handles, checkpoints and bindings
\* stay in their types.
THEOREM RouterTypeCorrect == Spec => []TypeOK
<1>1. RouterInv => TypeOK
  BY DEF RouterInv, ConvInv, TypeOK
<1> QED
  BY <1>1, RouterSpecInv, PTL

\* The router with its coordinator uses the conversation manager as module
\* Conversations supposes: every step of it is one of the manager, a call it
\* allows, or none, and a session id it binds is always fresh.
THEOREM RouterImplementsConversations == Spec => ConvSpec
<1>1. Init => ConvInit
  BY DEF Init
<1> QED
  BY <1>1, ConvStep, RouterSpecInv, PTL DEF Spec, ConvSpec

\* In the running daemon, whatever its users, operators and failures do, the
\* destination an agent's output goes to is the one it is bound to.
THEOREM RoutedWhereBound == Spec => []IndexesAgree
BY RouterImplementsConversations, RoutingAgrees, PTL

\* No interleaving of handlers, runs, saves, commands, crashes and restarts, for
\* any number of chats and messages, puts a message of one chat into the context,
\* the queue or the checkpoint of another chat's session, or binds a session
\* where it does not belong.
THEOREM ConversationsAreApart == Spec => []ConversationsStayApart
<1>1. RouterInv => ConversationsStayApart
  <2> SUFFICES ASSUME RouterInv, NEW s \in Session
               PROVE  /\ byAgent[s] \in {Absent, from[s]}
                      /\ Saved(checkpoint[s]) => SaidAt(from[s], checkpoint[s])
                      /\ \A w \in writes : w.session = s =>
                            SaidAt(from[s], w.history)
                      /\ \A h \in Message : handle[h] # Absent /\ handle[h].session = s =>
                            /\ SaidAt(from[s], handle[h].history)
                            /\ SaidAt(from[s], handle[h].queue)
                            /\ \A m \in handle[h].unread : from[m] = from[s]
    BY DEF ConversationsStayApart
  <2>1. byAgent[s] \in {Absent, from[s]}
    BY DEF RouterInv, ConvInv, ConvTypeOK, IndexesAgree, TablesOwned, Owned
  <2>2. Saved(checkpoint[s]) => SaidAt(from[s], checkpoint[s])
    BY DEF RouterInv, FilesOwned
  <2>3. \A w \in writes : w.session = s => SaidAt(from[s], w.history)
    BY DEF RouterInv, FilesOwned
  <2>4. ASSUME NEW h \in Message, handle[h] # Absent, handle[h].session = s
        PROVE  /\ SaidAt(from[s], handle[h].history)
               /\ SaidAt(from[s], handle[h].queue)
               /\ \A m \in handle[h].unread : from[m] = from[s]
    <3>1. from[s] = from[h]
      BY <2>4 DEF RouterInv, HandlesOwned
    <3> QED
      BY <2>4, <3>1 DEF RouterInv, HandlesOwned
  <2> QED
    BY <2>1, <2>2, <2>3, <2>4
<1> QED
  BY <1>1, RouterSpecInv, PTL

----------------------------------------------------------------------------
(* The promise to somebody who chats with the daemon.                      *)

(***************************************************************************)
(* The inductive invariant behind the refinement.  That the agent          *)
(* remembers the conversation is kept by three places in turn: the context *)
(* of the run, the save on its way to the file, and the file.  A session   *)
(* passes from one to the next only because a patient user leaves one      *)
(* thing on its way at a time, because the handle says what its instance   *)
(* does, and because a shutdown empties the coordinator before the         *)
(* bindings are written.                                                   *)
(***************************************************************************)
\* A handler that is not over.
Working(m) == task[m].pc \notin Settled \cup {"none"}

\* The world of a patient user: nothing fails, and the operator only says /new.
Peaceful == ~env.mayFail /\ env.crashes = 0 /\ env.ops \subseteq {"new"}

\* A chat has one thing on its way at a time: a handler, a run, or a save.
TakesTurns ==
    /\ \A m, n \in Message : Working(m) /\ Working(n) /\ from[m] = from[n] => m = n
    /\ \A m, h \in Message : Working(m) /\ handle[h] # Absent /\ from[h] = from[m] => ~handle[h].busy
    /\ \A m \in Message, w \in writes : Working(m) => from[w.session] # from[m]
    /\ \A g, h \in Message :
          handle[g] # Absent /\ handle[h] # Absent /\ handle[g].busy /\ handle[h].busy /\ from[g] = from[h]
             => g = h
    /\ \A h \in Message, w \in writes : handle[h] # Absent /\ handle[h].busy => from[w.session] # from[h]
    /\ \A w, x \in writes : from[w.session] = from[x.session] => w = x
    /\ \A w \in writes : ~w.mixed

\* A handle says what its run does, has nothing queued, and while it runs it is the one
\* that answers for its session.
Plain ==
    \A h \in Message : handle[h] # Absent =>
        /\ handle[h].queue = <<>> /\ ~handle[h].held
        /\ handle[h].status \in {"running", "completed", "terminated"}
        /\ handle[h].busy <=> handle[h].status = "running"
        /\ handle[h].busy <=> handle[h].inst = "running"
        /\ handle[h].busy => agents[handle[h].session] = h

\* Once ingress has stopped nothing goes on; the coordinator's map is emptied before the
\* bindings are saved, and they no longer change.
WindsDown ==
    /\ ~routing => \A d \in Destination : Quiet(d)
    /\ coord = "stopped" => \A s \in Session : agents[s] = Absent
    /\ phase \in {"down", "saving", "writing", "written", "stopped"} => coord = "stopped"
    /\ phase \in {"saving", "writing", "written"} => snap = byDestination

\* What the agent of a bound session has heard is in its run, on its way to the file, or
\* in the file.
IsKept(s) ==
    /\ \A w \in writes : w.session = s =>
          agents[s] # Absent /\ w.history = handle[agents[s]].history
    /\ (agents[s] # Absent => ~handle[agents[s]].busy) /\ (\A w \in writes : w.session # s) =>
          /\ Saved(checkpoint[s])
          /\ agents[s] # Absent => checkpoint[s] = handle[agents[s]].history
MemoryIsKept == \A d \in Destination : CurrentTable[d] \in Session => IsKept(CurrentTable[d])

\* A handler works for the session that is bound, and has read what that one remembers.
WorksForBound ==
    \A m \in Message :
        /\ task[m].pc \in {"adapting", "spawning"} => byDestination[from[m]] \notin Session
        /\ task[m].pc \in {"loading", "readapting", "reading", "resuming"} =>
              byDestination[from[m]] = task[m].session
        /\ task[m].pc = "resuming" => task[m].loaded = Remembered(from[m])

\* Whatever is remembered anywhere has been delivered.
Delivered(seq) == \A i \in DOMAIN seq : task[seq[i]].pc \in Settled
RemembersDelivered ==
    /\ \A h \in Message : handle[h] # Absent => Delivered(handle[h].history)
    /\ \A s \in Session : Saved(checkpoint[s]) => Delivered(checkpoint[s])
    /\ \A w \in writes : Delivered(w.history)
    /\ \A m \in Message : Delivered(task[m].loaded)

Unhurried ==
    /\ Peaceful /\ TakesTurns /\ Plain /\ WindsDown /\ MemoryIsKept
    /\ WorksForBound /\ RemembersDelivered

Patience == env.patient => Unhurried

\* What a step does to the log.
NothingSaid == \A d \in Destination : Remembered(d)' = Remembered(d)

Tells(m) ==
    /\ \A d \in Destination : \A i \in DOMAIN Remembered(d) : Remembered(d)[i] # m
    /\ \A d \in Destination :
            Remembered(d)' = IF d = from[m] THEN Append(Remembered(d), m) ELSE Remembered(d)

Forgets(d) ==
    \A e \in Destination : Remembered(e)' = IF e = d THEN <<>> ELSE Remembered(e)

Told == NothingSaid \/ \E m \in Message : Tells(m)

\* The log grows or stays, or it starts over and that has cost a command.
Carries == Told /\ env'.commands = env.commands
StartsOver ==
    /\ \E d \in Destination : Forgets(d)
    /\ env.commands > 0 /\ env'.commands = env.commands - 1

----------------------------------------------------------------------------
(* What the invariants say of a session and its places.                    *)

\* The variables, and the table that counts, have their types.
LEMMA RouterTypes ==
    ASSUME RouterInv
    PROVE  /\ handle \in [Message -> Handle \cup {Absent}]
           /\ agents \in [Session -> Message \cup {Absent}]
           /\ checkpoint \in [Session -> Seq(Message) \cup {Absent, Torn}]
           /\ writes \subseteq CheckpointWrite
           /\ task \in [Message -> Task]
           /\ env \in Scenario
           /\ from \in [Message -> Destination]
           /\ byDestination \in Table
           /\ CurrentTable \in Table
<1>1. byDestination \in Table /\ disk \in Table \cup {Absent, Torn} /\ NoBindings \in Table
  BY DEF RouterInv, ConvInv, ConvTypeOK, NoBindings, Table
<1>2. CurrentTable \in Table
  BY <1>1 DEF CurrentTable
<1> QED
  BY <1>1, <1>2 DEF RouterInv, RouterTypeOK, Scenario, from

\* A session is bound where the message that made it came from.
LEMMA CurrentIsOwned ==
    ASSUME RouterInv, NEW d \in Destination, CurrentTable[d] \in Session
    PROVE  from[CurrentTable[d]] = d /\ task[CurrentTable[d]].pc \in Settled
<1>1. CurrentTable \in {byDestination, NoBindings} \/ (CurrentTable = disk /\ disk \in Table)
  BY DEF CurrentTable, RouterInv, ConvInv, ConvTypeOK
<1>2. CurrentTable # NoBindings
  BY Markers DEF NoBindings
<1> QED
  BY <1>1, <1>2 DEF RouterInv, TablesOwned, Owned

\* The handle that answers for a session is one of it, and of its chat.
LEMMA AgentIsOwned ==
    ASSUME RouterInv, NEW s \in Session, agents[s] # Absent
    PROVE  /\ agents[s] \in Message /\ handle[agents[s]] # Absent
           /\ handle[agents[s]] \in Handle
           /\ handle[agents[s]].session = s /\ from[agents[s]] = from[s]
BY RouterTypes DEF RouterInv, AgentsNamed, HandlesOwned

\* So is a handle that is there.
LEMMA HandleIsOwned ==
    ASSUME RouterInv, NEW h \in Message, handle[h] # Absent
    PROVE  /\ handle[h] \in Handle /\ handle[h].session \in Session
           /\ handle[h].history \in Seq(Message) /\ handle[h].queue \in Seq(Message)
           /\ handle[h].busy \in BOOLEAN
           /\ from[handle[h].session] = from[h] /\ task[h].pc \in Settled
<1>1. handle[h] \in Handle /\ from[handle[h].session] = from[h] /\ task[h].pc \in Settled
  BY RouterTypes DEF RouterInv, HandlesOwned
<1>2. /\ handle[h].session \in Session /\ handle[h].busy \in BOOLEAN
      /\ handle[h].history \in Seq(Message) /\ handle[h].queue \in Seq(Message)
  BY <1>1 DEF Handle
<1> QED
  BY <1>1, <1>2

\* So has a save in flight.
LEMMA WriteIsTyped ==
    ASSUME RouterInv, NEW w \in writes
    PROVE  /\ w \in CheckpointWrite /\ w.session \in Session /\ w.history \in Seq(Message)
           /\ from[w.session] \in Destination
           /\ w.open \in BOOLEAN /\ w.mixed \in BOOLEAN
BY RouterTypes DEF CheckpointWrite

\* While ingress is open the bindings in memory count.
LEMMA CurrentIsMemory ==
    ASSUME phase = "up"
    PROVE  CurrentTable = byDestination
BY DEF CurrentTable

\* A handler, a run or a save is only on its way while ingress is open.
LEMMA AtWorkIsUp ==
    ASSUME RouterInv, WindsDown,
           \/ \E m \in Message : Working(m)
           \/ \E h \in Message : handle[h] # Absent /\ handle[h].busy
           \/ writes # {}
    PROVE  routing /\ phase = "up" /\ coord = "running" /\ CurrentTable = byDestination
<1>1. routing
  <2>1. ASSUME NEW m \in Message, Working(m), ~routing PROVE FALSE
    BY <2>1, RouterTypes DEF WindsDown, Quiet, Working
  <2>2. ASSUME NEW h \in Message, handle[h] # Absent, handle[h].busy, ~routing PROVE FALSE
    BY <2>2, RouterTypes DEF WindsDown, Quiet
  <2>3. ASSUME NEW w \in writes, ~routing PROVE FALSE
    BY <2>3, WriteIsTyped DEF WindsDown, Quiet
  <2> QED
    BY <2>1, <2>2, <2>3
<1> QED
  BY <1>1, CurrentIsMemory DEF RouterInv, Phased

\* A bound session with nothing on its way is in its file.
LEMMA KeptIsSaved ==
    ASSUME RouterInv, MemoryIsKept, NEW d \in Destination, CurrentTable[d] \in Session,
           \A h \in Message : handle[h] # Absent /\ from[h] = d => ~handle[h].busy,
           \A w \in writes : from[w.session] # d
    PROVE  /\ Saved(checkpoint[CurrentTable[d]])
           /\ agents[CurrentTable[d]] # Absent =>
                checkpoint[CurrentTable[d]] = handle[agents[CurrentTable[d]]].history
<1> DEFINE s == CurrentTable[d]
<1>1. from[s] = d /\ IsKept(s)
  BY CurrentIsOwned DEF MemoryIsKept
<1>2. agents[s] # Absent => ~handle[agents[s]].busy
  BY <1>1, AgentIsOwned
<1>3. \A w \in writes : w.session # s
  BY <1>1
<1> HIDE DEF s
<1>4. Saved(checkpoint[s]) /\ (agents[s] # Absent => checkpoint[s] = handle[agents[s]].history)
  BY <1>1, <1>2, <1>3 DEF IsKept
<1> QED
  BY <1>4 DEF s

\* What is remembered at a place, when handles have nothing queued.
LEMMA RemembersPlainly ==
    ASSUME RouterInv, Plain, NEW d \in Destination
    PROVE  LET s == CurrentTable[d]
           IN  Remembered(d) = IF s \notin Session THEN <<>>
                               ELSE IF agents[s] # Absent THEN handle[agents[s]].history
                               ELSE IF Saved(checkpoint[s]) THEN checkpoint[s] ELSE <<>>
<1> DEFINE s == CurrentTable[d]
<1>1. ASSUME s \in Session, agents[s] # Absent
      PROVE  handle[agents[s]].history \o handle[agents[s]].queue = handle[agents[s]].history
  <2>1. /\ handle[agents[s]].history \in Seq(Message)
        /\ handle[agents[s]].queue = <<>>
    BY <1>1, AgentIsOwned, HandleIsOwned DEF Plain
  <2> QED
    BY <2>1
<1> QED
  BY <1>1 DEF Remembered

\* Memory stays while the session's places do.
LEMMA MemoryStays ==
    ASSUME NEW d \in Destination, CurrentTable'[d] = CurrentTable[d],
           CurrentTable[d] \in Session =>
                /\ agents'[CurrentTable[d]] = agents[CurrentTable[d]]
                /\ agents[CurrentTable[d]] # Absent =>
                        /\ handle'[agents[CurrentTable[d]]].history = handle[agents[CurrentTable[d]]].history
                        /\ handle'[agents[CurrentTable[d]]].queue = handle[agents[CurrentTable[d]]].queue
                /\ agents[CurrentTable[d]] = Absent =>
                        checkpoint'[CurrentTable[d]] = checkpoint[CurrentTable[d]]
    PROVE  Remembered(d)' = Remembered(d)
BY DEF Remembered, Saved

\* What is remembered has been delivered.
LEMMA RememberedIsDelivered ==
    ASSUME RouterInv, Plain, RemembersDelivered, NEW d \in Destination
    PROVE  Remembered(d) \in Seq(Message) /\ Delivered(Remembered(d))
<1> DEFINE s == CurrentTable[d]
<1>0. <<>> \in Seq(Message) /\ Delivered(<<>>)
  BY DEF Delivered
<1>1. CASE s \notin Session
  <2>1. Remembered(d) = <<>>
    BY <1>1, RemembersPlainly
  <2> QED
    BY <1>0, <2>1
<1>2. CASE s \in Session /\ agents[s] # Absent
  BY <1>2, RemembersPlainly, AgentIsOwned, HandleIsOwned DEF RemembersDelivered
<1>3. CASE s \in Session /\ agents[s] = Absent
  <2>1. Saved(checkpoint[s]) => checkpoint[s] \in Seq(Message) /\ Delivered(checkpoint[s])
    BY <1>3, RouterTypes DEF RemembersDelivered, Saved
  <2>2. Remembered(d) = IF Saved(checkpoint[s]) THEN checkpoint[s] ELSE <<>>
    BY <1>3, RemembersPlainly
  <2> QED
    BY <1>0, <2>1, <2>2
<1> QED
  BY <1>1, <1>2, <1>3

----------------------------------------------------------------------------
(* The steps of a patient user's world.                                    *)

\* The environment of a patient user stays one.
LEMMA PeaceStays ==
    ASSUME env \in Scenario, Next
    PROVE  env'.patient = env.patient /\ (Peaceful => Peaceful')
<1>1. ASSUME NEW kind \in {"commands", "crashes", "exits"}, Spend(kind)
      PROVE  env'.patient = env.patient /\ (Peaceful => Peaceful')
  BY <1>1 DEF Spend, Peaceful, Scenario
<1>2. CASE UNCHANGED env
  BY <1>2 DEF Peaceful
<1>3. UNCHANGED env \/ \E kind \in {"commands", "crashes", "exits"} : Spend(kind)
  BY DEF Next, Boot, StartRouter, StopRouter, Shutdown, BeginShutdown, EndShutdown,
         StopConversations, SaveBindings, CleanExit, Crash, HandleInbound, RpcSpawn,
         Handler, CallSpawn, Spawned, LoadCheckpoint, CallContinue, ReadCheckpoint,
         Continued, ContinueFails, SpawnFails, ContinueThrows, Run, TakeFollowUp,
         Complete, Fail, RpcTerminate, RpcPause, RpcResume, NewCommand, RpcUnbind,
         Command, OpenWrite, CloseWrite
<1> QED
  BY <1>1, <1>2, <1>3

\* Nothing fails, no follow-up lies in a queue, and /new is the only command.
LEMMA PatientActs ==
    ASSUME RouterInv, Peaceful, Plain, Next
    PROVE  \/ Boot \/ (StartRouter /\ FinishLoad) \/ StopRouter \/ Shutdown
           \/ \E m \in Message : HandleInbound(m) \/ Handler(m) \/ Complete(m)
           \/ \E w \in writes : OpenWrite(w) \/ CloseWrite(w)
           \/ \E d \in Destination : NewCommand(d)
<1>1. ~Crash
  BY RouterTypes DEF Crash, Spend, Peaceful, Scenario
<1>2. ASSUME NEW m \in Message
      PROVE  /\ ~RpcSpawn(m) /\ ~SpawnFails(m) /\ ~ContinueThrows(m) /\ ~Fail(m)
             /\ ~RpcTerminate(m) /\ ~RpcPause(m) /\ ~RpcResume(m)
  BY DEF RpcSpawn, SpawnFails, ContinueThrows, Fail, RpcTerminate, RpcPause, RpcResume,
         Command, Peaceful
<1>3. ASSUME NEW m \in Message PROVE ~TakeFollowUp(m)
  BY DEF TakeFollowUp, Plain
<1>4. \A d \in Destination : ~RpcUnbind(d)
  BY DEF RpcUnbind, Command, Peaceful
<1>5. StartRouter => StartRouter /\ FinishLoad
  BY DEF StartRouter, Peaceful
<1> QED
  BY <1>1, <1>2, <1>3, <1>4, <1>5 DEF Next, Run

----------------------------------------------------------------------------
(* Start and stop.                                                         *)

Still == UNCHANGED <<agents, handle, checkpoint, writes, task>>

\* The bindings that count pass from memory to the file and back; nothing is
\* on its way when memory lets go of them.
LEMMA StillKeeps ==
    ASSUME RouterInv, Unhurried, from' = from, Still, Peaceful', WindsDown',
           CurrentTable' = CurrentTable,
           UNCHANGED byDestination \/ \A m \in Message : ~Working(m)
    PROVE  Unhurried' /\ Told
<1>1. NothingSaid
  BY MemoryStays DEF Still, NothingSaid
<1>2. TakesTurns' /\ Plain'
  BY DEF Unhurried, TakesTurns, Plain, Working, Still
<1>3. MemoryIsKept'
  BY DEF Unhurried, MemoryIsKept, IsKept, Still, Saved
<1>4. WorksForBound'
  <2>1. CASE UNCHANGED byDestination
    BY <1>1, <2>1, RouterTypes DEF Unhurried, WorksForBound, Still, NothingSaid
  <2>2. CASE \A m \in Message : ~Working(m)
    BY <2>2 DEF Working, WorksForBound, Still, Settled
  <2> QED
    BY <2>1, <2>2
<1>5. RemembersDelivered'
  BY DEF Unhurried, RemembersDelivered, Delivered, Still, Saved
<1> QED
  BY <1>1, <1>2, <1>3, <1>4, <1>5 DEF Unhurried, Told

\* Bindings that were read or written say the same.
LEMMA TableIsRestored ==
    ASSUME RouterInv
    PROVE  /\ Boot => CurrentTable' = CurrentTable /\ UNCHANGED byDestination
           /\ FinishLoad => CurrentTable' = CurrentTable
           /\ BeginStop \/ BeginWrite \/ EndWrite =>
                    CurrentTable' = CurrentTable /\ UNCHANGED byDestination
           /\ Rename /\ snap = byDestination => CurrentTable' = CurrentTable
<1>0. /\ disk \in Table \cup {Absent, Torn} /\ byDestination \in Table
      /\ phase = "written" => temp = snap
  BY DEF RouterInv, ConvInv, ConvTypeOK
<1>1. Boot => CurrentTable' = CurrentTable /\ UNCHANGED byDestination
  BY DEF Boot, BeginLoad, CurrentTable
<1>2. FinishLoad => CurrentTable' = CurrentTable
  BY DEF FinishLoad, Restore, CurrentTable
<1>3. BeginStop \/ BeginWrite \/ EndWrite => CurrentTable' = CurrentTable /\ UNCHANGED byDestination
  BY DEF BeginStop, BeginWrite, EndWrite, CurrentTable
<1>4. Rename /\ snap = byDestination => CurrentTable' = CurrentTable
  BY <1>0, Markers DEF Rename, CurrentTable
<1> QED
  BY <1>1, <1>2, <1>3, <1>4

\* Nothing is on its way once ingress has stopped.
LEMMA DownIsQuiet ==
    ASSUME RouterInv, WindsDown, ~routing
    PROVE  /\ \A m \in Message : ~Working(m)
           /\ \A h \in Message : handle[h] # Absent => ~handle[h].busy
           /\ writes = {}
BY AtWorkIsUp

\* How a quiet place shows in the next state.
LEMMA QuietStays ==
    ASSUME from' = from, UNCHANGED <<handle, writes, task>>, NEW d, Quiet(d)
    PROVE  Quiet(d)'
BY DEF Quiet

\* Starting, stopping and saving the bindings.
LEMMA ManagerKeepsPatience ==
    ASSUME RouterInv, env.patient, Unhurried, from' = from, Peaceful',
           \/ Boot \/ (StartRouter /\ FinishLoad) \/ StopRouter \/ BeginShutdown
           \/ StopConversations \/ (SaveBindings /\ (BeginWrite \/ EndWrite \/ Rename))
    PROVE  Unhurried' /\ Told
<1>0. /\ WindsDown /\ Phased
      /\ phase # "up" => ~routing
  BY DEF Unhurried, RouterInv, Phased
<1>1. CASE Boot
  <2>1. Still /\ UNCHANGED routing /\ coord' = "running" /\ phase' = "loading"
    BY <1>1 DEF Boot, BeginLoad, Still
  <2>2. WindsDown'
    BY <1>0, <2>1, QuietStays DEF WindsDown, Still
  <2> QED
    BY <1>1, <2>1, <2>2, TableIsRestored, StillKeeps
<1>2. CASE StartRouter /\ FinishLoad
  <2>1. Still /\ routing' = TRUE /\ UNCHANGED coord /\ phase = "loading" /\ phase' = "up"
    BY <1>2 DEF StartRouter, FinishLoad, Still
  <2>2. WindsDown'
    BY <1>0, <2>1 DEF WindsDown, Still
  <2>3. \A m \in Message : ~Working(m)
    BY <1>0, <2>1, DownIsQuiet
  <2> QED
    BY <1>2, <2>1, <2>2, <2>3, TableIsRestored, StillKeeps
<1>3. CASE StopRouter
  <2>1. Still /\ routing' = FALSE /\ UNCHANGED <<coord, convVars>> /\ \A d \in Destination : Quiet(d)
    BY <1>3 DEF StopRouter, Still
  <2>2. UNCHANGED <<phase, snap, byDestination>> /\ CurrentTable' = CurrentTable
    BY <2>1 DEF convVars, CurrentTable
  <2>3. WindsDown'
    BY <1>0, <2>1, <2>2, QuietStays DEF WindsDown, Still
  <2> QED
    BY <2>1, <2>2, <2>3, StillKeeps
<1>4. CASE BeginShutdown
  <2>1. Still /\ coord' = "stopping" /\ phase = "up" /\ UNCHANGED <<routing, convVars>>
    BY <1>4 DEF BeginShutdown, Still
  <2>2. UNCHANGED <<phase, snap, byDestination>> /\ CurrentTable' = CurrentTable
    BY <2>1 DEF convVars, CurrentTable
  <2>3. WindsDown'
    BY <1>0, <2>1, <2>2, QuietStays DEF WindsDown, Still
  <2> QED
    BY <2>1, <2>2, <2>3, StillKeeps
<1>5. CASE StopConversations
  <2>1. /\ Still /\ BeginStop /\ coord = "stopped" /\ UNCHANGED <<routing, coord, byDestination>>
        /\ snap' = byDestination /\ phase' = "saving"
    BY <1>5 DEF StopConversations, BeginStop, Still, volatile
  <2>2. WindsDown'
    BY <1>0, <2>1, QuietStays DEF WindsDown, Still
  <2> QED
    BY <2>1, <2>2, TableIsRestored, StillKeeps
<1>6. CASE SaveBindings /\ (BeginWrite \/ EndWrite)
  <2>1. /\ Still /\ UNCHANGED <<routing, coord, byDestination, snap>>
        /\ phase \in {"saving", "writing"} /\ phase' \in {"writing", "written"}
    BY <1>6 DEF SaveBindings, BeginWrite, EndWrite, Still, volatile
  <2>2. WindsDown'
    BY <1>0, <2>1, QuietStays DEF WindsDown, Still
  <2> QED
    BY <1>6, <2>1, <2>2, TableIsRestored, StillKeeps
<1>7. CASE SaveBindings /\ Rename
  <2>1. /\ Still /\ UNCHANGED <<routing, coord>>
        /\ phase = "written" /\ phase' = "stopped"
    BY <1>7 DEF SaveBindings, Rename, Still, volatile
  <2>2. WindsDown' /\ snap = byDestination
    BY <1>0, <2>1, QuietStays DEF WindsDown, Still
  <2>3. \A m \in Message : ~Working(m)
    BY <1>0, <2>1, DownIsQuiet
  <2> QED
    BY <1>7, <2>1, <2>2, <2>3, TableIsRestored, StillKeeps
<1> QED
  BY <1>1, <1>2, <1>3, <1>4, <1>5, <1>6, <1>7

----------------------------------------------------------------------------
(* Handlers.                                                               *)

\* Nothing but this handler is on its way in its chat.
Alone(m) ==
    /\ \A n \in Message : Working(n) /\ from[n] = from[m] => n = m
    /\ \A h \in Message : handle[h] # Absent /\ from[h] = from[m] => ~handle[h].busy
    /\ \A w \in writes : from[w.session] # from[m]

\* Where a handler works nothing else is on its way,
LEMMA WorkingIsAlone ==
    ASSUME TakesTurns, NEW m \in Message, Working(m)
    PROVE  Alone(m)
BY DEF TakesTurns, Alone

\* and where the last turn is over nothing is.
LEMMA QuietIsAlone ==
    ASSUME NEW m \in Message, Quiet(from[m])
    PROVE  Alone(m)
BY DEF Quiet, Alone, Working

\* A session that is bound where nothing is on its way is remembered by its file.
LEMMA AloneIsSaved ==
    ASSUME RouterInv, Unhurried, NEW m \in Message, Alone(m), CurrentTable[from[m]] \in Session
    PROVE  /\ Saved(checkpoint[CurrentTable[from[m]]])
           /\ checkpoint[CurrentTable[from[m]]] = Remembered(from[m])
<1> DEFINE s == CurrentTable[from[m]]
<1>1. from[m] \in Destination
  BY RouterTypes
<1>2. Saved(checkpoint[s]) /\ (agents[s] # Absent => checkpoint[s] = handle[agents[s]].history)
  BY <1>1, KeptIsSaved DEF Alone, Unhurried
<1> QED
  BY <1>1, <1>2, RemembersPlainly DEF Unhurried

\* What was delivered stays delivered, wherever it is remembered.
Settles(seq) == \A i \in DOMAIN seq : task'[seq[i]].pc \in Settled

LEMMA DeliveredStays ==
    ASSUME RouterInv, RemembersDelivered, TasksNext
    PROVE  /\ \A h \in Message : handle[h] # Absent => Settles(handle[h].history)
           /\ \A s \in Session : Saved(checkpoint[s]) => Settles(checkpoint[s])
           /\ \A w \in writes : Settles(w.history)
           /\ \A m \in Message : Settles(task[m].loaded)
<1>1. ASSUME NEW seq \in Seq(Message), Delivered(seq) PROVE Settles(seq)
  <2>1. \A i \in DOMAIN seq : seq[i] \in Message
    OBVIOUS
  <2> QED
    BY <1>1, <2>1 DEF Delivered, Settles, TasksNext
<1>2. \A h \in Message : handle[h] # Absent => Settles(handle[h].history)
  BY <1>1, HandleIsOwned DEF RemembersDelivered
<1>3. \A s \in Session : Saved(checkpoint[s]) => Settles(checkpoint[s])
  BY <1>1, RouterTypes DEF RemembersDelivered, Saved
<1>4. \A w \in writes : Settles(w.history)
  BY <1>1, WriteIsTyped DEF RemembersDelivered
<1>5. \A m \in Message : task[m].loaded \in Seq(Message)
  BY RouterTypes DEF Task
<1> QED
  BY <1>1, <1>2, <1>3, <1>4, <1>5 DEF RemembersDelivered

\* A handler goes on by itself, for the session that is bound.
LEMMA HandlerKeepsPatience ==
    ASSUME RouterInv, Unhurried, TasksNext, from' = from, Peaceful', routing,
           NEW m \in Message, Alone(m), NEW r \in Task, task' = [task EXCEPT ![m] = r],
           UNCHANGED <<routing, coord, phase, snap, agents, handle, checkpoint, writes>>,
           \A d \in Destination :
                \/ byDestination'[d] = byDestination[d]
                \/ d = from[m] /\ byDestination[d] \notin Session /\ byDestination'[d] \notin Session,
           r.pc \in {"adapting", "spawning"} => byDestination'[from[m]] \notin Session,
           r.pc \in {"loading", "readapting", "reading", "resuming"} =>
                byDestination'[from[m]] = r.session,
           r.pc = "resuming" => r.loaded = Remembered(from[m]),
           Delivered(r.loaded)
    PROVE  Unhurried' /\ Told
<1>0. /\ phase = "up" /\ CurrentTable = byDestination /\ CurrentTable' = byDestination'
      /\ \A n \in Message : task'[n] = IF n = m THEN r ELSE task[n]
      /\ \A n \in Message : from[n] \in Destination
  BY RouterTypes DEF RouterInv, Phased, CurrentTable
<1>1. NothingSaid
  <2> SUFFICES ASSUME NEW d \in Destination PROVE Remembered(d)' = Remembered(d)
    BY DEF NothingSaid
  <2>1. CASE CurrentTable'[d] = CurrentTable[d]
    BY <2>1, MemoryStays
  <2>2. CASE CurrentTable'[d] \notin Session /\ CurrentTable[d] \notin Session
    BY <2>2 DEF Remembered
  <2> QED
    BY <1>0, <2>1, <2>2
<1>2. TakesTurns'
  <2>1. \A n \in Message : Working(n)' => n = m \/ Working(n)
    BY <1>0 DEF Working
  <2>2. TakesTurns /\ Alone(m)
    BY DEF Unhurried
  <2>3. \A n, x \in Message : Working(n)' /\ Working(x)' /\ from[n] = from[x] => n = x
    BY <2>1, <2>2 DEF TakesTurns, Alone
  <2>4. \A n, h \in Message : Working(n)' /\ handle[h] # Absent /\ from[h] = from[n] => ~handle[h].busy
    BY <2>1, <2>2 DEF TakesTurns, Alone
  <2>5. \A n \in Message, w \in writes : Working(n)' => from[w.session] # from[n]
    BY <2>1, <2>2 DEF TakesTurns, Alone
  <2> QED
    BY <2>2, <2>3, <2>4, <2>5 DEF TakesTurns
<1>3. Plain'
  BY DEF Unhurried, Plain
<1>4. WindsDown'
  BY <1>0 DEF Unhurried, WindsDown
<1>5. MemoryIsKept'
  BY <1>0 DEF Unhurried, MemoryIsKept, IsKept, Saved
<1>6. WorksForBound'
  <2> SUFFICES ASSUME NEW n \in Message
               PROVE  /\ task'[n].pc \in {"adapting", "spawning"} => byDestination'[from[n]] \notin Session
                      /\ task'[n].pc \in {"loading", "readapting", "reading", "resuming"} =>
                            byDestination'[from[n]] = task'[n].session
                      /\ task'[n].pc = "resuming" => task'[n].loaded = Remembered(from[n])'
    BY DEF WorksForBound
  <2>1. Remembered(from[n])' = Remembered(from[n])
    BY <1>0, <1>1 DEF NothingSaid
  <2>2. CASE n = m
    BY <1>0, <2>1, <2>2
  <2>3. CASE n # m
    <3>1. Working(n) => byDestination'[from[n]] = byDestination[from[n]]
      BY <1>0, <2>3 DEF Alone
    <3>2. task'[n] = task[n]
      BY <1>0, <2>3
    <3> QED
      BY <2>1, <3>1, <3>2 DEF Unhurried, WorksForBound, Working, Settled
  <2> QED
    BY <2>2, <2>3
<1>7. RemembersDelivered'
  <2>1. r.loaded \in Seq(Message) /\ \A i \in DOMAIN r.loaded : r.loaded[i] \in Message
    BY DEF Task
  <2>2. Settles(r.loaded)
    BY <2>1 DEF Settles, Delivered, TasksNext
  <2>3. \A n \in Message : Settles(task'[n].loaded)
    BY <1>0, <2>2, DeliveredStays DEF Unhurried
  <2> QED
    BY <2>3, DeliveredStays DEF Unhurried, RemembersDelivered, Delivered, Settles, Saved
<1> QED
  BY <1>1, <1>2, <1>3, <1>4, <1>5, <1>6, <1>7 DEF Unhurried, Told

\* To a patient user every handle that is bound has finished.
LEMMA BoundIsCompleted ==
    ASSUME RouterInv, Heard, Plain, NEW d \in Destination, Quiet(d),
           byDestination[d] \in Session, agents[byDestination[d]] # Absent
    PROVE  handle[agents[byDestination[d]]].status = "completed"
<1> DEFINE s == byDestination[d]
           h == agents[s]
<1>1. from[s] = d
  BY DEF RouterInv, TablesOwned, Owned
<1>2. h \in Message /\ handle[h] # Absent /\ from[h] = d
  BY <1>1, AgentIsOwned
<1>3. handle[h].inst # "aborted"
  BY DEF Heard, AbortedIsLeft
<1> HIDE DEF h, s
<1>4. ~handle[h].busy /\ Honest(handle[h])
  BY <1>2 DEF Quiet, Heard
<1>5. handle[h].inst # "running"
  BY <1>2, <1>4 DEF Plain
<1>6. handle[h].status = "completed"
  BY <1>3, <1>4, <1>5 DEF Honest
<1> QED
  BY <1>6 DEF h, s

\* A message finds its agent finished, in the file only, or not there.
LEMMA InboundKeepsPatience ==
    ASSUME RouterInv, Heard, Unhurried, TasksNext, from' = from, Peaceful', env.patient,
           NEW m \in Message, HandleInbound(m)
    PROVE  Unhurried' /\ Told
<1> DEFINE d == from[m]
           s == WithEntry(d)[d]
           r(pc, path) == [pc |-> pc, path |-> path, session |-> s, loaded |-> <<>>]
<1>1. d \in Destination /\ byDestination \in Table /\ Quiet(d) /\ routing
  BY RouterTypes DEF HandleInbound
<1>2. /\ s \in Session \cup {Null}
      /\ s # Null => byDestination[d] = s
      /\ byDestination'[d] = s
      /\ \A e \in Destination :
            \/ byDestination'[e] = byDestination[e]
            \/ e = d /\ byDestination[e] \notin Session /\ byDestination'[e] \notin Session
  BY <1>1, Markers DEF HandleInbound, GetOrCreate, WithEntry, Table
<1>3. PICK pc \in {"adapting", "loading", "reading"}, path \in {"spawn", "restore", "continue"} :
        /\ task' = [task EXCEPT ![m] = r(pc, path)]
        /\ pc = "adapting" => s = Null
        /\ UNCHANGED handle
  <2>1. ~(s # Null /\ agents[s] # Absent /\ handle[agents[s]].status # "completed")
    BY <1>1, <1>2, BoundIsCompleted DEF Unhurried
  <2> HIDE DEF s
  <2>2. \/ s = Null /\ task' = [task EXCEPT ![m] = r("adapting", "spawn")] /\ UNCHANGED handle
        \/ s # Null /\ task' = [task EXCEPT ![m] = r("loading", "restore")] /\ UNCHANGED handle
        \/ s # Null /\ task' = [task EXCEPT ![m] = r("reading", "continue")] /\ UNCHANGED handle
    BY <2>1 DEF HandleInbound, s
  <2> QED
    BY <2>2
<1>4. r(pc, path) \in Task /\ Delivered(r(pc, path).loaded)
  BY <1>2 DEF Task, Steps, Delivered
<1>5. r(pc, path).pc = pc /\ r(pc, path).session = s
  OBVIOUS
<1>6. UNCHANGED <<routing, coord, phase, snap, agents, handle, checkpoint, writes>>
  BY <1>3 DEF HandleInbound
<1>7. Alone(m)
  BY <1>1, QuietIsAlone
<1>8. Null \notin Session
  BY Markers
<1> HIDE DEF s, r, d
<1>9. /\ pc \in {"adapting", "spawning"} => byDestination'[from[m]] \notin Session
      /\ pc \in {"loading", "readapting", "reading", "resuming"} => byDestination'[from[m]] = s
      /\ pc # "resuming"
  BY <1>2, <1>3, <1>8 DEF d
<1>10. \A e \in Destination :
            \/ byDestination'[e] = byDestination[e]
            \/ e = from[m] /\ byDestination[e] \notin Session /\ byDestination'[e] \notin Session
  BY <1>2 DEF d
<1> QED
  BY <1>1, <1>3, <1>4, <1>5, <1>6, <1>7, <1>9, <1>10, HandlerKeepsPatience

\* A handler comes nearer to its agent.
LEMMA StepKeepsPatience ==
    ASSUME RouterInv, Unhurried, TasksNext, from' = from, Peaceful',
           NEW m \in Message,
           CallSpawn(m) \/ LoadCheckpoint(m) \/ CallContinue(m) \/ ReadCheckpoint(m)
    PROVE  Unhurried' /\ Told
<1> DEFINE s == task[m].session
<1>0. /\ task[m].pc \in {"adapting", "loading", "readapting", "reading"}
      /\ task[m].pc \in {"loading", "readapting", "reading"} =>
            byDestination[from[m]] = s /\ s \in Session
      /\ task[m].pc = "adapting" => byDestination[from[m]] \notin Session
      /\ task[m] \in Task /\ from[m] \in Destination
  BY RouterTypes DEF CallSpawn, LoadCheckpoint, CallContinue, ReadCheckpoint, Unhurried, WorksForBound,
     RouterInv, TasksOwned
<1>1. Working(m)
  BY <1>0 DEF Working, Settled
<1>2. routing /\ coord = "running" /\ CurrentTable = byDestination /\ Alone(m)
  BY <1>1, AtWorkIsUp, WorkingIsAlone DEF Unhurried
<1>4. task[m].pc \in {"loading", "readapting", "reading"} =>
        Saved(checkpoint[s]) /\ checkpoint[s] = Remembered(from[m])
  BY <1>0, <1>2, AloneIsSaved
<1>5. PICK r \in Task :
        /\ task' = [task EXCEPT ![m] = r]
        /\ \/ r = [task[m] EXCEPT !.pc = "spawning"] /\ task[m].pc = "adapting"
           \/ r = [task[m] EXCEPT !.pc = "readapting"] /\ task[m].pc = "loading"
           \/ r = [task[m] EXCEPT !.pc = "reading"] /\ task[m].pc = "readapting"
           \/ r = [task[m] EXCEPT !.pc = "resuming", !.loaded = checkpoint[s]] /\ task[m].pc = "reading"
  <2>1. CASE CallSpawn(m)
    <3> DEFINE r == [task[m] EXCEPT !.pc = "spawning"]
    <3>1. r \in Task /\ task' = [task EXCEPT ![m] = r] /\ task[m].pc = "adapting"
      BY <1>0, <1>2, <2>1 DEF CallSpawn, Goto, Task, Steps
    <3> QED
      BY <3>1
  <2>2. CASE LoadCheckpoint(m)
    <3> DEFINE r == [task[m] EXCEPT !.pc = "readapting"]
    <3>1. task[m].pc = "loading" /\ Saved(checkpoint[s])
      BY <1>4, <2>2 DEF LoadCheckpoint
    <3>2. r \in Task /\ task' = [task EXCEPT ![m] = r]
      BY <1>0, <2>2, <3>1 DEF LoadCheckpoint, Saved, Goto, Task, Steps
    <3> QED
      BY <3>1, <3>2
  <2>3. CASE CallContinue(m)
    <3> DEFINE r == [task[m] EXCEPT !.pc = "reading"]
    <3>1. r \in Task /\ task' = [task EXCEPT ![m] = r] /\ task[m].pc = "readapting"
      BY <1>0, <1>2, <2>3 DEF CallContinue, Goto, Task, Steps
    <3> QED
      BY <3>1
  <2>4. CASE ReadCheckpoint(m)
    <3> DEFINE r == [task[m] EXCEPT !.pc = "resuming", !.loaded = checkpoint[s]]
    <3>1. task[m].pc = "reading" /\ Saved(checkpoint[s]) /\ s \in Session
      BY <1>0, <1>4, <2>4 DEF ReadCheckpoint
    <3>2. checkpoint[s] \in Seq(Message)
      BY <3>1, RouterTypes DEF Saved
    <3>3. r \in Task /\ task' = [task EXCEPT ![m] = r]
      BY <1>0, <2>4, <3>1, <3>2 DEF ReadCheckpoint, Task, Steps
    <3> QED
      BY <3>1, <3>3
  <2> QED
    BY <2>1, <2>2, <2>3, <2>4
<1>6. UNCHANGED <<routing, coord, phase, snap, agents, handle, checkpoint, writes, byDestination>>
  <2>1. CASE CallSpawn(m)
    BY <2>1 DEF CallSpawn, convVars
  <2>2. CASE LoadCheckpoint(m)
    <3>1. task[m].pc = "loading"
      BY <2>2 DEF LoadCheckpoint
    <3> QED
      BY <1>4, <2>2, <3>1 DEF LoadCheckpoint, Saved
  <2>3. CASE CallContinue(m)
    BY <1>2, <2>3 DEF CallContinue, convVars
  <2>4. CASE ReadCheckpoint(m)
    <3>1. task[m].pc = "reading"
      BY <2>4 DEF ReadCheckpoint
    <3> QED
      BY <1>4, <2>4, <3>1 DEF ReadCheckpoint, convVars
  <2> QED
    BY <2>1, <2>2, <2>3, <2>4
<1>7. /\ r.session = s
      /\ r.pc = "resuming" => r.loaded = checkpoint[s] /\ task[m].pc = "reading"
      /\ r.loaded \in {task[m].loaded, checkpoint[s]} /\ (r.loaded = task[m].loaded \/ r.pc = "resuming")
      /\ r.pc \in {"spawning", "readapting", "reading", "resuming"}
      /\ r.pc = "spawning" => task[m].pc = "adapting"
      /\ r.pc # "spawning" => task[m].pc \in {"loading", "readapting", "reading"}
  BY <1>0, <1>5 DEF Task
<1>8. Delivered(r.loaded)
  <2>1. Delivered(task[m].loaded)
    BY DEF Unhurried, RemembersDelivered
  <2>2. task[m].pc = "reading" => Delivered(checkpoint[s])
    BY <1>0, <1>4 DEF Unhurried, RemembersDelivered
  <2> QED
    BY <1>7, <2>1, <2>2
<1>9. /\ r.pc \in {"adapting", "spawning"} => byDestination'[from[m]] \notin Session
      /\ r.pc \in {"loading", "readapting", "reading", "resuming"} => byDestination'[from[m]] = r.session
      /\ r.pc = "resuming" => r.loaded = Remembered(from[m])
  BY <1>0, <1>4, <1>6, <1>7
<1>10. task' = [task EXCEPT ![m] = r]
  BY <1>5
<1> QED
  BY <1>2, <1>6, <1>8, <1>9, <1>10, HandlerKeepsPatience

----------------------------------------------------------------------------
(* Runs: the memory passes to a handle, to a save, and to the file.         *)

\* A handler starts the agent of the bound session with what is remembered and
\* with its message.
LEMMA StartKeepsPatience ==
    ASSUME RouterInv, Unhurried, TasksNext, from' = from, Peaceful',
           NEW m \in Message, Working(m), NEW s \in Session, from[s] = from[m],
           handle' = [handle EXCEPT ![m] = NewHandle(s, Append(Remembered(from[m]), m))],
           agents' = [agents EXCEPT ![s] = m],
           byDestination' = [byDestination EXCEPT ![from[m]] = s],
           task' = [task EXCEPT ![m].pc = "handled"],
           UNCHANGED <<routing, coord, phase, snap, checkpoint, writes>>
    PROVE  Unhurried' /\ Told
<1> DEFINE d == from[m]
           history == Append(Remembered(d), m)
           r == NewHandle(s, history)
<1>1. /\ d \in Destination /\ Remembered(d) \in Seq(Message)
      /\ \A n \in Message : from[n] \in Destination
  BY RouterTypes, RememberedIsDelivered DEF Unhurried
<1>2. /\ r \in Handle /\ r.session = s /\ r.history = history /\ r.queue = <<>> /\ r.busy /\ ~r.held
      /\ r.status = "running" /\ r.inst = "running" /\ r # Absent
  <2>1. history \in Seq(Message)
    BY <1>1
  <2> HIDE DEF history
  <2>2. r \in Handle
    BY <2>1 DEF NewHandle, Handle
  <2> QED
    BY <2>2, HandleAssumption DEF NewHandle
<1> HIDE DEF r, history
<1>3. /\ routing /\ phase = "up" /\ coord = "running"
      /\ CurrentTable = byDestination /\ CurrentTable' = byDestination'
      /\ Alone(m) /\ task[m].pc \notin Settled /\ handle[m] = Absent
  <2>1. routing /\ phase = "up" /\ coord = "running" /\ CurrentTable = byDestination
    BY AtWorkIsUp DEF Unhurried
  <2>2. CurrentTable' = byDestination'
    BY <2>1 DEF CurrentTable
  <2> QED
    BY <2>1, <2>2, WorkingIsAlone DEF Unhurried, Working, RouterInv, HandlesOwned
<1>4. /\ \A h \in Message : handle'[h] = IF h = m THEN r ELSE handle[h]
      /\ \A x \in Session : agents'[x] = IF x = s THEN m ELSE agents[x]
      /\ \A e \in Destination : byDestination'[e] = IF e = d THEN s ELSE byDestination[e]
      /\ \A n \in Message : /\ task'[n].pc = IF n = m THEN "handled" ELSE task[n].pc
                            /\ task'[n].session = task[n].session /\ task'[n].loaded = task[n].loaded
  BY RouterTypes DEF Table, Task, r, history
<1>5. \A x \in Session : agents[x] # Absent => agents[x] \in Message /\ agents[x] # m
  BY <1>3, AgentIsOwned
<1>6. \A n \in Message : Working(n)' => Working(n) /\ from[n] # d
  BY <1>3, <1>4 DEF Working, Alone, Settled
<1>7. ASSUME NEW e \in Destination, e # d
      PROVE  /\ CurrentTable'[e] = CurrentTable[e]
             /\ CurrentTable[e] \in Session =>
                    /\ CurrentTable[e] # s /\ agents'[CurrentTable[e]] = agents[CurrentTable[e]]
                    /\ agents[CurrentTable[e]] # Absent =>
                            handle'[agents[CurrentTable[e]]] = handle[agents[CurrentTable[e]]]
  BY <1>3, <1>4, <1>5, <1>7, CurrentIsOwned
<1>8. \A e \in Destination : e # d => Remembered(e)' = Remembered(e)
  BY <1>7, MemoryStays
<1>9. Remembered(d)' = history
  <2>1. CurrentTable'[d] = s /\ agents'[s] = m /\ handle'[m] = r
    BY <1>1, <1>3, <1>4
  <2>2. m # Absent
    BY ValuesAssumption
  <2>3. history \in Seq(Message) /\ history \o <<>> = history
    BY <1>1 DEF history
  <2> QED
    BY <1>2, <2>1, <2>2, <2>3 DEF Remembered
<1>10. Tells(m)
  <2>1. ASSUME NEW e \in Destination, NEW i \in DOMAIN Remembered(e) PROVE Remembered(e)[i] # m
    BY <1>3, RememberedIsDelivered DEF Unhurried, Delivered
  <2> QED
    BY <1>8, <1>9, <2>1 DEF Tells, history
<1>11. TakesTurns'
  <2>0. TakesTurns /\ Alone(m)
    BY <1>3 DEF Unhurried
  <2>1. \A n, x \in Message : Working(n)' /\ Working(x)' /\ from[n] = from[x] => n = x
    BY <1>6, <2>0 DEF TakesTurns
  <2>2. \A n, h \in Message : Working(n)' /\ handle'[h] # Absent /\ from[h] = from[n] => ~handle'[h].busy
    BY <1>4, <1>6, <2>0 DEF TakesTurns
  <2>3. \A n \in Message, w \in writes : Working(n)' => from[w.session] # from[n]
    BY <1>6, <2>0 DEF TakesTurns
  <2>4. \A g, h \in Message :
            handle'[g] # Absent /\ handle'[h] # Absent /\ handle'[g].busy /\ handle'[h].busy /\ from[g] = from[h]
                => g = h
    BY <1>4, <2>0 DEF TakesTurns, Alone
  <2>5. \A h \in Message, w \in writes : handle'[h] # Absent /\ handle'[h].busy => from[w.session] # from[h]
    BY <1>4, <2>0 DEF TakesTurns, Alone
  <2> QED
    BY <2>0, <2>1, <2>2, <2>3, <2>4, <2>5 DEF TakesTurns
<1>12. Plain'
  <2> SUFFICES ASSUME NEW h \in Message, handle'[h] # Absent
               PROVE  /\ handle'[h].queue = <<>> /\ ~handle'[h].held
                      /\ handle'[h].status \in {"running", "completed", "terminated"}
                      /\ handle'[h].busy <=> handle'[h].status = "running"
                      /\ handle'[h].busy <=> handle'[h].inst = "running"
                      /\ handle'[h].busy => agents'[handle'[h].session] = h
    BY DEF Plain
  <2>1. CASE h = m
    BY <1>2, <1>4, <2>1
  <2>2. CASE h # m
    <3>1. handle'[h] = handle[h] /\ handle[h] # Absent
      BY <1>4, <2>2
    <3>2. handle[h].session \in Session /\ from[handle[h].session] = from[h]
      BY <3>1, HandleIsOwned
    <3>3. handle[h].busy => handle[h].session # s
      BY <1>3, <3>1, <3>2 DEF Alone
    <3>4. handle[h].busy => agents'[handle[h].session] = agents[handle[h].session]
      BY <1>4, <3>2, <3>3
    <3> QED
      BY <3>1, <3>4 DEF Unhurried, Plain
  <2> QED
    BY <2>1, <2>2
<1>13. WindsDown'
  BY <1>3 DEF Unhurried, WindsDown
<1>14. MemoryIsKept'
  <2> SUFFICES ASSUME NEW e \in Destination, CurrentTable'[e] \in Session
               PROVE  IsKept(CurrentTable[e])'
    BY DEF MemoryIsKept
  <2>1. CASE e = d
    <3>1. CurrentTable'[e] = s /\ agents'[s] = m /\ m # Absent /\ handle'[m].busy
      BY <1>1, <1>2, <1>3, <1>4, <2>1, ValuesAssumption
    <3>2. \A w \in writes' : w.session # s
      BY <1>3 DEF Alone
    <3> QED
      BY <3>1, <3>2 DEF IsKept
  <2>2. CASE e # d
    BY <1>7, <2>2 DEF Unhurried, MemoryIsKept, IsKept, Saved
  <2> QED
    BY <2>1, <2>2
<1>15. WorksForBound'
  <2> SUFFICES ASSUME NEW n \in Message, Working(n)'
               PROVE  /\ task'[n].pc \in {"adapting", "spawning"} => byDestination'[from[n]] \notin Session
                      /\ task'[n].pc \in {"loading", "readapting", "reading", "resuming"} =>
                            byDestination'[from[n]] = task'[n].session
                      /\ task'[n].pc = "resuming" => task'[n].loaded = Remembered(from[n])'
    BY DEF WorksForBound, Working, Settled
  <2>1. from[n] # d /\ n # m
    BY <1>6
  <2>2. Remembered(from[n])' = Remembered(from[n]) /\ byDestination'[from[n]] = byDestination[from[n]]
    BY <1>1, <1>4, <1>8, <2>1
  <2> QED
    BY <1>4, <2>1, <2>2 DEF Unhurried, WorksForBound
<1>16. RemembersDelivered'
  <2>1. Settles(history)
    <3>1. Remembered(d) \in Seq(Message) /\ Delivered(Remembered(d))
      BY <1>1, RememberedIsDelivered DEF Unhurried
    <3>2. \A i \in DOMAIN history : history[i] = m \/ \E j \in DOMAIN Remembered(d) : history[i] = Remembered(d)[j]
      BY <3>1 DEF history
    <3>3. \A j \in DOMAIN Remembered(d) : Remembered(d)[j] \in Message
      BY <3>1
    <3> QED
      BY <1>4, <3>1, <3>2, <3>3 DEF Settles, Delivered, TasksNext, Settled
  <2>2. \A h \in Message : handle'[h] # Absent => Settles(handle'[h].history)
    BY <1>2, <1>4, <2>1, DeliveredStays DEF Unhurried
  <2>3. \A n \in Message : Settles(task'[n].loaded)
    BY <1>4, DeliveredStays DEF Unhurried
  <2> QED
    BY <2>2, <2>3, DeliveredStays DEF Unhurried, RemembersDelivered, Delivered, Settles, Saved
<1> QED
  BY <1>10, <1>11, <1>12, <1>13, <1>14, <1>15, <1>16 DEF Unhurried, Told

\* The first message of a session,
LEMMA SpawnedKeepsPatience ==
    ASSUME RouterInv, Unhurried, TasksNext, from' = from, Peaceful', NEW m \in Message, Spawned(m)
    PROVE  Unhurried' /\ Told
<1>1. Working(m) /\ task[m].pc = "spawning" /\ from[m] \in Destination
  BY RouterTypes DEF Spawned, Working, Settled
<1>2. CurrentTable = byDestination
  BY <1>1, AtWorkIsUp DEF Unhurried
<1>3. Remembered(from[m]) = <<>>
  BY <1>1, <1>2 DEF Unhurried, WorksForBound, Remembered
<1>4. Append(Remembered(from[m]), m) = <<m>>
  BY <1>3
<1> QED
  BY <1>1, <1>4, StartKeepsPatience DEF Spawned, Bind, Goto

\* and the next one.
LEMMA ContinuedKeepsPatience ==
    ASSUME RouterInv, Unhurried, TasksNext, from' = from, Peaceful', NEW m \in Message, Continued(m)
    PROVE  Unhurried' /\ Told
<1> DEFINE s == task[m].session
<1>1. /\ Working(m) /\ task[m].pc = "resuming" /\ from[m] \in Destination
      /\ s \in Session /\ from[s] = from[m]
  BY RouterTypes DEF Continued, Working, Settled, RouterInv, TasksOwned
<1>2. task[m].loaded = Remembered(from[m]) /\ byDestination[from[m]] = s
  BY <1>1 DEF Unhurried, WorksForBound
<1>3. byDestination' = [byDestination EXCEPT ![from[m]] = s]
  BY <1>1, <1>2, RouterTypes DEF Continued, convVars, Table
<1> HIDE DEF s
<1> QED
  BY <1>1, <1>2, <1>3, StartKeepsPatience DEF Continued, Goto, convVars, s

\* A run ends: its memory is in the handle and on its way to the file.
LEMMA CompleteKeepsPatience ==
    ASSUME RouterInv, Unhurried, from' = from, Peaceful', NEW h \in Message, Complete(h)
    PROVE  Unhurried' /\ Told
<1> DEFINE r == [handle[h] EXCEPT !.busy = FALSE, !.inst = "completed", !.status = "completed"]
           w == Write(h, "run", handle[h].history)
           s == handle[h].session
<1>1. /\ handle[h] # Absent /\ handle[h].busy /\ handle[h] \in Handle
      /\ s \in Session /\ from[s] = from[h] /\ from[h] \in Destination
  BY RouterTypes, HandleIsOwned DEF Complete
<1>2. /\ routing /\ phase = "up" /\ coord = "running" /\ agents[s] = h
      /\ \A n \in Message : Working(n) => from[n] # from[h]
      /\ \A x \in writes : from[x.session] # from[h]
      /\ \A g \in Message : handle[g] # Absent /\ handle[g].busy /\ from[g] = from[h] => g = h
  BY <1>1, AtWorkIsUp DEF Unhurried, TakesTurns, Plain
<1>3. /\ UNCHANGED <<byDestination, disk, snap, phase, routing, coord, agents, checkpoint, task>>
      /\ CurrentTable' = CurrentTable
  BY DEF Complete, convVars, CurrentTable
<1>4. /\ r.history = handle[h].history /\ r.queue = handle[h].queue /\ r.session = s
      /\ ~r.busy /\ ~r.held /\ r.inst = "completed" /\ r.status = "completed"
      /\ r # Absent
  <2>1. r \in Handle
    BY <1>1 DEF Handle
  <2>2. r.held = handle[h].held /\ ~handle[h].held
    BY <1>1 DEF Handle, Unhurried, Plain
  <2>3. ~r.held
    BY <2>2
  <2> QED
    BY <1>1, <2>1, <2>3, HandleAssumption DEF Handle
<1>5. \A g \in Message : handle'[g] = IF g = h THEN r ELSE handle[g]
  BY RouterTypes DEF Complete
<1>6. writes' = writes \cup {w}
  BY DEF Complete, RequestSave
<1>7. w.session = s /\ w.history = handle[h].history /\ ~w.mixed
  BY DEF Write
<1> HIDE DEF r, w
<1>8. NothingSaid
  BY <1>3, <1>4, <1>5, AgentIsOwned, MemoryStays, RouterTypes DEF NothingSaid, Table
<1>9. TakesTurns'
  <2>0. TakesTurns
    BY DEF Unhurried
  <2>1. \A m, n \in Message : Working(m)' /\ Working(n)' /\ from[m] = from[n] => m = n
    BY <1>3, <2>0 DEF TakesTurns, Working
  <2>2. \A m, g \in Message : Working(m)' /\ handle'[g] # Absent /\ from[g] = from[m] => ~handle'[g].busy
    BY <1>3, <1>4, <1>5, <2>0 DEF TakesTurns, Working
  <2>3. \A m \in Message, x \in writes' : Working(m)' => from[x.session] # from[m]
    BY <1>1, <1>2, <1>3, <1>6, <1>7, <2>0 DEF TakesTurns, Working
  <2>4. \A g, k \in Message :
            handle'[g] # Absent /\ handle'[k] # Absent /\ handle'[g].busy /\ handle'[k].busy /\ from[g] = from[k]
                => g = k
    BY <1>4, <1>5, <2>0 DEF TakesTurns
  <2>5. \A g \in Message, x \in writes' : handle'[g] # Absent /\ handle'[g].busy => from[x.session] # from[g]
    BY <1>1, <1>2, <1>4, <1>5, <1>6, <1>7, <2>0 DEF TakesTurns
  <2>6. \A x, y \in writes' : from[x.session] = from[y.session] => x = y
    BY <1>1, <1>2, <1>6, <1>7, <2>0 DEF TakesTurns
  <2>7. \A x \in writes' : ~x.mixed
    BY <1>6, <1>7, <2>0 DEF TakesTurns
  <2> QED
    BY <2>1, <2>2, <2>3, <2>4, <2>5, <2>6, <2>7 DEF TakesTurns
<1>10. Plain'
  <2>1. r.queue = <<>>
    BY <1>1, <1>4 DEF Unhurried, Plain
  <2> SUFFICES ASSUME NEW g \in Message, handle'[g] # Absent
               PROVE  /\ handle'[g].queue = <<>> /\ ~handle'[g].held
                      /\ handle'[g].status \in {"running", "completed", "terminated"}
                      /\ handle'[g].busy <=> handle'[g].status = "running"
                      /\ handle'[g].busy <=> handle'[g].inst = "running"
                      /\ handle'[g].busy => agents'[handle'[g].session] = g
    BY DEF Plain
  <2>2. CASE g = h
    BY <1>4, <1>5, <2>1, <2>2
  <2>3. CASE g # h
    <3>1. handle'[g] = handle[g]
      BY <1>5, <2>3
    <3> QED
      BY <1>3, <3>1 DEF Unhurried, Plain
  <2> QED
    BY <2>2, <2>3
<1>11. WindsDown'
  BY <1>2, <1>3 DEF Unhurried, WindsDown
<1>12. MemoryIsKept'
  <2> SUFFICES ASSUME NEW d \in Destination, NEW t \in Session, CurrentTable[d] = t
               PROVE  IsKept(t)'
    BY <1>3 DEF MemoryIsKept
  <2>1. IsKept(t)
    BY DEF Unhurried, MemoryIsKept
  <2>2. CASE t = s
    <3>1. /\ agents'[t] = h /\ h # Absent /\ handle'[h].history = w.history
          /\ \A x \in writes' : x.session = t => x = w
      BY <1>1, <1>2, <1>3, <1>4, <1>5, <1>6, <1>7, <2>2, ValuesAssumption
    <3>2. w \in writes' /\ w.session = t
      BY <1>6, <1>7, <2>2
    <3> QED
      BY <3>1, <3>2 DEF IsKept
  <2>3. CASE t # s
    <3>1. agents[t] # Absent => agents[t] # h /\ agents[t] \in Message
      BY <2>3, AgentIsOwned
    <3>2. \A x \in writes' : x.session = t => x \in writes
      BY <1>6, <1>7, <2>3
    <3>3. \A x \in writes : x \in writes'
      BY <1>6
    <3> QED
      BY <1>3, <1>5, <2>1, <3>1, <3>2, <3>3 DEF IsKept, Saved
  <2> QED
    BY <2>2, <2>3
<1>13. WorksForBound'
  BY <1>3, <1>8, RouterTypes DEF Unhurried, WorksForBound, NothingSaid
<1>14. RemembersDelivered'
  BY <1>1, <1>3, <1>4, <1>5, <1>6, <1>7 DEF Unhurried, RemembersDelivered, Delivered, Saved
<1> QED
  BY <1>8, <1>9, <1>10, <1>11, <1>12, <1>13, <1>14 DEF Unhurried, Told

\* A save replaces itself, or is over, and its file is torn or holds its text.
LEMMA SaveKeepsPatience ==
    ASSUME RouterInv, Unhurried, from' = from, Peaceful', NEW w \in writes,
           UNCHANGED <<convVars, routing, coord, agents, handle, task, env>>,
           NEW c, checkpoint' = [checkpoint EXCEPT ![w.session] = c],
           \/ writes' = writes \ {w} /\ c = w.history
           \/ \E x : /\ writes' = (writes \ {w}) \cup {x} /\ c = Torn
                     /\ x.session = w.session /\ x.history = w.history /\ ~x.mixed
    PROVE  Unhurried' /\ Told
<1> DEFINE s == w.session
<1>1. /\ s \in Session /\ w.history \in Seq(Message) /\ from[s] \in Destination
      /\ \A x \in writes : from[x.session] = from[s] => x = w
  BY WriteIsTyped DEF Unhurried, TakesTurns
<1>2. routing /\ phase = "up" /\ coord = "running"
  BY AtWorkIsUp DEF Unhurried
<1>3. /\ UNCHANGED <<byDestination, disk, snap, phase>> /\ CurrentTable' = CurrentTable
  BY DEF convVars, CurrentTable
<1>4. \A t \in Session : checkpoint'[t] = IF t = s THEN c ELSE checkpoint[t]
  BY RouterTypes
<1>5. \A x \in writes' : \/ x \in writes /\ x # w
                         \/ x.session = s /\ x.history = w.history /\ ~x.mixed /\ c = Torn
  OBVIOUS
<1>6. ASSUME NEW d \in Destination, CurrentTable[d] = s
      PROVE  agents[s] # Absent /\ w.history = handle[agents[s]].history
  BY <1>1, <1>6 DEF Unhurried, MemoryIsKept, IsKept
<1>7. NothingSaid
  <2> SUFFICES ASSUME NEW d \in Destination PROVE Remembered(d)' = Remembered(d)
    BY DEF NothingSaid
  <2> QED
    BY <1>3, <1>4, <1>6, MemoryStays
<1>8. TakesTurns'
  <2>0. TakesTurns
    BY DEF Unhurried
  <2>1. \A x \in writes' : \E y \in writes : x.session = y.session
    BY <1>5
  <2>2. \A m, n \in Message : Working(m)' /\ Working(n)' /\ from[m] = from[n] => m = n
    BY <2>0 DEF TakesTurns, Working
  <2>3. \A m, g \in Message : Working(m)' /\ handle'[g] # Absent /\ from[g] = from[m] => ~handle'[g].busy
    BY <2>0 DEF TakesTurns, Working
  <2>4. \A m \in Message, x \in writes' : Working(m)' => from[x.session] # from[m]
    BY <2>0, <2>1 DEF TakesTurns, Working
  <2>5. \A g \in Message, x \in writes' : handle'[g] # Absent /\ handle'[g].busy => from[x.session] # from[g]
    BY <2>0, <2>1 DEF TakesTurns
  <2>6. \A x, y \in writes' : from[x.session] = from[y.session] => x = y
    <3>1. CASE writes' = writes \ {w}
      BY <2>0, <3>1 DEF TakesTurns
    <3>2. ASSUME NEW z, writes' = (writes \ {w}) \cup {z}, z.session = w.session
          PROVE  \A x, y \in writes' : from[x.session] = from[y.session] => x = y
      BY <1>1, <2>0, <3>2 DEF TakesTurns
    <3> QED
      BY <3>1, <3>2
  <2>7. \A x \in writes' : ~x.mixed
    BY <1>5, <2>0 DEF TakesTurns
  <2> QED
    BY <2>0, <2>2, <2>3, <2>4, <2>5, <2>6, <2>7 DEF TakesTurns
<1>9. Plain'
  BY DEF Unhurried, Plain
<1>10. WindsDown'
  BY <1>2, <1>3 DEF Unhurried, WindsDown
<1>11. MemoryIsKept'
  <2> SUFFICES ASSUME NEW d \in Destination, NEW t \in Session, CurrentTable[d] = t
               PROVE  IsKept(t)'
    BY <1>3 DEF MemoryIsKept
  <2>1. IsKept(t)
    BY DEF Unhurried, MemoryIsKept
  <2>2. CASE t = s
    <3>1. agents[s] # Absent /\ w.history = handle[agents[s]].history
      BY <1>6, <2>2
    <3>2. \A x \in writes' : x.session = s => x.history = w.history
      BY <1>1, <1>5
    <3>3. CASE writes' = writes \ {w} /\ c = w.history
      <4>1. Saved(c)
        BY <1>1, <3>3, HandleAssumption DEF Saved
      <4>2. checkpoint'[s] = c
        BY <1>1, <1>4
      <4> QED
        BY <2>2, <3>1, <3>2, <3>3, <4>1, <4>2 DEF IsKept, Saved
    <3>4. CASE \E x \in writes' : x.session = s
      BY <2>2, <3>1, <3>2, <3>4 DEF IsKept
    <3> QED
      BY <3>3, <3>4
  <2>3. CASE t # s
    <3>1. \A x \in writes' : x.session = t => x \in writes
      BY <1>5, <2>3
    <3>2. \A x \in writes : x.session = t => x \in writes'
      BY <2>3
    <3> QED
      BY <1>4, <2>1, <2>3, <3>1, <3>2 DEF IsKept, Saved
  <2> QED
    BY <2>2, <2>3
<1>12. WorksForBound'
  BY <1>3, <1>7, RouterTypes DEF Unhurried, WorksForBound, NothingSaid
<1>13. RemembersDelivered'
  <2>1. Delivered(w.history) /\ (Saved(c) => c = w.history)
    BY DEF Unhurried, RemembersDelivered, Saved
  <2> QED
    BY <1>4, <1>5, <2>1 DEF Unhurried, RemembersDelivered, Delivered, Saved
<1> QED
  BY <1>7, <1>8, <1>9, <1>10, <1>11, <1>12, <1>13 DEF Unhurried, Told

\* Opening and closing a checkpoint file.
LEMMA WritersKeepPatience ==
    ASSUME RouterInv, Unhurried, from' = from, Peaceful', NEW w \in writes,
           OpenWrite(w) \/ CloseWrite(w)
    PROVE  Unhurried' /\ Told
<1>1. /\ w \in CheckpointWrite /\ ~w.mixed
      /\ \A x \in writes : x.session = w.session => x = w
  BY WriteIsTyped DEF Unhurried, TakesTurns
<1>2. CASE OpenWrite(w)
  <2> DEFINE x == [w EXCEPT !.open = TRUE, !.mixed = FALSE]
             rivals == {y \in writes : y.open /\ y.session = w.session}
  <2>1. ~w.open /\ rivals = {}
    BY <1>1, <1>2 DEF OpenWrite
  <2> HIDE DEF rivals
  <2>2. writes' = (writes \ {w}) \cup {x}
    <3>1. writes' = ((writes \ {w}) \ rivals) \cup {[y EXCEPT !.mixed = TRUE] : y \in rivals}
                     \cup {[w EXCEPT !.open = TRUE, !.mixed = rivals # {}]}
      BY <1>2 DEF OpenWrite, rivals
    <3> QED
      BY <2>1, <3>1
  <2>3. x.session = w.session /\ x.history = w.history /\ ~x.mixed
    BY <1>1 DEF CheckpointWrite
  <2>4. /\ checkpoint' = [checkpoint EXCEPT ![w.session] = Torn]
        /\ UNCHANGED <<convVars, routing, coord, agents, handle, task, env>>
    BY <1>2 DEF OpenWrite
  <2> HIDE DEF x
  <2> QED
    BY <2>2, <2>3, <2>4, SaveKeepsPatience
<1>3. CASE CloseWrite(w)
  BY <1>1, <1>3, SaveKeepsPatience DEF CloseWrite
<1> QED
  BY <1>2, <1>3

\* /new: what is remembered stays with the session that is no longer bound.
LEMMA NewKeepsPatience ==
    ASSUME RouterInv, Unhurried, from' = from, Peaceful', env.patient,
           NEW d \in Destination, NewCommand(d)
    PROVE  Unhurried' /\ Forgets(d)
<1> DEFINE hs == {agents[x] : x \in {y \in Session : byDestination[d] = y /\ agents[y] # Absent}}
           ended(h) == [handle[h] EXCEPT !.inst = "aborted", !.status = "terminated"]
           w(h) == Write(h, "terminate", handle[h].history)
<1>1. /\ routing /\ Quiet(d) /\ Unbind(d) /\ phase = "up" /\ coord = "running"
      /\ UNCHANGED <<phase, snap, routing, coord, agents, checkpoint, task>>
      /\ CurrentTable = byDestination /\ CurrentTable' = byDestination'
  BY DEF NewCommand, Command, RouterInv, Phased, CurrentTable
<1>2. \A e \in Destination : IF e = d THEN byDestination'[e] \notin Session
                             ELSE byDestination'[e] = byDestination[e]
  BY <1>1, RouterTypes, Markers DEF Unbind, Table
<1>3. ASSUME NEW h \in hs
      PROVE  /\ h \in Message /\ handle[h] # Absent /\ from[h] = d /\ ~handle[h].busy
             /\ handle[h].session = byDestination[d] /\ byDestination[d] \in Session
             /\ h = agents[byDestination[d]] /\ from[byDestination[d]] = d
  <2>1. byDestination[d] \in Session /\ agents[byDestination[d]] # Absent /\ h = agents[byDestination[d]]
    BY <1>3
  <2>2. from[byDestination[d]] = d
    BY <1>1, <2>1, CurrentIsOwned
  <2> QED
    BY <1>1, <2>1, <2>2, AgentIsOwned DEF Quiet
<1>4. /\ handle' = [g \in Message |-> IF g \in hs THEN ended(g) ELSE handle[g]]
      /\ writes' = writes \cup {w(h) : h \in hs}
  BY DEF NewCommand, Terminate, RequestSave
<1>5. ASSUME NEW h \in hs
      PROVE  /\ ended(h).history = handle[h].history /\ ended(h).queue = <<>>
             /\ ended(h).session = handle[h].session
             /\ ~ended(h).busy /\ ~ended(h).held
             /\ ended(h).inst = "aborted" /\ ended(h).status = "terminated"
             /\ w(h).session = handle[h].session /\ w(h).history = handle[h].history /\ ~w(h).mixed
  <2>1. handle[h] \in Handle /\ ~handle[h].busy /\ ~handle[h].held /\ handle[h].queue = <<>>
    BY <1>3, HandleIsOwned DEF Unhurried, Plain
  <2>2. /\ ended(h).history = handle[h].history /\ ended(h).queue = handle[h].queue
        /\ ended(h).session = handle[h].session
        /\ ended(h).busy = handle[h].busy /\ ended(h).held = handle[h].held
        /\ ended(h).inst = "aborted" /\ ended(h).status = "terminated"
    BY <2>1 DEF Handle
  <2>3. w(h).session = handle[h].session /\ w(h).history = handle[h].history /\ ~w(h).mixed
    BY DEF Write
  <2> HIDE DEF ended, w
  <2> QED
    BY <2>1, <2>2, <2>3
<1> HIDE DEF hs, ended, w
<1>6. \A x \in writes' : \/ x \in writes /\ from[x.session] # d
                         \/ \E h \in hs : x = w(h) /\ from[x.session] = d
  <2>1. \A x \in writes : from[x.session] # d
    BY <1>1 DEF Quiet
  <2> QED
    BY <1>3, <1>4, <1>5, <2>1
<1>7. Forgets(d)
  <2> SUFFICES ASSUME NEW e \in Destination
               PROVE  Remembered(e)' = IF e = d THEN <<>> ELSE Remembered(e)
    BY DEF Forgets
  <2>1. CASE e = d
    BY <1>1, <1>2, <2>1 DEF Remembered
  <2>2. CASE e # d
    <3>1. CurrentTable'[e] = CurrentTable[e]
      BY <1>1, <1>2, <2>2
    <3>2. ASSUME CurrentTable[e] \in Session, agents[CurrentTable[e]] # Absent
          PROVE  handle'[agents[CurrentTable[e]]] = handle[agents[CurrentTable[e]]]
      <4>1. from[agents[CurrentTable[e]]] = e /\ agents[CurrentTable[e]] \in Message
        BY <3>2, CurrentIsOwned, AgentIsOwned
      <4> QED
        BY <1>3, <1>4, <2>2, <4>1
    <3> QED
      BY <1>1, <2>2, <3>1, <3>2, MemoryStays
  <2> QED
    BY <2>1, <2>2
<1>8. TakesTurns'
  <2>0. TakesTurns /\ Quiet(d)
    BY <1>1 DEF Unhurried
  <2>1. \A m, n \in Message : Working(m)' /\ Working(n)' /\ from[m] = from[n] => m = n
    BY <1>1, <2>0 DEF TakesTurns, Working
  <2>2. \A g \in Message : handle'[g] # Absent /\ handle'[g].busy => handle'[g] = handle[g] /\ g \notin hs
    BY <1>4, <1>5
  <2>3. \A m, g \in Message : Working(m)' /\ handle'[g] # Absent /\ from[g] = from[m] => ~handle'[g].busy
    BY <1>1, <2>0, <2>2 DEF TakesTurns, Working
  <2>4. \A m \in Message, x \in writes' : Working(m)' => from[x.session] # from[m]
    BY <1>1, <1>6, <2>0 DEF TakesTurns, Working, Quiet
  <2>5. \A g, h \in Message :
            handle'[g] # Absent /\ handle'[h] # Absent /\ handle'[g].busy /\ handle'[h].busy /\ from[g] = from[h]
                => g = h
    BY <2>0, <2>2 DEF TakesTurns
  <2>6. \A g \in Message, x \in writes' : handle'[g] # Absent /\ handle'[g].busy => from[x.session] # from[g]
    BY <1>6, <2>0, <2>2 DEF TakesTurns, Quiet
  <2>7. \A x, y \in writes' : from[x.session] = from[y.session] => x = y
    <3>1. \A g, h \in hs : g = h
      BY <1>3
    <3> QED
      BY <1>6, <2>0, <3>1 DEF TakesTurns
  <2>8. \A x \in writes' : ~x.mixed
    BY <1>5, <1>6, <2>0 DEF TakesTurns
  <2> QED
    BY <2>1, <2>3, <2>4, <2>5, <2>6, <2>7, <2>8 DEF TakesTurns
<1>9. Plain'
  <2> SUFFICES ASSUME NEW g \in Message, handle'[g] # Absent
               PROVE  /\ handle'[g].queue = <<>> /\ ~handle'[g].held
                      /\ handle'[g].status \in {"running", "completed", "terminated"}
                      /\ handle'[g].busy <=> handle'[g].status = "running"
                      /\ handle'[g].busy <=> handle'[g].inst = "running"
                      /\ handle'[g].busy => agents'[handle'[g].session] = g
    BY DEF Plain
  <2>1. CASE g \in hs
    <3>1. handle'[g] = ended(g)
      BY <1>4, <2>1
    <3> QED
      BY <1>5, <2>1, <3>1
  <2>2. CASE g \notin hs
    <3>1. handle'[g] = handle[g]
      BY <1>4, <2>2
    <3> QED
      BY <1>1, <3>1 DEF Unhurried, Plain
  <2> QED
    BY <2>1, <2>2
<1>10. WindsDown'
  BY <1>1 DEF Unhurried, WindsDown
<1>11. MemoryIsKept'
  <2> SUFFICES ASSUME NEW e \in Destination, NEW t \in Session, byDestination'[e] = t
               PROVE  IsKept(t)'
    BY <1>1 DEF MemoryIsKept
  <2>1. e # d /\ CurrentTable[e] = t /\ from[t] = e
    BY <1>1, <1>2, CurrentIsOwned
  <2>2. IsKept(t)
    BY <2>1 DEF Unhurried, MemoryIsKept
  <2>3. agents[t] # Absent => handle'[agents[t]] = handle[agents[t]]
    BY <1>3, <1>4, <2>1, AgentIsOwned
  <2>4. \A x \in writes' : x.session = t => x \in writes
    BY <1>6, <2>1
  <2>5. \A x \in writes : x \in writes'
    BY <1>4
  <2> QED
    BY <1>1, <2>2, <2>3, <2>4, <2>5 DEF IsKept, Saved
<1>12. WorksForBound'
  <2> SUFFICES ASSUME NEW n \in Message, Working(n)
               PROVE  /\ task'[n].pc \in {"adapting", "spawning"} => byDestination'[from[n]] \notin Session
                      /\ task'[n].pc \in {"loading", "readapting", "reading", "resuming"} =>
                            byDestination'[from[n]] = task'[n].session
                      /\ task'[n].pc = "resuming" => task'[n].loaded = Remembered(from[n])'
    BY <1>1 DEF WorksForBound, Working, Settled
  <2>1. from[n] # d /\ from[n] \in Destination
    BY <1>1, RouterTypes DEF Quiet, Working
  <2> QED
    BY <1>1, <1>2, <1>7, <2>1 DEF Unhurried, WorksForBound, Forgets
<1>13. RemembersDelivered'
  <2>1. \A g \in Message : handle'[g] # Absent => handle[g] # Absent /\ handle'[g].history = handle[g].history
    BY <1>3, <1>4, <1>5
  <2>2. \A x \in writes' : x \in writes \/ \E h \in Message : handle[h] # Absent /\ x.history = handle[h].history
    BY <1>3, <1>5, <1>6
  <2> QED
    BY <1>1, <2>1, <2>2 DEF Unhurried, RemembersDelivered, Delivered, Saved
<1> QED
  BY <1>7, <1>8, <1>9, <1>10, <1>11, <1>12, <1>13 DEF Unhurried

\* The coordinator forgets its agents, or the process ends, when all is in the files.
LEMMA DownKeepsPatience ==
    ASSUME RouterInv, Unhurried, from' = from, Peaceful', ~routing, ~routing',
           UNCHANGED checkpoint, TasksNext, \A m \in Message : task'[m].loaded = task[m].loaded,
           CurrentTable' = CurrentTable,
           handle' = handle \/ handle' = [m \in Message |-> Absent],
           agents' = [s \in Session |-> Absent], writes' = {},
           \A m \in Message : ~Working(m)',
           phase' \in {"saving", "writing", "written", "stopped"} => UNCHANGED <<phase, snap, byDestination>>,
           coord' = "stopped"
    PROVE  Unhurried' /\ Told
<1>1. /\ \A m \in Message : ~Working(m)
      /\ \A h \in Message : handle[h] # Absent => ~handle[h].busy
      /\ writes = {}
      /\ \A h \in Message : handle'[h] # Absent => handle[h] # Absent /\ handle'[h] = handle[h]
  BY DownIsQuiet DEF Unhurried
<1>2. ASSUME NEW d \in Destination, CurrentTable[d] \in Session
      PROVE  /\ Saved(checkpoint[CurrentTable[d]])
             /\ Remembered(d)' = Remembered(d)
  <2> DEFINE s == CurrentTable[d]
  <2>1. Saved(checkpoint[s]) /\ (agents[s] # Absent => checkpoint[s] = handle[agents[s]].history)
    BY <1>1, <1>2, KeptIsSaved DEF Unhurried
  <2>2. Remembered(d) = checkpoint[s]
    BY <1>2, <2>1, RemembersPlainly DEF Unhurried
  <2>3. Remembered(d)' = checkpoint[s]
    BY <1>2, <2>1 DEF Remembered, Saved
  <2> QED
    BY <2>1, <2>2, <2>3
<1>3. NothingSaid
  <2>1. \A d \in Destination : CurrentTable[d] \notin Session => Remembered(d)' = Remembered(d)
    BY DEF Remembered
  <2> QED
    BY <1>2, <2>1 DEF NothingSaid
<1>4. TakesTurns'
  BY <1>1 DEF TakesTurns
<1>5. Plain'
  BY <1>1 DEF Unhurried, Plain
<1>6. WindsDown'
  <2>1. \A d \in Destination : Quiet(d)'
    BY <1>1 DEF Quiet, Working
  <2> QED
    BY <2>1 DEF Unhurried, WindsDown
<1>7. MemoryIsKept'
  BY <1>2 DEF MemoryIsKept, IsKept, Saved
<1>8. WorksForBound'
  BY DEF WorksForBound, Working, Settled
<1>9. RemembersDelivered'
  BY <1>1, DeliveredStays DEF Unhurried, RemembersDelivered, Delivered, Settles, Saved
<1> QED
  BY <1>3, <1>4, <1>5, <1>6, <1>7, <1>8, <1>9 DEF Unhurried, Told

\* The end of a shutdown, and of the process.
LEMMA EndsKeepPatience ==
    ASSUME RouterInv, Unhurried, from' = from, Peaceful', TasksNext, EndShutdown \/ CleanExit
    PROVE  Unhurried' /\ Told
<1>1. CASE EndShutdown
  <2>1. ~routing /\ coord = "stopping" /\ coord' = "stopped" /\ agents' = [s \in Session |-> Absent]
    BY <1>1 DEF EndShutdown, RouterInv, Phased
  <2>2. /\ \A m \in Message : ~Working(m)
        /\ \A h \in Message : handle[h] # Absent => ~handle[h].busy
        /\ writes = {}
    BY <2>1, DownIsQuiet DEF Unhurried
  <2> DEFINE hs == {h \in Message : /\ \E s \in Session : agents[s] = h
                                   /\ handle[h].status \in {"running", "paused"}}
  <2>3. ASSUME NEW h \in hs PROVE FALSE
    <3>1. h \in Message /\ handle[h].status \in {"running", "paused"} /\ \E s \in Session : agents[s] = h
      OBVIOUS
    <3>2. handle[h] # Absent
      BY <3>1, AgentIsOwned, ValuesAssumption
    <3> QED
      BY <2>2, <3>1, <3>2 DEF Unhurried, Plain
  <2>4. Terminate(hs)
    BY <1>1 DEF EndShutdown
  <2> HIDE DEF hs
  <2>5. hs = {}
    BY <2>3
  <2>6. handle' = handle /\ writes' = {}
    BY <2>2, <2>4, <2>5, RouterTypes DEF Terminate, RequestSave
  <2>7. /\ UNCHANGED <<convVars, routing, checkpoint, task>>
    BY <1>1 DEF EndShutdown
  <2>8. /\ UNCHANGED <<phase, snap, byDestination, disk>> /\ CurrentTable' = CurrentTable
        /\ \A m \in Message : ~Working(m)'
    BY <2>2, <2>7 DEF convVars, CurrentTable, Working
  <2> QED
    BY <2>1, <2>6, <2>7, <2>8, DownKeepsPatience
<1>2. CASE CleanExit
  <2>1. /\ phase = "stopped" /\ Die /\ ~routing
    BY <1>2 DEF CleanExit, RouterInv, Phased
  <2>2. /\ routing' = FALSE /\ coord' = "stopped" /\ agents' = [s \in Session |-> Absent]
        /\ handle' = [m \in Message |-> Absent] /\ writes' = {} /\ UNCHANGED checkpoint
        /\ phase' = "down" /\ UNCHANGED disk /\ CurrentTable' = CurrentTable
    BY <2>1 DEF Die, Exit, CurrentTable
  <2>3. \A m \in Message : task'[m].loaded = task[m].loaded /\ ~Working(m)'
    BY <2>1, RouterTypes DEF Die, Working, Task, Settled
  <2> QED
    BY <2>1, <2>2, <2>3, DownKeepsPatience
<1> QED
  BY <1>1, <1>2

----------------------------------------------------------------------------

\* Every step of a patient user's world.
LEMMA PatienceKept ==
    ASSUME RouterInv, Heard, Unhurried, env.patient, Next
    PROVE  Unhurried' /\ (Carries \/ StartsOver)
<1>1. from' = from /\ Peaceful' /\ TasksNext
  BY FromStays, PeaceStays, TasksKept, RouterTypes DEF Unhurried
<1>2. CASE Boot \/ (StartRouter /\ FinishLoad) \/ StopRouter \/ Shutdown
  <2>1. SaveBindings => SaveBindings /\ (BeginWrite \/ EndWrite \/ Rename)
    BY DEF SaveBindings, Unhurried, Peaceful
  <2>2. Unhurried' /\ Told
    BY <1>1, <1>2, <2>1, ManagerKeepsPatience, EndsKeepPatience DEF Shutdown
  <2>3. StopRouter => env'.commands = env.commands
    BY RouterTypes DEF StopRouter, Spend, Scenario
  <2>4. Boot \/ StartRouter \/ Shutdown => UNCHANGED env
    BY DEF Boot, StartRouter, Shutdown, BeginShutdown, EndShutdown, StopConversations,
                SaveBindings, CleanExit
  <2> QED
    BY <1>2, <2>2, <2>3, <2>4 DEF Carries
<1>3. ASSUME NEW m \in Message, HandleInbound(m) \/ Handler(m) \/ Complete(m)
      PROVE  Unhurried' /\ Carries
  <2>1. Unhurried' /\ Told
    BY <1>1, <1>3, InboundKeepsPatience, StepKeepsPatience, SpawnedKeepsPatience,
       ContinuedKeepsPatience, CompleteKeepsPatience DEF Handler
  <2>2. UNCHANGED env
    BY <1>3 DEF HandleInbound, Handler, Complete, CallSpawn, Spawned, LoadCheckpoint, CallContinue,
                ReadCheckpoint, Continued, ContinueFails
  <2> QED
    BY <2>1, <2>2 DEF Carries
<1>4. ASSUME NEW w \in writes, OpenWrite(w) \/ CloseWrite(w)
      PROVE  Unhurried' /\ Carries
  BY <1>1, <1>4, WritersKeepPatience DEF Carries, OpenWrite, CloseWrite
<1>5. ASSUME NEW d \in Destination, NewCommand(d)
      PROVE  Unhurried' /\ StartsOver
  <2>1. env.commands \in Nat /\ env.commands > 0 /\ env'.commands = env.commands - 1
    BY <1>5, RouterTypes DEF NewCommand, Command, Spend, Scenario
  <2> QED
    BY <1>1, <1>5, <2>1, NewKeepsPatience DEF StartsOver
<1> QED
  BY PatientActs, <1>2, <1>3, <1>4, <1>5 DEF Unhurried

\* And the beginning.
LEMMA InitIsPatient == Init => Patience
<1> SUFFICES ASSUME Init, env.patient PROVE Unhurried
  BY DEF Patience
<1>1. Peaceful
  BY ScenarioAssumption DEF Init, Peaceful
<1>2. /\ \A m \in Message : ~Working(m) /\ task[m].loaded = <<>> /\ task[m].pc = "none"
      /\ \A h \in Message : handle[h] = Absent
      /\ \A s \in Session : agents[s] = Absent /\ ~Saved(checkpoint[s])
      /\ writes = {} /\ phase = "down" /\ coord = "stopped" /\ ~routing
  BY DEF Init, ConvInit, Working, Idle, Saved
<1>3. \A d \in Destination : CurrentTable[d] \notin Session
  BY Markers DEF Init, ConvInit, CurrentTable, NoBindings
<1>4. TakesTurns /\ Plain
  BY <1>2 DEF TakesTurns, Plain
<1>5. WindsDown
  BY <1>2 DEF WindsDown, Quiet
<1>6. MemoryIsKept /\ WorksForBound
  BY <1>2, <1>3 DEF MemoryIsKept, WorksForBound
<1>7. RemembersDelivered
  BY <1>2 DEF RemembersDelivered, Delivered
<1> QED
  BY <1>1, <1>4, <1>5, <1>6, <1>7 DEF Unhurried

\* Router's invariants, with that of a patient user.
AllInv == RouterInv /\ (Untroubled => Heard) /\ Patience

\* The invariants together are inductive, and a step tells, forgets or says nothing.
LEMMA AllInvKept == AllInv /\ [Next]_routerVars => AllInv' /\ (env.patient => Carries \/ StartsOver)
<1>1. ASSUME AllInv, Next PROVE AllInv' /\ (env.patient => Carries \/ StartsOver)
  <2>1. RouterInv' /\ (Untroubled' => Heard') /\ env'.patient = env.patient
    BY <1>1, RouterNextInv, HeardNextInv, PeaceStays, RouterTypes DEF AllInv
  <2>2. ASSUME env.patient PROVE Unhurried' /\ (Carries \/ StartsOver)
    <3>1. Heard /\ Unhurried
      BY <1>1, <2>2 DEF AllInv, Patience, Unhurried, Peaceful, Untroubled
    <3> QED
      BY <1>1, <2>2, <3>1, PatienceKept DEF AllInv
  <2> QED
    BY <2>1, <2>2 DEF AllInv, Patience
<1>2. ASSUME AllInv, UNCHANGED routerVars PROVE AllInv' /\ (env.patient => Carries \/ StartsOver)
  <2>1. UNCHANGED <<routing, coord, phase, snap, disk, byDestination, agents, handle, checkpoint, writes, task, env>>
    BY <1>2 DEF routerVars, convVars, volatile
  <2>2. RouterInv' /\ (Untroubled' => Heard')
    BY <1>2, RouterNextInv, HeardNextInv DEF AllInv
  <2>3. NothingSaid /\ CurrentTable' = CurrentTable /\ from' = from
    BY <2>1 DEF NothingSaid, Remembered, CurrentTable, Saved, from
  <2>4. ASSUME env.patient PROVE Unhurried'
    <3>1. Unhurried
      BY <1>2, <2>4 DEF AllInv, Patience
    <3>2. Peaceful' /\ TakesTurns' /\ Plain'
      BY <2>1, <2>3, <3>1 DEF Unhurried, Peaceful, TakesTurns, Plain, Working
    <3>3. WindsDown' /\ MemoryIsKept'
      BY <2>1, <2>3, <3>1 DEF Unhurried, WindsDown, Quiet, MemoryIsKept, IsKept, Saved
    <3>4. WorksForBound' /\ RemembersDelivered'
      <4>1. \A m \in Message : from[m] \in Destination
        BY <1>2, RouterTypes DEF AllInv
      <4> QED
        BY <2>1, <2>3, <3>1, <4>1
           DEF Unhurried, WorksForBound, NothingSaid, RemembersDelivered, Delivered, Saved
    <3> QED
      BY <3>2, <3>3, <3>4 DEF Unhurried
  <2> QED
    BY <2>1, <2>2, <2>3, <2>4 DEF AllInv, Patience, Told, Carries
<1> QED
  BY <1>1, <1>2

\* Router keeps the promise of ConversationLog, for any number of chats and messages:
\* to a user who waits for each reply, where nothing fails, the agent's memory at a
\* destination is the log of what was said there since the last /new, through
\* follow-ups, continuations, checkpoints and clean restarts.  The log starts over in
\* the step of a /new and in no other: there is no step in which a session's binding,
\* checkpoint or handle is lost.
THEOREM PromiseIsKept == Spec => KeepsTheConversation
<1> DEFINE Log == [d \in Destination |-> IF env.patient THEN Remembered(d) ELSE <<>>]
           News == IF env.patient THEN env.commands ELSE 0
<1>1. Init => AllInv
  BY RouterInitInv, HeardInitInv, InitIsPatient DEF AllInv
<1>2. Init => Promised!Init
  <2> SUFFICES ASSUME Init
               PROVE  /\ Log = [d \in Destination |-> <<>>]
                      /\ News \in Nat
                      /\ from \in [Message -> Destination]
    BY DEF Promised!Init
  <2>1. \A d \in Destination : CurrentTable[d] \notin Session
    BY Markers DEF Init, ConvInit, CurrentTable, NoBindings
  <2>2. \A d \in Destination : Remembered(d) = <<>>
    BY <2>1 DEF Remembered
  <2>3. env \in Scenario /\ from \in [Message -> Destination]
    BY RouterInitInv, RouterTypes
  <2>4. News \in Nat
    BY <2>3 DEF Scenario
  <2> QED
    BY <2>2, <2>3, <2>4
<1>3. AllInv /\ [Next]_routerVars =>
        [Promised!Next /\ UNCHANGED from]_<<Log, News, from>>
  <2> SUFFICES ASSUME AllInv, [Next]_routerVars
               PROVE  \/ Promised!Next /\ UNCHANGED from
                      \/ UNCHANGED <<Log, News, from>>
    OBVIOUS
  <2>1. from' = from /\ env'.patient = env.patient /\ from \in [Message -> Destination]
    BY FromStays, PeaceStays, RouterTypes DEF AllInv, routerVars, from
  <2>2. CASE ~env.patient
    BY <2>1, <2>2
  <2>3. CASE env.patient /\ NothingSaid /\ env'.commands = env.commands
    BY <2>1, <2>3 DEF NothingSaid
  <2>4. ASSUME env.patient, NEW m \in Message, Tells(m), env'.commands = env.commands
        PROVE  Promised!Accept(m)
    <3>1. \A d \in Destination : Log[d] = Remembered(d)
      BY <2>4
    <3>2. Log' = [Log EXCEPT ![from[m]] = Append(@, m)]
      BY <2>1, <2>4 DEF Tells
    <3>3. News' = News
      BY <2>1, <2>4
    <3> QED
      BY <2>4, <3>1, <3>2, <3>3 DEF Promised!Accept, Tells
  <2>5. ASSUME env.patient, NEW d \in Destination, Forgets(d),
               env.commands > 0, env'.commands = env.commands - 1
        PROVE  Promised!Reset(d)
    <3>1. Log' = [Log EXCEPT ![d] = <<>>]
      BY <2>1, <2>5 DEF Forgets
    <3>2. News > 0 /\ News' = News - 1
      BY <2>1, <2>5
    <3> QED
      BY <3>1, <3>2 DEF Promised!Reset
  <2> QED
    BY <2>1, <2>2, <2>3, <2>4, <2>5, AllInvKept DEF Carries, StartsOver, Told, Promised!Next
<1> QED
  BY <1>1, <1>2, <1>3, AllInvKept, PTL DEF Spec, KeepsTheConversation, Promised!Spec
============================================================================
