-------------------------- MODULE LifecycleProofs --------------------------
(***************************************************************************)
(* Theorems about Lifecycle, for any channels and messages, any set of     *)
(* handlers with the five it names, and any bounds: the types, and what    *)
(* execute() keeps in order whoever asks for a shutdown, and whenever.     *)
(***************************************************************************)
EXTENDS Lifecycle, TLAPS

Priorities == {0, 5, 10, 20, 25, 30, 40}

LEMMA PriorityType ==
    /\ HandlerNames = {"rpc", "scheduler", "channels", "router", "tracker",
                       "coordinator", "conversations"}
    /\ \A h \in HandlerNames : priority[h] \in Priorities
    /\ priority["coordinator"] = 30 /\ priority["conversations"] = 40
  BY DEF HandlerNames, priority, Priorities

LEMMA LevelType ==
    ASSUME TypeOK
    PROVE  level \in Int /\ \A h \in Handler : priority[h] \in Int
<1>1. Priorities \subseteq Int /\ Handler \subseteq HandlerNames
  BY LifecycleAssumption DEF Priorities
<1>2. \E h \in HandlerNames : level = priority[h]
  BY DEF TypeOK
<1> QED BY <1>1, <1>2, PriorityType

\* Every nonempty set of handlers has one whose turn is first.
LEMMA FirstIsLeast ==
    ASSUME NEW hs \in SUBSET Handler, hs # {}
    PROVE  /\ First(hs) \in Priorities
           /\ \E h \in hs : First(hs) = priority[h]
           /\ \A h \in hs : First(hs) <= priority[h]
<1> DEFINE S == {priority[h] : h \in hs}
<1>1. S \subseteq Priorities /\ S # {}
  BY PriorityType, LifecycleAssumption
<1>2. \E x \in S : \A y \in S : x <= y
  <2> HIDE DEF S
  <2>1. CASE 0 \in S   BY <2>1, <1>1 DEF Priorities
  <2>2. CASE 5 \in S /\ 0 \notin S   BY <2>2, <1>1 DEF Priorities
  <2>3. CASE 10 \in S /\ S \cap {0, 5} = {}   BY <2>3, <1>1 DEF Priorities
  <2>4. CASE 20 \in S /\ S \cap {0, 5, 10} = {}   BY <2>4, <1>1 DEF Priorities
  <2>5. CASE S \subseteq {25, 30, 40}
    <3>1. CASE 25 \in S   BY <3>1, <2>5
    <3>2. CASE 30 \in S /\ 25 \notin S   BY <3>2, <2>5
    <3>3. CASE S = {40}   BY <3>3
    <3> QED BY <3>1, <3>2, <3>3, <2>5, <1>1
  <2> QED BY <2>1, <2>2, <2>3, <2>4, <2>5, <1>1 DEF Priorities
<1>3. First(hs) = CHOOSE x \in S : \A y \in S : x <= y
  BY DEF First, Min
<1>4. First(hs) \in S /\ \A y \in S : First(hs) <= y
  <2> HIDE DEF S
  <2> QED BY <1>2, <1>3
<1> QED BY <1>1, <1>4

----------------------------------------------------------------------------
(* The inductive invariant.                                                *)

\* The handlers called are those up to the level, each of them once.
CalledToLevel ==
    \A h \in Handler :
        /\ job[h] # "idle" <=> stage # "none" /\ priority[h] <= level
        /\ runs[h] = IF job[h] = "idle" THEN 0 ELSE 1
        /\ stage = "complete" => priority[h] <= level

\* In graceful mode all of a lower level are over, and at the end all.
LowerAreOver ==
    mode = "graceful" => \A h \in Handler :
        /\ stage = "executing" /\ priority[h] < level => job[h] \in Over
        /\ stage = "complete" => job[h] \in Over

\* Once the coordinator's handler was called, no spawn is under way but those it found;
\* once the conversation manager's was, what is bound is in its copy or was overdue; and
\* what it has written stays.
SavedForGood ==
    /\ job["coordinator"] # "idle" => With("spawning") \subseteq overdue
    /\ job["conversations"] # "idle" => With("bound") \subseteq saving \cup overdue
    /\ job["conversations"] = "done" => saving \subseteq saved

LifecycleInv ==
    TypeOK /\ CalledToLevel /\ LowerAreOver /\ SavedForGood

LEMMA InitInv == Init => LifecycleInv
<1> SUFFICES ASSUME Init PROVE LifecycleInv
  OBVIOUS
<1>1. TypeOK
  <2>1. 0 \in {priority[h] : h \in HandlerNames}
    BY DEF HandlerNames, priority
  <2>2. Len(Boot) = 7
    BY DEF Boot
  <2>3. /\ booted \in 0..Len(Boot)
        /\ signals \in 0..MaxSignals /\ requests \in 0..MaxRequests
    BY <2>2, LifecycleAssumption DEF Init
  <2>4. /\ job \in [Handler -> Jobs] /\ runs \in [Handler -> Nat]
        /\ channel \in [Channel -> {"disconnected", "connecting", "error"}
                                     \cup Polling]
    BY DEF Init, Jobs
  <2>5. /\ {serving, routing, interrupted, recent} \subseteq BOOLEAN
        /\ task \in [Message -> Tasks]
    BY DEF Init, Tasks
  <2> QED
    BY <2>1, <2>3, <2>4, <2>5 DEF Init, TypeOK, Modes
<1>2. CalledToLevel /\ LowerAreOver /\ SavedForGood
  BY LifecycleAssumption
  DEF Init, CalledToLevel, LowerAreOver, SavedForGood, With
<1> QED BY <1>1, <1>2 DEF LifecycleInv

----------------------------------------------------------------------------
(* Who changes what.                                                       *)

\* A shutdown begins.
Begins ==
    /\ stage = "none" /\ stage' = "executing" /\ mode' \in Modes
    /\ Call(First(Handler))

\* execute() has an effect the first time only.
LEMMA ExecuteBegins ==
    ASSUME NEW m \in Modes, Execute(m)
    PROVE  Begins \/ UNCHANGED <<manager, serving, routing>>
  BY DEF Execute, Begins

\* The manager moves by a shutdown that begins or goes on, and by its handlers.
LEMMA ManagerMoves ==
    ASSUME [Next]_vars
    PROVE  \/ UNCHANGED <<manager, routing>>
           \/ BootStep
           \/ Begins
           \/ Advance
           \/ \E h \in Handler : Settle(h) \/ Hang(h)
<1>1. ASSUME NEW m \in Modes, RunRequested(m) PROVE Begins \/ UNCHANGED <<manager, routing>>
  BY <1>1, ExecuteBegins DEF RunRequested
<1>2. CASE Stop
  <2>1. "graceful" \in Modes
    BY DEF Modes
  <2> QED BY <1>2, <2>1, ExecuteBegins DEF Stop
<1>3. CASE Sigterm
  BY <1>2, <1>3 DEF Sigterm, daemon
<1>4. CASE Sigint
  BY <1>2, <1>4 DEF Sigint, daemon
<1>5. CASE UNCHANGED vars
  BY <1>5 DEF vars, daemon
<1>6. CASE BootFails \/ Started
  BY <1>6 DEF BootFails, Started, Exit, daemon
<1>7. CASE \/ \E c \in Channel : Connect(c) \/ Connected(c) \/ Disrupted(c)
           \/ \E m \in Message : Inbound(m) \/ CallSpawn(m) \/ Bound(m) \/ Refused(m)
  BY <1>7 DEF Connect, Connected, Disrupted, Inbound, CallSpawn, Bound, Refused
<1>8. CASE Elapse \/ StopReturns \/ Idle \/ \E p \in Params : RpcShutdown(p)
  BY <1>8 DEF Elapse, StopReturns, Idle, Exit, RpcShutdown, daemon
<1> QED
  BY <1>1, <1>3, <1>4, <1>5, <1>6, <1>7, <1>8 DEF Next, Sequencing

----------------------------------------------------------------------------
(* Calls.                                                                  *)

\* Calling the first of the handlers above the level moves the level up to
\* theirs and calls each of them for the first time.
LEMMA CallIsNext ==
    ASSUME TypeOK, NEW hs \in SUBSET Handler, hs # {}, Call(First(hs)),
           \A h \in Handler : h \in hs <=> job[h] = "idle",
           \A h \in Handler : runs[h] = IF job[h] = "idle" THEN 0 ELSE 1,
           \A g \in Handler \ hs, h \in hs : priority[g] < priority[h]
    PROVE  /\ \A h \in Handler :
                /\ job'[h] # "idle" <=> priority[h] <= level'
                /\ runs'[h] = IF job'[h] = "idle" THEN 0 ELSE 1
                /\ priority[h] < level' => h \notin hs /\ job'[h] = job[h]
           /\ \E h \in hs : level' = priority[h]
           /\ \A h \in hs : level' <= priority[h]
<1> DEFINE p == First(hs)
<1>1. /\ p \in Priorities
      /\ \E h \in hs : p = priority[h]
      /\ \A h \in hs : p <= priority[h]
  BY FirstIsLeast
<1>2. /\ level' = p
      /\ \A h \in Handler :
            job'[h] = IF priority[h] = p THEN "running" ELSE job[h]
      /\ \A h \in Handler : runs'[h] = runs[h] + IF priority[h] = p THEN 1 ELSE 0
  BY DEF Call
<1> HIDE DEF p
<1>3. p \in Int /\ \A h \in Handler : priority[h] \in Int
  <2>1. Handler \subseteq HandlerNames /\ Priorities \subseteq Int
    BY LifecycleAssumption DEF Priorities
  <2> QED BY <2>1, <1>1, PriorityType
<1>4. ASSUME NEW h \in Handler
      PROVE  /\ job'[h] # "idle" <=> priority[h] <= level'
             /\ runs'[h] = IF job'[h] = "idle" THEN 0 ELSE 1
             /\ priority[h] < level' => h \notin hs /\ job'[h] = job[h]
  <2>1. CASE h \in hs
    BY <2>1, <1>1, <1>2, <1>3
  <2>2. CASE h \notin hs
    <3>1. priority[h] < p /\ job[h] # "idle"
      BY <2>2, <1>1, <1>3
    <3> QED BY <3>1, <2>2, <1>2, <1>3
  <2> QED BY <2>1, <2>2
<1> QED BY <1>1, <1>2, <1>4

\* execute() calls the first handlers of all.
LEMMA BeginsFirst ==
    ASSUME LifecycleInv, Begins
    PROVE  /\ CalledToLevel'
           /\ \A h \in Handler : level' <= priority[h]
<1>1. /\ Handler # {} /\ Handler \in SUBSET Handler
      /\ \A h \in Handler : h \in Handler <=> job[h] = "idle"
      /\ \A h \in Handler : runs[h] = IF job[h] = "idle" THEN 0 ELSE 1
      /\ \A g \in Handler \ Handler, h \in Handler : priority[g] < priority[h]
      /\ TypeOK /\ Call(First(Handler)) /\ stage' = "executing"
  BY LifecycleAssumption DEF LifecycleInv, CalledToLevel, Begins
<1> QED
  BY <1>1, CallIsNext DEF CalledToLevel

\* _executePriorityLevel goes on to the first handlers not yet called.
LEMMA AdvanceCallsNext ==
    ASSUME LifecycleInv, Advance, stage' # "complete"
    PROVE  /\ stage = "executing" /\ stage' = "executing" /\ LevelOver
           /\ CalledToLevel'
           /\ \A h \in Handler :
                priority[h] < level' => priority[h] <= level /\ job'[h] = job[h]
           /\ \A h \in Handler : priority[h] = level' => job[h] = "idle"
           /\ Call(level')
<1> DEFINE hs == {h \in Handler : priority[h] > level}
<1>1. \A h \in Handler : priority[h] \in Int /\ level \in Int
  BY LevelType DEF LifecycleInv
<1>2. /\ hs # {} /\ hs \in SUBSET Handler
      /\ TypeOK /\ Call(First(hs))
      /\ stage = "executing" /\ stage' = "executing" /\ LevelOver
  BY DEF Advance, LifecycleInv
<1>3. /\ \A h \in Handler : h \in hs <=> job[h] = "idle"
      /\ \A h \in Handler : runs[h] = IF job[h] = "idle" THEN 0 ELSE 1
      /\ \A g \in Handler \ hs, h \in hs : priority[g] < priority[h]
  BY <1>1, <1>2 DEF LifecycleInv, CalledToLevel
<1>4. /\ \A h \in Handler \ hs : priority[h] <= level
      /\ \A h \in Handler, g \in hs : priority[h] = priority[g] => h \in hs
  BY <1>1
<1> HIDE DEF hs
<1>5. /\ \A h \in Handler :
           /\ job'[h] # "idle" <=> priority[h] <= level'
           /\ runs'[h] = IF job'[h] = "idle" THEN 0 ELSE 1
           /\ priority[h] < level' => h \notin hs /\ job'[h] = job[h]
      /\ \E h \in hs : level' = priority[h]
  BY <1>2, <1>3, CallIsNext
<1>6. Call(level')
  BY <1>2 DEF Call
<1> QED
  BY <1>2, <1>3, <1>4, <1>5, <1>6 DEF CalledToLevel

----------------------------------------------------------------------------
(* Every step keeps the invariant.                                         *)

LEMMA CalledKept ==
    ASSUME LifecycleInv, [Next]_vars PROVE CalledToLevel'
<1> USE DEF LifecycleInv
<1>1. CASE UNCHANGED <<manager, routing>>
  BY <1>1 DEF CalledToLevel, manager
<1>2. CASE BootStep
  BY <1>2 DEF CalledToLevel, BootStep, manager
<1>3. CASE Begins
  BY <1>3, BeginsFirst
<1>4. CASE Advance
  <2>1. CASE stage' = "complete"
    <3>1. /\ \A h \in Handler : ~(priority[h] > level)
          /\ stage = "executing" /\ UNCHANGED <<level, job, runs>>
      BY <1>4, <2>1 DEF Advance
    <3>2. \A h \in Handler : priority[h] \in Int /\ level \in Int
      BY LevelType
    <3>3. \A h \in Handler : priority[h] <= level
      BY <3>1, <3>2
    <3> QED BY <2>1, <3>1, <3>3 DEF CalledToLevel
  <2>2. CASE stage' # "complete"
    BY <1>4, <2>2, AdvanceCallsNext
  <2> QED BY <2>1, <2>2
<1>5. ASSUME NEW g \in Handler, Settle(g) \/ Hang(g) PROVE CalledToLevel'
  <2>1. /\ UNCHANGED <<stage, level, runs>>
        /\ \A h \in Handler : job'[h] # "idle" <=> job[h] # "idle"
    BY <1>5 DEF Settle, Hang, TypeOK
  <2> QED BY <2>1 DEF CalledToLevel
<1> QED BY <1>1, <1>2, <1>3, <1>4, <1>5, ManagerMoves

LEMMA OverKept ==
    ASSUME LifecycleInv, [Next]_vars PROVE LowerAreOver'
<1> USE DEF LifecycleInv
<1>0. \A h \in Handler : priority[h] \in Int /\ level \in Int
  BY LevelType
<1>1. CASE UNCHANGED <<manager, routing>>
  BY <1>1 DEF LowerAreOver, manager
<1>2. CASE BootStep
  BY <1>2 DEF LowerAreOver, BootStep, manager
<1>3. CASE Begins
  <2>1. \A h \in Handler : level' <= priority[h]
    BY <1>3, BeginsFirst
  <2>2. level' \in Int /\ stage' = "executing"
    BY <1>3, FirstIsLeast, LifecycleAssumption DEF Begins, Call, Priorities
  <2>3. \A h \in Handler : ~(priority[h] < level')
    BY <2>1, <2>2, <1>0
  <2> QED BY <2>2, <2>3 DEF LowerAreOver
<1>4. CASE Advance
  <2>0. UNCHANGED mode
    BY <1>4 DEF Advance
  <2>1. ASSUME mode = "graceful", NEW h \in Handler, priority[h] <= level
        PROVE  job[h] \in Over
    <3>1. LevelOver /\ stage = "executing"
      BY <1>4 DEF Advance
    <3>2. CASE priority[h] = level
      BY <2>1, <3>1, <3>2 DEF LevelOver
    <3>3. CASE priority[h] < level
      BY <2>1, <3>1, <3>3 DEF LowerAreOver
    <3> QED BY <3>2, <3>3, <2>1, <1>0
  <2>2. CASE stage' = "complete"
    <3>1. UNCHANGED job /\ \A h \in Handler : ~(priority[h] > level)
      BY <1>4, <2>2 DEF Advance
    <3>2. \A h \in Handler : priority[h] <= level
      BY <3>1, <1>0
    <3> QED BY <2>0, <2>1, <2>2, <3>1, <3>2 DEF LowerAreOver
  <2>3. CASE stage' # "complete"
    BY <1>4, <2>0, <2>1, <2>3, AdvanceCallsNext DEF LowerAreOver
  <2> QED BY <2>2, <2>3
<1>5. ASSUME NEW g \in Handler, Settle(g) \/ Hang(g) PROVE LowerAreOver'
  <2>1. /\ UNCHANGED <<stage, level, mode>>
        /\ \A h \in Handler : job[h] \in Over => job'[h] = job[h]
    BY <1>5 DEF Settle, Hang, TypeOK, Over
  <2> QED BY <2>1 DEF LowerAreOver
<1> QED BY <1>1, <1>2, <1>3, <1>4, <1>5, ManagerMoves

LEMMA SavedKept ==
    ASSUME LifecycleInv, [Next]_vars PROVE SavedForGood'
<1> USE DEF LifecycleInv, found, bindings
<1>0. /\ "coordinator" \in Handler /\ "conversations" \in Handler
      /\ job["conversations"] # "idle" => job["coordinator"] # "idle"
      /\ priority["coordinator"] # priority["conversations"]
  <2>1. "coordinator" \in Handler /\ "conversations" \in Handler
    BY LifecycleAssumption
  <2>2. priority["conversations"] <= level => priority["coordinator"] <= level
    BY LevelType, PriorityType
  <2> QED BY <2>1, <2>2, PriorityType DEF CalledToLevel
<1>1. ASSUME NEW p, Call(p), UNCHANGED bindings,
             \A h \in Handler : priority[h] = p => job[h] = "idle"
      PROVE  SavedForGood'
  <2>1. \A t : With(t)' = With(t)
    BY <1>1 DEF With
  <2>2. \A h \in Handler : job'[h] = IF priority[h] = p THEN "running" ELSE job[h]
    BY <1>1 DEF Call
  <2>3. CASE priority["coordinator"] = p
    <3>1. overdue' = With("spawning") /\ job'["conversations"] = "idle"
      BY <1>0, <1>1, <2>2, <2>3 DEF Call
    <3> QED BY <2>1, <3>1 DEF SavedForGood
  <2>4. CASE priority["conversations"] = p
    <3>1. /\ saving' = With("bound") /\ UNCHANGED overdue
          /\ job'["conversations"] = "running" /\ job'["coordinator"] = job["coordinator"]
      BY <1>0, <1>1, <2>2, <2>4 DEF Call
    <3> QED BY <2>1, <3>1 DEF SavedForGood
  <2>5. CASE priority["coordinator"] # p /\ priority["conversations"] # p
    <3>1. /\ UNCHANGED <<saving, overdue>>
          /\ job'["conversations"] = job["conversations"] /\ job'["coordinator"] = job["coordinator"]
      BY <1>0, <1>1, <2>2, <2>5 DEF Call
    <3> QED BY <1>1, <2>1, <3>1 DEF SavedForGood
  <2> QED BY <2>3, <2>4, <2>5
<1>2. CASE UNCHANGED <<job, found, bindings>>
  BY <1>2 DEF SavedForGood, With
<1> USE DEF daemon, manager, process
<1>3. CASE BootStep
  BY <1>2, <1>3 DEF BootStep
<1>4. CASE \E c \in Channel : Connect(c) \/ Connected(c) \/ Disrupted(c)
  BY <1>2, <1>4 DEF Connect, Connected, Disrupted
<1>5. ASSUME NEW m \in Message, NEW t \in Tasks,
             task' = [task EXCEPT ![m] = t], UNCHANGED <<job, found, saved>>,
             t = "spawning" => job["coordinator"] = "idle",
             t = "bound" => task[m] = "spawning"
      PROVE  SavedForGood'
  <2>1. \A n \in Message : task'[n] = IF n = m THEN t ELSE task[n]
    BY <1>5 DEF TypeOK
  <2>2. job["coordinator"] # "idle" => With("spawning")' \subseteq With("spawning")
    BY <1>5, <2>1 DEF With
  <2>3. With("bound")' \subseteq With("bound") \cup With("spawning")
    BY <1>5, <2>1 DEF With
  <2> QED BY <1>0, <1>5, <2>2, <2>3 DEF SavedForGood
<1>16. ASSUME NEW m \in Message, Inbound(m) \/ CallSpawn(m) \/ Bound(m) \/ Refused(m)
       PROVE  SavedForGood'
  <2>1. UNCHANGED <<job, found, saved>>
    BY <1>16 DEF Inbound, CallSpawn, Bound, Refused
  <2>2. PICK t \in Tasks :
            /\ task' = [task EXCEPT ![m] = t]
            /\ t = "spawning" => job["coordinator"] = "idle"
            /\ t = "bound" => task[m] = "spawning"
    <3>0. {"adapting", "spawning", "bound", "refused"} \subseteq Tasks
      BY DEF Tasks, UnderWay
    <3>1. CASE Inbound(m)
      BY <3>0, <3>1 DEF Inbound
    <3>2. CASE CallSpawn(m)
      <4>1. CASE job["coordinator"] = "idle"
        BY <3>0, <3>2, <4>1 DEF CallSpawn
      <4>2. CASE job["coordinator"] # "idle"
        <5>1. task' = [task EXCEPT ![m] = "refused"]
          BY <3>2, <4>2 DEF CallSpawn
        <5> QED BY <3>0, <5>1
      <4> QED BY <4>1, <4>2
    <3>3. CASE Bound(m)
      BY <3>0, <3>3 DEF Bound
    <3>4. CASE Refused(m)
      <4>1. task' = [task EXCEPT ![m] = "refused"]
        BY <3>4 DEF Refused
      <4> QED BY <3>0, <4>1
    <3> QED BY <1>16, <3>1, <3>2, <3>3, <3>4
  <2> QED BY <1>5, <2>1, <2>2
<1>6. ASSUME NEW h \in Handler, Settle(h) PROVE SavedForGood'
  <2>1. PICK r \in {"done"} \cup (IF MayFail THEN {"failed"} ELSE {}) :
            /\ job' = [job EXCEPT ![h] = r]
            /\ saved' = IF h = "conversations" /\ r = "done" THEN saving ELSE saved
    BY <1>6 DEF Settle
  <2>2. job[h] = "running" /\ r # "idle" /\ UNCHANGED <<found, task>>
    BY <1>6 DEF Settle
  <2>3. \A g \in Handler : job'[g] = IF g = h THEN r ELSE job[g]
    BY <2>1 DEF TypeOK
  <2>4. \A t : With(t)' = With(t)
    BY <2>2 DEF With
  <2>5. job'["coordinator"] # "idle" => job["coordinator"] # "idle"
    BY <1>0, <2>2, <2>3
  <2>6. job'["conversations"] # "idle" => job["conversations"] # "idle"
    BY <1>0, <2>2, <2>3
  <2>7. job'["conversations"] = "done" => saving \subseteq saved'
    BY <1>0, <2>1, <2>3 DEF SavedForGood
  <2> QED BY <2>2, <2>4, <2>5, <2>6, <2>7 DEF SavedForGood
<1>7. ASSUME NEW h \in Handler, Hang(h) PROVE SavedForGood'
  <2>1. job[h] = "running" /\ UNCHANGED <<found, task, saved>>
    BY <1>7 DEF Hang
  <2>2. \A g \in Handler : job'[g] = IF g = h THEN "hung" ELSE job[g]
    BY <1>7 DEF Hang, TypeOK
  <2>3. \A t : With(t)' = With(t)
    BY <2>1 DEF With
  <2> QED BY <1>0, <2>1, <2>2, <2>3 DEF SavedForGood
<1>8. CASE Advance
  <2>1. UNCHANGED bindings
    BY <1>8 DEF Advance
  <2>2. CASE stage' = "complete"
    <3>1. UNCHANGED <<job, found>>
      BY <1>8, <2>2 DEF Advance
    <3> QED BY <1>2, <2>1, <3>1
  <2>3. CASE stage' # "complete"
    BY <1>1, <1>8, <2>1, <2>3, AdvanceCallsNext
  <2> QED BY <2>2, <2>3
<1>9. ASSUME NEW m, Execute(m), UNCHANGED bindings PROVE SavedForGood'
  <2>1. CASE stage = "none"
    <3>1. \A h \in Handler : job[h] = "idle"
      BY <2>1 DEF CalledToLevel
    <3>2. Call(First(Handler))
      BY <1>9, <2>1 DEF Execute
    <3> QED BY <1>1, <1>9, <3>1, <3>2
  <2>2. CASE stage # "none"
    BY <1>2, <1>9, <2>2 DEF Execute
  <2> QED BY <2>1, <2>2
<1>10. CASE \E m \in Modes : RunRequested(m)
  BY <1>9, <1>10 DEF RunRequested
<1>11. CASE Stop
  BY <1>2, <1>9, <1>11 DEF Stop
<1>12. CASE Sigterm
  BY <1>2, <1>11, <1>12 DEF Sigterm
<1>13. CASE Sigint
  BY <1>2, <1>11, <1>13 DEF Sigint
<1>14. CASE \/ BootFails \/ Started \/ Elapse \/ StopReturns \/ Idle
            \/ \E p \in Params : RpcShutdown(p)
  BY <1>2, <1>14
  DEF BootFails, Started, Elapse, StopReturns, Idle, Exit, RpcShutdown
<1>15. CASE UNCHANGED vars
  BY <1>2, <1>15 DEF vars
<1> QED
  BY <1>3, <1>4, <1>6, <1>7, <1>8, <1>10, <1>12, <1>13, <1>14, <1>15, <1>16
  DEF Next, Sequencing

\* A call keeps the types of what it changes.
LEMMA CallTypes ==
    ASSUME TypeOK, NEW hs \in SUBSET Handler, hs # {}, Call(First(hs))
    PROVE  /\ level' \in {priority[h] : h \in HandlerNames}
           /\ job' \in [Handler -> Jobs] /\ runs' \in [Handler -> Nat]
           /\ serving' \in BOOLEAN /\ routing' \in BOOLEAN
           /\ dropping' \subseteq Channel
           /\ overdue' \subseteq Message /\ saving' \subseteq Message
<1> DEFINE p == First(hs)
           called == {h \in Handler : priority[h] = p}
<1>1. \E h \in Handler : p = priority[h]
  BY FirstIsLeast
<1>2. /\ level' = p
      /\ job' = [h \in Handler |-> IF h \in called THEN "running" ELSE job[h]]
      /\ runs' = [h \in Handler |-> runs[h] + IF h \in called THEN 1 ELSE 0]
      /\ serving' = (serving /\ "rpc" \notin called)
      /\ routing' = (routing /\ "router" \notin called)
      /\ dropping' = IF "channels" \in called THEN Dropped ELSE dropping
      /\ overdue' = IF "coordinator" \in called THEN With("spawning") ELSE overdue
      /\ saving' = IF "conversations" \in called THEN With("bound") ELSE saving
  BY DEF Call
<1> HIDE DEF p, called
<1>3. Handler \subseteq HandlerNames
  BY LifecycleAssumption
<1>4. job' \in [Handler -> Jobs]
  BY <1>2 DEF TypeOK, Jobs
<1>5. runs' \in [Handler -> Nat]
  <2>1. ASSUME NEW h \in Handler
        PROVE  runs[h] + (IF h \in called THEN 1 ELSE 0) \in Nat
    <3>1. runs[h] \in Nat
      BY DEF TypeOK
    <3>2. CASE h \in called
      BY <3>1, <3>2
    <3>3. CASE h \notin called
      BY <3>1, <3>3
    <3> QED BY <3>2, <3>3
  <2> QED BY <1>2, <2>1
<1>6. /\ dropping' \subseteq Channel
      /\ overdue' \subseteq Message /\ saving' \subseteq Message
  BY <1>2 DEF TypeOK, Dropped, With
<1> QED BY <1>1, <1>2, <1>3, <1>4, <1>5, <1>6

LEMMA TypeKept ==
    ASSUME LifecycleInv, [Next]_vars PROVE TypeOK'
<1> USE DEF LifecycleInv, daemon, manager, process, found, bindings
<1> DEFINE ManagerType ==
        /\ stage \in {"none", "executing", "complete"}
        /\ mode \in Modes
        /\ level \in {priority[h] : h \in HandlerNames}
        /\ job \in [Handler -> Jobs] /\ runs \in [Handler -> Nat]
        /\ dropping \subseteq Channel
        /\ overdue \subseteq Message /\ saving \subseteq Message
        /\ serving \in BOOLEAN /\ routing \in BOOLEAN
<1>0. ManagerType
  <2>1. \A b \in {serving, routing} : b \in BOOLEAN
    BY DEF TypeOK
  <2>2. serving \in BOOLEAN /\ routing \in BOOLEAN
    BY <2>1
  <2> QED BY <2>2 DEF TypeOK
<1>1. ASSUME NEW m \in Modes, Execute(m) PROVE ManagerType'
  <2>1. CASE stage = "none"
    <3>1. Handler # {} /\ Handler \in SUBSET Handler
      BY LifecycleAssumption
    <3>2. Call(First(Handler)) /\ stage' = "executing" /\ mode' = m
      BY <1>1, <2>1 DEF Execute
    <3> QED BY <1>1, <3>1, <3>2, CallTypes
  <2>2. CASE stage # "none"
    BY <1>0, <1>1, <2>2 DEF Execute
  <2> QED BY <2>1, <2>2
<1>2. CASE BootStep
  <2>1. booted' \in 0..Len(Boot)
    BY <1>2 DEF BootStep, TypeOK, Boot
  <2> QED BY <1>2, <2>1 DEF BootStep, TypeOK
<1>3. CASE BootFails \/ StopReturns \/ Idle
  BY <1>3 DEF BootFails, StopReturns, Idle, Exit, TypeOK
<1>4. CASE Started \/ Elapse
  BY <1>4 DEF Started, Elapse, TypeOK
<1>5. ASSUME NEW c \in Channel, Connect(c) \/ Connected(c) \/ Disrupted(c)
      PROVE  TypeOK'
  <2>1. channel' \in [Channel -> {"disconnected", "connecting", "error"} \cup Polling]
    BY <1>5 DEF Connect, Connected, Disrupted, TypeOK, Polling
  <2> QED
    BY <1>5, <2>1 DEF Connect, Connected, Disrupted, TypeOK
<1>16. ASSUME NEW m \in Message, Inbound(m) \/ CallSpawn(m) \/ Bound(m) \/ Refused(m)
       PROVE  TypeOK'
  <2>1. task' \in [Message -> Tasks]
    BY <1>16 DEF Inbound, CallSpawn, Bound, Refused, TypeOK, Tasks, UnderWay
  <2> QED
    BY <1>16, <2>1 DEF Inbound, CallSpawn, Bound, Refused, TypeOK
<1>6. ASSUME NEW h \in Handler, Settle(h) PROVE TypeOK'
  <2>1. job' \in [Handler -> Jobs]
    BY <1>6 DEF Settle, TypeOK, Jobs
  <2>2. channel' \in [Channel -> {"disconnected", "connecting", "error"} \cup Polling]
    BY <1>6 DEF Settle, TypeOK
  <2>3. saved' \subseteq Message
    BY <1>6 DEF Settle, TypeOK
  <2> QED BY <1>6, <2>1, <2>2, <2>3 DEF Settle, TypeOK
<1>7. ASSUME NEW h \in Handler, Hang(h) PROVE TypeOK'
  <2>1. job' \in [Handler -> Jobs]
    BY <1>7 DEF Hang, TypeOK, Jobs
  <2> QED BY <1>7, <2>1 DEF Hang, TypeOK
<1>8. ASSUME NEW p \in Params, RpcShutdown(p) PROVE TypeOK'
  <2>1. requests' \in 0..MaxRequests
    BY <1>8, LifecycleAssumption DEF RpcShutdown, TypeOK
  <2>2. requested' \subseteq Modes
    BY <1>8 DEF RpcShutdown, TypeOK, Wanted, Modes
  <2> QED BY <1>8, <2>1, <2>2 DEF RpcShutdown, TypeOK
<1>9. CASE Advance
  <2> DEFINE hs == {h \in Handler : priority[h] > level}
  <2>1. ManagerType'
    <3>1. CASE hs = {}
      BY <1>0, <1>9, <3>1 DEF Advance
    <3>2. CASE hs # {}
      <4>1. Call(First(hs)) /\ hs \in SUBSET Handler
        BY <1>9, <3>2 DEF Advance
      <4>2. UNCHANGED <<stage, mode>>
        BY <1>9, <3>2 DEF Advance
      <4> HIDE DEF hs
      <4> QED BY <1>0, <3>2, <4>1, <4>2, CallTypes
    <3> QED BY <3>1, <3>2
  <2> QED BY <1>9, <2>1 DEF Advance, TypeOK
<1>10. ASSUME NEW m \in Modes, RunRequested(m) PROVE TypeOK'
  <2>2. ManagerType'
    BY <1>1, <1>10 DEF RunRequested
  <2> HIDE DEF ManagerType
  <2>3. requested' \subseteq Modes
    BY <1>10 DEF RunRequested, TypeOK
  <2> USE DEF ManagerType
  <2> QED BY <1>10, <2>2, <2>3 DEF RunRequested, TypeOK
<1>s. ASSUME Signal PROVE signals' \in 0..MaxSignals
  <2>1. signals \in 0..MaxSignals /\ signals > 0 /\ signals' = signals - 1
    BY <1>s DEF Signal, TypeOK
  <2> QED BY <2>1, LifecycleAssumption
<1>11. CASE Signal /\ Stop /\ recent' \in BOOLEAN
  <2>1. ManagerType' /\ state' \in {"starting", "running", "stopping"}
        /\ alive' \in {"yes", "exit 0"}
    <3>1. CASE state = "running" /\ stage = "none"
      BY <1>1, <1>11, <3>1 DEF Stop, Signal, Modes
    <3>2. CASE ~(state = "running" /\ stage = "none")
      BY <1>0, <1>11, <3>2 DEF Stop, TypeOK
    <3> QED BY <3>1, <3>2
  <2>2. signals' \in 0..MaxSignals
    BY <1>11, <1>s
  <2>3. /\ interrupted' = TRUE
        /\ UNCHANGED <<booted, channel, bindings, requested, requests>>
    BY <1>11 DEF Stop
  <2>4. {serving, routing, interrupted, recent}' \subseteq BOOLEAN
    BY <1>0, <1>11, <2>1, <2>3
  <2>5. alive' \in {"yes", "failed start", "exit 0", "hard exit", "idle"}
    BY <2>1
  <2>6. /\ booted' \in 0..Len(Boot) /\ requests' \in 0..MaxRequests
        /\ channel' \in [Channel -> {"disconnected", "connecting", "error"} \cup Polling]
        /\ requested' \subseteq Modes /\ task' \in [Message -> Tasks] /\ saved' \subseteq Message
    BY <2>3 DEF TypeOK
  <2> QED BY <2>1, <2>2, <2>4, <2>5, <2>6 DEF TypeOK
<1>12. ASSUME Signal, recent' \in BOOLEAN, alive' \in {"yes", "hard exit"},
              UNCHANGED <<manager, daemon, interrupted, requested, requests>>
       PROVE  TypeOK'
  <2>1. signals' \in 0..MaxSignals
    BY <1>12, <1>s
  <2> QED BY <1>12, <2>1 DEF TypeOK
<1>13. CASE Sigterm
  <2>1. Signal /\ recent' \in BOOLEAN /\ alive = "yes"
    BY <1>13 DEF Sigterm, Signal, TypeOK
  <2>2. CASE interrupted
    BY <1>12, <1>13, <2>1, <2>2 DEF Sigterm
  <2>3. CASE ~interrupted
    BY <1>11, <1>13, <2>1, <2>3 DEF Sigterm
  <2> QED BY <2>2, <2>3
<1>14. CASE Sigint
  <2>1. Signal /\ recent' \in BOOLEAN /\ alive = "yes"
    BY <1>14 DEF Sigint, Signal, TypeOK
  <2>2. CASE interrupted
    BY <1>12, <1>14, <2>1, <2>2 DEF Sigint
  <2>3. CASE ~interrupted
    BY <1>11, <1>14, <2>1, <2>3 DEF Sigint
  <2> QED BY <2>2, <2>3
<1>15. CASE UNCHANGED vars
  BY <1>15 DEF vars, TypeOK
<1> QED
  BY <1>2, <1>3, <1>4, <1>5, <1>6, <1>7, <1>8, <1>9, <1>10, <1>13, <1>14, <1>15, <1>16
  DEF Next, Sequencing

----------------------------------------------------------------------------
(* The theorems.                                                           *)

LEMMA LifecycleInvariant == Spec => []LifecycleInv
<1>1. LifecycleInv /\ [Next]_vars => LifecycleInv'
  BY TypeKept, CalledKept, OverKept, SavedKept DEF LifecycleInv
<1> QED BY <1>1, InitInv, PTL DEF Spec

\* Every variable has its type, whatever the handlers and the bounds are.
THEOREM LifecycleTypeCorrect == Spec => []TypeOK
<1>1. LifecycleInv => TypeOK
  BY DEF LifecycleInv
<1> QED BY <1>1, LifecycleInvariant, PTL

\* What ShutdownManager.execute keeps in order holds whoever asks for a shutdown,
\* however often, in whatever mode, and whatever handlers fail: each handler is called
\* once at most, a graceful sequence runs them in the order of their priorities, and of
\* the bindings that messages and requests lead to the written file lacks those only
\* whose spawns were under way when the coordinator's handler was called.
THEOREM ShutdownOrderly == Spec => []ShutdownIsOrderly
<1>1. ASSUME LifecycleInv PROVE ShutdownIsOrderly
  <2>1. TypeOK /\ CalledToLevel /\ LowerAreOver /\ SavedForGood
    BY <1>1 DEF LifecycleInv
  <2>2. CalledOnce
    <3>1. ASSUME NEW h \in Handler PROVE runs[h] <= 1
      <4>1. runs[h] = 0 \/ runs[h] = 1
        BY <2>1 DEF CalledToLevel
      <4> QED BY <4>1
    <3> QED BY <3>1 DEF CalledOnce
  <2>3. GracefulIsOrdered
    <3>1. ASSUME mode = "graceful", NEW g \in Handler, NEW h \in Handler,
                 priority[g] < priority[h], job[h] # "idle"
          PROVE  job[g] \in Over
      <4>1. stage # "none" /\ priority[h] <= level
        BY <2>1, <3>1 DEF CalledToLevel
      <4>2. priority[g] < level
        BY <2>1, <3>1, <4>1, LevelType
      <4>3. stage = "executing" \/ stage = "complete"
        BY <2>1, <4>1 DEF TypeOK
      <4> QED BY <2>1, <3>1, <4>2, <4>3 DEF LowerAreOver
    <3> QED BY <3>1 DEF GracefulIsOrdered
  <2>4. OnlyOverdueIsLost
    <3>1. "conversations" \in Handler
      BY LifecycleAssumption
    <3> QED BY <2>1, <3>1 DEF SavedForGood, OnlyOverdueIsLost
  <2> QED BY <2>2, <2>3, <2>4 DEF ShutdownIsOrderly
<1> QED BY <1>1, LifecycleInvariant, PTL
=============================================================================
