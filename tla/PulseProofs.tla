---------------------------- MODULE PulseProofs ----------------------------
(***************************************************************************)
(* Theorems about Pulse, for any destinations, scenarios, runs and texts:  *)
(* what pulses send, and the last active destination over restarts.        *)
(***************************************************************************)
EXTENDS Pulse, SequenceTheorems, TLAPS

Text == {"text", "rest"}
Place == Destination \cup {None}
Steps == {"none", "adapter", "spawning", "collecting", "responding", "ended"}

\* The sequences of texts of run and agent, and the destinations.
RunType ==
    /\ scenario \in Scenarios
    /\ run \in [Run -> [at : Steps, to : Place, buffer : Seq(Text), late : BOOLEAN,
                        sent : Seq(Text)]]
    /\ agent \in [Run -> {"none", "running", "held", "done"}]
    /\ written \in [Run -> Seq(Text)]
    /\ tracker \in Place

(***************************************************************************)
(* The invariant of the runs.                                              *)
(***************************************************************************)
\* A response that is settled: all that was written by an agent that has ended, or what
\* there was at the time limit.
Settled(r, texts) ==
    IF run[r].late THEN IsPrefix(texts, written[r])
    ELSE texts = written[r] /\ agent[r] = "done"

\* Before its spawn() returns a run has no agent, and nothing was written.
Fresh(r) ==
    /\ agent[r] = "none" /\ written[r] = <<>>
    /\ run[r].buffer = <<>> /\ run[r].sent = <<>> /\ ~run[r].late

\* What a run has collected at each of its steps.
Collected(r) ==
    CASE run[r].at \in {"none", "adapter", "spawning"} -> Fresh(r)
      [] run[r].at = "collecting" ->
            run[r].buffer = written[r] /\ run[r].sent = <<>> /\ ~run[r].late
      [] run[r].at = "responding" ->
            run[r].sent = <<>> /\ (run[r].buffer = <<>> \/ Settled(r, run[r].buffer))
      [] run[r].at = "ended" ->
            run[r].sent # <<>> => /\ Settled(r, run[r].sent)
                                  /\ run[r].to # None /\ ~Suppressed(run[r].sent)

RunInv == RunType /\ \A r \in Run : Collected(r)

(***************************************************************************)
(* The invariant of the last active destination.                           *)
(***************************************************************************)
TrackerType ==
    /\ tracker \in Place /\ file \in Place /\ temp \in Place /\ latest \in Place
    /\ phase \in {"down", "starting", "up", "stopping"}
    /\ step \in Nat /\ sure \in BOOLEAN /\ connected \in BOOLEAN

\* Whether the tracker has been loaded and the handler that saves it has not run.
Tracking ==
    \/ phase = "starting" /\ step >= 3
    \/ phase = "up"
    \/ phase = "stopping" /\ step <= 4

\* While it tracks, the tracker knows what the file may not; before and after the file does.
Remembered ==
    /\ Tracking => /\ sure => tracker = latest
                   /\ tracker = None => file = None
    /\ ~Tracking => (sure => file = latest)
    /\ phase = "down" \/ (phase = "starting" /\ step < 3) => tracker = None

\* When channels are connected, and when a save is under way, after the channels have gone.
Channelled ==
    /\ connected => phase = "up" \/ (phase = "stopping" /\ step < 3)
    /\ temp # None => phase = "stopping" /\ step = 4 /\ temp = tracker
    /\ phase = "starting" => step < 6
    /\ coord = "stopping" => phase = "stopping" /\ step = 5

TrackerInv == TrackerType /\ Remembered /\ Channelled

(***************************************************************************)
(* Prefixes.                                                               *)
(***************************************************************************)
LEMMA PrefixReflexive ==
    ASSUME NEW t \in Seq(Text) PROVE IsPrefix(t, t)
  BY DEF IsPrefix

LEMMA PrefixAppend ==
    ASSUME NEW s \in Seq(Text), NEW t \in Seq(Text), NEW e \in Text, IsPrefix(s, t)
    PROVE  IsPrefix(s, Append(t, e))
<1>1. /\ Len(s) \in Nat /\ Len(t) \in Nat /\ Len(s) <= Len(t)
      /\ SubSeq(s, 1, Len(s)) = SubSeq(t, 1, Len(s))
  BY DEF IsPrefix
<1>2. /\ Append(t, e) \in Seq(Text) /\ Len(Append(t, e)) = Len(t) + 1
      /\ \A i \in 1..Len(t) : Append(t, e)[i] = t[i]
  BY AppendProperties
<1>3. SubSeq(Append(t, e), 1, Len(s)) = SubSeq(t, 1, Len(s))
  BY <1>1, <1>2
<1> QED BY <1>1, <1>2, <1>3 DEF IsPrefix

(***************************************************************************)
(* The runs.                                                               *)
(***************************************************************************)
LEMMA RunInit == Init => RunInv
<1> SUFFICES ASSUME Init PROVE RunInv
  OBVIOUS
<1>1. NoRun \in [at : Steps, to : Place, buffer : Seq(Text), late : BOOLEAN, sent : Seq(Text)]
  BY EmptySeq DEF NoRun, Steps, Place
<1>2. RunType
  BY <1>1, EmptySeq DEF Init, RunType, Place
<1>3. ASSUME NEW r \in Run PROVE Collected(r)
  BY <1>3 DEF Init, Collected, Fresh, NoRun
<1> QED BY <1>2, <1>3 DEF RunInv

\* Steps that leave runs, agents and texts alone.
LEMMA RunsStay ==
    ASSUME RunInv, UNCHANGED <<scenario, run, agent, written>>, tracker' \in Place
    PROVE  RunInv'
<1>1. RunType'
  BY DEF RunInv, RunType
<1>2. ASSUME NEW r \in Run PROVE Collected(r)'
  BY <1>2 DEF RunInv, Collected, Fresh, Settled
<1> QED BY <1>1, <1>2 DEF RunInv

LEMMA ResolveType == ASSUME RunInv PROVE Resolve \in Place
<1>1. tracker \in Place /\ scenario.responseTo \in {"silent", "lastActive", "named"}
  BY PulseAssumption DEF RunInv, RunType
<1> QED BY <1>1, PulseAssumption DEF Resolve, Place

LEMMA BeginKept == ASSUME RunInv, BeginRun PROVE RunInv'
<1>1. PICK f \in 1..scenario.runs :
        /\ run[f].at = "none"
        /\ run' = [run EXCEPT ![f].at = "adapter", ![f].to = Resolve]
  BY DEF BeginRun
<1>2. UNCHANGED <<scenario, tracker, agent, written>>
  BY DEF BeginRun, trackerVars
<1>3. RunType'
  BY <1>1, <1>2, ResolveType DEF RunInv, RunType, Steps
<1>4. ASSUME NEW r \in Run PROVE Collected(r)'
  <2>1. CASE r = f
    BY <1>1, <1>2, <2>1 DEF RunInv, RunType, Collected, Fresh, Steps
  <2>2. CASE r # f
    BY <1>1, <1>2, <2>2 DEF RunInv, RunType, Collected, Fresh, Settled
  <2> QED BY <2>1, <2>2
<1> QED BY <1>3, <1>4 DEF RunInv

\* A step of run r that changes its own record and agent only.
LEMMA OwnStep ==
    ASSUME RunInv, NEW r \in Run, RunType', UNCHANGED written,
           \A q \in Run \ {r} : run'[q] = run[q] /\ agent'[q] = agent[q],
           Collected(r)'
    PROVE  RunInv'
<1>1. ASSUME NEW q \in Run \ {r} PROVE Collected(q)'
  BY <1>1 DEF RunInv, Collected, Fresh, Settled
<1> QED BY <1>1 DEF RunInv

LEMMA RunStepKept == ASSUME RunInv, NEW r \in Run, RunStep(r) PROVE RunInv'
<1> USE DEF RunInv, trackerVars
<1>0. Collected(r) /\ RunType
  OBVIOUS
<1>1. CASE AdapterReady(r)
  <2>0. PICK at \in {"spawning", "ended"} : run' = [run EXCEPT ![r].at = at]
    BY <1>1 DEF AdapterReady
  <2>a. run[r].at = "adapter" /\ UNCHANGED <<scenario, tracker, agent, written>>
    BY <1>1 DEF AdapterReady
  <2>1. RunType'
    BY <2>0, <2>a DEF RunType, Steps
  <2>b. /\ run'[r].at = at /\ run'[r].to = run[r].to /\ run'[r].late = run[r].late
        /\ run'[r].buffer = run[r].buffer /\ run'[r].sent = run[r].sent
    BY <2>0 DEF RunType
  <2>2. Collected(r)'
    BY <1>0, <2>a, <2>b DEF Collected, Fresh
  <2> QED BY <1>1, <2>1, <2>2, OwnStep DEF AdapterReady, RunType
<1>2. CASE Spawned(r)
  <2>0. PICK at \in {"collecting", "ended"} : run' = [run EXCEPT ![r].at = at]
    BY <1>2 DEF Spawned
  <2>a. run[r].at = "spawning" /\ UNCHANGED <<scenario, tracker, written>>
    BY <1>2 DEF Spawned
  <2>b. agent' \in [Run -> {"none", "running", "held", "done"}]
    BY <1>2 DEF Spawned, RunType
  <2>1. RunType'
    BY <2>0, <2>a, <2>b DEF RunType, Steps
  <2>c. /\ run'[r].at = at /\ run'[r].to = run[r].to /\ run'[r].late = run[r].late
        /\ run'[r].buffer = run[r].buffer /\ run'[r].sent = run[r].sent
    BY <2>0 DEF RunType
  <2>2. Collected(r)'
    BY <1>0, <2>a, <2>c DEF Collected, Fresh
  <2>3. \A q \in Run \ {r} : run'[q] = run[q] /\ agent'[q] = agent[q]
    BY <1>2 DEF Spawned, RunType
  <2>4. UNCHANGED written
    BY <1>2 DEF Spawned
  <2> QED BY <2>1, <2>2, <2>3, <2>4, OwnStep
<1>3. CASE TimesOut(r)
  <2>1. RunType'
    BY <1>3 DEF TimesOut, RunType, Steps
  <2>2. IsPrefix(written[r], written[r])
    BY PrefixReflexive DEF RunType
  <2>3. Collected(r)'
    BY <1>0, <1>3, <2>2 DEF TimesOut, RunType, Collected, Settled, Steps
  <2> QED BY <1>3, <2>1, <2>3, OwnStep DEF TimesOut, RunType
<1>4. CASE Respond(r)
  <2>0. PICK texts \in Seq(Text) :
            run' = [run EXCEPT ![r].at = "ended", ![r].sent = texts]
    BY <1>4, EmptySeq DEF Respond, RunType
  <2>a. UNCHANGED <<scenario, tracker, agent, written>>
    BY <1>4 DEF Respond
  <2>1. RunType'
    BY <2>0, <2>a DEF RunType, Steps
  <2>2. Collected(r)'
    BY <1>0, <1>4 DEF Respond, Delivers, RunType, Collected, Settled, Steps
  <2> QED BY <1>4, <2>1, <2>2, OwnStep DEF Respond, RunType
<1>5. CASE RespondFails(r)
  <2>1. RunType'
    BY <1>5 DEF RespondFails, RunType, Steps
  <2>2. Collected(r)'
    BY <1>0, <1>5 DEF RespondFails, RunType, Collected, Settled, Steps
  <2> QED BY <1>5, <2>1, <2>2, OwnStep DEF RespondFails, RunType
<1> QED BY <1>1, <1>2, <1>3, <1>4, <1>5 DEF RunStep

LEMMA HoldKept == ASSUME RunInv, NEW r \in Run, Hold(r) PROVE RunInv'
<1>1. RunType'
  BY DEF Hold, RunInv, RunType, trackerVars
<1>2. Collected(r)'
  BY DEF Hold, RunInv, RunType, Collected, Fresh, Settled
<1> QED BY <1>1, <1>2, OwnStep DEF Hold, RunInv, RunType

LEMMA WriteKept ==
    ASSUME RunInv, NEW r \in Run, NEW text \in Text, Write(r, text) PROVE RunInv'
<1> USE DEF RunInv
<1>1. /\ agent[r] = "running" /\ UNCHANGED <<scenario, tracker, agent>>
      /\ written' = [written EXCEPT ![r] = Append(@, text)]
      /\ run' = [q \in Run |-> IF Hears(r, q)
                               THEN [run[q] EXCEPT !.buffer = Append(@, text)] ELSE run[q]]
  BY DEF Write, trackerVars
<1>2. \A t \in Seq(Text) : Append(t, text) \in Seq(Text)
  BY AppendProperties
<1>3. RunType'
  BY <1>1, <1>2 DEF RunType
<1>4. ASSUME NEW q \in Run \ {r} PROVE Collected(q)'
  <2>1. run'[q] = run[q] /\ agent'[q] = agent[q] /\ written'[q] = written[q]
    BY <1>1 DEF Hears, RunType
  <2> QED BY <2>1 DEF Collected, Fresh, Settled
<1>5. Collected(r)'
  <2>1. written'[r] = Append(written[r], text) /\ agent'[r] = "running"
    BY <1>1 DEF RunType
  <2>2. CASE run[r].at = "collecting"
    <3>1. run'[r] = [run[r] EXCEPT !.buffer = Append(@, text)]
      BY <1>1, <2>2 DEF Hears
    <3>2. run[r].buffer = written[r] /\ run[r].sent = <<>> /\ ~run[r].late
      BY <2>2 DEF Collected
    <3>3. /\ run'[r].at = "collecting" /\ run'[r].buffer = Append(run[r].buffer, text)
          /\ run'[r].sent = run[r].sent /\ run'[r].late = run[r].late
      BY <2>2, <3>1 DEF RunType
    <3> QED BY <2>1, <3>2, <3>3 DEF Collected
  <2>3. CASE run[r].at # "collecting"
    <3>1. run'[r] = run[r]
      BY <1>1, <2>3 DEF Hears
    <3>2. \A s \in Seq(Text) : IsPrefix(s, written[r]) => IsPrefix(s, written'[r])
      BY <2>1, PrefixAppend DEF RunType
    <3>3. run[r].buffer \in Seq(Text) /\ run[r].sent \in Seq(Text)
      BY DEF RunType
    <3>4. ~Fresh(r) /\ Collected(r) /\ run[r].at \in Steps
      BY <1>1 DEF Fresh, RunType
    <3>5. \A s \in Seq(Text) : Settled(r, s) => Settled(r, s)'
      BY <1>1, <2>1, <3>1, <3>2 DEF Settled
    <3>6. CASE run[r].at = "responding"
      BY <3>1, <3>3, <3>4, <3>5, <3>6 DEF Collected
    <3>7. CASE run[r].at = "ended"
      BY <3>1, <3>3, <3>4, <3>5, <3>7 DEF Collected
    <3> QED BY <2>3, <3>4, <3>6, <3>7 DEF Collected, Steps
  <2> QED BY <2>2, <2>3
<1> QED BY <1>3, <1>4, <1>5

\* Agents end: those that listen respond with all that was written, or with nothing.
LEMMA EndsKept ==
    ASSUME RunInv, NEW ends \in SUBSET Live, NEW fatal \in BOOLEAN,
           run' = After(ends, fatal),
           agent' = [r \in Run |-> IF r \in ends THEN "done" ELSE agent[r]],
           UNCHANGED <<scenario, tracker, written>>
    PROVE  RunInv'
<1> USE DEF RunInv
<1>1. RunType'
  BY EmptySeq DEF After, RunType, Steps
<1>2. ASSUME NEW r \in Run PROVE Collected(r)'
  <2>1. CASE r \in ends /\ run[r].at = "collecting"
    <3>1. run'[r] = [run[r] EXCEPT !.at = "responding",
                                   !.buffer = IF fatal THEN <<>> ELSE @]
      BY <2>1 DEF After, Hears
    <3> QED BY <2>1, <3>1 DEF Collected, Settled, RunType, Steps
  <2>2. CASE ~(r \in ends /\ run[r].at = "collecting")
    <3>1. run'[r] = run[r]
      BY <2>2 DEF After, Hears
    <3>2. agent[r] = "none" => agent'[r] = "none"
      BY DEF Live
    <3>3. agent[r] = "done" => agent'[r] = "done"
      BY DEF Live
    <3>4. UNCHANGED written /\ Collected(r) /\ run[r].at \in Steps
      BY DEF RunType
    <3>5. /\ Fresh(r) => Fresh(r)'
          /\ \A s \in Seq(Text) : Settled(r, s) => Settled(r, s)'
      BY <3>1, <3>2, <3>3, <3>4 DEF Fresh, Settled
    <3>6. run[r].buffer \in Seq(Text) /\ run[r].sent \in Seq(Text)
      BY DEF RunType
    <3> QED BY <3>1, <3>4, <3>5, <3>6 DEF Collected, Steps
  <2> QED BY <2>1, <2>2
<1> QED BY <1>1, <1>2

LEMMA ProcessEndsKept == ASSUME RunInv, ProcessEnds PROVE RunInv'
<1> USE DEF RunInv
<1>1. RunType'
  BY DEF ProcessEnds, RunType, Steps, Place
<1>2. ASSUME NEW r \in Run PROVE Collected(r)'
  <2>0. /\ agent'[r] = IF r \in Live THEN "done" ELSE agent[r]
        /\ UNCHANGED written
    BY DEF ProcessEnds
  <2>1. CASE r \in Active
    <3>1. run'[r] = [run[r] EXCEPT !.at = "ended"] /\ run[r].sent = <<>>
      BY <2>1 DEF ProcessEnds, Active, Collected, Fresh, RunType, Steps
    <3> QED BY <3>1 DEF Collected, RunType, Steps
  <2>2. CASE r \notin Active
    <3>1. run'[r] = run[r]
      BY <2>2 DEF ProcessEnds
    <3> QED BY <2>0, <2>2, <3>1 DEF Active, Live, Collected, Fresh, Settled
  <2> QED BY <2>1, <2>2
<1> QED BY <1>1, <1>2

LEMMA RunNext == ASSUME RunInv, [Next]_vars PROVE RunInv'
<1> USE DEF daemonVars, trackerVars
<1>0. tracker \in Place
  BY DEF RunInv, RunType
<1>1. CASE \E d \in Destination : Inbound(d)
  BY <1>1, RunsStay DEF Inbound, Place
<1>2. CASE Boot \/ StopBegins \/ StopStep \/ SaveBegins \/ SaveEnds \/ ShutdownBegins
  BY <1>0, <1>2, RunsStay
  DEF Boot, StopBegins, StopStep, SaveBegins, SaveEnds, ShutdownBegins
<1>3. CASE StartStep
  BY <1>0, <1>3, RunsStay DEF StartStep, Loaded, Place
<1>4. CASE ShutdownEnds
  <2>1. Live \in SUBSET Live /\ FALSE \in BOOLEAN
    OBVIOUS
  <2> QED BY <1>4, <2>1, EndsKept DEF ShutdownEnds
<1>5. CASE Exit \/ Crash
  BY <1>5, ProcessEndsKept DEF Exit, Crash
<1>6. CASE Fire \/ Trigger
  BY <1>6, BeginKept DEF Fire, Trigger
<1>7. ASSUME NEW r \in Run, RunStep(r) PROVE RunInv'
  BY <1>7, RunStepKept
<1>8. ASSUME NEW r \in Run, Hold(r) PROVE RunInv'
  BY <1>8, HoldKept
<1>9. ASSUME NEW r \in Run, AgentEnds(r) PROVE RunInv'
  <2>1. PICK fatal \in BOOLEAN : run' = After({r}, fatal)
    BY <1>9 DEF AgentEnds
  <2>2. {r} \in SUBSET Live
    BY <1>9 DEF AgentEnds, Live
  <2>3. agent' = [q \in Run |-> IF q \in {r} THEN "done" ELSE agent[q]]
    BY <1>9 DEF AgentEnds, RunInv, RunType
  <2>4. UNCHANGED <<scenario, tracker, written>>
    BY <1>9 DEF AgentEnds
  <2> QED BY <2>1, <2>2, <2>3, <2>4, EndsKept
<1>10. ASSUME NEW r \in Run, NEW text \in Text, Write(r, text) PROVE RunInv'
  BY <1>10, WriteKept
<1>11. CASE UNCHANGED vars
  BY <1>0, <1>11, RunsStay DEF vars
<1> QED
  BY <1>1, <1>2, <1>3, <1>4, <1>5, <1>6, <1>7, <1>8, <1>9, <1>10, <1>11 DEF Next, Text

\* What a pulse sends is what its own session wrote, for any number of overlapping runs,
\* whatever their agents write, however they end, and whenever the process does.
THEOREM PulsesSendTheirOwn == Spec => []ResponsesAreOwn
<1>1. RunInv => ResponsesAreOwn
  <2> SUFFICES ASSUME RunInv, NEW r \in Run, run[r].sent # <<>>
               PROVE  /\ run[r].to # None /\ ~Contains(run[r].sent, "rest")
                      /\ IF run[r].late THEN IsPrefix(run[r].sent, written[r])
                         ELSE run[r].sent = written[r]
    BY DEF ResponsesAreOwn
  <2>1. run[r].at \in Steps /\ Collected(r)
    BY DEF RunInv, RunType
  <2>2. run[r].at = "ended"
    BY <2>1 DEF Collected, Fresh, Steps
  <2> QED BY <2>1, <2>2 DEF Collected, Settled, Suppressed
<1>2. RunInv /\ [Next]_vars => RunInv'
  BY RunNext
<1> QED BY <1>1, <1>2, RunInit, PTL DEF Spec

(***************************************************************************)
(* The last active destination.                                            *)
(***************************************************************************)
LEMMA Orders ==
    /\ Len(StartOrder) = 6 /\ Len(StopOrder) = 6
    /\ StartOrder[1] = "coordinator" /\ StartOrder[2] = "router"
    /\ StartOrder[3] = "tracker" /\ StartOrder[4] = "scheduler"
    /\ StartOrder[5] = "rpc" /\ StartOrder[6] = "channels"
    /\ StopOrder[1] = "rpc" /\ StopOrder[2] = "scheduler"
    /\ StopOrder[3] = "channels" /\ StopOrder[4] = "router"
    /\ StopOrder[5] = "tracker" /\ StopOrder[6] = "coordinator"
  BY DEF StartOrder, StopOrder

\* Which handlers of a stop are at which step.
LEMMA StoppingAt ==
    ASSUME step \in Nat
    PROVE  /\ \A s : Stopping(s) => phase = "stopping" /\ step \in 0..5
           /\ Stopping("channels") <=> phase = "stopping" /\ step = 2
           /\ Stopping("tracker") <=> phase = "stopping" /\ step = 4
           /\ Stopping("coordinator") <=> phase = "stopping" /\ step = 5
           /\ \A s \in {"rpc", "scheduler", "channels", "router"} :
                Stopping(s) => step \in 0..3
<1>1. step < 6 => step = 0 \/ step = 1 \/ step = 2 \/ step = 3 \/ step = 4 \/ step = 5
  OBVIOUS
<1> QED BY <1>1, Orders DEF Stopping

LEMMA TrackerInit == Init => TrackerInv
<1> SUFFICES ASSUME Init PROVE TrackerInv
  OBVIOUS
<1>1. TrackerType
  <2>1. sure \in BOOLEAN /\ connected \in BOOLEAN
    BY DEF Init
  <2>2. step = 0 /\ phase = "down"
    BY DEF Init
  <2>3. tracker \in Place /\ file \in Place /\ temp \in Place /\ latest \in Place
    BY DEF Init, Place
  <2> QED BY <2>1, <2>2, <2>3 DEF TrackerType
<1>2. Remembered
  BY DEF Init, Remembered, Tracking
<1>3. Channelled
  BY DEF Init, Channelled
<1> QED BY <1>1, <1>2, <1>3 DEF TrackerInv

\* What the tracker's invariant is about.
trackerState == <<trackerVars, phase, step, connected, coord>>

LEMMA TrackerStays == ASSUME TrackerInv, UNCHANGED trackerState PROVE TrackerInv'
  BY DEF trackerState, trackerVars, TrackerInv, TrackerType, Remembered, Tracking, Channelled

LEMMA InboundTracked ==
    ASSUME TrackerInv, NEW d \in Destination, Inbound(d) PROVE TrackerInv'
<1> USE DEF TrackerInv, daemonVars
<1>1. /\ connected /\ tracker' = d /\ latest' = d /\ sure' = TRUE
      /\ UNCHANGED <<file, temp, phase, step, connected, coord>>
  BY DEF Inbound
<1>2. d # None /\ d \in Place
  BY PulseAssumption DEF Place
<1>3. phase = "up" \/ (phase = "stopping" /\ step < 3)
  BY <1>1 DEF Channelled
<1>4. temp = None /\ Tracking /\ step \in Nat
  BY <1>3 DEF Channelled, Tracking, TrackerType
<1>5. Tracking' /\ TrackerType'
  BY <1>1, <1>2, <1>4 DEF Tracking, TrackerType
<1> QED BY <1>1, <1>2, <1>3, <1>4, <1>5 DEF Remembered, Channelled

LEMMA StartTracked == ASSUME TrackerInv, StartStep PROVE TrackerInv'
<1> USE DEF TrackerInv
<1>1. /\ phase = "starting" /\ step \in 0..5 /\ ~connected /\ coord # "stopping"
      /\ temp = None
  BY DEF StartStep, TrackerType, Channelled
<1>2. /\ UNCHANGED <<file, temp, latest, sure>>
      /\ step' = step + 1
      /\ phase' = IF step + 1 = 6 THEN "up" ELSE "starting"
      /\ tracker' = IF StartOrder[step + 1] = "tracker" THEN Loaded ELSE tracker
      /\ coord' = IF StartOrder[step + 1] = "coordinator" THEN "running" ELSE coord
      /\ connected' = (connected \/ StartOrder[step + 1] = "channels")
  BY <1>1, Orders DEF StartStep
<1>3. /\ step = 2 => tracker' = Loaded
      /\ step # 2 => tracker' = tracker
      /\ connected' <=> step = 5
      /\ coord' # "stopping"
  <2>1. step = 0 \/ step = 1 \/ step = 2 \/ step = 3 \/ step = 4 \/ step = 5
    BY <1>1
  <2>2. /\ step = 2 <=> StartOrder[step + 1] = "tracker"
        /\ step = 5 <=> StartOrder[step + 1] = "channels"
    BY <2>1, Orders
  <2> QED BY <1>1, <1>2, <2>2
<1>4. TrackerType'
  BY <1>1, <1>2, <1>3 DEF TrackerType, Loaded
<1>5. Channelled'
  BY <1>1, <1>2, <1>3 DEF Channelled
<1>6. Remembered'
  <2>1. CASE step = 2
    <3>1. /\ ~Tracking /\ tracker = None /\ Tracking'
          /\ phase' = "starting" /\ step' = 3
      BY <1>1, <1>2, <2>1 DEF Tracking, Remembered
    <3>2. tracker' = file
      BY <1>3, <2>1, <3>1, PulseAssumption DEF Loaded, TrackerType, Place
    <3> QED BY <1>2, <3>1, <3>2 DEF Remembered
  <2>2. CASE step < 2
    <3>1. ~Tracking /\ ~Tracking' /\ phase' = "starting" /\ tracker' = tracker
      BY <1>1, <1>2, <1>3, <2>2 DEF Tracking
    <3> QED BY <1>1, <1>2, <2>2, <3>1 DEF Remembered
  <2>3. CASE step > 2
    <3>1. Tracking /\ Tracking' /\ tracker' = tracker
      BY <1>1, <1>2, <1>3, <2>3 DEF Tracking
    <3> QED BY <1>1, <1>2, <2>3, <3>1 DEF Remembered
  <2> QED BY <1>1, <2>1, <2>2, <2>3
<1> QED BY <1>4, <1>5, <1>6

LEMMA StopTracked == ASSUME TrackerInv, StopStep PROVE TrackerInv'
<1> USE DEF TrackerInv
<1>1. PICK s \in {"rpc", "scheduler", "channels", "router"} :
        Stopping(s) /\ connected' = (connected /\ s # "channels")
  BY DEF StopStep
<1>2. /\ phase = "stopping" /\ step \in 0..3 /\ step' = step + 1
      /\ UNCHANGED <<phase, coord, tracker, file, temp, latest, sure>>
  BY <1>1, StoppingAt DEF StopStep, TrackerType, trackerVars
<1>3. step = 2 => s = "channels"
  BY <1>1, Orders DEF Stopping
<1>4. temp = None /\ coord # "stopping" /\ Tracking /\ Tracking'
  BY <1>2 DEF Channelled, Tracking
<1>5. connected' => step' < 3
  <2>1. connected' => step < 3 /\ step # 2
    BY <1>1, <1>2, <1>3 DEF Channelled
  <2>2. step < 3 /\ step # 2 => step' < 3
    BY <1>2
  <2> QED BY <2>1, <2>2
<1> QED
  BY <1>1, <1>2, <1>4, <1>5 DEF TrackerType, Remembered, Channelled

LEMMA SaveTracked == ASSUME TrackerInv, SaveBegins \/ SaveEnds PROVE TrackerInv'
<1> USE DEF TrackerInv, daemonVars
<1>1. /\ phase = "stopping" /\ step = 4 /\ Tracking
      /\ UNCHANGED <<phase, connected, coord, tracker, latest>>
  BY StoppingAt DEF SaveBegins, SaveEnds, Tracking, TrackerType
<1>2. CASE SaveBegins
  BY <1>1, <1>2 DEF SaveBegins, TrackerType, Remembered, Tracking, Channelled
<1>3. CASE SaveEnds
  <2>1. /\ temp' = None /\ step' = 5 /\ ~Tracking' /\ ~connected
        /\ coord # "stopping"
    BY <1>1, <1>3 DEF SaveEnds, Tracking, Channelled
  <2>2. sure' => sure /\ file' = tracker
    BY <1>1, <1>3 DEF SaveEnds, Remembered, Channelled, TrackerType
  <2>3. TrackerType'
    <3>1. sure' \in BOOLEAN
      BY <1>3 DEF SaveEnds, TrackerType
    <3>2. file' \in Place
      BY <1>3 DEF SaveEnds, TrackerType
    <3>3. step' \in Nat /\ temp' \in Place
      BY <2>1 DEF Place
    <3> QED BY <1>1, <3>1, <3>2, <3>3 DEF TrackerType
  <2> QED BY <1>1, <2>1, <2>2, <2>3 DEF Remembered, Channelled
<1> QED BY <1>2, <1>3

LEMMA EndTracked == ASSUME TrackerInv, Exit \/ Crash PROVE TrackerInv'
<1> USE DEF TrackerInv
<1>1. /\ phase' = "down" /\ step' = 0 /\ connected' = FALSE /\ coord' = "stopped"
      /\ tracker' = None /\ temp' = None /\ UNCHANGED <<file, latest>>
  BY DEF Exit, Crash, ProcessEnds
<1>2. sure' \in BOOLEAN /\ (sure' => file = latest)
  <2>1. CASE Exit
    BY <2>1, Orders DEF Exit, TrackerType, Remembered, Tracking
  <2>2. CASE Crash
    BY <2>2 DEF Crash, TrackerType
  <2> QED BY <2>1, <2>2
<1> QED
  BY <1>1, <1>2 DEF TrackerType, Remembered, Tracking, Channelled, Place

LEMMA TrackerNext == ASSUME TrackerInv, [Next]_vars PROVE TrackerInv'
<1> USE DEF daemonVars, trackerVars
<1>1. ASSUME NEW d \in Destination, Inbound(d) PROVE TrackerInv'
  BY <1>1, InboundTracked
<1>2. CASE Boot
  BY <1>2 DEF Boot, TrackerInv, TrackerType, Remembered, Tracking, Channelled
<1>3. CASE StopBegins
  BY <1>3 DEF StopBegins, TrackerInv, TrackerType, Remembered, Tracking, Channelled
<1>4. CASE StartStep \/ StopStep
  BY <1>4, StartTracked, StopTracked
<1>5. CASE SaveBegins \/ SaveEnds
  BY <1>5, SaveTracked
<1>6. CASE ShutdownBegins
  BY <1>6, StoppingAt
  DEF ShutdownBegins, TrackerInv, TrackerType, Remembered, Tracking, Channelled
<1>7. CASE ShutdownEnds
  BY <1>7 DEF ShutdownEnds, TrackerInv, TrackerType, Remembered, Tracking, Channelled
<1>8. CASE Exit \/ Crash
  BY <1>8, EndTracked
<1>9. CASE \/ Fire \/ Trigger
           \/ \E r \in Run : \/ RunStep(r) \/ Hold(r) \/ AgentEnds(r)
                            \/ \E text \in {"text", "rest"} : Write(r, text)
  <2>1. UNCHANGED trackerState
    BY <1>9
    DEF trackerState, Fire, Trigger, BeginRun, RunStep, AdapterReady, Spawned, TimesOut, Respond, RespondFails,
        Hold, AgentEnds, Write
  <2> QED BY <2>1, TrackerStays
<1>10. CASE UNCHANGED vars
  BY <1>10, TrackerStays DEF vars, trackerState
<1> QED
  BY <1>1, <1>2, <1>3, <1>4, <1>5, <1>6, <1>7, <1>8, <1>9, <1>10 DEF Next

\* A daemon that was stopped in order starts with the destination a user was last active
\* from, over any number of starts, messages and crashes; and whatever dies, the file is a
\* whole one.
THEOREM LastActiveIsKept == Spec => []LastActiveSurvives
<1>1. TrackerInv => LastActiveSurvives
  BY PulseAssumption
  DEF TrackerInv, TrackerType, Remembered, Tracking, LastActiveSurvives, Place
<1>2. TrackerInv /\ [Next]_vars => TrackerInv'
  BY TrackerNext
<1> QED BY <1>1, <1>2, TrackerInit, PTL DEF Spec
=============================================================================
