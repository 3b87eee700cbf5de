---------------------------- MODULE AgentSession ----------------------------
(***************************************************************************)
(* One agent session in memory: the AgentHandle the daemon talks to        *)
(* (shared/orchestrator/src/handle/impl.ts), the PiAgentInstance behind it *)
(* (adapters/pi/instance.ts) with its event queue, and the model loop of   *)
(* the pi library, which is external.                                      *)
(*                                                                         *)
(* The instance's run() is an async generator: it forwards the events the  *)
(* library pushes into a queue, one per step, while operators pause,       *)
(* resume, terminate, feed and resolve the session.                        *)
(***************************************************************************)
EXTENDS Naturals, Sequences, SequencesExt, FiniteSets

CONSTANTS
    ToolCall,     \* tool calls that may suspend
    MaxOutputs,   \* bound: output events the model produces
    MaxSends,     \* bound: inputs sent after the start
    MaxOperator   \* bound: pauses, resumes and terminations

ASSUME SessionAssumption ==
    MaxOutputs \in Nat /\ MaxSends \in Nat /\ MaxOperator \in Nat

VARIABLES
    \* the handle
    status,    \* _status
    result,    \* result: "none" or the final status it carries
    waiter,    \* the promise of wait(): "none", "waiting" or what it gave
    emitted,   \* what the subscribers have received
    \* the instance
    inst,      \* _status
    pc,        \* where run() is
    queue,     \* its AsyncEventQueue
    held,      \* pausePromise is set
    pending,   \* pendingRequests: suspended tool calls
    sent,      \* inputs of send(); inputQueue keeps them, nothing reads it
    echo,      \* the last output the text of its done event repeats
    \* the library
    prompt,    \* the promise of agent.prompt()
    followUps, \* its follow-up queue
    aborted,   \* agent.abort() was called
    produced,  \* outputs so far
    used       \* operator commands so far

handleVars == <<status, result, waiter, emitted>>
libraryVars == <<prompt, followUps, aborted, produced>>
vars == <<handleVars, inst, pc, queue, held, pending, sent, echo, libraryVars,
          used>>

Results == {"completed", "failed", "terminated"}

\* Status events, progress and the three done events.
Events == {"running", "paused", "waiting", "completed", "output", "suspended",
           "error", "done:completed", "done:failed", "done:terminated"}
Done == [r \in Results |-> CASE r = "completed" -> "done:completed"
                             [] r = "failed" -> "done:failed"
                             [] r = "terminated" -> "done:terminated"]
DoneEvents == {Done[r] : r \in Results}
StatusEvents == {"running", "paused", "waiting", "completed"}

Init ==
    /\ status = "initializing" /\ result = "none" /\ waiter = "none"
    /\ emitted = <<>>
    /\ inst = "idle" /\ pc = "unstarted" /\ queue = <<>> /\ held = FALSE
    /\ pending = {} /\ sent = 0 /\ echo = 0
    /\ prompt = "none" /\ followUps = 0 /\ aborted = FALSE /\ produced = 0
    /\ used = 0

----------------------------------------------------------------------------
(* The handle's reaction to events (handleEvent).                          *)

\* Events the run yields in one turn: the last status event counts, and a
\* done event settles wait().
HandleEvents(es) ==
    LET states == {i \in DOMAIN es : es[i] \in StatusEvents}
        dones  == {r \in Results : Done[r] \in ToSet(es)}
    IN  /\ emitted' = emitted \o es
        /\ status' = IF states = {} THEN status
                     ELSE es[CHOOSE i \in states : \A j \in states : j <= i]
        /\ result' = IF dones = {} THEN result ELSE CHOOSE r \in dones : TRUE
        /\ waiter' = IF waiter = "waiting" /\ dones # {}
                     THEN CHOOSE r \in dones : TRUE ELSE waiter

\* wait(): at once when there is a result.
Wait ==
    /\ waiter = "none"
    /\ waiter' = IF result = "none" THEN "waiting" ELSE result
    /\ UNCHANGED <<status, result, emitted, inst, pc, queue, held, pending,
                   sent, echo, libraryVars, used>>

----------------------------------------------------------------------------
(* The pi library: agent.prompt() and its events.                          *)

Streaming == prompt = "streaming"

\* Mutation of Produce: an event that finds the queue empty is dropped.
ProduceLossy ==
    /\ Streaming
    /\ produced < MaxOutputs
    /\ produced' = produced + 1
    /\ queue' = IF queue = <<>> THEN queue ELSE Append(queue, "output")
    /\ UNCHANGED <<handleVars, inst, pc, held, pending, sent, echo, prompt,
                   followUps, aborted, used>>

\* A text delta is pushed to the queue.
Produce ==
    /\ Streaming
    /\ produced < MaxOutputs
    /\ produced' = produced + 1
    /\ queue' = Append(queue, "output")
    /\ UNCHANGED <<handleVars, inst, pc, held, pending, sent, echo, prompt,
                   followUps, aborted, used>>

TakeFollowUp ==
    /\ Streaming
    /\ followUps > 0
    /\ followUps' = followUps - 1
    /\ UNCHANGED <<handleVars, inst, pc, queue, held, pending, sent, echo,
                   prompt, aborted, produced, used>>

\* handleSuspension: a tool asks for input and throws; the library tells the
\* model that the call failed.
Suspend(t) ==
    /\ Streaming
    /\ t \notin pending
    /\ pending' = pending \cup {t}
    /\ UNCHANGED <<handleVars, inst, pc, queue, held, sent, echo, libraryVars,
                   used>>

\* The prompt settles: normally once there are no follow-ups or it was
\* aborted, with an exception, or with a reply that says it is an error.  The
\* queue is closed with it.
SettlePrompt(how) ==
    /\ Streaming
    /\ how = "ok" => followUps = 0 \/ aborted
    /\ prompt' = how
    /\ UNCHANGED <<handleVars, inst, pc, queue, held, pending, sent, echo,
                   followUps, aborted, produced, used>>

----------------------------------------------------------------------------
(* run().                                                                  *)

\* start(): the first status event, then the prompt, whose agent_start is a
\* status event too.  An input without a message calls no model.
Start(message) ==
    /\ pc = "unstarted"
    /\ inst' = "running"
    /\ pc' = "forwarding"
    /\ HandleEvents(<<"running">>)
    /\ IF message
       THEN prompt' = "streaming" /\ queue' = <<"running">>
       ELSE prompt' = "ok" /\ queue' = <<>>
    /\ UNCHANGED <<held, pending, sent, echo, followUps, aborted, produced,
                   used>>

\* Mutation of Forward: pause is not looked at between events.
ForwardUnheld ==
    /\ pc = "forwarding" /\ queue # <<>>
    /\ HandleEvents(<<Head(queue)>>)
    /\ queue' = Tail(queue)
    /\ UNCHANGED <<inst, pc, held, pending, sent, echo, libraryVars, used>>

\* The next event, unless a pause is in force: then "paused" and no more.
Forward ==
    /\ pc = "forwarding" /\ queue # <<>>
    /\ \/ /\ held
          /\ HandleEvents(<<"paused">>)
          /\ pc' = "held"
          /\ UNCHANGED queue
       \/ /\ ~held
          /\ HandleEvents(<<Head(queue)>>)
          /\ queue' = Tail(queue)
          /\ UNCHANGED pc
    /\ UNCHANGED <<inst, held, pending, sent, echo, libraryVars, used>>

\* Mutation of Finish: waits for the answers to suspended calls.
FinishWhenAnswered ==
    /\ pc = "forwarding" /\ queue = <<>> /\ prompt \in {"ok", "error", "bad"}
    /\ pending = {}
    /\ pc' = "ended"
    /\ IF prompt = "ok"
       THEN inst' = "completed" /\ HandleEvents(<<"completed", "done:completed">>)
       ELSE inst' = "failed" /\ HandleEvents(<<"error", "done:failed">>)
    /\ UNCHANGED <<queue, held, pending, sent, echo, libraryVars, used>>

\* Mutation of Finish: the loop is left as soon as the prompt has settled.
FinishAtOnce ==
    /\ pc = "forwarding" /\ prompt = "ok" /\ pending = {}
    /\ pc' = "ended"
    /\ inst' = "completed"
    /\ HandleEvents(<<"completed", "done:completed">>)
    /\ echo' \in 0..produced
    /\ UNCHANGED <<queue, held, pending, sent, libraryVars, used>>

\* The queue is closed and empty: nobody looks at pausePromise any more.  A
\* failed run yields no status event.  The done event of a completed one
\* carries the text of the last assistant message, and the chat is sent it.
Finish ==
    /\ pc = "forwarding" /\ queue = <<>> /\ prompt \in {"ok", "error", "bad"}
    /\ pc' = "ended"
    /\ \/ /\ prompt # "ok"
          /\ inst' = "failed"
          /\ HandleEvents(<<"error", "done:failed">>)
          /\ UNCHANGED echo
       \/ /\ prompt = "ok" /\ pending # {}
          /\ inst' = "waiting"
          /\ HandleEvents(<<"waiting", "suspended">>)
          /\ UNCHANGED echo
       \/ /\ prompt = "ok" /\ pending = {}
          /\ inst' = "completed"
          /\ HandleEvents(<<"completed", "done:completed">>)
          /\ echo' \in 0..produced
    /\ UNCHANGED <<queue, held, pending, sent, libraryVars, used>>

----------------------------------------------------------------------------
(* What others do to the session.                                          *)

\* send(): passed to the library only while the instance says it runs.
Send ==
    /\ sent < MaxSends
    /\ sent' = sent + 1
    /\ followUps' = IF inst = "running" THEN followUps + 1 ELSE followUps
    /\ UNCHANGED <<handleVars, inst, pc, queue, held, pending, echo, prompt,
                   aborted, produced, used>>

Operate ==
    /\ used < MaxOperator
    /\ used' = used + 1

Pause ==
    /\ Operate
    /\ status' = "paused"
    /\ IF inst = "running" THEN held' = TRUE /\ inst' = "paused"
       ELSE UNCHANGED <<held, inst>>
    /\ UNCHANGED <<result, waiter, emitted, pc, queue, pending, sent, echo,
                   libraryVars>>

\* Mutation of Resume: the run is not woken.
ResumeAsleep ==
    /\ Operate
    /\ status' = "running"
    /\ IF held THEN held' = FALSE /\ inst' = "running"
       ELSE UNCHANGED <<held, inst>>
    /\ UNCHANGED <<result, waiter, emitted, pc, queue, pending, sent, echo,
                   libraryVars>>

\* resume(): the run that waits goes on in the same turn with the event it
\* holds; the handle says "running" in any case.
Resume ==
    /\ Operate
    /\ IF held THEN held' = FALSE /\ inst' = "running"
       ELSE UNCHANGED <<held, inst>>
    /\ IF pc = "held" /\ held
       THEN /\ pc' = "forwarding"
            /\ HandleEvents(<<"running", Head(queue)>>)
            /\ queue' = Tail(queue)
       ELSE /\ status' = "running"
            /\ UNCHANGED <<result, waiter, emitted, pc, queue>>
    /\ UNCHANGED <<pending, sent, echo, libraryVars>>

\* Mutation of Terminate: the callers of wait() are not told.
TerminateQuietly ==
    /\ Operate
    /\ inst' = "aborted" /\ aborted' = TRUE
    /\ status' = "terminated" /\ result' = "terminated"
    /\ emitted' = Append(emitted, "done:terminated")
    /\ UNCHANGED <<waiter, pc, queue, held, pending, sent, echo, prompt,
                   followUps, produced>>

\* terminate(): aborts, settles wait() and emits done past handleEvent.
Terminate ==
    /\ Operate
    /\ inst' = "aborted" /\ aborted' = TRUE
    /\ status' = "terminated" /\ result' = "terminated"
    /\ waiter' = IF waiter = "waiting" THEN "terminated" ELSE waiter
    /\ emitted' = Append(emitted, "done:terminated")
    /\ UNCHANGED <<pc, queue, held, pending, sent, echo, prompt, followUps,
                   produced>>

\* resolve() of one suspended call; the last one says the instance runs.
Resolve(t) ==
    /\ t \in pending
    /\ pending' = pending \ {t}
    /\ inst' = IF pending = {t} /\ inst = "waiting" THEN "running" ELSE inst
    /\ UNCHANGED <<handleVars, pc, queue, held, sent, echo, libraryVars, used>>

----------------------------------------------------------------------------

Library ==
    \/ Produce \/ TakeFollowUp
    \/ \E how \in {"ok", "error", "bad"} : SettlePrompt(how)

Next ==
    \/ \E message \in BOOLEAN : Start(message)
    \/ Library \/ Forward \/ Finish
    \/ Wait \/ Send \/ Pause \/ Resume \/ Terminate
    \/ \E t \in ToolCall : Suspend(t) \/ Resolve(t)

Spec == Init /\ [][Next]_vars

\* The library makes progress and the run is driven by start()'s loop.
FairSpec ==
    /\ Spec
    /\ WF_vars(Library)
    /\ WF_vars(Forward \/ Finish)

----------------------------------------------------------------------------
(* Properties.                                                             *)

\* Every variable has its type.
TypeOK ==
    /\ status \in {"initializing", "running", "paused", "waiting", "completed",
                   "terminated"}
    /\ result \in Results \cup {"none"}
    /\ waiter \in Results \cup {"none", "waiting"}
    /\ emitted \in Seq(Events)
    /\ inst \in {"idle", "running", "paused", "waiting", "completed", "failed",
                 "aborted"}
    /\ pc \in {"unstarted", "forwarding", "held", "ended"}
    /\ queue \in Seq({"running", "output"})
    /\ held \in BOOLEAN /\ aborted \in BOOLEAN
    /\ pending \subseteq ToolCall
    /\ echo \in 0..MaxOutputs
    /\ sent \in 0..MaxSends /\ followUps \in 0..MaxSends
    /\ prompt \in {"none", "streaming", "ok", "error", "bad"}
    /\ produced \in 0..MaxOutputs
    /\ used \in 0..MaxOperator

Count(seq, e) == Cardinality({i \in DOMAIN seq : seq[i] = e})

\* Nothing the model says is lost or repeated between the library's callback
\* and the subscribers, through pauses, resumes and terminations (run(),
\* AsyncEventQueue).
OutputIsConserved ==
    Count(emitted, "output") + Count(queue, "output") = produced

\* Callers of wait() are answered exactly when subscribers have seen a done
\* event, with a result one of them carried: the coordinator's shutdown, which
\* waits for the runs, neither hangs on an ended one nor overtakes a live one.
WaitersAreAnswered ==
    LET ended == \E i \in DOMAIN emitted : emitted[i] \in DoneEvents
    IN  /\ ended <=> result # "none"
        /\ ended => waiter # "waiting"
        /\ waiter \in Results =>
                \E i \in DOMAIN emitted : emitted[i] = Done[waiter]

\* A pause holds back what was not said before it.  From pause() to resume()
\* no output reaches the subscribers, whatever the model goes on producing
\* behind it.  What may still come is the end of the run: run() looks at the
\* pause only when it has pulled another event, so one whose outputs have all
\* been forwarded completes while it is held, and its done event has the chat
\* sent the answer once more - in full, but never with an output that has not
\* come through before (run's loop, getLastAssistantMessage,
\* transforms.ts 239-253).
PauseHoldsBack ==
    [][held /\ held' =>
        /\ Count(emitted', "output") = Count(emitted, "output")
        /\ echo' # echo => echo' <= Count(emitted, "output")]_vars

\* A run that is not left paused comes to its end: whether it streams, waits at
\* a pause or was just woken from one (start, run, resume, pauseResolve).
RunsEnd == pc \in {"forwarding", "held"} ~> pc = "ended" \/ held
============================================================================
