----------------------------- MODULE ToolCalls -----------------------------
(***************************************************************************)
(* The tool calls of one agent session: the step context for durable tools  *)
(* (orchestrator/src/tools/step-context.ts), the wrapper and the tracker    *)
(* the library calls tools through (adapters/pi/guidance.ts), the           *)
(* instance's requests (adapters/pi/instance.ts), the shell tool's child    *)
(* process (tools/shell/executor.ts), and the transcript as it goes through *)
(* a checkpoint (adapters/pi/messages.ts).                                 *)
(*                                                                         *)
(* The library executes the calls of a turn one after the other, because    *)
(* the instance asks it to: the calls share one tracker.  Each call has an  *)
(* id of its own and is executed once, suspended or not, so its step        *)
(* context starts empty and what the code has for a second execution        *)
(* (memoized results, resume data) is never read.                          *)
(***************************************************************************)
EXTENDS Naturals, Sequences, FiniteSets, SequencesExt, Functions

CONSTANTS
    Programs,   \* what durable tools do: sequences of operations
    None,
    MaxCalls,   \* bound: tool calls of a transcript
    MaxRestores \* bound: checkpoints the session is continued from

\* What a durable tool asks of its StepContext: a step, or to wait for input, approval, an
\* event or a time.
Operation == [kind : {"step", "wait"}, name : STRING]

ASSUME ToolAssumption ==
    /\ Programs \subseteq Seq(Operation)
    /\ MaxCalls \in Nat /\ MaxRestores \in Nat

VARIABLES
    turn,      \* whose turn it is: the user's, the model's or the tools'; or the run is
               \* over, and then done or waiting
    messages,  \* the library's transcript
    saved,     \* the messages of the last checkpoint, or None
    restores,  \* times the session was continued
    todo,      \* calls of the turn that are not executed
    aborted,   \* abort() was called
    left,      \* what is left to do of each durable call under way, or None
    steps,     \* the completed steps of each call's context
    tracker,   \* the call that the tracker speaks of, or NoCall
    requests,  \* pendingRequests: ids of calls
    asked,     \* toolExecutionStates
    answers,   \* resumeData: the calls it has an answer for
    child      \* a command's process, and the id of its call

session == <<turn, messages, saved, restores, todo>>
durable == <<left, steps, tracker, requests, asked, answers>>
vars == <<session, aborted, durable, child>>

Ids == 1..MaxCalls
Text == [type |-> "text", id |-> 0]
Calling(id) == [type |-> "toolCall", id |-> id]
Message(role, content, id) ==
    [role |-> role, content |-> content, call |-> id, stop |-> "none"]
\* createToolExecutionTracker: nothing is executed.
NoCall == 0
NoChild == [call |-> 0, state |-> "none", stubborn |-> FALSE, escaped |-> FALSE,
            killing |-> FALSE]

\* The constructor.
Init ==
    /\ turn = "user" /\ messages = <<>> /\ saved = None /\ restores = 0 /\ todo = <<>>
    /\ aborted = FALSE /\ child = NoChild
    /\ left = [c \in Ids |-> None] /\ steps = [c \in Ids |-> {}] /\ tracker = NoCall
    /\ requests = {} /\ asked = {} /\ answers = {}

(***************************************************************************)
(* The transcript.                                                         *)
(***************************************************************************)
\* Mutation of AssistantToCheckpoint: what the model said, without its calls.
AssistantToCheckpointText(m) ==
    [role |-> "assistant", content |-> SelectSeq(m.content, LAMBDA c : c.type = "text"),
     call |-> 0]
\* assistantMessageToCheckpoint: the stop reason is not kept.
AssistantToCheckpoint(m) ==
    [role |-> "assistant",
     content |-> [i \in DOMAIN m.content |->
                    IF m.content[i].type = "toolCall"
                    THEN [m.content[i] EXCEPT !.type = "tool_use"] ELSE m.content[i]],
     call |-> 0]
\* piMessagesToCheckpoint.
ToCheckpoint(m) ==
    CASE m.role = "user" -> [role |-> "user", content |-> m.content, call |-> 0]
      [] m.role = "assistant" -> AssistantToCheckpoint(m)
      [] m.role = "toolResult" ->
            [role |-> "tool_result", content |-> m.content, call |-> m.call]

\* checkpointToPiMessages: an assistant's message has stopped in order.
FromCheckpoint(m) ==
    CASE m.role = "user" -> Message("user", m.content, 0)
      [] m.role = "assistant" ->
            [Message("assistant",
                     [i \in DOMAIN m.content |->
                        IF m.content[i].type = "tool_use"
                        THEN [m.content[i] EXCEPT !.type = "toolCall"] ELSE m.content[i]],
                     0) EXCEPT !.stop = "stop"]
      [] m.role = "tool_result" -> Message("toolResult", m.content, m.call)

Called == {id \in Ids : \E i \in DOMAIN messages : Contains(messages[i].content, Calling(id))}
Each(Op(_), s) == [i \in DOMAIN s |-> Op(s[i])]

\* The library has no call under way.
Idle == child.call = 0 /\ \A c \in Ids : left[c] = None

\* run() with an input.
Prompt ==
    /\ turn = "user" /\ Len(messages) < 3 * (MaxRestores + 1)
    /\ turn' = "model"
    /\ messages' = Append(messages, Message("user", <<Text>>, 0))
    /\ UNCHANGED <<saved, restores, todo, aborted, durable, child>>

\* The model replies with text and perhaps calls, or the request failed.
Reply ==
    /\ turn = "model"
    /\ \E ids \in {<<>>, <<Cardinality(Called) + 1>>,
                   <<Cardinality(Called) + 1, Cardinality(Called) + 2>>} :
        /\ Cardinality(Called) + Len(ids) <= MaxCalls
        /\ todo' = ids
        /\ turn' = IF ids = <<>> THEN "over" ELSE "tools"
        /\ \E stop \in IF ids = <<>> THEN {"stop", "error"} ELSE {"toolUse"} :
            messages' = Append(messages,
                [Message("assistant", <<Text>> \o Each(Calling, ids), 0) EXCEPT !.stop = stop])
    /\ UNCHANGED <<saved, restores, aborted, durable, child>>

\* The end of run(): a reply that is an error fails the run, a pending request leaves it
\* waiting.  Otherwise it is completed.  A done event makes the coordinator take a
\* checkpoint.
EndRun ==
    /\ turn = "over"
    /\ IF requests = {} \/ messages[Len(messages)].stop = "error"
       THEN turn' = "done" /\ saved' = Each(ToCheckpoint, messages)
       ELSE turn' = "waiting" /\ saved' = saved
    /\ UNCHANGED <<messages, restores, todo, aborted, durable, child>>

\* createPiAgentInstanceFromCheckpoint, in this process or the next: the messages come
\* back, requests and the state of tools do not.
Restore ==
    /\ saved # None /\ restores < MaxRestores /\ Idle /\ turn # "user"
    /\ turn' = "user" /\ messages' = Each(FromCheckpoint, saved)
    /\ restores' = restores + 1 /\ todo' = <<>> /\ aborted' = FALSE
    /\ steps' = [c \in Ids |-> {}] /\ tracker' = NoCall
    /\ requests' = {} /\ asked' = {} /\ answers' = {}
    /\ UNCHANGED <<saved, left, child>>

(***************************************************************************)
(* A call begins and ends.                                                 *)
(***************************************************************************)
\* toolResultToAgentToolResult, or an exception the library makes a result: the model is
\* told.  After an abort the run is over.
EndCall(id) ==
    /\ messages' = Append(messages, Message("toolResult", <<Text>>, id))
    /\ todo' = IF aborted THEN <<>> ELSE todo
    /\ turn' = IF aborted THEN "over" ELSE IF todo = <<>> THEN "model" ELSE "tools"
    /\ UNCHANGED <<saved, restores>>

\* Mutation of BeginDurable: the library executes the calls of a turn together.
BeginDurableTogether ==
    /\ turn = "tools" /\ todo # <<>> /\ ~aborted
    /\ todo' = Tail(todo) /\ tracker' = Head(todo)
    /\ \E program \in Programs : left' = [left EXCEPT ![Head(todo)] = program]
    /\ UNCHANGED <<turn, messages, saved, restores, aborted, steps, requests, asked, answers,
                   child>>

\* convertTool's execute for a durable tool, with a step context that is empty:
\* toolExecutionStates has nothing under an id that is new.
BeginDurable ==
    /\ turn = "tools" /\ Idle /\ todo # <<>> /\ ~aborted
    /\ todo' = Tail(todo) /\ tracker' = Head(todo)
    /\ \E program \in Programs : left' = [left EXCEPT ![Head(todo)] = program]
    /\ UNCHANGED <<turn, messages, saved, restores, aborted, steps, requests, asked, answers,
                   child>>

\* The shell tool: the child is spawned; it may ignore SIGTERM, and may leave a process
\* outside its group that keeps the pipes open.
BeginShell ==
    /\ turn = "tools" /\ Idle /\ todo # <<>> /\ ~aborted
    /\ todo' = Tail(todo)
    /\ \E stubborn, escaped \in BOOLEAN :
        child' = [call |-> Head(todo), state |-> "running", stubborn |-> stubborn,
                  escaped |-> escaped, killing |-> FALSE]
    /\ UNCHANGED <<turn, messages, saved, restores, aborted, durable>>

(***************************************************************************)
(* A durable call and its step context.                                    *)
(***************************************************************************)
Doing(c, kind) == left[c] # None /\ left[c] # <<>> /\ Head(left[c]).kind = kind
Ended(c) == left' = [left EXCEPT ![c] = None]

\* run(): a step that this execution has not had is executed.
Execute(c) ==
    /\ Doing(c, "step") /\ Head(left[c]).name \notin steps[c]
    /\ steps' = [steps EXCEPT ![c] = @ \cup {Head(left[c]).name}]
    /\ left' = [left EXCEPT ![c] = Tail(@)]
    /\ UNCHANGED <<session, aborted, tracker, requests, asked, answers, child>>

\* The tool throws, by itself, in a step, or because run() has had the step: its error is
\* the result.
Fails(c) ==
    /\ left[c] # None
    /\ Ended(c) /\ tracker' = NoCall
    /\ EndCall(c)
    /\ UNCHANGED <<aborted, steps, requests, asked, answers, child>>

\* waitForApproval and the others: handleSuspension, which asks the tracker for the input
\* and the steps, then the exception, which does not clear the tracker.
Suspend(c) ==
    /\ Doing(c, "wait")
    /\ requests' = requests \cup {c}
    /\ asked' = asked \cup
          {[call |-> c, input |-> tracker,
            completed |-> IF tracker = NoCall THEN {} ELSE steps[tracker]]}
    /\ Ended(c)
    /\ EndCall(c)
    /\ UNCHANGED <<aborted, steps, tracker, answers, child>>

\* The tool returns.
Returns(c) ==
    /\ left[c] # None /\ left[c] = <<>>
    /\ Ended(c) /\ tracker' = NoCall
    /\ EndCall(c)
    /\ UNCHANGED <<aborted, steps, requests, asked, answers, child>>

\* resolve(): the request is no longer pending.  An answer that is a result is kept, under
\* "<id>:suspended", which no step is called; a cancellation or a bare approval is not.  A
\* run that waits stays as it is: nothing calls the tool or the model again.
Resolve ==
    \E c \in requests :
        /\ requests' = requests \ {c}
        /\ answers' \in {answers, answers \cup {c}}
        /\ UNCHANGED <<session, aborted, left, steps, tracker, asked, child>>

DurableStep == \E c \in Ids : Execute(c) \/ Fails(c) \/ Suspend(c) \/ Returns(c)

(***************************************************************************)
(* The child process of a command.                                         *)
(***************************************************************************)
Shell == child.call # 0

\* It exits, by itself or because of a signal.
Exited == [child EXCEPT !.state = IF child.escaped THEN "held" ELSE "closed"]

ChildExits ==
    /\ Shell /\ child.state = "running"
    /\ child' = Exited
    /\ UNCHANGED <<session, aborted, durable>>

\* The process that keeps the pipes open ends.
PipesClose ==
    /\ Shell /\ child.state = "held"
    /\ child' = [child EXCEPT !.state = "closed"]
    /\ UNCHANGED <<session, aborted, durable>>

\* handleAbort: SIGTERM, and a timer.
Signalled ==
    [(IF child.state = "running" /\ ~child.stubborn THEN Exited ELSE child)
        EXCEPT !.killing = TRUE]

\* The command's time limit.
TimeLimit ==
    /\ Shell /\ child.state \in {"running", "held"} /\ ~child.killing
    /\ child' = Signalled
    /\ UNCHANGED <<session, aborted, durable>>

\* Mutation of Kill: the second signal is SIGTERM again.
KillPolitely ==
    /\ Shell /\ child.killing /\ child.state = "running" /\ ~child.stubborn
    /\ child' = Exited
    /\ UNCHANGED <<session, aborted, durable>>

\* A second after: SIGKILL to the group.
Kill ==
    /\ Shell /\ child.killing /\ child.state = "running"
    /\ child' = Exited
    /\ UNCHANGED <<session, aborted, durable>>

\* 'close', or 'error' when there is no child: the promise is resolved.
ShellResult ==
    /\ Shell /\ child.state = "closed"
    /\ child' = NoChild
    /\ EndCall(child.call)
    /\ UNCHANGED <<aborted, durable>>

SpawnFails ==
    /\ Shell /\ child.state = "running" /\ ~child.killing
    /\ child' = NoChild
    /\ EndCall(child.call)
    /\ UNCHANGED <<aborted, durable>>

\* terminate() of the handle: abort() of the instance, and a done event, so a checkpoint of
\* what the transcript is now.
Abort ==
    /\ ~aborted /\ turn \in {"model", "tools", "waiting"}
    /\ aborted' = TRUE
    /\ child' = IF Shell /\ child.state # "closed" THEN Signalled ELSE child
    /\ turn' = IF turn # "waiting" /\ Idle THEN "over" ELSE turn
    /\ saved' = Each(ToCheckpoint, messages) /\ todo' = <<>>
    /\ UNCHANGED <<messages, restores, durable>>

ShellStep == TimeLimit \/ Kill \/ ShellResult
Next ==
    \/ Prompt \/ Reply \/ EndRun \/ Restore \/ BeginDurable \/ BeginShell
    \/ DurableStep \/ Resolve
    \/ ChildExits \/ PipesClose \/ ShellStep \/ SpawnFails \/ Abort

\* Timers fire and the system closes the pipes of processes that are gone.
Spec == Init /\ [][Next]_vars /\ WF_vars(ShellStep)

(***************************************************************************)
(* Properties.                                                             *)
(***************************************************************************)
\* What the session keeps of a suspended call is that call's own input and the steps of
\* that call's own execution, although the tracker it is taken from is shared by all calls
\* and a suspension leaves it set; requests and answers belong to calls that were
\* suspended; and no call of the turn still to be made has a state from an earlier one
\* (instance.ts: "tool execution state is shared across calls").
SuspensionsAreTheirOwn ==
    /\ \A a \in asked : a.input = a.call /\ a.completed = steps[a.call]
    /\ requests \cup answers \subseteq {a.call : a \in asked}
    /\ \A a \in asked : \A i \in DOMAIN todo : todo[i] # a.call

\* In every transcript the model is given, also one that went through checkpoints, each
\* result follows the call it belongs to, and no call has two (messages.ts).
ResultsFollowTheirCalls ==
    \A i \in DOMAIN messages : messages[i].role = "toolResult" =>
        /\ \E j \in 1..(i - 1) : Contains(messages[j].content, Calling(messages[i].call))
        /\ \A j \in DOMAIN messages :
              messages[j].role = "toolResult" /\ messages[j].call = messages[i].call => j = i

\* A command ends within its time limit or soon after an abort, also one that ignores
\* SIGTERM, unless a process outside its group holds its output (executor.ts).
CommandsEnd == Shell ~> (~Shell \/ child.escaped)
=============================================================================
