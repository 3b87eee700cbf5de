------------------------------ MODULE Telegram ------------------------------
(***************************************************************************)
(* The Telegram channel: the long-polling transport, the mappers, the user *)
(* filter and the outbound side (shared/comms/src/adapters/telegram,       *)
(* filters/user.ts, registry/impl.ts), with the transforms and the command *)
(* executor that the daemon's router puts between the channel and the      *)
(* agents (apps/daemon/src/router/transforms.ts, commands/executor.ts).    *)
(*                                                                         *)
(* An update is named by its update_id, its place in updates.  Telegram's  *)
(* server is external: it keeps an update until a getUpdates request names *)
(* a later offset.  What agents do is external too (module Router has it): *)
(* an agent that is at work for a destination may emit any event.          *)
(***************************************************************************)
EXTENDS Naturals, Sequences, FiniteSets, FiniteSetsExt

CONSTANTS
    Shapes,      \* the updates users may send: a set of records, see Shape
    Allowed,     \* allowedUserIds
    Registered,  \* names of the commands in the registry
    None,        \* an absent field
    MaxUpdates,  \* bound: updates that arrive
    MaxLoops,    \* bound: polling loops of one process that overlap
    MaxConnects, \* bound: operators' disconnects, connects and restarts
    MaxFailures, \* bound: requests that fail
    MaxEvents    \* bound: agent events and command answers

\* What users do, one kind for each field of TelegramUpdate the mapper reads.
Kinds == {"message", "edited_message", "callback_query", "my_chat_member", "other"}
\* message.photo ... message.contact; media may have a caption, a sticker an emoji.
Contents == {"text", "media", "captioned", "sticker", "emoji", "location", "contact"}

Shape == [kind    : Kinds,
          chat    : Nat,
          thread  : Nat \cup {None},
          from    : Nat \cup {None},
          command : STRING \cup {None}, \* the text's leading /word, without @bot
          content : Contents,
          whole   : BOOLEAN] \* the query has its message; the member is new

ASSUME TelegramAssumption ==
    /\ Shapes \subseteq Shape
    /\ None \notin Nat \cup STRING
    /\ {MaxUpdates, MaxLoops, MaxConnects, MaxFailures, MaxEvents} \subseteq Nat

VARIABLES
    updates,    \* every update that ever arrived at the server
    forgotten,  \* the server has dropped the updates up to this one
    running,    \* _running of the transport
    offset,     \* _offset: the next update to ask for
    loop,       \* the running calls of start()
    status,     \* _status of the channel
    seen,       \* history: how often an update was taken from a batch (0, 1, 2 = more)
    overlapped, \* history: two loops were alive at once
    restarts,   \* history: the process died and came back
    busy,       \* destinations whose agent is at work
    bound,      \* destinations that have a session
    resetting,  \* origins of the /new commands that wait for terminate()
    typed,      \* chats of _lastTypingAction that are younger than the debounce time
    calls,      \* API calls on their way
    connects, failures, events \* counters of the bounds

pollVars == <<updates, forgotten, running, offset, loop, status, seen, overlapped,
              restarts, connects, failures>>
talkVars == <<busy, bound, resetting, typed, calls, events>>
vars == <<pollVars, talkVars>>

Loops == 1..MaxLoops
Ids == 1..MaxUpdates
Ended == [at |-> "ended", from |-> 0, batch |-> {}]

(***************************************************************************)
(* References.  A ref is the triple that encodeRef() writes between colons. *)
(***************************************************************************)
encodeRef(chat, thread, message) == <<chat, thread, message>>
\* Mutation of encodeConversationRef: the thread is lost.
encodeConversationRefByChat(chat, thread) == encodeRef(chat, None, None)

\* The message is left out: all messages of a thread share one destination.
encodeConversationRef(chat, thread) == encodeRef(chat, thread, None)
decodeRef(ref) == [chatId |-> ref[1], threadId |-> ref[2]]

\* buildDestination: the origin of an event, with the message a reply may quote.
buildDestination(id) ==
    LET u == updates[id] IN
    [ref |-> encodeConversationRef(u.chat, u.thread), replyTo |-> id]

(***************************************************************************)
(* From an update to an event (mapUpdate) and to the agent's input.        *)
(***************************************************************************)
NoEvent == [type |-> "none"]
isCommand(u) == u.command # None

mapMessage(id) ==
    [type |-> "message_received", origin |-> buildDestination(id),
     content |-> updates[id].content]
mapCommandMessage(id) ==
    [type |-> "command_received", origin |-> buildDestination(id),
     command |-> updates[id].command]
mapEditedMessage(id) ==
    [type |-> "message_edited", origin |-> buildDestination(id)]
mapCallbackQuery(id) ==
    IF updates[id].whole
    THEN [type |-> "callback_received", origin |-> buildDestination(id)]
    ELSE NoEvent
mapChatMemberUpdate(id) ==
    IF updates[id].whole
    THEN [type |-> "conversation_started",
          origin |-> [ref |-> encodeRef(updates[id].chat, None, None), replyTo |-> None]]
    ELSE NoEvent

mapUpdate(id) ==
    LET u == updates[id] IN
    CASE u.kind = "message" /\ isCommand(u)  -> mapCommandMessage(id)
      [] u.kind = "message" /\ ~isCommand(u) -> mapMessage(id)
      [] u.kind = "edited_message"           -> mapEditedMessage(id)
      [] u.kind = "callback_query"           -> mapCallbackQuery(id)
      [] u.kind = "my_chat_member"           -> mapChatMemberUpdate(id)
      [] u.kind = "other"                    -> NoEvent

\* The sender as shouldProcess() finds it: it does not look at edited messages.
Sender(u) ==
    IF u.kind \in {"message", "callback_query", "my_chat_member"} THEN u.from ELSE None

shouldProcess(u) == Allowed = {} \/ Sender(u) = None \/ Sender(u) \in Allowed
\* extractTextFromContent is not null.
HasText(content) == content \in {"text", "captioned", "emoji", "contact"}

\* inboundEventToAgentInput is not null.
IsAgentInput(event) ==
    \/ event.type = "message_received" /\ HasText(event.content)
    \/ event.type \in {"command_received", "callback_received", "conversation_started"}

(***************************************************************************)
(* The router's side of an event: handleInbound and _handleCommand.  The   *)
(* state it changes is what an event of the batch leaves to the next.      *)
(***************************************************************************)
Message(dest, reply) == [chat |-> decodeRef(dest).chatId, thread |-> decodeRef(dest).threadId,
                         reply |-> reply, method |-> "sendMessage"]
Action(dest) == [chat |-> decodeRef(dest).chatId, thread |-> None,
                 reply |-> None, method |-> "sendChatAction"]

Talk == [busy |-> busy, bound |-> bound, resetting |-> resetting]

\* _routeToAgent, as far as the channel can tell.
ToAgent(s, dest) == [s EXCEPT !.busy = @ \cup {dest}, !.bound = @ \cup {dest}]

\* CommandExecutor.execute up to its await: an unknown command goes to the agent; /new
\* ends the destination's agent, and the handler waits for that.
execute(s, event) ==
    IF event.command \in Registered
    THEN [s EXCEPT !.busy = @ \ {event.origin.ref}, !.resetting = @ \cup {event.origin}]
    ELSE ToAgent(s, event.origin.ref)

handleInbound(s, event) ==
    CASE event.type = "command_received" -> execute(s, event)
      [] event.type # "command_received" /\ IsAgentInput(event) ->
            ToAgent(s, event.origin.ref)
      [] OTHER -> s

\* onUpdate of connect().
onUpdate(s, id) ==
    IF shouldProcess(updates[id]) THEN handleInbound(s, mapUpdate(id)) ELSE s

\* The for loop over a batch, in the order of the ids.
HandleBatch(batch) ==
    LET done[k \in 0..MaxUpdates] ==
            IF k = 0 THEN Talk
            ELSE IF k \in batch THEN onUpdate(done[k - 1], k) ELSE done[k - 1]
    IN  done[MaxUpdates]

(***************************************************************************)
(* Initial state: the daemon has connected its channels.                   *)
(***************************************************************************)
Asking(o) == [at |-> "asking", from |-> o, batch |-> {}]

Init ==
    /\ updates = <<>> /\ forgotten = 0
    /\ running = TRUE /\ offset = 0 /\ status = "connected"
    /\ loop = [l \in Loops |-> IF l = 1 THEN Asking(0) ELSE Ended]
    /\ seen = [i \in Ids |-> 0]
    /\ overlapped = FALSE /\ restarts = 0
    /\ busy = {} /\ bound = {} /\ resetting = {} /\ typed = {} /\ calls = {}
    /\ connects = 0 /\ failures = 0 /\ events = 0

\* A user does something.
Arrive ==
    /\ Len(updates) < MaxUpdates
    /\ \E s \in Shapes : updates' = Append(updates, s)
    /\ UNCHANGED <<forgotten, running, offset, loop, status, seen, overlapped,
                   restarts, connects, failures, talkVars>>

(***************************************************************************)
(* The polling loop.                                                       *)
(***************************************************************************)
\* The server takes getUpdates: it drops what is below the offset and answers
\* with what there is.  While there is nothing it keeps the request.
Answer(l) ==
    LET gone == Max({forgotten, loop[l].from - 1})
        batch == {i \in DOMAIN updates : i > forgotten /\ i >= loop[l].from}
    IN
    /\ loop[l].at = "asking"
    /\ gone # forgotten \/ batch # {}
    /\ forgotten' = gone
    /\ loop' = [loop EXCEPT ![l] =
                   IF batch = {} THEN @ ELSE [@ EXCEPT !.at = "answered", !.batch = batch]]
    /\ UNCHANGED <<updates, running, offset, status, seen, overlapped, restarts,
                   connects, failures, talkVars>>
\* Mutation of NextOffset: one too many, an update is never asked for.
NextOffsetTwo(batch) == Max(batch) + 2

\* Mutation of NextOffset: the update_id itself, which confirms nothing of it.
NextOffsetSame(batch) == Max(batch)

\* _offset after the last update of a batch.
NextOffset(batch) == Max(batch) + 1

\* getUpdates() returns: each update is handled, then the loop asks again.
Deliver(l) ==
    LET batch == loop[l].batch
        talk == HandleBatch(batch)
    IN
    /\ loop[l].at = "answered"
    /\ seen' = [i \in Ids |-> IF i \in batch /\ seen[i] < 2 THEN seen[i] + 1 ELSE seen[i]]
    /\ offset' = NextOffset(batch)
    /\ loop' = [loop EXCEPT ![l] = Asking(offset')]
    /\ busy' = talk.busy /\ bound' = talk.bound /\ resetting' = talk.resetting
    /\ UNCHANGED <<updates, forgotten, running, status, overlapped, restarts, connects,
                   failures, typed, calls, events>>

\* Mutation of Fail: the loop gives up after an error.
FailForGood(l) ==
    /\ loop[l].at \in {"asking", "answered"} /\ failures < MaxFailures
    /\ failures' = failures + 1
    /\ loop' = [loop EXCEPT ![l] = Ended]
    /\ status' = "reconnecting"
    /\ UNCHANGED <<updates, forgotten, running, offset, seen, overlapped, restarts,
                   connects, talkVars>>

\* The request or its answer is lost, or the server answers with an error: onError
\* changes the status, which nothing changes back, and the loop waits a second.
Fail(l) ==
    /\ loop[l].at \in {"asking", "answered"} /\ failures < MaxFailures
    /\ failures' = failures + 1
    /\ loop' = [loop EXCEPT ![l] = [@ EXCEPT !.at = "delay", !.batch = {}]]
    /\ status' = "reconnecting"
    /\ UNCHANGED <<updates, forgotten, running, offset, seen, overlapped, restarts,
                   connects, talkVars>>

\* The delay is over and the while loop looks at _running.
Wake(l) ==
    /\ loop[l].at = "delay"
    /\ loop' = [loop EXCEPT ![l] = IF running THEN Asking(offset) ELSE Ended]
    /\ UNCHANGED <<updates, forgotten, running, offset, status, seen, overlapped,
                   restarts, connects, failures, talkVars>>

(***************************************************************************)
(* Connecting and disconnecting.                                           *)
(***************************************************************************)
Alive == {l \in Loops : loop[l].at # "ended"}

\* stop(): pending requests end with an AbortError and their loops with them; a
\* loop in its delay knows nothing of it.
Aborted == [l \in Loops |-> IF loop[l].at = "delay" THEN loop[l] ELSE Ended]

\* start(): a new loop.
Started(loops) == LET l == CHOOSE k \in Loops : loops[k] = Ended
                  IN  [loops EXCEPT ![l] = Asking(offset)]

\* channel.disconnect of the RPC server.
Disconnect ==
    /\ status # "disconnected" /\ connects < MaxConnects
    /\ connects' = connects + 1
    /\ running' = FALSE /\ loop' = Aborted /\ status' = "disconnected"
    /\ UNCHANGED <<updates, forgotten, offset, seen, overlapped, restarts, failures, talkVars>>

\* channel.reconnect of the RPC server: disconnect(), then connect() in the same turn
\* of the event loop.  A loop that sleeps survives it.
Reconnect ==
    /\ connects < MaxConnects
    /\ \E l \in Loops : Aborted[l] = Ended
    /\ connects' = connects + 1
    /\ running' = TRUE /\ loop' = Started(Aborted) /\ status' = "connected"
    /\ overlapped' = (overlapped \/ \E l \in Loops : Aborted[l] # Ended)
    /\ UNCHANGED <<updates, forgotten, offset, seen, restarts, failures, talkVars>>

\* The process dies and the daemon connects again.  The bindings are on disk; the
\* offset, the runs and what was being sent are not.
Restart ==
    /\ connects < MaxConnects
    /\ connects' = connects + 1 /\ restarts' = restarts + 1
    /\ offset' = 0 /\ running' = TRUE /\ status' = "connected"
    /\ loop' = [l \in Loops |-> IF l = 1 THEN Asking(0) ELSE Ended]
    /\ busy' = {} /\ resetting' = {} /\ typed' = {} /\ calls' = {}
    /\ UNCHANGED <<updates, forgotten, seen, overlapped, failures, bound, events>>

(***************************************************************************)
(* The outbound side.                                                      *)
(***************************************************************************)
\* agentEventToOutboundIntent: what an event becomes; "suspended", "memory_updated"
\* and other status changes become nothing, and the empty final output neither.
AgentEvents == {"running", "output", "tool_start", "tool_progress", "tool_end", "thought",
                "error", "done", "suspended"}
IntentOf(event) ==
    CASE event \in {"running", "thought", "tool_end"} -> "agent_thinking"
      [] event = "output"        -> "agent_streaming"
      [] event = "tool_start"    -> "agent_tool_call"
      [] event = "tool_progress" -> "agent_tool_progress"
      [] event = "error"         -> "agent_error"
      [] event = "done"          -> "agent_responding"
      [] event = "suspended"     -> "none"

Typing == {"agent_thinking", "agent_streaming", "agent_tool_call", "agent_tool_progress"}

\* sendTypingIndicator: the time is noted before the call, whatever becomes of it.
SendTyping(dest) ==
    LET chat == decodeRef(dest).chatId IN
    IF chat \in typed THEN UNCHANGED <<typed, calls>>
    ELSE typed' = typed \cup {chat} /\ calls' = calls \cup {Action(dest)}
\* The intent of an agent's event has the bare destination: it quotes no message.
process(dest, intent) ==
    CASE intent \in Typing -> SendTyping(dest)
      [] intent \in {"agent_responding", "agent_error"} ->
            calls' = calls \cup {Message(dest, None)} /\ UNCHANGED typed
      [] intent = "none" -> UNCHANGED <<typed, calls>>

\* handleAgentEvent for a session that has its binding.  Calls are not awaited by the
\* next event: several may be on their way.  "done" ends the run; it may have no output.
AgentEvent(dest) ==
    /\ dest \in busy /\ events < MaxEvents
    /\ events' = events + 1
    /\ \E e \in AgentEvents :
          /\ busy' = IF e = "done" THEN busy \ {dest} ELSE busy
          /\ \/ dest \in bound /\ process(dest, IntentOf(e))
             \/ (dest \notin bound \/ e = "done") /\ UNCHANGED <<typed, calls>>
    /\ UNCHANGED <<bound, resetting, pollVars>>

\* The rest of /new and _sendTextResponse: the answer quotes the command.
Reset(origin) ==
    /\ origin \in resetting
    /\ resetting' = resetting \ {origin}
    /\ bound' = bound \ {origin.ref}
    /\ calls' = calls \cup {Message(origin.ref, origin.replyTo)}
    /\ UNCHANGED <<busy, typed, events, pollVars>>

\* Four seconds after a typing indicator.
TypingOver(chat) ==
    /\ chat \in typed
    /\ typed' = typed \ {chat}
    /\ UNCHANGED <<busy, bound, resetting, calls, events, pollVars>>

\* A call arrives, or fails (process() reports it and nobody tries again).
CallEnds(c) ==
    /\ c \in calls
    /\ calls' = calls \ {c}
    /\ UNCHANGED <<busy, bound, resetting, typed, events, pollVars>>

LoopStep(l) == Answer(l) \/ Deliver(l) \/ Wake(l)

Next ==
    \/ Arrive
    \/ \E l \in Loops : LoopStep(l) \/ Fail(l)
    \/ Disconnect \/ Reconnect \/ Restart
    \/ \E d \in busy : AgentEvent(d)
    \/ \E origin \in resetting : Reset(origin)
    \/ \E chat \in typed : TypingOver(chat)
    \/ \E c \in calls : CallEnds(c)

\* The loops go on, the server answers.  Failures are bounded, users and operators free.
Spec == Init /\ [][Next]_vars /\ \A l \in Loops : WF_vars(LoopStep(l))

(***************************************************************************)
(* Properties.                                                             *)
(***************************************************************************)
\* Every variable has its type.
TypeOK ==
    /\ updates \in Seq(Shapes) /\ forgotten \in 0..MaxUpdates
    /\ running \in BOOLEAN /\ offset \in 0..(MaxUpdates + 1)
    /\ status \in {"connected", "reconnecting", "disconnected"}
    /\ loop \in [Loops -> [at : {"asking", "answered", "delay", "ended"},
                           from : 0..(MaxUpdates + 1), batch : SUBSET Ids]]
    /\ seen \in [Ids -> 0..2] /\ overlapped \in BOOLEAN
    /\ \A c \in calls : c.method \in {"sendMessage", "sendChatAction"}

\* The server forgets an update only after the daemon has handled it: the offset moves
\* behind the handler, so that a crash, a failure or a reconnect at any point makes the
\* server send the rest again.  And an update is handled twice only when the process was
\* restarted, which forgets the offset, or a reconnect came upon a loop in its retry
\* delay, which leaves two loops on one offset (transport.ts, start and getUpdates).
ForgottenIsHandled ==
    /\ \A i \in 1..forgotten : seen[i] > 0
    /\ (\E i \in Ids : seen[i] = 2) => (overlapped \/ restarts > 0)

\* A message the bot is about to send goes to a chat and a thread from which somebody the filter
\* lets through has written, and quotes only a message of that thread (mappers.ts,
\* router transforms, channel.ts process).
RepliesGoHome ==
    \A c \in calls : c.method = "sendMessage" =>
        /\ \E i \in DOMAIN updates :
              /\ seen[i] > 0
              /\ Allowed # {} => updates[i].from \in Allowed \cup {None}
              /\ updates[i].chat = c.chat
              /\ updates[i].kind # "my_chat_member" => updates[i].thread = c.thread
        /\ c.reply # None => /\ updates[c.reply].chat = c.chat
                             /\ updates[c.reply].thread = c.thread

\* Every update that arrives while the channel is connected is handled, whatever fails
\* on the way, unless the channel is disconnected.
UpdatesAreHandled ==
    \A i \in Ids : (i <= Len(updates)) ~> (seen[i] > 0 \/ ~running)
=============================================================================
