# Verification of Genii

TLA+ models of the Genii daemon (`apps/daemon`, `shared/orchestrator`,
`shared/comms`), of the CLI (`apps/cli`) and of the configuration both share
(`shared/config`), the TLC configurations that check them, and theorems checked by
TLAPS. Paths below are relative to the repository.

## The system

Genii runs one daemon process. Chat platforms reach it through *channels*; a
*router* hands each message to an *agent session*; the CLI controls the daemon
over a local socket. Everything in the daemon runs on one event loop: code
between two awaits is atomic, and anything may happen at an await. Several
processes meet at the socket path, the data directory and the secrets file.

| Component | State | Operations | Hard behaviour | Correct when |
| --- | --- | --- | --- | --- |
| Conversation manager and store (`daemon/src/conversations`) | two Maps (destination to binding, session to destination), a JSON file | `getOrCreate`, `bind`, `unbind`, `start`, `stop`, `restore` | the process may die inside a save; rebinding | the Maps agree; the file is whole and injective |
| Message router (`daemon/src/router`) | running flag, one handler per message | `_routeToAgent`: spawn, send, continue, restore; commands; agent events | handlers interleave at awaits; stale reads | messages stay in their conversation; nothing is left unread; handlers end; answers go home |
| Coordinator (`orchestrator/src/coordinator`) | status, map of handles | `spawn`, `continue`, `shutdown`, checkpoint on done | shutdown races spawns and runs | runs end or are terminated; sessions keep their own history |
| Checkpoint store (`orchestrator/src/snapshot`) | one file per session | `save`, `load` | not awaited, truncates in place, several writers | a reader copes with a cut-off file |
| Agent handle and instance (`orchestrator/src/handle`, `adapters/pi`) | two statuses, event queue, pause promise, suspended calls, transcript | `start`/`run`, `send`, `pause`, `resume`, `terminate`, `wait`, `resolve`, `checkpoint` | operators race the event stream; transcripts go through a checkpoint | no output lost; waiters answered; a pause holds; results follow their calls |
| Tools (`orchestrator/src/tools`) | the steps of a call, requests and answers of suspended calls, a child process | `run`, waits, the shell command | the calls of a turn share one tracker, which a suspension leaves set; time limits race the end of a process | what is kept of a suspended call is its own; a command ends |
| Event journal, subscriptions, RPC server (`daemon/src/rpc`) | bounded journal, subscription indexes, connections | append, subscribe with snapshot, notify, unsubscribe, cleanup | join while records are published and dropped; connections close at any time | each record once and in order; no subscription without a connection |
| CLI `agent tail` | buffered notifications, last sequence | subscribe, merge, print, end | notification ahead of the answer | as above |
| Daemon and shutdown manager (`daemon/src/daemon.ts`, `index.ts`, `shutdown`) | states, handlers by priority | start, stop, signals, RPC shutdown | shutdown requested twice, during start, with failing or hanging handlers | each handler once and in order; bindings are saved but for the spawns it overtakes |
| Transport and RPC client (`daemon/src/transport`, `cli/src/client.ts`) | line buffer, pending requests, socket | connect, request, answer, time out, close | partial lines, late answers, a reconnect over a closing socket | answers reach their own request; lines are whole; promises settle |
| Telegram channel (`comms/src/adapters/telegram`) | polling loops, offset, status, typing indicators | connect, disconnect, poll, map, filter, send | redelivery, two loops after a reconnect, restarts | nothing lost, nothing repeated without a cause, answers go home |
| Scheduler, pulse, last-active tracker (`daemon/src/scheduler`) | cron jobs, sessions with a buffer, a file | register, fire, trigger, respond, save, load | overlapping jobs, time limit, shutdown while messages arrive | a pulse sends its own response; the destination survives a stop; pulses end |
| Secrets, configuration, onboarding (`config/src`, `cli/src/tui/onboarding`, `daemon/src/onboard.ts`) | TOML files, secrets, guidance files, wizard state | pages, completion, writers, backup | partial failure, crash, second try, two setups at once | what was shown is saved; keys before providers; text survives |
| CLI `daemon start`, `daemon stop` | a child process, a polling loop | probe, spawn, wait | several commands and daemons, slow starts, crashes | one daemon serves; "stopped" is true; a restart carries on |
| Terminal UI (`cli/src/tui`) | views, hooks with a client each | navigate, poll, act | polls overlap with actions; views leave while requests run; the daemon changes or ends | reports are true; lists catch up; connections are let go |

`PROJECT.json` lists the rest (other CLI commands and their output, guidance and
prompt text, the log buffer, type declarations, the desktop stub): pure functions,
rendering or reads of files at start, with no state a step could break.

How the parts interact: a channel calls the router; the router reads and changes
the conversation manager and asks the coordinator for handles; a handle's events
go to the coordinator, which saves the checkpoint, and to the router, which looks
the destination up *backwards* (`getByAgent`) and sends the output there. The same
events go to the journal and to the subscriptions of RPC connections. The scheduler
spawns sessions of its own, whose output the pulse job collects and sends to the last
active destination. The shutdown manager stops them in the order RPC, scheduler and
channels, router, coordinator, conversation manager. The wizard writes the files
that the next start of the daemon reads.

## The modules

| Module | Models | State and actions against the code |
| --- | --- | --- |
| `Conversations` | `conversations/manager.ts`, `store.ts` | `byDestination`, `byAgent` are `_byDestination` (reduced to the session), `_byAgent`; `GetOrCreate`, `Bind`, `Unbind`, `Restore` the methods; `BeginLoad` ... `Rename`, `FailSave` the awaits of `start()`, `stop()` and `save()`; `Exit` the end of the process anywhere |
| `Router` | `router.ts`, `coordinator/impl.ts`, `snapshot/store.ts`, RPC and `/new` commands on sessions; composes `Conversations` | `task[m]` is the handler of message `m` and its local variables; one action per stretch between awaits (`HandleInbound`, `CallSpawn`, `Spawned`, `LoadCheckpoint`, `CallContinue`, `ReadCheckpoint`, `Continued`); `handle[m]` is the agent handle that handler made, `agents` the coordinator's map; `writes` the checkpoint saves nobody awaits |
| `ConversationLog` | what the daemon promises a user | one log per destination: `Accept`, and `Reset`, which uses up a `/new` (`commands`, which `Router` maps to the commands its scenario has left) |
| `AgentSession` | `handle/impl.ts`, `adapters/pi/instance.ts`, `events.ts` | `status`, `inst` the two `_status` fields; `queue` the `AsyncEventQueue`; `pc` the place of the generator `run()`; the pi library is external and may produce, end or fail at any time |
| `AgentOutput` | `event-journal.ts`, `subscriptions.ts`, `server.ts`, `tail.ts` | `journal`, `subscriptions`, `byConnection`, `byType` are the fields of those names; `wire[c]` what was written to a socket; `tail[c]` the CLI process |
| `Lifecycle` | `daemon.ts`, `shutdown/manager.ts`, `index.ts`, `handleDaemonShutdown` | `job` the promise of each shutdown handler, `stage`, `mode`, `level` the manager; `Boot` the steps of `start()`; `task[m]` the spawn that a message or an `agent.spawn` leads to, at its awaits (`Inbound`, `CallSpawn`, `Bound`, `Refused`); `overdue`, `saving` what the shutdown found when it began to stop the coordinator and to write the bindings; `Sigterm`, `Sigint`, `RpcShutdown` what asks for an end |
| `Telegram` | `adapters/telegram`, `filters/user.ts`, `router/transforms.ts`, `commands/executor.ts` | `loop` the calls of `start()` that have not returned, `offset` `_offset`; mappers as operators of the same names (`mapUpdate`, `mapMessage`, `decodeRef`, ...); `onUpdate` and `handleInbound` what one update does; `AgentEvent`, `Reset` the ways out; the Bot API is external |
| `Ipc` | `cli/src/client.ts`, `use-daemon.ts`, `codec.ts`, `socket/server.ts` | `pending`, `current`, `connected`, `buffer` the client's fields; `flow` its callers at their awaits; `up`, `down` the bytes of each socket, a response in two pieces; `Data` one `data` event with however many pieces |
| `Pulse` | `scheduler.ts`, `jobs/pulse.ts`, `last-active-tracker.ts`, `destination-resolver.ts`, with the start and stop order of `daemon.ts` and `spawn()`/`shutdown()` of the coordinator | `run[r]` one execution of the job with its buffer, `agent[r]` its session, `tracker`/`file`/`temp` the destination in memory and on disk |
| `ToolCalls` | `tools/step-context.ts`, `suspension.ts`, `adapters/pi/guidance.ts`, `messages.ts`, `instance.ts`, `tools/shell` | `left[c]` what the tool called as `c` has still to do, `steps[c]` its `StepContextImpl`, `tracker` the tracker all calls share, `requests`, `asked`, `answers` the instance's `pendingRequests`, `toolExecutionStates` and `resumeData`; `messages` and `saved` the transcript in the library and in the checkpoint, `child` the process of a command |
| `Onboarding` | the wizard and its pages, `complete.ts`, `commands/onboard.ts`, the writers, loaders and secret stores, `daemon/src/onboard.ts` | `wiz` the `OnboardingState`, `form` the local state of a page, `subs[i]` a running `completeOnboarding` with the jobs that are left, `disk`, `secrets`, `guide` the files |
| `Instances` | `commands/daemon/start.ts`, `stop.ts`, `index.ts` main, `listen()`/`close()` of the socket server, the bindings file | `proc` how far each daemon process is, `path` whose socket the path leads to, `cmd` a command at its awaits |
| `TerminalUi` | `cli/src/tui` without the wizard, the handlers behind its requests | `hooks[m]` a mounted hook with its client and list, `up`, `down` requests and answers, `pending` the `channel.reconnect` requests between their `disconnect()` and their `connect()`, `state` the daemon's agents and channels |
| `RouterProofs`, `LifecycleProofs`, `PulseProofs`, `AgentSessionProofs`, `InstancesProofs`, `IpcProofs`, `TelegramProofs`, `ToolCallsProofs` | | theorems about the modules they are named after; those about `Conversations` open `RouterProofs`, those about `AgentOutput` close `AgentSessionProofs`, those about `TerminalUi` close `InstancesProofs`, those about `Onboarding` close `IpcProofs` |
| `MC...` | | instances for TLC |

Each module also holds, before the definition it changes, the operator of a
plausible bug ("Mutation of ..."). `PROJECT.json` pairs each property with at least
one, and TLC finds the property violated when it takes the definition's place.

The modules overlap on purpose and do not share state: `Router` takes a session as
one run, `AgentSession` looks inside it, `ToolCalls` inside a turn of it; `Ipc` checks
what `AgentOutput`, `TerminalUi` and `Instances` assume of a connection (answers
name their request, a line is whole unless two sockets shared a decoder); `Lifecycle`
checks the order that `Pulse` uses and `Instances` reduces to three steps. `Router`
composes `Conversations` by its variables, is shown to implement its specification,
and implements `ConversationLog` for a patient user.

### Abstractions

- Messages, sessions and destinations are model values. A session is created by
  one handler only, so it is named after the message of that handler, which also
  stands for the freshness of UUIDs.
- The history of a session is the sequence of its user messages; what the agent
  says is left out of it, since only what belongs to whom and what is lost matters.
- Awaits of settled promises do not yield to I/O: what follows them belongs to the
  same step.
- A file is absent, torn (it does not parse) or its content. A write in place
  is two steps, open (which truncates) and close; two open writers of one file may
  leave either a whole text or a torn one. An empty TOML file parses as an empty
  table, an empty JSON file does not parse.
- Time passes by nondeterminism: time limits may expire at once, the 3 seconds
  between two SIGINTs at any time. In `Instances` the reverse matters too, and a
  history variable notes when a limit was missed.
- `AgentOutput`: the awaits between a handler's result and `sendResponse` are one
  step in which records may be published, so that notifications overtake answers.
- `Telegram`: an update is what its mapper and filter tell apart (kind, chat, thread,
  sender, command, kind of content); a reference is the triple that `encodeRef`
  writes between colons.
- `Ipc`: a response is two pieces so that a chunk may end within a line, contain
  several lines or parts of two. Bytes within a piece are not told apart: a character
  cut in two decodes to replacement characters, which damages text but not framing.
- `Onboarding`: a configuration file is what parsing it yields; one guidance file
  stands for three; a form is filled when it is left.
- `TerminalUi`: what a hook shows is the list with the time of the state it dates
  from; rendering is left out.

## What is checked

| Run | Shows | Bounds, and why they are enough |
| --- | --- | --- |
| `MCRouter` | the two Maps agree (`IndexesAgree`), the file is sound (`FileSound`: never cut off, one destination per session); conversations stay apart; follow-ups reach a run; the router uses the manager as specified (`ConvSpec`); a patient user's conversation is kept (`KeepsTheConversation`, refinement of `ConversationLog`) | three messages: two of one chat race, the third is another user's or the one that comes back; four environments (below) |
| `MCRouterLive` | every handler ends (`HandlersSettle`); a shutdown ends the process (`ShutdownEnds`) | two messages of one chat, one operator command, a crash, a restart, failures |
| `MCAgentSession` | `OutputIsConserved`, `WaitersAreAnswered`, `PauseHoldsBack` (what the model says after a pause is held back; what a run that ends while held repeats has been seen), `RunsEnd` | two outputs, two inputs, four operator commands (pause, resume, pause, terminate), one tool call |
| `MCAgentOutput` | `PrintsEveryRecordOnce`, `ReplayIsWhole`, `SubscriptionsBelong`, `DueRecordsArePrinted` | three setups: two tails that come and go; one among the records of two agents with four records and a journal of one (overflow before, during and after the join); a session of several turns with five records and a journal of two |
| `MCLifecycle` | `ShutdownIsOrderly` (once, in order, nothing lost but by spawns under way), `ShutdownEnds` | five of the seven handlers (the other two behave alike), one channel, one message or `agent.spawn` (their handlers share nothing here), two signals and two RPC requests, the coordinator may hang, which stands for any handler whose level has work behind it, anything may fail |
| `MCTelegram` | `ForgottenIsHandled`, `RepliesGoHome`, `UpdatesAreHandled` | two updates of five shapes (two chats, a thread, a command, a user who is not allowed, an edit, a member change), two loops, two failures, two operator actions: two loops on one offset need a failure, a disconnect and a connect |
| `MCIpc` | `AnswersMatch`, `LinesAreWhole`, `FlowsGoOn` | two callers, three requests, two sockets: one reconnect while the old socket closes |
| `MCPulse` | `ResponsesAreOwn`, `LastActiveSurvives`, `PulsesEnd` | a restart between two messages and a run; two runs at a time; a run that answers nobody; two texts per agent |
| `MCToolCalls` | `SuspensionsAreTheirOwn`, `ResultsFollowTheirCalls`, `CommandsEnd` | tools that return, ask for a step twice, wait at once, or wait after a step; three calls, up to two in a turn, so that a call may begin after one whose suspension left the tracker set; one restore |
| `MCOnboarding` | `CredentialsAreStored`, `SetupIsSaved`, `TextSurvivesABackup` | seven users: a first start with three edits; a builtin provider with a fault and a second setup, or with a crash; a custom provider on a platform with a keychain; one whose key has a name of its own; two whose models file names a provider that is gone, or does not parse |
| `MCTerminalUi` | `ReportsFollowTheirEffect`, `ListsCatchUp`, `ConnectionsAreReleased` | three mounts with a change of the daemon; two mounts with a request and two polls under way; one mount with a request, two polls and a change, so that the daemon ends at any place of an action; one mount and two changes, an end and a start |
| `MCInstances` | `ServesAlone`, `StoppedIsStopped`, `RestartsCarryOn`, `CommandsEnd` | two starts, a stop and a crash at any time; three starts, a stop and a crash with an operator who waits for each: the third start is the first that can meet what the second left |

The environments of `MCRouter` (`Scenarios`): *Busy*, two chats with a `/new`, an
unbind or an RPC spawn, and a restart; *Crashing*, the same with a crash;
*Operated*, any two commands and any failure; *Patient*, one user who waits for
every reply and its checkpoint, a `/new` and two restarts. A crash together with
failures and commands is in `MCRouterLive`. `KeepsTheConversation` maps the log of
a patient user only: after a crash or for somebody who writes while the agent is at
work the code promises less (`ARCHITECTURE.md`, "Durability"), and the
properties that hold for everybody are the others.

Some properties name the conditions under which they hold, each kept in a history
variable that a step of the code sets, and each needed: without it TLC finds a
counterexample that is a deviation listed below. `ServesAlone` and `StoppedIsStopped`
have four causes for two daemons (`excused`); `FollowUpsReachARun` leaves out failed
runs and operators who pause, resume or terminate one; `FlowsGoOn` lets a caller wait
for good once two `connect()` have overlapped; `ForgottenIsHandled` allows a repetition
after a restart or when two loops overlapped; `LinesAreWhole` allows a skipped line when
two sockets fed one decoder; `CredentialsAreStored` leaves out providers that kept a key
of another name (`loose`) and two setups at once (`alone`); `SetupIsSaved` leaves out
two setups at once, and speaks of models without a provider only where none was found at
the start and no setup has ended between the two files or in a write (`halfway`);
`CommandsEnd` of `ToolCalls` a process that left the group with the output (`escaped`);
`ShutdownIsOrderly` leaves out the bindings of spawns that were past the coordinator's
status check when it began to stop (`overdue`); and `ReportsFollowTheirEffect` a hook that
knows it could not fetch the list.

Type invariants (`TypeOK`) hold on these instances too; they are kept out of the
configurations, which list what could go wrong.

Runs that allow a behaviour to stop disable the deadlock check: processes exit, and
the bounds run out.

### Fairness

`Router`: pending I/O of a handler settles (`WF(Handler(m))`), and the shutdown
sequence and the start go on by themselves, with the exit at the end of it that the signal
handlers make (after an RPC shutdown the process ends when nothing is left to wait for, which
`Lifecycle` tells apart); nothing is assumed of the model, of users, of operators or of
checkpoint writes. `AgentSession`: the library makes
progress while it streams, and `start()` keeps pulling from `run()`. `AgentOutput`:
both event loops and the socket go on, per client. `Lifecycle`: a handler that does
not hang settles, timers fire. `Telegram`: each polling loop goes on (a request is
answered or fails, delays pass). `Ipc`: sockets deliver, peers close what was ended,
callers continue after their awaits; time limits are not fair, so that nothing depends
on them. `Pulse`: each run goes on, the ten minutes included. `ToolCalls`: the process
and the timers of a command. `TerminalUi`: each connection makes progress at one of its
ends, and the timers of mounted hooks fire. `Instances`: a daemon's start and stop go
on, a command continues, and its clock runs. No action of a user, operator or signal
is fair, and strong fairness is not used. `Onboarding` states none: its properties are
invariants, and a user may leave at any page.

### What the code does otherwise

The models contain what the code does; these steps are faithful and contradict a
comment, a document or what a user would expect. They are the reason for the
conditions in the properties above, or for a property that is not stated.

Router, sessions, daemon:

- Two first messages of an unbound chat both spawn; the second `bind` leaves the first
  agent running without a destination (`router.ts:393`; `ARCHITECTURE.md:80` calls
  "binding before execution" an invariant).
- After a failed run the handle still says "running", and the next message goes into a
  queue nothing reads (`router.ts:440`). So it does after an operator has resumed a
  session that is completed: `resume()` sets the handle to "running"
  (`handle/impl.ts:153`) while the instance, which is not paused, stays as it is
  (`adapters/pi/instance.ts:407`). `FollowUpsReachARun` therefore speaks of sessions
  whose run has not failed and that no operator pauses, resumes or terminates.
- A torn checkpoint rejects every message of its chat instead of spawning afresh
  (`router.ts:499`); a follow-up between "completed" and the end of the checkpoint
  write is rejected.
- A run that is paused after its last event has been pulled completes while it is held:
  `run()` looks at the pause only when another event is there
  (`adapters/pi/instance.ts:269`), and the done event carries the answer, which is sent to
  the chat once more (`instance.ts:337`, `transforms.ts:239`). A `resume()` after that sets
  the instance of the ended run to "running".
- Resolving the last suspended call sets "running" and starts no run
  (`adapters/pi/instance.ts:492`); the answer is filed under `<toolCallId>:suspended`,
  an id no step context looks for (`instance.ts:482`, `guidance.ts:178`), and nothing
  in the code executes a suspended call again, so no wait ever returns: what
  `step-context.ts` has for a second execution works in its tests only, and `ToolCalls` has
  the answer filed and never read. A run that is aborted or terminated is checkpointed with
  calls that have no result. `metrics.toolCalls` counts only calls that have not finished.
- Nobody waits for the handlers of messages and of `agent.spawn`: a spawn under way when
  the coordinator begins to stop resolves after it, and its binding may come after the
  snapshot of the bindings (`router.ts:393`, `handlers.ts:325`, `manager.ts:141`), so
  that a complete graceful shutdown loses it.
- `terminate()` followed by the end of the run gives two results.
- A done event of an earlier turn in the replay ends a tail (`tail.ts:208`).
- SIGTERM during the start or after an RPC shutdown has begun exits with 0 before the
  bindings are saved (`daemon.ts:230`; `ARCHITECTURE.md:150`); a second SIGINT does so
  instead of shutting down hard (`index.ts:155`); `daemon stop --force` is graceful
  (`client.ts:555` sends `mode`, `handlers.ts:225` reads `graceful`).
- A channel that is "reconnecting" is not disconnected by a shutdown (`daemon.ts:407`)
  and polls on; one that connects after the channel handler stays connected.

Telegram, pulse, transport:

- The status stays "reconnecting" after the polls work again (`channel.ts:292`).
- A disconnect during the retry delay followed by a connect leaves two loops on one
  offset, and updates are handled twice (`transport.ts:41`).
- `coordinator.spawn` looks at the status once: a spawn in flight during a shutdown
  starts an agent nobody terminates. A pulse that is terminated or times out sends
  what it has.
- `connect()` while the last `disconnect()` waits for its close event: the old socket's
  handlers clear the new `_socket` and reject its requests (`client.ts:438`), and both
  sockets feed one decoder. An error of a socket whose client is connected by another one
  is not reported (`client.ts:425`), and its `connect()` is never settled.
- A process outside the group of a shell command that holds its output keeps the call
  open after SIGKILL (`shell/executor.ts:99`).

Start and stop commands:

- `listen()` removes the socket of a daemon that serves (`server.ts:127`), and `close()`
  removes the path by name, its successor's too; stop, start, start by an operator who
  waits for each command gives two daemons on one data directory.
- "Daemon stopped successfully" is said when the path is gone, while the old daemon
  drains and saves (`stop.ts:86`); a start at that moment may restore old bindings.
- Any failure or time out of the probe counts as "not running" (`start.ts:31`); the pid
  printed is the child's although another daemon may have answered; a missing
  `genii-daemon` ends the command with an unhandled error.

Setup and terminal UI:

- Returning to the provider or channel page commits the configuration found at the
  start again, and drops what was typed (`provider-setup.tsx:135`,
  `channel-setup.tsx:73`); a stored key cannot be replaced (`413`-`428`); a custom
  provider renamed with its key kept names a secret no store holds; toggling a model
  drops configured models that are not offered (`455`-`462`).
- Enter is not disabled while setup is submitting: two completions may run at once
  and lose secrets or leave `secrets.json` malformed (`wizard.tsx:73`). A failed or
  interrupted write leaves an empty file.
- Removals of channels are skipped when none is left, secrets of removed providers stay,
  a pulse cannot be disabled, and a second backup replaces the first
  (`daemon/src/onboard.ts:132`).
- `p`, `t` and `r` of the agents view never act (`_handleAgentHighlight` has no user);
  the channels view acts on the channel selected, not on the highlighted row, and its
  `c` always fails, since the handler throws (`handlers.ts:512`); its `r` is two steps in the daemon, which may fail
  half way and leave the channel disconnected (`handlers.ts:550`); an action whose refresh
  fails is reported as done (`use-agents.ts:77`, `114`); the log panels never
  subscribe; a hook that was connected says so for good; `useDaemon` stops its timer
  after one failure; a view left while it connects keeps its connection
  (`client.ts:454`).

## What is proved

Each theorem holds for every value of the constants the assumptions allow: any number
of daemons, callers, messages, runs or outputs, and any bounds. TLC has checked each
inductive invariant on the instance of the module's run before it was proved.

- `RouterProofs` on `Conversations`, for every set of destinations and sessions: `TypeCorrect` (`ConvTypeOK`), `RoutingAgrees`
  (`IndexesAgree`), `FileIsSound` (`FileSound`) for `ConvSpec`.
  None is inductive alone. `ConvInv` adds that every place a table can be restored
  from is injective: the Map, the serialised snapshot, a temporary file that was
  written, the file; and ties `temp` to `phase`, so that `Rename` moves a whole
  file only. That the Map is injective follows from the agreement of the two Maps
  (`AgreeingIsInjective`); that `Bind` keeps it needs the freshness of session ids
  only for the tables that are on their way to the disk. `Restore` yields agreeing
  Maps exactly because its table is injective (`RestoreAgrees`). One lemma per
  operation, one step per action in `ConvNextInv`.
- `RouterProofs` on `Router`, for every set of messages and scenarios: `RouterTypeCorrect`
  (`TypeOK`), `RouterImplementsConversations` (`Spec => ConvSpec`),
  `RoutedWhereBound` (`IndexesAgree` of the composed system, from the two theorems
  before) and `ConversationsAreApart` (`ConversationsStayApart`). The invariant is
  `RouterInv`. That conversations stay apart says nothing of a handler that has read
  a checkpoint and waits for its adapter, of a table that waits in a file for the next
  start, or of a handle the coordinator has forgotten while its run goes on, and any
  of these can bring a message into a session later; so `RouterInv` gives every such
  place an owner (`TablesOwned`, `TasksOwned`, `HandlesOwned`, `AgentsNamed`,
  `FilesOwned`). The tables name only sessions whose handler is over, which is why
  the session `Spawned` binds is fresh; a handle exists only once its handler is over,
  which is why `HandleIsNew` overwrites nothing; and `Phased` says handlers run only
  while the manager serves, which a step of `ConvSpec` requires of its callers. Each
  group of variables has a lemma on who changes it (`FilesStay`, `TasksStay`,
  `HandlesStay`, `BindingsStay`, `PhaseStays`) and one that its part of the invariant
  is kept (`FilesKept`, `TasksKept`, ...), with a step per action.
  `FollowUpsAreHeard` (`FollowUpsReachARun`) has an invariant of its own, `Heard`: a
  message goes to an instance by the status of its *handle*, so a handle whose run has
  ended must say so (`Honest`), and one that `/new` or a shutdown has aborted, which
  says nothing, must have no binding that leads to it (`AbortedIsLeft`); that a restart
  brings no such binding back needs that bindings are restored before there are handles
  (`HandlesComeLater`). The attempt to prove it without a condition on `resume()` failed
  at that step, and TLC showed why (see above).
- `RouterProofs`, the refinement: `PromiseIsKept` (`Spec => KeepsTheConversation`), for
  any number of chats and messages. Two sessions of one user never meet on paper, but
  their memory passes through three places: the run, the save that nobody awaits, and
  the file. `Patience` says, for a patient user, that each destination has at most one
  thing on its way (`TakesTurns`: a message, a run or a save), that the memory of a bound
  session is in one of the three (`MemoryIsKept`) and that a handle tells what its
  instance does (`Plain`); `WindsDown` says that bindings are written after the agents
  have gone, so that no save is lost at a stop. The abstract step is found by `Told`:
  each step accepts one message, forgets one conversation by using up a `/new`, or says
  nothing. A binding or a checkpoint that got lost anywhere would be a step of the fourth
  kind, which `ConversationLog` does not allow.
- `LifecycleProofs`, for every set of channels and every set of handlers with the five
  the model names: `LifecycleTypeCorrect` (`TypeOK`) and `ShutdownOrderly`
  (`ShutdownIsOrderly`). `LifecycleInv` says that the handlers called are exactly those
  up to the level, each of them once (`CalledToLevel`), which makes `CalledOnce`
  inductive; that in graceful mode those below the level are over (`LowerAreOver`); and
  where a binding may be that is not in the file (`SavedForGood`): once the coordinator's
  handler was called, no spawn is under way but those it found; once the bindings were
  copied, each is in the copy or was overdue. The order needs that the minimum of
  a nonempty set of priorities exists (`FirstIsLeast`). `CalledOnce` and the order hold
  for any caller, in any number and in any mode.
- `PulseProofs`, for every set of runs and destinations: `PulsesSendTheirOwn`
  (`ResponsesAreOwn`) and `LastActiveIsKept` (`LastActiveSurvives`). The first follows a
  run from stage to stage (`Collected`): while it collects, its buffer is all its session
  has written; once it has stopped listening, what it holds is that or, after a time
  limit, a prefix. The second needs where the destination is at each step of a start
  and a stop (`Remembered`: in the tracker, in the temporary file or in the file) and that
  a save is under way only after the channels have gone (`Channelled`), since a message
  between the write and the rename would be lost.
- `AgentSessionProofs`: `TypesAreRight` (`TypeOK`), `NoOutputIsLost`
  (`OutputIsConserved`), `WaitersGetTheEnd` (`WaitersAreAnswered`) and `PausesHold`
  (`PauseHoldsBack`, an action property). `SessionInv` adds that a run held at a pause
  has its event in the queue (`EventIsHeld`) and that nothing is queued before the start
  (`Unstarted`). The lemmas count outputs in sequences under append, head and tail; one
  says what a list of one or two events does to status, result and waiter.
- `AgentSessionProofs` on `AgentOutput`, for any agents, clients, records and journal
  capacity: `OutputInvariant`, `OutputIsTyped` (`OutputTypeOK`), `TailsPrintOnce`
  (`PrintsEveryRecordOnce`), `ReplaysAreWhole` (`ReplayIsWhole`) and
  `SubscriptionsKeepTheirOwner` (`SubscriptionsBelong`). What a tail has printed says
  nothing of what is on its way: `OutputInv` says that a journal is the newest records of
  its agent, that a subscription and its answer are made at one moment, so that the answer
  holds what the journal held then, and that every record since is printed, buffered or on
  the socket, in order and without a gap. Then the merge of replay and buffer, which
  compares sequence numbers only, neither skips nor repeats a record.
- `InstancesProofs`, for any processes, starts, stops and crashes: `InstancesInvariant`,
  `DaemonsServeAlone` (`ServesAlone`), `StopMeansStopped` (`StoppedIsStopped`),
  `RestartsFindTheRest` (`RestartsCarryOn`). That one daemon serves says nothing of a
  child that boots, or of a start that has found nobody and is about to spawn: `Alone`
  counts daemons on their way with those that serve, allows one start at a time, and
  says what that start may still believe. `Stops` ties a stop that waits to the connection
  it polls. `Met` and `Known` carry the bindings from a daemon's last save to the next
  one's table, and `EnoughProcesses` that a start always finds a process to spawn.
- `InstancesProofs` on `TerminalUi`, for any agents, channels, mounts and bounds:
  `UiInvariant` and `ReportsAreTrue` (`ReportsFollowTheirEffect`). A report may be made
  while an older poll is on its way, and it would hide the effect if that answer came
  last. `UiInv` says that the answers under way to a hook carry lists in the order in
  which they were made, each no older than the list on show, and that the refresh of an
  action is behind the answer of the action; the order of one socket is what it rests on.
- `IpcProofs`, for any callers, requests and sockets: `IpcInvariant`, `AnswersAreOwn`
  (`AnswersMatch`), `LinesSurviveChunks` (`LinesAreWhole`). A call is only as safe as
  what is on the wire, so `IpcType` says of every piece, on either side and in the
  buffer, that it carries the id of its own request; `Written` that what waits, and what
  is asked next, is on a socket that has its close event to come. `OneStream` is why
  lines stay whole: with one active socket, the buffer followed by what is on its way
  is a sequence of heads and tails that pair, and when no socket is active the buffer is
  empty. Lemmas say what cutting such a sequence anywhere leaves (`Chunk`).
- `IpcProofs` on `Onboarding`, for any configuration found, any edits and bounds:
  `OnboardInvariant`, `TextSurvives` (`TextSurvivesABackup`), `CredentialsStayStored`
  (`CredentialsAreStored`); `SavedInvariant` and `SetupStaysSaved` (`SetupIsSaved`).
  `OnboardShape` says what a form, a setup and its jobs look like at each place;
  `TextInv` where the user's text is for each number of backups. `StoreInv`: a file of
  secrets that is being written is empty, and what it held is in the hands of the one
  setup that writes it, so nothing that was known (`KnownNames`) is forgotten unless the
  store was torn. `KeysInv`: each provider of a setup keeps its key, or has it in the
  store, or the job that stores it comes before the one that writes the providers
  (`Owed`), through every step and whatever fails.
  That setup has saved what the wizard showed needs two more. `ListInv`: no two providers
  of the wizard's list have one id, and the form that is open fits its entry, through every
  page that is edited, left and shown again; with two of one id the later would take the
  other's key and models. `SoloInv`, while no two setups have met: the jobs that are left
  keep their order (`Ordered`), each key is stored or its job is to come, each file whose
  job is done holds what was chosen, and what an emptied file held is in the hands of the
  setup (`Now`). `ModelInv` lets a model be without its provider only between the write of
  the providers and that of the models. Every step of a setup does one of three things
  (`FailsHere`, `GoesOnHere`, `PopsHere`, by `StepsOfASetup`), and each part of the invariant is
  shown for the three. The proof failed first on a setup that dies between the two files,
  and on a user who comes with a model whose provider is gone: no setup mends that, so
  both are named by `halfway`.
- `TelegramProofs`, for any updates, users, commands and loops: `TelegramInvariant`,
  `TelegramTypeCorrect` (`TypeOK`), `NoUpdateIsLost` (`ForgottenIsHandled`),
  `AnswersGoHome` (`RepliesGoHome`). `Behind` says of every number a loop may still ask
  with, that all before it was handled, and of every batch on its way that what lies
  before one of its updates is in it or was handled; `OneLoop`, while no two loops have
  overlapped and the process was not restarted, that what was handled is exactly what
  lies before the offset. `Homeward` says the way home of every agent at work, of
  every `/new` that waits and of every call, since any of them may send later.
- `ToolCallsProofs`, for any programs, calls and restores: `SuspensionsHold`
  (`SuspensionsAreTheirOwn`) and `TranscriptsAreWhole` (`ResultsFollowTheirCalls`). What
  is kept of a suspension is read from the tracker, which names whichever call began
  last; it is that of the call because no other is under way (`CallsInv`, which rests on
  the library's serial execution) and because a call that goes on was the last to begin
  (`SuspensionInv`). That a state of an earlier call is never found by a later one needs
  that ids are not used again, which the transcript knows: `TranscriptInv` says that the calls which
  wait for a result are in the transcript without one, and that the last checkpoint
  comes back as a transcript as good (`RoundTrip`, `CheckpointKeeps`: only the stop
  reason is lost).

Induction over numbers is done over the *set* of the numbers that are as they should be
(`Least`, `FromZero` of `TelegramProofs`, by the minimum of a well-founded set), since the
provers cannot instantiate a predicate; in this way `TelegramProofs` shows that the loop
over a batch, a recursive function, is defined (`LoopExists`) and what it leaves
(`BatchIsLeft`).

The assumptions are those the modules name: `ValuesAssumption` (the markers for "no
entry" and "torn file" are no sessions, destinations or tables), `HandleAssumption` (nor
is one a handle, nor a transcript) and `ScenarioAssumption` (scenarios are of their
type, and a patient user's has the faults and commands its log allows);
`LifecycleAssumption` (the handlers are among those of the code and include the five the
model names); `PulseAssumption`, `SessionAssumption`, `IpcAssumption`,
`TelegramAssumption` and `ToolAssumption` (bounds are numbers, inputs are of their type,
`None` is no value where a proof needs that); `OutputAssumption` (finitely many clients,
a journal that holds a record at least, `Absent` no subscription and no answer);
`OnboardingAssumption` and `ScenariosAssumption` (a user comes with files of their
kinds: whole, torn or missing, with finitely many entries; the guidance text is in
place); `TerminalUiAssumption` (agents and channels differ, `None` is neither); and
`InstancesAssumption` (starts and stops differ, and there are as many processes as
starts). TLC evaluates them on every instance.

## What is only model-checked, and what is not modelled

Liveness and everything that depends on `ENABLED` stays with TLC: `HandlersSettle`,
`ShutdownEnds` of both modules, `RunsEnd`, `DueRecordsArePrinted`, `UpdatesAreHandled`,
`FlowsGoOn`, `PulsesEnd`, `CommandsEnd` of both modules, `ListsCatchUp` and
`ConnectionsAreReleased`. Every safety property of a run is proved.
No module declares a RECURSIVE operator, so all of them can be proved about.

Not modelled, and why:

- RPC `agent.continue`, `agent.snapshot` and the methods that only read: the first is
  `continue` of `Router` without a chat, the others change nothing.
- Suspended runs inside `Router`; they are in `AgentSession` and `ToolCalls`.
- The journal of log entries and the log buffer, which work as the one of
  `AgentOutput`; `AgentHandle.events()` and the async iterator of the channel emitter,
  which nothing in the repository uses; the memory writer, likewise; the client of
  `transport/socket/client.ts`, which only tests use.
- Guidance, skills, prompt text, model lookup, validation of configuration values,
  output formatting, help and status commands: pure functions or reads.
- Media downloads and `setCommands` of the channel: one call each.
- Permission checks of the secrets file, and the text of any message, name or key.
- The key `f` of the Logs view, which runs its effect again on the same client: the close
  event of the old socket may clear the new connection's state, and the connection then
  stays open when the view is left (`logs.tsx:69`, `client.ts:438`; `Ipc` has the same two
  sockets of one client).
- An interrupted `daemon start`, and a daemon run without it: one more cause for two
  daemons beside the four of `excused`.
- A model that says something in a way other than text deltas: `AgentSession` counts a
  delta as one output, and `echo` what the done event says of them together.
- What `step-context.ts` does in a second execution of a call, which the code never starts.
- Two wizards: only two completions of one, which is what a second Enter starts.

## Plan

1. Done: the modules above with their runs.
2. Done: the theorems above; every safety property of a run is stated by one of them.
3. What is left: `agent.continue` in `Router`, which needs messages of an operator among
   those of users, and the log journal as a second instance of the journal of
   `AgentOutput`.
