------------------------------ MODULE TerminalUi ------------------------------
(***************************************************************************)
(* The terminal UI (apps/cli/src/tui without its onboarding wizard): the   *)
(* views and their keys, the hooks that poll the daemon, and the daemon's  *)
(* side of their requests (rpc/handlers.ts).                               *)
(*                                                                         *)
(* Every hook of a mounted view owns a client of its own, so a mount is a  *)
(* connection; mounts are numbered by their order in hooks.  Answers name  *)
(* their request here, what ids and time limits do is in Ipc.  The status  *)
(* hook is the App's; the second one of the dashboard only fills a panel.  *)
(* now counts the changes of the daemon's state: it dates the lists.       *)
(***************************************************************************)
EXTENDS Naturals, Sequences, SequencesExt

CONSTANTS
    Agents,     \* sequence: the agents in the order the daemon lists them
    Channels,   \* sequence: the channels, likewise
    None,
    Start,      \* the values of AppProps.initialView
    Mount,      \* the hooks that may be mounted, by their order: 1..n
    Bounds      \* bounds of a behaviour: mounts, changes of the daemon by itself,
                \* requests of the operator, polls of one hook under way

ASSUME TerminalUiAssumption ==
    /\ ToSet(Agents) \cap ToSet(Channels) = {} /\ None \notin ToSet(Agents \o Channels)
    /\ Start \subseteq {"dashboard", "agents", "channels", "logs"}
    /\ Bounds \subseteq [mounts : Nat, changes : Nat, acts : Nat, polls : Nat]
    /\ \A b \in Bounds : 1..b.mounts \subseteq Mount

VARIABLES
    view, previous, selected, \* currentView, previousView, selectedAgentId
    help,    \* showHelp
    app,     \* useDaemon of the App
    hooks,   \* the hooks mounted so far, in order
    up,      \* per mount: requests on their way to the daemon
    down,    \* per mount: answers on their way back
    pending, \* per mount: channel.reconnect requests under way in the daemon
    live,    \* the daemon runs
    state,   \* its agents and channels
    now,     \* history: changes of state
    changes, \* those that were not asked for here
    acts,    \* requests of the operator
    bound    \* the bounds of this behaviour

screen == <<view, previous, selected, help>>
wires == <<up, down, pending>>
daemon == <<live, state, now, changes>>
bounded == <<acts, bound>>
uiVars == <<screen, app, hooks, wires, daemon, bounded>>

AgentSet == ToSet(Agents)
ChannelSet == ToSet(Channels)

(* The hooks a view renders with; "notes" is a client that only listens.    *)
HooksOf(v) ==
    CASE v = "dashboard" -> <<"agents", "channels", "notes">>
      [] v \in {"agents", "agent-detail"} -> <<"agents">>
      [] v = "channels" -> <<"channels">>
      [] v = "logs" -> <<"notes">>

Fresh(kind) ==
    [kind |-> kind, mounted |-> TRUE, sock |-> "connecting", on |-> FALSE,
     rows |-> <<>>, at |-> 0, error |-> FALSE, row |-> 1, chosen |-> None,
     message |-> None]

Booted == [i \in AgentSet \cup ChannelSet |-> IF i \in AgentSet THEN "absent" ELSE "connected"]

(* The daemon as the UI finds it: with agents of earlier requests.          *)
Found(running) ==
    IF running
    THEN {[Booted EXCEPT ![i] = s] : i \in AgentSet, s \in {"absent", "running", "paused"}}
    ELSE {Booted}

UiInit ==
    /\ bound \in Bounds
    /\ view \in Start /\ Len(HooksOf(view)) <= bound.mounts
    /\ previous = "dashboard" /\ selected = None /\ help = FALSE
    /\ app = "checking"
    /\ hooks = [n \in DOMAIN HooksOf(view) |-> Fresh(HooksOf(view)[n])]
    /\ up = [m \in Mount |-> <<>>] /\ down = [m \in Mount |-> <<>>]
    /\ pending = [m \in Mount |-> <<>>]
    /\ live \in BOOLEAN /\ state \in Found(live) /\ now = 0 /\ changes = 0 /\ acts = 0

-----------------------------------------------------------------------------
(* The rows of a list: agent.list and channel.list.                         *)
Rows(kind) ==
    LET order == IF kind = "agents" THEN Agents ELSE Channels
        here  == SelectSeq(order, LAMBDA i : state[i] # "absent")
    IN  [n \in DOMAIN here |-> [id |-> here[n], status |-> state[here[n]]]]

Rendering == app \in {"checking", "connected"}

Row(h, i) == SelectSeq(h.rows, LAMBDA r : r.id = i)

(* A render after an update: an error or an empty list unmounts the list    *)
(* component, and with it the row; Channels chooses its first channel.      *)
Rendered(h) ==
    [h EXCEPT !.row = IF h.error \/ h.rows = <<>> THEN 1 ELSE @,
              !.chosen = IF @ = None /\ h.kind = "channels" /\ h.rows # <<>>
                         THEN h.rows[1].id ELSE @]

(* Mutation of Unmount: a hook without its cleanup. *)
UnmountLeaves(h) == [Fresh(h.kind) EXCEPT !.mounted = FALSE, !.on = h.on, !.sock = h.sock]

(* The component's state is gone.  The cleanup of its effect calls          *)
(* client.disconnect(), which returns when the client is not connected yet. *)
Unmount(h) ==
    [Fresh(h.kind) EXCEPT !.mounted = FALSE, !.on = h.on,
                          !.sock = IF h.sock = "open" THEN "ending" ELSE h.sock]

Unmounted == [m \in DOMAIN hooks |-> IF hooks[m].mounted THEN Unmount(hooks[m]) ELSE hooks[m]]

Show(v) ==
    /\ Len(hooks) + Len(HooksOf(v)) <= bound.mounts
    /\ view' = v
    /\ hooks' = Unmounted \o [n \in DOMAIN HooksOf(v) |-> Fresh(HooksOf(v)[n])]

(* Mounted and rendered by the App.                                         *)
Here(m) == m \in DOMAIN hooks /\ hooks[m].mounted

Request(op, of, after) == [op |-> op, of |-> of, after |-> after]
Say(ok, at) == [ok |-> ok, at |-> at]

(* _request on the mount's client: its socket may be gone.                  *)
Send(m, request) ==
    IF hooks[m].sock = "open"
    THEN /\ up' = [up EXCEPT ![m] = Append(@, request)]
         /\ UNCHANGED hooks
    ELSE /\ LET h == hooks[m]
                said == IF request.op = "list" THEN h.message ELSE Say(FALSE, 0)
            IN  hooks' = [hooks EXCEPT ![m] =
                             Rendered([h EXCEPT !.error = TRUE, !.message = said])]
         /\ UNCHANGED up

-----------------------------------------------------------------------------
(* useAgents, useChannels and the listening clients.                        *)

(* The connection is up: the first effect polls; a view that is gone by     *)
(* now leaves it open.  A refusal is final for this mount.                  *)
Connect(m) ==
    /\ m \in DOMAIN hooks /\ hooks[m].sock = "connecting"
    /\ hooks' = [hooks EXCEPT ![m].sock = IF live THEN "open" ELSE "closed",
                              ![m].on = live /\ hooks[m].mounted]
    /\ IF live /\ hooks[m].mounted /\ hooks[m].kind # "notes"
       THEN up' = [up EXCEPT ![m] = Append(@, Request("list", None, 0))]
       ELSE UNCHANGED up
    /\ UNCHANGED <<screen, app, down, pending, daemon, bounded>>

(* Mutation of Tick: the timer is not started again after a poll. *)
TickOnce(m) ==
    /\ Here(m) /\ hooks[m].on /\ hooks[m].kind # "notes" /\ hooks[m].rows = <<>>
    /\ Len(up[m]) + Len(down[m]) < bound.polls
    /\ Send(m, Request("list", None, 0))
    /\ UNCHANGED <<screen, app, down, pending, daemon, bounded>>

(* The refresh interval, which does not ask whether a poll is under way.    *)
Tick(m) ==
    /\ Here(m) /\ hooks[m].on /\ hooks[m].kind # "notes"
    /\ Len(up[m]) + Len(down[m]) < bound.polls
    /\ Send(m, Request("list", None, 0))
    /\ UNCHANGED <<screen, app, down, pending, daemon, bounded>>

(* Mutation of Take: the outcome is shown before the list is fetched. *)
TakeEarly(m) ==
    /\ Here(m) /\ hooks[m].sock = "open" /\ down[m] # <<>>
    /\ LET a == Head(down[m])
           h == hooks[m]
       IN  /\ down' = [down EXCEPT ![m] = Tail(@)]
           /\ IF a.request.op = "list"
              THEN /\ hooks' = [hooks EXCEPT ![m] =
                                  Rendered([h EXCEPT !.rows = a.rows, !.at = a.at, !.error = FALSE])]
                   /\ UNCHANGED up
              ELSE /\ hooks' = [hooks EXCEPT ![m].message = Say(a.ok, a.at)]
                   /\ up' = [up EXCEPT ![m] = Append(@, Request("list", None, 0))]
    /\ UNCHANGED <<screen, app, pending, daemon, bounded>>

(* An answer reaches a mounted hook.  A list is shown, then the outcome of  *)
(* the action it was fetched for; an action that was done fetches the list. *)
Take(m) ==
    /\ Here(m) /\ hooks[m].sock = "open" /\ down[m] # <<>>
    /\ LET a == Head(down[m])
           h == hooks[m]
       IN  /\ down' = [down EXCEPT ![m] = Tail(@)]
           /\ \/ /\ a.request.op = "list"
                 /\ hooks' = [hooks EXCEPT ![m] =
                       Rendered([h EXCEPT !.rows = a.rows, !.at = a.at, !.error = FALSE,
                                          !.message = IF a.request.after = 0 THEN @
                                                      ELSE Say(TRUE, a.request.after)])]
                 /\ UNCHANGED up
              \/ /\ a.request.op # "list" /\ a.ok
                 /\ up' = [up EXCEPT ![m] = Append(@, Request("list", None, a.at))]
                 /\ UNCHANGED hooks
              \/ /\ a.request.op # "list" /\ ~a.ok
                 /\ hooks' = [hooks EXCEPT ![m] =
                       Rendered([h EXCEPT !.error = TRUE, !.message = Say(FALSE, 0)])]
                 /\ UNCHANGED up
    /\ UNCHANGED <<screen, app, pending, daemon, bounded>>

(* The status message is cleared after three seconds.                       *)
Fade(m) ==
    /\ Here(m) /\ hooks[m].message # None
    /\ hooks' = [hooks EXCEPT ![m].message = None]
    /\ UNCHANGED <<screen, app, wires, daemon, bounded>>

(* The daemon closes the connection when it has read what came before.      *)
Hangup(m) ==
    /\ m \in DOMAIN hooks /\ hooks[m].sock = "ending" /\ up[m] = <<>>
    /\ hooks' = [hooks EXCEPT ![m].sock = "closed"]
    /\ down' = [down EXCEPT ![m] = <<>>]
    /\ UNCHANGED <<screen, app, up, pending, daemon, bounded>>

-----------------------------------------------------------------------------
(* The daemon: handlers.ts.                                                 *)

(* Whether a handler succeeds: channel.connect of the RPC layer throws.     *)
Accepted(request) == request.op # "connect" /\ state[request.of] # "absent"

StatusAfter ==
    [pause |-> "paused", resume |-> "running", terminate |-> "terminated",
     disconnect |-> "disconnected"]

(* An answer to a view that is gone has no effect there and is left out.    *)
Reply(m, request, ok, rows) ==
    down' = IF ~hooks[m].mounted THEN down ELSE [down EXCEPT ![m] =
        Append(@, [request |-> request, ok |-> ok, at |-> now', rows |-> rows])]

(* A request is handled and answered at once.                               *)
Serve(m) ==
    /\ live /\ m \in DOMAIN hooks /\ up[m] # <<>> /\ Head(up[m]).op # "reconnect"
    /\ LET r  == Head(up[m])
           ok == r.op = "list" \/ Accepted(r)
           rows == IF r.op = "list" THEN Rows(hooks[m].kind) ELSE <<>>
       IN  /\ up' = [up EXCEPT ![m] = Tail(@)]
           /\ IF r.op # "list" /\ ok
              THEN /\ state' = [state EXCEPT ![r.of] = StatusAfter[r.op]]
                   /\ now' = now + 1
              ELSE UNCHANGED <<state, now>>
           /\ Reply(m, r, ok, rows)
    /\ UNCHANGED <<screen, app, hooks, pending, live, changes, bounded>>

(* channel.reconnect: disconnect(), and while the handler awaits it and     *)
(* connect(), later requests of the connection are handled,                 *)
Reconnect(m) ==
    /\ live /\ m \in DOMAIN hooks /\ up[m] # <<>> /\ Head(up[m]).op = "reconnect"
    /\ up' = [up EXCEPT ![m] = Tail(@)]
    /\ pending' = [pending EXCEPT ![m] = Append(@, Head(up[m]))]
    /\ state' = [state EXCEPT ![Head(up[m]).of] = "disconnected"]
    /\ now' = now + 1
    /\ UNCHANGED <<screen, app, hooks, down, live, changes, bounded>>

(* then connect(), or it fails and the channel stays disconnected.          *)
Reconnected(m) ==
    /\ live /\ m \in DOMAIN hooks /\ pending[m] # <<>>
    /\ pending' = [pending EXCEPT ![m] = Tail(@)]
    /\ \E ok \in BOOLEAN :
        /\ IF ok
           THEN /\ state' = [state EXCEPT ![Head(pending[m]).of] = "connected"]
                /\ now' = now + 1
           ELSE UNCHANGED <<state, now>>
        /\ Reply(m, Head(pending[m]), ok, <<>>)
    /\ UNCHANGED <<screen, app, hooks, up, live, changes, bounded>>

(* What changes by itself, while somebody looks: agents come and complete,  *)
(* a poll of a channel fails.                                               *)
Change(i) ==
    /\ Rendering /\ live /\ changes < bound.changes
    /\ \E s \in {<<"absent", "running">>, <<"running", "completed">>,
                 <<"connected", "reconnecting">>} :
          /\ (i \in ChannelSet) = (s[1] = "connected")
          /\ state[i] = s[1] /\ state' = [state EXCEPT ![i] = s[2]]
    /\ now' = now + 1 /\ changes' = changes + 1
    /\ UNCHANGED <<screen, app, hooks, wires, live, bounded>>

(* The requests a hook waits for, when their connection is lost: an action  *)
(* has failed; a list that was fetched for one has failed too, but not the  *)
(* action, which is reported as done with the error.                        *)
Waiting(m) == ToSet(up[m]) \cup ToSet(pending[m]) \cup {a.request : a \in ToSet(down[m])}
Outcomes(m) ==
    {Say(FALSE, 0) : r \in {w \in Waiting(m) : w.op # "list"}}
    \cup {Say(TRUE, r.after) : r \in {w \in Waiting(m) : w.op = "list" /\ w.after # 0}}

Lost(m, said) ==
    LET h == hooks[m]
    IN  IF h.sock \in {"connecting", "closed"} THEN h
        ELSE Rendered([h EXCEPT !.sock = "closed", !.error = @ \/ Waiting(m) # {},
                                !.message = said])

(* The daemon ends: the sockets close, what was asked on them fails, and so *)
(* does the App's check if one was under way.                               *)
Die ==
    /\ Rendering /\ live /\ changes < bound.changes
    /\ live' = FALSE /\ state' = Booted /\ now' = now + 1 /\ changes' = changes + 1
    /\ \E said \in [DOMAIN hooks ->
                    UNION {Outcomes(m) \cup {hooks[m].message} : m \in DOMAIN hooks}] :
        /\ \A m \in DOMAIN hooks :
              said[m] \in IF Outcomes(m) = {} THEN {hooks[m].message} ELSE Outcomes(m)
        /\ hooks' = [m \in DOMAIN hooks |-> Lost(m, said[m])]
    /\ up' = [m \in Mount |-> <<>>] /\ down' = [m \in Mount |-> <<>>]
    /\ pending' = [m \in Mount |-> <<>>]
    /\ UNCHANGED <<screen, app, bounded>>

Boot ==
    /\ Rendering /\ ~live /\ changes < bound.changes
    /\ live' = TRUE /\ now' = now + 1 /\ changes' = changes + 1
    /\ UNCHANGED <<screen, app, hooks, wires, state, bounded>>

-----------------------------------------------------------------------------
(* The App.                                                                 *)

(* checkConnection, first and on every tick.  It connects again if it must; *)
(* one that fails stops the timer, so the error screen is for good.         *)
Check ==
    /\ app \in {"checking", "connected"}
    /\ IF live
       THEN /\ app = "checking" /\ app' = "connected" /\ UNCHANGED hooks
       ELSE app' = "error" /\ hooks' = Unmounted
    /\ UNCHANGED <<screen, wires, daemon, bounded>>

(* The number keys: with the help open the App's keyboard is off.           *)
navigateToView(v) ==
    /\ Rendering /\ ~help /\ v # view
    /\ previous' = view /\ Show(v)
    /\ UNCHANGED <<selected, help, app, wires, daemon, bounded>>

Quit ==
    /\ Rendering /\ ~help
    /\ app' = "quit" /\ hooks' = Unmounted
    /\ previous' = "dashboard" /\ selected' = None
    /\ UNCHANGED <<view, help, wires, daemon, bounded>>

Help ==
    /\ Rendering /\ help' = ~help
    /\ UNCHANGED <<view, previous, selected, app, hooks, wires, daemon, bounded>>

(* Escape is heard by the App, the help and the detail view alike.          *)
Back ==
    /\ selected' = None
    /\ Show(IF previous = "agent-detail" THEN "agents" ELSE previous)
    /\ UNCHANGED previous

Escape ==
    /\ Rendering /\ (help \/ view = "agent-detail")
    /\ help' = FALSE
    /\ IF view = "agent-detail" THEN Back
       ELSE UNCHANGED <<view, previous, selected, hooks>>
    /\ UNCHANGED <<app, wires, daemon, bounded>>

(* The hook of the view that holds the list.                                *)
Listing == CHOOSE m \in DOMAIN hooks : hooks[m].mounted

(* b in the detail view; the help does not switch it off.                   *)
KeyBack ==
    /\ Rendering /\ view = "agent-detail" /\ Row(hooks[Listing], selected) # <<>>
    /\ Back
    /\ UNCHANGED <<help, app, wires, daemon, bounded>>

(* The item the keys of a view act on: none in the Agents view, whose       *)
(* selectedAgentId nothing sets.                                            *)
Target ==
    IF view = "agent-detail" THEN selected
    ELSE IF view = "channels" THEN hooks[Listing].chosen ELSE None
Listed == Rendering /\ view \in {"agents", "channels"} /\ ~hooks[Listing].error

(* useListNavigation: the row may point past a list that has shrunk.        *)
Move ==
    /\ Listed
    /\ LET h == hooks[Listing]
       IN  \E r \in {h.row - 1, h.row + 1} :
              /\ r >= 1 /\ (r > h.row => r <= Len(h.rows))
              /\ hooks' = [hooks EXCEPT ![Listing].row = r]
    /\ UNCHANGED <<screen, app, wires, daemon, bounded>>

Enter ==
    /\ Listed
    /\ LET h == hooks[Listing]
       IN  /\ h.row <= Len(h.rows)
           /\ IF view = "agents"
              THEN /\ selected' = h.rows[h.row].id /\ previous' = view
                   /\ Show("agent-detail") /\ UNCHANGED help
              ELSE /\ hooks' = [hooks EXCEPT ![Listing].chosen = h.rows[h.row].id]
                   /\ UNCHANGED screen
    /\ UNCHANGED <<app, wires, daemon, bounded>>

(* What a key asks for, given the status that is on the screen.             *)
Offered(status) ==
    IF view = "agent-detail"
    THEN (IF status = "running" THEN {"pause"} ELSE {})
         \cup (IF status = "paused" THEN {"resume"} ELSE {})
         \cup (IF status # "terminated" THEN {"terminate"} ELSE {})
    ELSE (IF status \in {"disconnected", "error"} THEN {"connect"} ELSE {})
         \cup (IF status = "connected" THEN {"disconnect"} ELSE {})
         \cup (IF status \in {"error", "connected"} THEN {"reconnect"} ELSE {"list"})

(* The keys p, r, t of the detail view and c, d, r of the channels view.    *)
Act ==
    /\ Rendering /\ view \in {"agent-detail", "channels"} /\ acts < bound.acts
    /\ LET shown == Row(hooks[Listing], Target)
       IN  /\ shown # <<>>
           /\ \E op \in Offered(shown[1].status) : Send(Listing, Request(op, Target, 0))
    /\ acts' = acts + 1
    /\ UNCHANGED <<screen, app, down, pending, daemon, bound>>

-----------------------------------------------------------------------------
SocketStep(m) ==
    Connect(m) \/ Serve(m) \/ Reconnect(m) \/ Reconnected(m) \/ Take(m) \/ Hangup(m)

UiNext ==
    \/ \E m \in Mount : SocketStep(m) \/ Tick(m) \/ Fade(m)
    \/ \E i \in AgentSet \cup ChannelSet : Change(i)
    \/ Die \/ Boot \/ Check
    \/ \E v \in {"dashboard", "agents", "channels", "logs"} : navigateToView(v)
    \/ Quit \/ Help \/ Escape \/ KeyBack \/ Move \/ Enter \/ Act

(* Every connection makes progress at one of its ends, and timers fire.     *)
UiSpec ==
    /\ UiInit /\ [][UiNext]_uiVars
    /\ \A m \in Mount : WF_uiVars(SocketStep(m)) /\ WF_uiVars(Tick(m))

-----------------------------------------------------------------------------
\* Every variable has its type.
UiTypeOK ==
    /\ view \in {"dashboard", "agents", "agent-detail", "channels", "logs"}
    /\ selected \in AgentSet \cup {None} /\ help \in BOOLEAN
    /\ app \in {"checking", "connected", "error", "quit"}
    /\ DOMAIN hooks \subseteq Mount
    /\ \A m \in DOMAIN hooks :
          hooks[m].sock \in {"connecting", "open", "ending", "closed"}

(* A view that reports an action as done already shows a list at least as   *)
(* new as its effect, whatever other polls of the hook are under way, or    *)
(* the hook knows that it could not fetch one.                              *)
ReportsFollowTheirEffect ==
    \A m \in DOMAIN hooks :
        LET h == hooks[m]
        IN  h.mounted /\ h.message # None /\ h.message.ok => h.at >= h.message.at \/ h.error

(* While a list is on the screen and its connection holds, it comes to show *)
(* the daemon's state again after every change.                             *)
Watching(m) == Here(m) /\ hooks[m].sock = "open" /\ hooks[m].kind # "notes"
ListsCatchUp ==
    []<>(\A m \in Mount :
            Watching(m) => hooks[m].rows = Rows(hooks[m].kind) /\ ~hooks[m].error)

(* A hook that was connected while its view was up lets its connection go   *)
(* when the view is left.                                                   *)
ConnectionsAreReleased ==
    []<>(\A m \in DOMAIN hooks : hooks[m].on /\ ~hooks[m].mounted => hooks[m].sock = "closed")
=============================================================================
