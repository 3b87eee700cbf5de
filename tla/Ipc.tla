-------------------------------- MODULE Ipc --------------------------------
(***************************************************************************)
(* The CLI's RPC client (apps/cli/src/client.ts) with the callers that     *)
(* share it (tui/hooks/use-daemon.ts), the line decoder                    *)
(* (daemon/src/transport/codec.ts) and the daemon's socket server          *)
(* (transport/socket/server.ts, rpc/server.ts).  The transport's own       *)
(* client (transport/socket/client.ts) is the same code as the CLI's.      *)
(*                                                                         *)
(* A request is named by the order of the calls (its place in outcome); the *)
(* id it carries is another number.  A response is two pieces, so that a   *)
(* chunk may end within a line; requests are read by the same decoder and  *)
(* are one piece.  A continuation after an await is a step of its own.     *)
(***************************************************************************)
EXTENDS Naturals, Sequences, FiniteSets, SequencesExt

CONSTANTS
    Flow,        \* callers of one client: the refresh timer, a reconnect key, ...
    None,        \* no socket
    MaxRequests, \* bound
    MaxSockets   \* bound

ASSUME IpcAssumption ==
    /\ None \notin Nat
    /\ MaxRequests \in Nat /\ MaxSockets \in Nat

VARIABLES
    connected, \* _connected
    current,   \* _socket
    buffer,    \* _decoder: the pieces of an incomplete line
    nextId,    \* _nextRequestId
    pending,   \* _pendingRequests: [id, request], with the socket written to (history)
    outcome,   \* what each call of _request came to
    flow,      \* where each caller is
    sock,      \* the client's sockets
    up,        \* requests on their way to the daemon
    down,      \* pieces of responses on their way to the client
    conn,      \* the daemon's connections, one per socket
    handling,  \* requests whose handler runs
    serving,   \* _listening of the server
    garbled,   \* history: a line of pieces of several messages was skipped
    overlapped \* history: connect() was called while an earlier socket was not closed

clientVars == <<connected, current, buffer, nextId, pending, outcome>>
serverVars == <<conn, handling, serving>>
vars == <<clientVars, flow, sock, up, down, serverVars, garbled, overlapped>>

Socket == 1..MaxSockets
Resting == [at |-> "idle", sock |-> None, request |-> 0]

Init ==
    /\ connected = FALSE /\ current = None /\ buffer = <<>> /\ nextId = 1
    /\ pending = {} /\ outcome = <<>>
    /\ flow = [f \in Flow |-> Resting]
    /\ sock = [s \in Socket |-> "unused"]
    /\ up = [s \in Socket |-> <<>>] /\ down = [s \in Socket |-> <<>>]
    /\ conn = [s \in Socket |-> "none"] /\ handling = {} /\ serving = TRUE
    /\ garbled = FALSE /\ overlapped = FALSE

(***************************************************************************)
(* LineDecoder.feed: a line ends with a tail; JSON.parse accepts it when it *)
(* is one whole message.                                                   *)
(***************************************************************************)
Ends(pieces) == {i \in DOMAIN pieces : pieces[i].part = "tail"}
Breaks(pieces) == {0} \cup Ends(pieces)
Lines(pieces) ==
    {SubSeq(pieces, b[1] + 1, b[2]) :
        b \in {b \in Breaks(pieces) \X Ends(pieces) :
                 b[1] < b[2] /\ \A k \in Ends(pieces) : k <= b[1] \/ b[2] <= k}}
Rest(pieces) ==
    SubSeq(pieces, 1 + (CHOOSE j \in Breaks(pieces) : \A k \in Ends(pieces) : k <= j), Len(pieces))
Parses(line) == Len(line) = 2 /\ line[1].id = line[2].id /\ line[1].request = line[2].request

(***************************************************************************)
(* The client.                                                             *)
(***************************************************************************)
\* Settles the calls of some requests, and lets their callers go on or give up.
Settled(requests, how) ==
    [r \in DOMAIN outcome |-> IF r \in requests THEN how ELSE outcome[r]]
FlowsOf(requests) == {f \in Flow : flow[f].at = "asking" /\ flow[f].request \in requests}
Given(requests) ==
    [f \in Flow |-> IF f \in FlowsOf(requests) THEN Resting ELSE flow[f]]

\* Mutation of FirstId: a new connection counts from one again.
FirstIdAgain == 1
\* The request id after connect(): the counter goes on.
FirstId == nextId

\* connect(), when it is not connected.
Connect(f, s) ==
    /\ sock[s] = "unused" /\ \A t \in Socket : t < s => sock[t] # "unused"
    /\ sock' = [sock EXCEPT ![s] = "connecting"]
    /\ current' = s /\ nextId' = FirstId
    /\ flow' = [flow EXCEPT ![f] = [Resting EXCEPT !.at = "connecting", !.sock = s]]
    /\ overlapped' = (overlapped \/ \E t \in Socket : sock[t] \notin {"unused", "closed"})
    /\ UNCHANGED <<connected, buffer, pending, outcome, up, down, serverVars, garbled>>

\* _request(): it throws, or writes to the socket and waits.
Ask(f) ==
    IF connected /\ current # None
    THEN LET r == Len(outcome) + 1 IN
         /\ Len(outcome) < MaxRequests
         /\ outcome' = Append(outcome, "pending")
         /\ pending' = {p \in pending : p.id # nextId}
                          \cup {[id |-> nextId, request |-> r, sock |-> current]}
         /\ nextId' = nextId + 1
         /\ up' = [up EXCEPT ![current] = Append(@, [id |-> nextId, request |-> r])]
         /\ flow' = [flow EXCEPT ![f] = [Resting EXCEPT !.at = "asking", !.request = r]]
         /\ UNCHANGED <<connected, current, buffer, sock, down, serverVars, garbled, overlapped>>
    ELSE /\ flow' = [flow EXCEPT ![f] = Resting]
         /\ UNCHANGED <<clientVars, sock, up, down, serverVars, garbled, overlapped>>

\* checkConnection of the hook, and any command: connect if need be, then ask.
Check(f) ==
    /\ flow[f].at = "checking"
    /\ IF connected THEN Ask(f) ELSE \E s \in Socket : Connect(f, s)

AskWhenReady(f) == flow[f].at = "ready" /\ Ask(f)

\* The timer or a command.
Begin(f) ==
    /\ flow[f].at = "idle" /\ Len(outcome) < MaxRequests
    /\ flow' = [flow EXCEPT ![f].at = "checking"]
    /\ UNCHANGED <<clientVars, sock, up, down, serverVars, garbled, overlapped>>

\* end(): it goes to the server behind what was written, for a socket that is still
\* connecting once it is connected; one that has ended or is destroyed is left alone.
Ended(at) ==
    CASE at = "connecting" -> "finishing" [] at = "open" -> "ending" [] OTHER -> at

\* reconnect() of the hook: disconnect() waits for the close event, then checks.
Reconnect(f) ==
    /\ flow[f].at = "idle" /\ Len(outcome) < MaxRequests
    /\ connected /\ current # None
    /\ connected' = FALSE
    /\ sock' = [sock EXCEPT ![current] = Ended(@)]
    /\ flow' = [flow EXCEPT ![f] = [Resting EXCEPT !.at = "disconnecting", !.sock = current]]
    /\ UNCHANGED <<current, buffer, nextId, pending, outcome, up, down, serverVars,
                   garbled, overlapped>>

(***************************************************************************)
(* Events of a socket.                                                     *)
(***************************************************************************)
Waiting(at, s) == {f \in Flow : flow[f].at = at /\ flow[f].sock = s}

\* 'connect': the server accepts.
Connected(s) ==
    /\ sock[s] \in {"connecting", "finishing"} /\ serving
    /\ sock' = [sock EXCEPT ![s] = IF @ = "connecting" THEN "open" ELSE "ending"]
    /\ conn' = [conn EXCEPT ![s] = "open"]
    /\ connected' = TRUE
    /\ flow' = [f \in Flow |-> IF f \in Waiting("connecting", s)
                               THEN [Resting EXCEPT !.at = "ready"] ELSE flow[f]]
    /\ UNCHANGED <<current, buffer, nextId, pending, outcome, up, down, handling, serving,
                   garbled, overlapped>>

\* Mutation of Refused: the socket is destroyed and nobody is told.
RefusedQuietly(s) ==
    /\ sock[s] \in {"connecting", "finishing"}
    /\ sock' = [sock EXCEPT ![s] = "destroyed"]
    /\ UNCHANGED <<clientVars, flow, up, down, serverVars, garbled, overlapped>>

\* The connection timeout or 'error' before 'connect': the promise is rejected, unless
\* the error comes when another socket has connected; then the promise stays open.
Refused(s) ==
    /\ sock[s] \in {"connecting", "finishing"}
    /\ sock' = [sock EXCEPT ![s] = "destroyed"]
    /\ \/ flow' = [f \in Flow |-> IF f \in Waiting("connecting", s) THEN Resting ELSE flow[f]]
       \/ connected /\ UNCHANGED flow
    /\ UNCHANGED <<clientVars, up, down, serverVars, garbled, overlapped>>

\* 'data': a chunk is any part of what has arrived.  Responses to ids that are not
\* pending are dropped.
Data(s) ==
    /\ sock[s] \in {"open", "ending"}
    /\ \E n \in DOMAIN down[s] :
          LET pieces == buffer \o SubSeq(down[s], 1, n)
              whole == {l \in Lines(pieces) : Parses(l)}
              hits == {p \in pending : \E l \in whole : l[1].id = p.id}
              answer(r) == CHOOSE l \in whole : \E p \in hits : p.request = r /\ p.id = l[1].id
          IN
          /\ down' = [down EXCEPT ![s] = SubSeq(@, n + 1, Len(@))]
          /\ buffer' = Rest(pieces)
          /\ garbled' = (garbled \/ whole # Lines(pieces))
          /\ pending' = pending \ hits
          /\ outcome' = [r \in DOMAIN outcome |->
                            IF \E p \in hits : p.request = r
                            THEN IF answer(r)[1].request = r THEN "answered" ELSE "mistaken"
                            ELSE outcome[r]]
          /\ flow' = Given({p.request : p \in hits})
    /\ UNCHANGED <<connected, current, nextId, sock, up, serverVars, overlapped>>

\* Mutation of Unfinished: the calls wait for their time limit.
UnfinishedWaits == {}

\* The pending requests 'close' rejects: all of them, whatever socket they went to.
Unfinished == {p.request : p \in pending}

\* Mutation of Cleared: the decoder is not reset.
ClearedNot == buffer

\* The decoder's buffer after reset().
Cleared == <<>>

\* 'close', of whichever socket: there is nothing more to read and the other side has
\* ended, or the socket was destroyed.
Close(s) ==
    /\ \/ sock[s] = "destroyed"
       \/ sock[s] \in {"open", "ending"} /\ conn[s] = "closed" /\ down[s] = <<>>
    /\ sock' = [sock EXCEPT ![s] = "closed"]
    /\ connected' = FALSE /\ current' = None /\ buffer' = Cleared
    /\ pending' = {p \in pending : p.request \notin Unfinished}
    /\ outcome' = Settled(Unfinished, "closed")
    /\ flow' = [f \in Flow |-> IF f \in Waiting("disconnecting", s)
                               THEN [Resting EXCEPT !.at = "checking"]
                               ELSE Given(Unfinished)[f]]
    /\ UNCHANGED <<nextId, up, down, serverVars, garbled, overlapped>>

\* A request's time limit.
Timeout(p) ==
    /\ p \in pending
    /\ pending' = pending \ {p}
    /\ outcome' = Settled({p.request}, "timeout") /\ flow' = Given({p.request})
    /\ UNCHANGED <<connected, current, buffer, nextId, sock, up, down, serverVars,
                   garbled, overlapped>>

(***************************************************************************)
(* The server.                                                             *)
(***************************************************************************)
\* _handleMessage of the transport and _handleRequest: the handler starts, unless stop()
\* has taken the request handler away.
Receive(s) ==
    /\ up[s] # <<>> /\ conn[s] \in {"open", "closed"}
    /\ up' = [up EXCEPT ![s] = Tail(@)]
    /\ handling' = IF serving /\ conn[s] = "open"
                   THEN handling \cup {[sock |-> s, id |-> Head(up[s]).id,
                                        request |-> Head(up[s]).request]}
                   ELSE handling
    /\ UNCHANGED <<clientVars, flow, sock, down, conn, serving, garbled, overlapped>>

\* The handler has a result or an error, and sendResponse writes it to an open connection.
Respond(h) ==
    LET piece(part) == [part |-> part, id |-> h.id, request |-> h.request] IN
    /\ h \in handling
    /\ handling' = handling \ {h}
    /\ down' = IF conn[h.sock] = "open"
               THEN [down EXCEPT ![h.sock] = @ \o <<piece("head"), piece("tail")>>]
               ELSE down
    /\ UNCHANGED <<clientVars, flow, sock, up, conn, serving, garbled, overlapped>>

\* The server's socket has read the client's end(): it ends, too.
PeerEnded(s) ==
    /\ sock[s] = "ending" /\ conn[s] = "open" /\ up[s] = <<>>
    /\ conn' = [conn EXCEPT ![s] = "closed"]
    /\ UNCHANGED <<clientVars, flow, sock, up, down, handling, serving, garbled, overlapped>>

\* RpcServer.stop() with close() of the transport: what is written is flushed, every
\* connection ends.
Stop ==
    /\ serving
    /\ serving' = FALSE
    /\ conn' = [s \in Socket |-> IF conn[s] = "open" THEN "closed" ELSE conn[s]]
    /\ UNCHANGED <<clientVars, flow, sock, up, down, handling, garbled, overlapped>>

\* The daemon is killed: of what it wrote, a part arrives that may end within a line.
Die ==
    /\ serving
    /\ serving' = FALSE
    /\ conn' = [s \in Socket |-> IF conn[s] = "open" THEN "closed" ELSE conn[s]]
    /\ \E n \in 0..(2 * MaxRequests) :
          down' = [s \in Socket |-> SubSeq(down[s], 1, IF n < Len(down[s]) THEN n ELSE Len(down[s]))]
    /\ UNCHANGED <<clientVars, flow, sock, up, handling, garbled, overlapped>>

\* A daemon listens again at the path.  What handlers of the last one still do is not seen.
Serve ==
    /\ ~serving
    /\ serving' = TRUE /\ handling' = {}
    /\ UNCHANGED <<clientVars, flow, sock, up, down, conn, garbled, overlapped>>

FlowStep(f) == Check(f) \/ AskWhenReady(f)
SocketStep(s) == Connected(s) \/ Refused(s) \/ Data(s) \/ Close(s)

Next ==
    \/ \E f \in Flow : FlowStep(f) \/ Begin(f) \/ Reconnect(f)
    \/ \E s \in Socket : SocketStep(s) \/ Receive(s) \/ PeerEnded(s)
    \/ \E p \in pending : Timeout(p)
    \/ \E h \in handling : Respond(h)
    \/ Stop \/ Die \/ Serve

Spec ==
    /\ Init /\ [][Next]_vars
    /\ \A s \in Socket : WF_vars(SocketStep(s)) /\ WF_vars(PeerEnded(s)) /\ WF_vars(Receive(s))
    /\ \A f \in Flow : WF_vars(FlowStep(f))

(***************************************************************************)
(* Properties.                                                             *)
(***************************************************************************)
\* No call gets the answer to another: not a late one after its time limit, nor one of an
\* earlier connection, however the chunks fall; and a call that waits has been written to
\* a socket whose close event is still to come, so that no caller depends on the time
\* limit alone (client.ts, _handleResponse and the close handler).
AnswersMatch ==
    /\ \A r \in DOMAIN outcome : outcome[r] # "mistaken"
    /\ \A p \in pending : sock[p.sock] # "closed"

\* A line is lost only when two sockets have fed one decoder: chunks may end anywhere
\* and connections may follow each other (codec.ts, client.ts).
LinesAreWhole == garbled => overlapped

\* A caller that disconnects, or whose connection ends, comes to an end: no promise of
\* connect() or disconnect() stays open, unless two connect() have overlapped; then one
\* of them may never be settled.
FlowsGoOn == \A f \in Flow :
    (flow[f].at \in {"connecting", "disconnecting"})
        ~> (flow[f].at \notin {"connecting", "disconnecting"} \/ overlapped)
=============================================================================
