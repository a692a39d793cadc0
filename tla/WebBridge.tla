----------------------------- MODULE WebBridge -----------------------------
(***************************************************************************)
(* HTTP and virtual WebSockets over the tunnel: BTunnelClient in the page  *)
(* (web/webrtc-client.js) and HTTPProxy at the host (internal/proxy/       *)
(* http.go).                                                               *)
(*                                                                         *)
(* The page runs one callback at a time, so a callback and the promise     *)
(* reactions it causes are one action.  Everything it asks goes through    *)
(* proxyRequest, which keeps one pending call for each id: a fetch has an  *)
(* id of its own, but connect, data and close of a socket all use the      *)
(* socket's, and so do the pushes of the host.  A message whose id has a   *)
(* pending call is taken for its answer.  The timers of the calls have the *)
(* same delay and fire in the order in which they were set.                *)
(*                                                                         *)
(* The host starts a goroutine for every message, so a message on its way  *)
(* and a handler that has not begun are the same thing.  The channel loses *)
(* nothing while the link is up and keeps no order; when the link goes,    *)
(* the page notices later.  Targets answer, push and close as they like.   *)
(***************************************************************************)
EXTENDS Naturals, Sequences

CONSTANTS Requests,  \* ids of fetches
          Sockets,   \* ids of virtual WebSockets
          MaxData,   \* bound: messages in each direction of a socket
          None

Ids == Requests \cup Sockets

Call(op, id, n) == [op |-> op, id |-> id, data |-> n]
Calls == [op : {"fetch", "connect", "data", "close"}, id : Ids, data : 0 .. MaxData]

Event(kind, id, n) == [kind |-> kind, id |-> id, data |-> n]
Events == [kind : {"response", "accept", "reject", "push", "bye"},
           id : Ids, data : 0 .. MaxData]

ASSUME WebAssumption ==
  MaxData \in Nat /\ Requests \cap Sockets = {} /\ None \notin Calls

VARIABLES
  \* the page
  pending,   \* _pendingRequests: the call whose promise an id would settle
  timers,    \* calls whose timeout is still to come
  request,   \* the outcome of each fetch
  socket,    \* readyState of each virtual WebSocket
  awaiting,  \* sockets whose connect promise is not settled
  sends,     \* messages sent on each socket
  heard,     \* messages handed to onmessage
  closes,    \* how often onclose was called
  channels,  \* has the page open data channels?
  \* the host
  forwarding, \* requests in handleHostRequest, after client.Do
  conn,       \* the connection to the target of each socket
  wsConns,    \* wsConns
  pushed,     \* messages read from the target
  serving,    \* FALSE once Stop was called
  \* between them
  link, toHost, toPage

sockets == <<socket, awaiting, closes>>
page    == <<pending, timers, request, sockets, sends, heard, channels>>
host    == <<forwarding, conn, wsConns, pushed, serving>>
net     == <<link, toHost, toPage>>
vars    == <<page, host, net>>

-----------------------------------------------------------------------------
TypeOK ==
  /\ pending \in [Ids -> Calls \cup {None}]
  /\ timers \in Seq(Calls)
  /\ request \in [Requests -> {"idle", "waiting", "answered", "failed"}]
  /\ socket \in [Sockets -> {"none", "connecting", "open", "closing", "closed"}]
  /\ awaiting \subseteq Sockets
  /\ closes \in [Sockets -> Nat]
  /\ sends \in [Sockets -> 0 .. MaxData]
  /\ heard \in [Sockets -> SUBSET (1 .. MaxData)]
  /\ channels \in BOOLEAN
  /\ forwarding \subseteq Requests
  /\ conn \in [Sockets -> {"none", "dialing", "open", "closed", "over"}]
  /\ wsConns \subseteq Sockets
  /\ pushed \in [Sockets -> 0 .. MaxData]
  /\ serving \in BOOLEAN
  /\ link \in {"up", "down"}
  /\ toHost \subseteq Calls
  /\ toPage \subseteq Events

Init ==
  /\ pending = [i \in Ids |-> None]
  /\ timers = << >>
  /\ request = [r \in Requests |-> "idle"]
  /\ socket = [s \in Sockets |-> "none"]
  /\ awaiting = {}
  /\ closes = [s \in Sockets |-> 0]
  /\ sends = [s \in Sockets |-> 0]
  /\ heard = [s \in Sockets |-> {}]
  /\ channels = TRUE
  /\ forwarding = {}
  /\ conn = [s \in Sockets |-> "none"]
  /\ wsConns = {}
  /\ pushed = [s \in Sockets |-> 0]
  /\ serving = TRUE
  /\ link = "up"
  /\ toHost = {} /\ toPage = {}

-----------------------------------------------------------------------------
(* The page. *)

Sent(messages, m) == IF link = "up" THEN messages \cup {m} ELSE messages

(* Fault (this definition and the others so marked are slips the code does *)
(* not make; the specification does not use them): no timeout is set.      *)
ProxyRequestUntimed(c) ==
  /\ channels
  /\ pending' = [pending EXCEPT ![c.id] = c]
  /\ toHost' = Sent(toHost, c)
  /\ UNCHANGED timers

(* proxyRequest with open channels; without, it rejects at once. *)
ProxyRequest(c) ==
  /\ channels
  /\ pending' = [pending EXCEPT ![c.id] = c]
  /\ toHost' = Sent(toHost, c)
  /\ timers' = Append(timers, c)

Rejected == ~channels /\ UNCHANGED <<pending, toHost, timers>>

(* The socket is closed and says so. *)
Closed(s) ==
  /\ socket' = [socket EXCEPT ![s] = "closed"]
  /\ closes' = [closes EXCEPT ![s] = @ + 1]

(* A fetch that the service worker or the page makes. *)
Fetch(r) ==
  /\ request[r] = "idle"
  /\ \/ /\ ProxyRequest(Call("fetch", r, 0))
        /\ request' = [request EXCEPT ![r] = "waiting"]
     \/ /\ Rejected
        /\ request' = [request EXCEPT ![r] = "failed"]
  /\ UNCHANGED <<sockets, sends, heard, channels, host, link, toPage>>

(* new WebSocket(): _connect. *)
OpenSocket(s) ==
  /\ socket[s] = "none"
  /\ \/ /\ ProxyRequest(Call("connect", s, 0))
        /\ socket' = [socket EXCEPT ![s] = "connecting"]
        /\ awaiting' = awaiting \cup {s}
        /\ UNCHANGED closes
     \/ Rejected /\ Closed(s) /\ UNCHANGED awaiting
  /\ UNCHANGED <<request, sends, heard, channels, host, link, toPage>>

SendData(s) ==
  /\ socket[s] = "open"
  /\ sends[s] < MaxData
  /\ sends' = [sends EXCEPT ![s] = @ + 1]
  /\ ProxyRequest(Call("data", s, sends[s] + 1)) \/ Rejected
  /\ UNCHANGED <<request, sockets, heard, channels, host, link, toPage>>

(* close(): the socket is closed when the call is settled, either way. *)
CloseSocket(s) ==
  /\ socket[s] \in {"connecting", "open"}
  /\ \/ /\ ProxyRequest(Call("close", s, 0))
        /\ socket' = [socket EXCEPT ![s] = "closing"]
        /\ UNCHANGED closes
     \/ Rejected /\ Closed(s)
  /\ UNCHANGED <<request, awaiting, sends, heard, channels, host, link, toPage>>

(* What the code that waits for a call does when an answer comes. *)
Resolve(c, kind) ==
  \/ /\ c.op = "fetch"
     /\ request' = [request EXCEPT ![c.id] = "answered"]
     /\ UNCHANGED sockets
  \/ /\ c.op = "connect" /\ kind = "accept"
     /\ socket' = [socket EXCEPT ![c.id] = "open"]
     /\ awaiting' = awaiting \ {c.id}
     /\ UNCHANGED <<request, closes>>
  \/ /\ c.op = "connect" /\ kind # "accept"
     /\ Closed(c.id)
     /\ awaiting' = awaiting \ {c.id}
     /\ UNCHANGED request
  \/ c.op = "data" /\ UNCHANGED <<request, sockets>>
  \/ c.op = "close" /\ Closed(c.id) /\ UNCHANGED <<request, awaiting>>

(* And when its timeout does: settling a promise again does nothing. *)
Reject(c) ==
  \/ /\ c.op = "fetch"
     /\ request' = [request EXCEPT ![c.id] = "failed"]
     /\ UNCHANGED sockets
  \/ /\ c.op = "connect" /\ c.id \in awaiting
     /\ Closed(c.id)
     /\ awaiting' = awaiting \ {c.id}
     /\ UNCHANGED request
  \/ /\ c.op = "data" \/ (c.op = "connect" /\ c.id \notin awaiting)
     /\ UNCHANGED <<request, sockets>>
  \/ c.op = "close" /\ Closed(c.id) /\ UNCHANGED <<request, awaiting>>

(* Fault: the timeout settles its call without looking whether it waits.   *)
TimerFiresBlindly ==
  /\ timers # << >>
  /\ timers' = Tail(timers)
  /\ LET c == Head(timers) IN
       pending' = [pending EXCEPT ![c.id] = None] /\ Reject(c)
  /\ UNCHANGED <<sends, heard, channels, host, net>>

(* The oldest timeout.  It looks for a call under its id, whichever it is. *)
TimerFires ==
  /\ timers # << >>
  /\ timers' = Tail(timers)
  /\ LET c == Head(timers) IN
       \/ /\ pending[c.id] # None
          /\ pending' = [pending EXCEPT ![c.id] = None]
          /\ Reject(c)
       \/ pending[c.id] = None /\ UNCHANGED <<pending, request, sockets>>
  /\ UNCHANGED <<sends, heard, channels, host, net>>

(* _processCompleteMessage, and _handleIncomingEvent of a socket. *)
Live(s) == socket[s] \in {"connecting", "open", "closing"}

(* Fault: onmessage gets every event of its socket. *)
DispatchAll(e) ==
  \/ /\ e.kind \in {"push", "bye"} /\ Live(e.id)
     /\ heard' = [heard EXCEPT ![e.id] = @ \cup {e.data}]
     /\ UNCHANGED sockets
  \/ /\ e.kind \in {"push", "bye"} => ~Live(e.id)
     /\ UNCHANGED <<heard, sockets>>

Dispatch(e) ==
  \/ /\ e.kind = "push" /\ Live(e.id)
     /\ heard' = [heard EXCEPT ![e.id] = @ \cup {e.data}]
     /\ UNCHANGED sockets
  \/ e.kind = "bye" /\ Live(e.id) /\ Closed(e.id) /\ UNCHANGED <<heard, awaiting>>
  \/ /\ e.kind \in {"push", "bye"} => ~Live(e.id)
     /\ UNCHANGED <<heard, sockets>>

PageReceive(e) ==
  /\ e \in toPage
  /\ toPage' = toPage \ {e}
  /\ \/ /\ pending[e.id] # None
        /\ pending' = [pending EXCEPT ![e.id] = None]
        /\ Resolve(pending[e.id], e.kind)
        /\ UNCHANGED heard
     \/ pending[e.id] = None /\ Dispatch(e) /\ UNCHANGED <<pending, request>>
  /\ UNCHANGED <<timers, sends, channels, host, link, toHost>>

LinkFails ==
  /\ link = "up"
  /\ link' = "down" /\ toHost' = {} /\ toPage' = {}
  /\ UNCHANGED <<page, host>>

(* onclose of the data channels. *)
ChannelsClose ==
  /\ link = "down" /\ channels
  /\ channels' = FALSE
  /\ UNCHANGED <<pending, timers, request, sockets, sends, heard, host, net>>

(* BTunnelClient.close(): the channels first, then the calls, then the     *)
(* sockets; one that was still connecting reports both.                    *)
Waits(s, op) == pending[s] # None /\ pending[s].op = op

Disconnect ==
  /\ channels
  /\ channels' = FALSE
  /\ link' = "down" /\ toHost' = {} /\ toPage' = {}
  /\ request' = [r \in Requests |-> IF pending[r] # None THEN "failed" ELSE request[r]]
  /\ pending' = [i \in Ids |-> None]
  /\ socket' = [s \in Sockets |->
       IF socket[s] \in {"connecting", "open"} \/ Waits(s, "close") THEN "closed"
       ELSE socket[s]]
  /\ closes' = [s \in Sockets |->
       closes[s] + (IF socket[s] \in {"connecting", "open"} THEN 1 ELSE 0)
                 + (IF Waits(s, "connect") \/ Waits(s, "close") THEN 1 ELSE 0)]
  /\ awaiting' = {s \in awaiting : ~Waits(s, "connect")}
  /\ UNCHANGED <<timers, sends, heard, host>>

-----------------------------------------------------------------------------
(* The host. *)

(* handleHostRequest: the request is made of the target, which answers or  *)
(* fails within the client's timeout; either way there is a response.      *)
HandleRequest(r) ==
  /\ serving
  /\ Call("fetch", r, 0) \in toHost
  /\ toHost' = toHost \ {Call("fetch", r, 0)}
  /\ forwarding' = forwarding \cup {r}
  /\ UNCHANGED <<page, conn, wsConns, pushed, serving, link, toPage>>

Respond(r) ==
  /\ r \in forwarding
  /\ forwarding' = forwarding \ {r}
  /\ toPage' = Sent(toPage, Event("response", r, 0))
  /\ UNCHANGED <<page, conn, wsConns, pushed, serving, link, toHost>>

(* handleWebSocketRequest, WS_CONNECT. *)
HandleConnect(s) ==
  /\ serving
  /\ Call("connect", s, 0) \in toHost
  /\ toHost' = toHost \ {Call("connect", s, 0)}
  /\ conn' = [conn EXCEPT ![s] = "dialing"]
  /\ UNCHANGED <<page, forwarding, wsConns, pushed, serving, link, toPage>>

DialFails(s) ==
  /\ conn[s] = "dialing"
  /\ conn' = [conn EXCEPT ![s] = "over"]
  /\ toPage' = Sent(toPage, Event("reject", s, 0))
  /\ UNCHANGED <<page, forwarding, wsConns, pushed, serving, link, toHost>>

(* Fault: the connection is not remembered. *)
DialOkForgets(s) ==
  /\ conn[s] = "dialing"
  /\ conn' = [conn EXCEPT ![s] = "open"]
  /\ toPage' = Sent(toPage, Event("accept", s, 0))
  /\ UNCHANGED <<page, forwarding, wsConns, pushed, serving, link, toHost>>

(* The reader starts; nobody has seen the connection before. *)
DialOk(s) ==
  /\ conn[s] = "dialing"
  /\ conn' = [conn EXCEPT ![s] = "open"]
  /\ wsConns' = wsConns \cup {s}
  /\ toPage' = Sent(toPage, Event("accept", s, 0))
  /\ UNCHANGED <<page, forwarding, pushed, serving, link, toHost>>

(* The reader: a message of the target, or the end, after which it sends   *)
(* WS_CLOSE.                                                               *)
ReadMessage(s) ==
  /\ conn[s] = "open"
  /\ pushed[s] < MaxData
  /\ pushed' = [pushed EXCEPT ![s] = @ + 1]
  /\ toPage' = Sent(toPage, Event("push", s, pushed[s] + 1))
  /\ UNCHANGED <<page, forwarding, conn, wsConns, serving, link, toHost>>

TargetCloses(s) ==
  /\ conn[s] = "open"
  /\ conn' = [conn EXCEPT ![s] = "closed"]
  /\ UNCHANGED <<page, forwarding, wsConns, pushed, serving, net>>

(* Fault: the reader ends without a word. *)
ReaderEndsSilently(s) ==
  /\ conn[s] = "closed"
  /\ conn' = [conn EXCEPT ![s] = "over"]
  /\ wsConns' = wsConns \ {s}
  /\ UNCHANGED <<page, forwarding, pushed, serving, net>>

ReaderEnds(s) ==
  /\ conn[s] = "closed"
  /\ conn' = [conn EXCEPT ![s] = "over"]
  /\ wsConns' = wsConns \ {s}
  /\ toPage' = Sent(toPage, Event("bye", s, 0))
  /\ UNCHANGED <<page, forwarding, pushed, serving, link, toHost>>

(* WS_DATA: written to the target's connection, if there is one by now.    *)
(* Nothing depends on what the target makes of it.                         *)
HandleData(s) ==
  /\ serving
  /\ \E m \in toHost : m.op = "data" /\ m.id = s /\ toHost' = toHost \ {m}
  /\ UNCHANGED <<page, host, link, toPage>>

(* Two handlers write to one connection, which has no lock: the library    *)
(* may notice and panic, and nobody recovers.  With the host's process go  *)
(* its goroutines, its connections and the link.                           *)
WritesCollide(s) ==
  /\ serving
  /\ s \in wsConns
  /\ \E m, n \in toHost : m # n /\ {m.op, n.op} = {"data"} /\ {m.id, n.id} = {s}
  /\ serving' = FALSE
  /\ forwarding' = {} /\ wsConns' = {}
  /\ conn' = [t \in Sockets |-> IF conn[t] = "none" THEN "none" ELSE "over"]
  /\ link' = "down" /\ toHost' = {} /\ toPage' = {}
  /\ UNCHANGED <<page, pushed>>

(* WS_CLOSE: one that comes before the connection is forgotten. *)
HandleClose(s) ==
  /\ serving
  /\ Call("close", s, 0) \in toHost
  /\ toHost' = toHost \ {Call("close", s, 0)}
  /\ \/ /\ s \in wsConns
        /\ wsConns' = wsConns \ {s}
        /\ conn' = [conn EXCEPT ![s] = "closed"]
     \/ s \notin wsConns /\ UNCHANGED <<wsConns, conn>>
  /\ UNCHANGED <<page, forwarding, pushed, serving, link, toPage>>

Stop ==
  /\ serving
  /\ serving' = FALSE
  /\ conn' = [s \in Sockets |-> IF s \in wsConns THEN "closed" ELSE conn[s]]
  /\ UNCHANGED <<page, forwarding, wsConns, pushed, net>>

-----------------------------------------------------------------------------
SocketAction(s) ==
  \/ OpenSocket(s) \/ SendData(s) \/ CloseSocket(s)
  \/ ReadMessage(s) \/ TargetCloses(s) \/ WritesCollide(s)

HostHandles(s) ==
  \/ HandleConnect(s) \/ DialFails(s) \/ DialOk(s)
  \/ ReaderEnds(s) \/ HandleData(s) \/ HandleClose(s)

HostForwards(r) == HandleRequest(r) \/ Respond(r)

Next ==
  \/ \E r \in Requests : Fetch(r) \/ HostForwards(r)
  \/ \E s \in Sockets : SocketAction(s) \/ HostHandles(s)
  \/ TimerFires
  \/ \E e \in toPage : PageReceive(e)
  \/ LinkFails \/ ChannelsClose \/ Disconnect
  \/ Stop

Spec == Init /\ [][Next]_vars

(* The browser's timers fire and the host's goroutines run: each has its   *)
(* own condition where another could starve it.  Nothing is assumed of     *)
(* links, users or what targets say.                                       *)
FairSpec ==
  /\ Spec
  /\ WF_vars(TimerFires)
  /\ \A r \in Requests : WF_vars(HostForwards(r))
  /\ \A s \in Sockets : WF_vars(HostHandles(s))

-----------------------------------------------------------------------------
(***************************************************************************)
(* Properties.                                                             *)
(***************************************************************************)

(* While the page has its channels, a virtual WebSocket reports its end    *)
(* exactly once, when it becomes closed, although the answers, the host's  *)
(* WS_CLOSE, close() and the timeouts of three calls race for it.          *)
OnCloseOnce ==
  channels => \A s \in Sockets : closes[s] = IF socket[s] = "closed" THEN 1 ELSE 0

(* "Route WebSocket server push events" (webrtc-client.js:482): an open    *)
(* socket misses nothing of what its target said, the end included, as     *)
(* long as nothing was ever sent on it.  After a send it may: a push then  *)
(* counts as the answer to the send.                                       *)
Delivered(s) == heard[s] \cup {n \in 1 .. MaxData : Event("push", s, n) \in toPage}

QuietSocketHearsAll ==
  link = "up" => \A s \in Sockets : (socket[s] = "open" /\ sends[s] = 0) =>
    /\ Delivered(s) = 1 .. pushed[s]
    /\ conn[s] = "over" => Event("bye", s, 0) \in toPage

(* Every fetch ends, answered or failed, whatever becomes of the host. *)
FetchSettles == \A r \in Requests : (request[r] = "waiting") ~> (request[r] # "waiting")

(* A WS_CLOSE that finds the target's connection open ends it, and its     *)
(* reader says so, unless the link fails or the proxy stops first.         *)
CloseReachesTarget ==
  \A s \in Sockets :
     (Call("close", s, 0) \in toHost /\ conn[s] = "open")
        ~> (conn[s] = "over" \/ link = "down" \/ ~serving)
=============================================================================
