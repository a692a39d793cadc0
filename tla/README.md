# A TLA+ model of BTunnel

BTunnel connects a host (`btunnel run`) and its clients (`btunnel join`, or a
browser) through WebRTC data channels that a WebSocket signaling server helps
to set up.  This directory models the parts of it in which order, concurrency
and failure matter, checks them with TLC on small instances and proves the most
important results with TLAPS for every instance.

    tlc -workers 2 -config SignalingRedis.cfg MCSignalingServer.tla
    tlapm SignalingServerProofs.tla

## 1. Inventory

| component | code | state | operations | what is hard |
|---|---|---|---|---|
| session store | `signaling-server/store/` | sessions by id, ids by token, expiry | create, look up, delete, clean up, Redis TTLs | one id for all sessions (memory); two Redis keys that die separately; ignored errors |
| signaling server | `signaling-server/handlers/` | `sessionPeers`, each `peerPair`'s host, clients and queued candidates, each goroutine's identity | create, join, relay, candidate, deferred cleanup | a goroutine per connection; joins between the steps of a cleanup; concurrent writes to one connection; restarts |
| signaling client | `internal/signaling/client.go` | connection, handlers, `incoming`, `done` | connect, send, create, join, callbacks, close | handlers run in new goroutines; `Close` against the read loop |
| host command | `cmd/run.go` | peers and proxies by client id | peer joined, answer, candidate, state change, statistics, clean-up | callbacks in any order; handlers registered after the token is printed |
| join command | `cmd/join.go` | one peer, one proxy | offer, candidate, connect, proxy | handlers registered after the answer to the join |
| reconnection | `internal/state/reconnect.go` | attempts, isActive, context, one goroutine per start | start, stop, loop | start at any point of the loop, stop, start after stop; no command creates a manager |
| connection manager, dashboard | `internal/state/connection.go`, `internal/ui/dashboard.go` | tunnels, their states and statistics; the dashboard's copy | add, set state, statistics, copy | last writer wins; looking at all peers is not atomic |
| data channel | `internal/webrtc/` | channels, incoming queue, reassembly buffers | send, chunk, heartbeat, receive, reassemble, close | unordered frames, concurrent senders, drops, half-sent messages |
| TCP proxy | `internal/proxy/tcp.go` | active connections and request channels | accept, dial, data, disconnect, error, stop | overtaking messages, two ends closing at once, stop while dialing, writes without a deadline |
| UDP proxy | `internal/proxy/udp.go` | sessions by address (client) or request id (host) | forward, dial, read, stop | two first datagrams of one address; a read that fails; stop while dialing |
| HTTP proxy | `internal/proxy/http.go` | bridged WebSockets | request, WebSocket open, data, close, stop | a goroutine per message; writes without a lock; a close before the dial is over |
| browser client | `web/*.js`, `web/index.html` | request table, timers, virtual WebSockets, reassembly, service worker ports | request, answer, timeout, open, send, close, push | three calls and the pushes of a socket share one id |
| embedded server | `internal/signaling/embedded.go` | a listener | start, stop | none beyond net/http |
| docker sidecar, tokens, config, UI | the rest | none of their own | | |

They interact so: the commands call the signaling client, whose messages the
server relays by the `peerPair` it finds under the session id; `run` and `join`
make a `Peer`, its `DataChannelManager` and a proxy, and the proxies at the two
ends talk through the data channel.

What makes each part correct, in a sentence: the server keeps sessions apart and
leaves nothing behind; a reconnection is one loop that ends; the data channel
delivers whole messages at most once; a proxy carries each stream in order and
releases both of its connections (the proxies add no disorder of their own to that of
the channel); a datagram's answer goes back to who asked; a
virtual WebSocket reports its end once and a request always ends; the dashboard
shows no connection that nobody has.  The hazards found while reading, with their
lines and the properties that cover them, are the list `hazards` of
`PROJECT.json`.

## 2. Modules

| module | models | extends |
|---|---|---|
| `SessionStore` | `store/memory.go`, `store/redis.go` (constant `Backend`) | |
| `SignalingServer` | `handlers/websocket.go` | `SessionStore` |
| `SignalingServerProofs` | theorems about it | |
| `Reconnect`, `ReconnectProofs` | `state/reconnect.go` | |
| `MessageChannel` | abstract: what the data channel promises | |
| `DataChannel`, `DataChannelProofs` | `webrtc/datachannel.go`, sending and receiving of `webrtc/peer.go` | `MessageChannel` by `INSTANCE` |
| `TCPTunnel`, `TCPTunnelProofs` | `proxy/tcp.go`, both ends | |
| `Handshake`, `HandshakeProofs` | `cmd/run.go`, `cmd/join.go`, `signaling/client.go`, offer and answer of `webrtc/peer.go`, with the join and the relays of the server | |
| `WebBridge`, `WebBridgeProofs` | `proxy/http.go`, and of `web/webrtc-client.js` the request table and the virtual WebSockets | |
| `UDPTunnel`, `UDPTunnelProofs` | `proxy/udp.go`, both ends | |
| `TunnelState`, `TunnelStateProofs` | `state/connection.go`, the callbacks and the statistics of `cmd/run.go`, the copy of `ui/dashboard.go` | |
| `MC*` | instances for TLC | |

Definitions marked *fault* in a module are slips the code does not make.  No
specification uses them; each shows that some property notices it.

### Session store and signaling server

A session object is named by its token, which is never issued twice; its id is
the value of `idOf`, because the in-memory store gives every session the same
one (`memory.go:213`).  `sessions` and `tokenToSession` are the two maps.  A
lookup therefore goes from a token to an id to *whatever session is stored there
now*, as in the code.  With Redis a deletion may do nothing, for the error is
ignored, and each key of an expired session disappears by itself.

`pc[c]` is the place of the goroutine that serves connection `c`, and
`job[c]` and `me[c]` are its locals.  One action is one access to what goroutines
share: a store call, a `sync.Map` operation, a critical section of
`peerPair.mu`, a write to a connection.  `handleCreate` is thus
`HandleCreate`, `RegisterHost`, `ReplyCreated`; `handleJoin` is `HandleJoin`,
`LoadPeers`, `EnterPeers`, `NotifyHost`, `Respond`, `FlushCandidate` (per
candidate), `JoinReturns`; the deferred cleanup is `CloseClients`, `Unpublish`,
`ForgetSession` for a host and `LeaveSession` for a client.  `handleRelay` and
`handleICECandidate` are one action; the comment there says why their two
accesses need not be told apart.  A join that Redis refuses or fails to answer ends
there (`HandleJoin`), with an error message or without one: the model, which has no
error messages, does not tell them apart.  `WritePanics` and the second disjunct of `Send`
are the outcomes of two goroutines writing to one connection.  Connections fail
at any moment, and the server restarts, losing everything but Redis.

The peers are the programs of this repository: one create or one join per
connection, joins with a token that was handed out, relays to ids the sender
was told.

### Reconnection

Each critical section of `reconnectLoop` is an action of one of several loops;
`Start` makes a loop, `Stop` cancels the context for good; whether a `Start` may
follow it is the constant `StartAfterStop`, FALSE in the run (section 6).  `onReconnect`
succeeds or fails as it likes.  `tries` is a history variable.

### Data channel

One direction.  `SendChunk(m)` is one iteration of the loop of `SendMessage`,
so calls from several goroutines interleave.  The network is a set of frames:
reliable while the channels are open, without order (`peer.go:189`).  `Arrive` is
`OnMessage`, with its drop when 256 frames (`QueueCap`) are waiting;
`ProcessIncoming` is one iteration of the loop, `Deliver` the blocking send on
`output`.  A payload is a byte range, so that the arithmetic of chunking is in
the model.  `IdOf` says which request id each call uses: a different one for
each message, like the HTTP proxy's requests and responses, or that of the
stream.

`MessageChannel` is the abstract specification: a message is accepted, then
handed over once or lost.  `DataChannel` implements it when ids are distinct,
mapping a message to accepted with its first chunk and to lost when a chunk of it
is dropped or a send fails.

### TCP tunnel

Both `TCPProxy` ends with the messages between them.  At the client: the accept
loop, `forwardFromLocal` (`ForwardLocalData`, `ForwardLocalEnd`),
`handleClientMessages` (`ClientReceive`, `ClientUnblocks`).  At the host: the dispatch
of `StartHost` into a bounded channel per request (`HostReceive`), the lifecycle
(`StartDial`, `DialOk`, `DialFails`, `WriteTarget`, `WriteUnblocks`, `EndOfRequest`),
`forwardFromTarget`, and `Stop`, which is two steps: `Stop` closes what is active
and `HostStops` is `StartHost` noticing it.  Applications may shut down their half
or go at any time, or read no more (`localDeaf`, `targetDeaf`).

The channels are opened unordered (`peer.go:189`), so each direction is a set of
messages of which any may come next.  Nothing in the proxies puts them in order again:
`StreamInOrder` is false (`tcp_unordered`).  What the proxies do ensure is that nothing
*else* goes wrong with a stream.  Therefore the model remembers which data a later
message of its stream overtook (`lateToHost`, `lateToClient`) and what `StartHost` had
no channel or no room for (`discarded`), and the properties allow for these and
nothing more.

`conn.Write` has no deadline (`tcp.go:147`, `:281`).  A write to an application that
is there and does not read moves the lifecycle to `stuck`, or the client's one
dispatch goroutine into `stuck`, and it goes on when the connection breaks
(`WriteUnblocks`, `ClientUnblocks`), which may be never.

### Handshake

How a client that joins and the host come to be connected.  `server` is the place
of the server's `handleJoin` (`EnterClient`, `NotifyHost`, `Respond`, in that
order), `joiner` that of the join command, `answering` that of its offer handler,
`offering` that of the host's PeerJoined handler.  `inbox[c]` is the client's
WebSocket, which `ReadLoop` reads in order: it starts a handler if one is
registered by then (`OfferHandler`, `CandidateHandler`) and pushes the message to
`incoming`, of which `JoinSession` takes the first.  The host prints its token first
(`run.go:147`) and registers its handlers then, that for joins last (`HostListens`); a
join that is read before finds no handler (`HostMisses`).  After that each message has a
goroutine of its own, so one on its way and a handler that has not run are the same
member of `toHost`.  The WebRTC library is external; of it the model keeps that a candidate is
refused before the remote description (`AddICECandidate`), that gathering starts
with the local one (`HostGathers`, `ClientGathers`), and what a link needs
(`Negotiated`).  Writes, calls, waits and links of the clients in `Unlucky` may fail.
A host that loses its own WebSocket is one whose every write fails.  The branch of
the PeerJoined handler that replaces an older peer never has one to replace: client
ids are fresh for every join.

### HTTP and virtual WebSockets

The page runs one callback at a time, so a callback with the promise reactions it
causes is one action.  `pending` is `_pendingRequests` and `timers` the queue of
`setTimeout`s, which all have the same delay and so fire in order.  A fetch has an
id of its own; connect, data and close of a socket all use the socket's, so a new
call overwrites the pending one, a timeout may remove the entry of a later call,
and a push may be taken for an answer: `ProxyRequest`, `TimerFires` and
`PageReceive` say exactly what then becomes of the promises (`Resolve`, `Reject`).
`awaiting` tells a connect promise that was settled from one that was overwritten.

At the host every message is handled in a goroutine of its own, so the set `toHost`
is both what is on its way and what has not begun.  `conn[s]` is the connection to
the target: `dialing`, `open`, `closed` (its reader will notice), `over` (its reader
has ended).  Nothing locks a connection against two `WS_DATA` handlers that write to it
(`http.go:310`): the library may panic, and then the host's process is gone
(`WritesCollide`).  The channel loses nothing while the link is up: how it can lose a
frame is the business of `DataChannel`, whose refinement shows that what it hands
over is whole when ids are distinct.  The page numbers its messages and a response
carries the number of its request, so these meet the condition; the pushes of a
socket all carry the number of its connect, so `WebBridge` takes each of them to fit
into one chunk (`data_channel_stream` shows what happens to longer ones).

### UDP tunnel

`ReadFromUDP` is one iteration of the client's loop with `Session`, its look-up.
`ForwardToTarget` is the start of a handler at the host up to its look-up; a handler
that found nothing goes on with `DialTarget`, so two of one address may dial one
after the other, and the later connection takes the session.  `LookAtDone`,
`ReadReply`, `ReadClosed` and `ReadFails` are the reader, which any read error ends while
its session stays; it does not come back (`reader[k] = "failed"`).  `Stop` closes what it finds in
`sessions` and nothing else.  `lost` remembers answers the channel lost.

### Tunnel state

`Callback` is the critical section of `OnConnectionStateChange`; `Raise`, `Visit` and
`Lower` are the rest of it, a `sync.Map.Range` being one step per peer with the
latitude the library gives it.  `StartSample`, `Sample`, `UpdateStats` are the
statistics loop.  The figures are abstracted to the set of peers that were added up.
What is assumed of WebRTC stands at the head of the module.  There is one tunnel: with
the embedded server several tunnels of one command have the same session id
(`memory.go:213`) and overwrite one `TunnelInfo` (`connection.go:120`), which the model
does not have.

## 3. Runs

| run | bounds | shows |
|---|---|---|
| `signaling_redis` | 3 connections, 2 tokens, session ids and client ids, 1 restart | isolation, reachability, cleanup |
| `signaling_memory` | 2 connections, 2 tokens, 1 session id, 2 client ids, 1 restart, 2 lost write races | joins are answered, the `peerPair` of a host that is gone stays gone |
| `signaling_unique_id` (violation) | 3 connections, memory store | two hosts share an id; a client reaches the wrong one |
| `reconnect` | 3 loops, 4 attempts, delays 1 to 6 | one loop, the right number of attempts, an end |
| `data_channel` | messages of 1, 2 and 2 chunks, queue of 2 | no chunk is lost or kept unnoticed; whole messages, at most once, by the refinement of `MessageChannel` |
| `data_channel_stream` (violation) | two messages under one id | a message nobody sent |
| `tcp_tunnel` | 1 stream, 2 pieces of data, channel of 2 | no disorder or loss but that of the way, release unless a write is blocked |
| `tcp_unordered` (violation) | same | bytes in the wrong order |
| `handshake` | 2 clients, of which one meets faults; 1 candidate per end | answers find their offers, clients that forward have proxies, joins end |
| `web_bridge` | 1 fetch, 1 socket, 2 messages each way | one end per socket, nothing missed before the first send, fetches end, closes arrive |
| `udp_tunnel` | 2 applications, 3 datagrams, 2 connections, 1 of the proxies stopped | answers go back to who asked, and do go back |
| `tunnel_state` | 2 clients, 3 changes of each link | no connection is shown that nobody has; statistics catch up |

**Why the bounds are enough.**  The server: a race needs a host, a client and a
third party (another host or another client), and an id or a token that is used
by two; more connections repeat these roles.  `signaling_memory` asks what becomes of a
host's own `peerPair` and of a join: only hosts write `sessionPeers`, and a join's
handler waits for nobody, so two connections do, with two tokens under the one id of
the store; three are out of TLC's reach there.  One restart, since a second one
starts from the same states.  Two lost races, so that both connections may
lose one.
The runs use symmetry only where they check no liveness.  Reconnection: an
episode, the one started during it and the one after it; four attempts reach the
capped delay and one more.  The data channel: one message that is not chunked,
two that share the queue, with a queue smaller than what may be in flight.  The
TCP tunnel: at the host streams share nothing but `Stop`, and at the client the one
goroutine that handles their messages, of which a stream that is blocked by another
sees only that it takes no message (`LocalBlocks`); so one stream is enough.  Its two
pieces may go either way: two overtake one another, and with the disconnect they
overflow a channel of two while the target is being dialed.

The handshake: clients meet only in the host's tables, so two are enough; one of
them has no excuse for not being connected.  One candidate stands for all of an end's,
which may come too early together.

The web bridge: ids are never shared by two fetches or sockets, which therefore meet
only in the order of the timers; one of each races with the other there.  Two
messages let a push be overtaken, and a send be pending while another comes.  UDP:
the race of first datagrams takes two datagrams of one application; a second one
shows that answers do not go astray.  Once either proxy has stopped, the other's stop
decides nothing more, so one of them is stopped (`MaxStops`).  Tunnel state: a callback and the one it looks
at; three changes are up, down and up again, so a callback may be overtaken by a
recovery.

**Deadlock** is not checked: a server without connections, a manager that was
stopped, a tunnel that ended and a page that was closed may rest for ever.

**Fairness.**  Weak fairness of the steps a goroutine takes by itself: Go's
scheduler runs every runnable goroutine.  Nothing is assumed of peers, users,
time or Redis.  In `DataChannel` the network delivers or loses each frame, and
the proxy that reads `output` keeps up; in `TCPTunnel` dials end and messages
arrive, while applications may stay silent, and a write to one that does not read
never returns.  In `Handshake` the steps of one client's
goroutines never go round in a circle, so one condition per client serves for them
all; a negotiated link comes up unless a fault breaks it.  In `WebBridge` the
browser's timers fire and the host's goroutines for each id run; messages need not
arrive at the page, for `FetchSettles` must hold without them.  In `UDPTunnel` both
proxies run and nothing they do is undone, so one condition suffices; dials and reads
may fail.  In `TunnelState` each peer's callback, the statistics loop and the tick run;
links change at will, and `OutageIsShown` and `StatsCatchUp` speak only of links
that have come to rest.

## 4. Proofs

| theorem | says |
|---|---|
| `TypeCorrect` | the server's state is well typed, with either store |
| `JoinIsolation` | with Redis, a client sits only in the `peerPair` of its token |
| `RelayIsolation` | with Redis, a message that names a client travels between it and the host of its token |
| `LiveHosts` | with Redis, the token of a host that is served leads to its own `peerPair` until it expires |
| `JoinableHosts` | with Redis, a token that still leads to a `peerPair` leads to one whose host is served, or panicked on its reply |
| `NoGhosts` | with Redis, a published `peerPair` holds no client whose goroutine has ended, unless it panicked in its join |
| `ReconnectTypes`, `DelaysAreBounded` | types; no delay above the maximum |
| `HandshakeTypes`, `AnswersFindTheirOffer`, `ServingClientsHaveProxies` | the handshake, for any clients, whatever fails |
| `ActiveManagerReconnects`, `OneLoopAtATime`, `GivesUpInTime` | without Start after Stop |
| `WebTypes`, `EndIsReportedOnce`, `QuietSocketsMissNothing` | the web bridge, for any fetches, sockets and messages |
| `UDPTypes`, `AnswersReachTheirSender` | the UDP tunnel, for any applications and connections |
| `TunnelTypes`, `ConnectedTunnelHasALink` (`TunnelStateProofs`) | the tunnel state, for any clients |
| `ChannelTypes` | the data channel's types and the capacity of its queue, whatever the request ids |
| `ChunksAreConserved`, `OnlyWholeMessages` | with distinct ids, where each chunk is until its message is handed over, and that what is handed over is one whole message |
| `ChannelImplementsMessageChannel` | with distinct ids, the data channel implements `MessageChannel` |
| `TunnelTypes` (`TCPTunnelProofs`) | the TCP tunnel's types and the capacity of its channels, in any order of delivery |
| `ReorderedOnTheWay`, `CleanEnds`, `LocalsCut` | over unordered channels: nothing is written twice; a piece is out of its place, a clean end incomplete or an application cut short only for what was overtaken in the network or discarded at the host |

*Server.*  `TypeInv` adds to the types that a goroutine in the middle of a handler
has the locals it needs.  `IsolationInv` is the strengthening for the other two:
ids are never shared (`idOf` is injective, which is where the Redis store is
needed); what a map holds under an id is the session that has it; the locals of
a join agree with what was recorded when its client id was minted; a host is
the owner of the token of its `peerPair`.  From it `JoinsItsTokensHost` follows, and
`RelayStaysInSession` joins the invariant because a message's sender and target are
both read from a `peerPair`.

`LifeInv` (the server's, in `SignalingServerProofs`) extends it to the life of a
session, for `LiveHosts`, `JoinableHosts` and
`NoGhosts`.  Nothing in `handlers/websocket.go` locks a session while it is created,
served or taken away, so the argument is about who can touch it.  A connection owns
at most one token, for good (`OwnersKnown`, `OwnersAsked`, `OneToken`: here the
theorems rest on the programs of this repository, which send one create or one join per connection), and a session
stored under an id has that id (`SessionsIndexed`), so a cleanup deletes its own
session and nobody else's.  The store therefore keeps what its host has not given up
(`SessionKept`); from its registration until its `Unpublish` a host finds its own
`peerPair` under its id (`RoomKept`), and what is published has a host in that stretch
of its code, or one that panicked (`HostPresent`).  `ClientsPresent` says the same of
clients: an entry of a published `peerPair` is that of a goroutine in the rest of its
`handleJoin`, with the matching locals, or of one that reads messages under the
identity its cleanup will use.  None of the three properties is inductive: that a
token resolves says nothing of what the next cleanup will delete.

*Reconnection.*  `LoopInv`: after Stop nothing is active; an active manager has a
running loop; an inactive one that was not stopped has none; there is at most one;
and the shared counter is the number of tries of the loop that runs.

*Handshake.*  `HandshakeInv` says what each thing that is sent tells of its sender: an
offer in a queue or in a handler was set at the host, which by then has a peer and a
proxy (`HostInOrder`, `OfferFirst`); an answer on its way or applied was set at the
client, after the offer (`AnswerNext`); the link and the forwarding come after all
of it (`LinkLast`).  Types are not inductive alone: that a proxy always has a peer
needs `HostInOrder`.

*Web bridge.*  `BridgeInv` has three parts.  `PageInv`: what a socket's state says of
its pending call, its timers and the promise of its connect, and that `closes`
counts its end.  `HostOf`: where the connect message, the dial and its answer are, of
which there is only one.  `QuietOf`: until the first send every push is heard or on
its way, and so is the end; it needs the other two because a push is taken for an
answer exactly when a call is pending.

*UDP.*  `HomeInv`: while the client listens, no two applications have one request id,
and every message, handler and answer yet to be read carries the id of the
application whose datagram it is (`Ownership`); a handler uses a connection of its
message's id (`HandlersMatch`); a connection that was not dialed has nothing to read
(`UnusedIsQuiet`).  Once `Stop` was called nothing is written to an application.

*Tunnel state.*  `BackedInv`: what is left of a peer's queue leads from `isConnected`
to `up` (`TellsTruth`); a callback that raises found its own peer connected
(`RaisesForOne`); a tunnel that counts as connected has a peer that is, or a
callback that has yet to look (`Backed`).  In `Backed` lies the argument: the last
peer to lose its connection looks at the others after it has written its own
`isConnected`, so at least one look sees all of them gone.

*Data channel.*  `ChannelInv` says of each message which of its chunks are where.  The
reassembly buffer of its id holds exactly the chunks that were received and is
dropped with the last of them (`BufferInv`); a chunk is in one of the network, the
queue and the buffer, only if it was sent, and in none once the message is complete
(`PlaceInv`); a message that lost nothing has all its sent chunks on their way, and one
that lost a chunk never completes (`LossInv`), which is what makes "lost" of the
abstract channel final.  No frame with a payload is twice in the queue and no message
twice in the output.  The refinement maps the steps of `SendChunk`, `LoseFrame`,
`Arrive` and `Deliver` to `Accept`, `Lose` or `HandOver` of `MessageChannel` or to a
stutter, and all others to a stutter.  It needs the invariant because a message may be
handed over only once, and only if it was not lost.  That a buffer which counts as many
chunks as its message needs has all of them follows because they are chunks of that message (`FS_Subset`).

*TCP tunnel.*  `TunnelInv` holds of each stream by itself.  `LifeInv` keeps the
goroutines of a request and its two connections in step.  `ToTargetInv` follows each piece of
data through `toHost`, the request's channel and the target, and `ToLocalInv` back:
until the lifecycle blocks or returns, what was written is on its way, given, waiting or
discarded, in no two of these places at once.  `ChanOK` carries the order through the
channel: of the pieces before a waiting one each was given, waits ahead of it, or is lost,
that is overtaken in the network or discarded, and before a waiting disconnect so is
everything that was written.  None of the three properties is inductive: that a gap in front of
a piece is excused when it is written was decided when it came off the network, where
`SentBefore` names what it overtook.  While a lifecycle is stuck nothing is claimed of its
channel, for it will write none of it.  No hypothesis about the network is needed.
`LocalsCut` is an action property and follows from the invariant before the step.

TLC checked each of these invariants on small instances before it was proved: `StreamInv`
with one stream of two pieces, `ChannelInv` with the
constants of `data_channel`, `LifeInv` with those of `signaling_redis` and with two and
three connections of which one loses a write race.

Assumptions: the named ASSUMEs of the modules (the sentinel `None` is not an id, a
message or a buffer, there is an id, bounds and delays are natural numbers) and three
hypotheses, each written where it is used.  They are not properties the code has
everywhere; the run or section named with each shows what goes wrong without it:

- `Backend = "redis"`: the in-memory store repeats ids (`signaling_unique_id`);
- `DistinctIds`: the HTTP requests and responses have ids of their own, while a
  stream's messages share one (`data_channel_stream`);
- `~StartAfterStop`: no command restarts a manager it stopped (section 6).

Every invariant and action property the passing runs check is the subject of a
theorem.  Only model-checked is liveness (under fairness, which is out of the
prover's reach), and what section 6 says fails.

## 5. What is not modelled, and what is left

Not modelled: a `dc.send` that throws in the page (`webrtc-client.js:568`), which rejects
the call but leaves its entry in the table without a timer; payloads (SDP, HTTP bodies), TURN credentials, metrics, the Docker
sidecar, configuration and the drawing of the UI; the service worker, which is only
the source of fetches (when the browser restarts it, its counter starts anew and
two fetches may share an id; `sw.js:27`); the framing of the page, which repeats that
of `DataChannel`; the statistics loop of `join`; `Client.Close` and the retries of
`Client.Connect`; the sliding window of `checkRateLimit`.  `RemoveTunnel`,
`MarkTokenUsed`, `OnStateChange`, `CalculateDelay` and `NewUDPProxy` are called by
no command; of these only the UDP proxy is modelled.  Documents also promise that a
token is consumed by the first join (`docs/architecture.md:63`); the model lets a
token be used until its session ends, as the code does.

Worth doing next: that the server implements an abstract directory of sessions, for
which `LifeInv` holds most of what is needed; a module for the signaling client's
`Connect` and `Close`; what of the server's cleanup holds with the in-memory store.

## 6. Where the code and its documents disagree

Three runs show a disagreement: `signaling_unique_id`, `data_channel_stream`,
`tcp_unordered` (see `findings` in `PROJECT.json`).  Others are known and have no run
of their own; each can be seen with the instance given.

- *A join between load and lock survives the host.*  The cleanup says "Close all
  clients" (`websocket.go:135`), but a client that enters the `peerPair` after the
  cleanup emptied it is answered and never closed.  `HostLeavesNoClient` fails in
  `SignalingServer` with two connections and one of everything else, Redis, no
  restart.
- *A candidate reaches another client than the one it is for* (`websocket.go:343`).
  `CandidateReachesItsClient` fails with two client ids.
- *Active for ever.*  `Start` after `Stop` leaves `isActive` set with no loop
  (`reconnect.go:107`, `160`).  `ActiveHasLoop` fails in `Reconnect` when
  `StartAfterStop` is TRUE; the run sets it FALSE, and so leaves out what a `Stop` with a
  `Start` right behind it does to a loop that is still alive.  No command creates a manager.
- *A join that never ends.*  `docs/architecture.md:59-79` shows a client that joins
  being connected; its handlers for offers and candidates are registered only after
  the answer to its join (`join.go:168`, `195`), and the host's offer or candidates
  may be read before.  `JoinServes` fails in `Handshake` with one client and
  `Unlucky = {}`; `JoinEnds`, which is checked, excepts exactly these cases.
- *A tunnel shown as down while a client is up.*  "Only set disconnected state if ALL
  clients are disconnected" (`run.go:276`): a client may come up between the last
  look of another's callback and its `SetState`.  Then the state stays wrong until
  the next change of a link.
- *Target connections that stay open.*  "Close all target connections" (`udp.go:242`)
  misses a connection that another was stored over, and one dialed during `Stop`;
  "closes any active WS tunnels" (`http.go:337`) misses one that is being dialed, and
  a `WS_CLOSE` that overtakes the end of its dial is forgotten (`http.go:313`).
- *Writes that block.*  No write of the TCP proxy has a deadline.  A local application
  that does not read blocks the goroutine that handles the messages of *all* streams
  (`tcp.go:281`), a target that does not read the lifecycle of its stream (`tcp.go:147`),
  whose disconnect then waits behind the write.  `Stop` frees the latter only where the
  connection is in `activeConns`: not when its target has ended its half (`tcp.go:189`), nor
  when it was dialed during `Stop`.  The liveness properties of `tcp_tunnel` except these
  (`TargetBlocks`, `LocalBlocks`) and nothing else.
- *UDP answers nobody reads.*  One read error, as when the target was down for one
  datagram, ends the reader of its connection for good while the session stays
  (`udp.go:131`).  `AnswersComeBack` excepts these (`Unread`).
- *A join the host does not hear.*  The token is printed before the host's handlers are
  registered (`run.go:147`, `:234`); `JoinEnds` excepts a join that was read in between
  (`JoinMissed`).
- *Several tunnels, one entry.*  With the embedded server all tunnels of a command have
  the same session id, so in its `ConnectionManager` the last one registered stands for all
  (`connection.go:120`).  No module has two tunnels.
- *Writes without a lock.*  Two messages of a page on one virtual WebSocket are written to
  the target by two goroutines (`http.go:310`); the library may panic, which ends the
  host's process (`WritesCollide`), or their frames may be mixed, of which the model has
  nothing.
- *A close that never settles.*  A timer may remove the entry of a later call of its socket
  (`webrtc-client.js:531`), so that a `close()` waits for ever; no property promises that
  it ends.
- *Pushes taken for answers.*  While a send of a virtual WebSocket is pending, which
  it is until it times out since the host answers no `WS_DATA`, the next push is
  swallowed (`webrtc-client.js:474`); this is why `QuietSocketHearsAll` speaks only
  of sockets nothing was sent on.
- *Two ends.*  `BTunnelClient.close()` makes a socket that is still connecting call
  `onclose` twice, once for its connect and once for its close
  (`webrtc-client.js:628`, `635`); `OnCloseOnce` holds until then.
