-------------------------- MODULE SignalingServer --------------------------
(***************************************************************************)
(* The WebSocket signaling server (handlers/websocket.go) on top of the    *)
(* session store.  Every connection is served by one goroutine that reads  *)
(* a message, runs its handler and, when reading fails, the deferred       *)
(* cleanup.  Goroutines interleave at the operations they share: a store   *)
(* call, an access to the sync.Map sessionPeers, a critical section under  *)
(* peerPair.mu, a write to a connection.  Each of these is one action and  *)
(* pc[c] says which one goroutine c is about to take.                      *)
(*                                                                         *)
(* A peerPair is identified by the token of the session it was made for.   *)
(* The peers of the server are the programs of this repository: each       *)
(* connection sends one create or one join (cmd/run.go, cmd/join.go,       *)
(* web/webrtc-client.js), a host sends offers and candidates to the client *)
(* ids it was told of, a client joins with a token some host was given.    *)
(***************************************************************************)
EXTENDS SessionStore, Naturals, FiniteSets

CONSTANTS Conns,        \* WebSocket connections
          ClientIds,    \* the client ids crypto.GenerateToken may return
          MaxRestarts,  \* bound: restarts of the server process
          MaxRaces      \* bound: goroutines that lose a concurrent write

ASSUME ServerNoneAssumption ==
  None \notin Conns \cup ClientIds \cup [conn : Conns, tok : Tokens]
ASSUME BoundsAssumption == MaxRestarts \in Nat /\ MaxRaces \in Nat

VARIABLES sessionPeers,  \* session id -> peerPair
          peers,         \* the peerPair objects
          pc,            \* the next step of each connection's goroutine
          me,            \* its currentSessionID, currentClientID, isHost/isClient
          job,           \* the locals of the handler it is running
          asked,         \* connections that have sent their create or join
          open,          \* connections that are open
          delivered,     \* every message written to an open connection
          owner,         \* history: the connection a token was created for
          joins,         \* history: the join a client id was minted for
          restarts,      \* restarts so far
          collided       \* goroutines that lost a concurrent write

room      == <<sessionPeers, peers>>
goroutine == <<pc, me, job, asked>>
net       == <<open, delivered>>
history   == <<owner, joins, restarts>>
vars      == <<store, room, goroutine, net, history, collided>>

-----------------------------------------------------------------------------
NoClients == [k \in ClientIds |-> None]

PeerPair(host, clients, queued) ==
  [host |-> host, clients |-> clients, queued |-> queued]

EmptyPair == PeerPair(None, NoClients, {})

Peers == [host    : Conns \cup {None},
          clients : [ClientIds -> Conns \cup {None}],
          queued  : SUBSET ClientIds]

Nobody == [kind |-> "none", sid |-> None, cid |-> None]

Identity == [kind : {"none", "host", "client"},
             sid  : SessionIds \cup {None},
             cid  : ClientIds \cup {None}]

RelayTypes == {"offer", "answer", "ice"}

Locals(sid, cid, pair, queue) ==
  [sid |-> sid, cid |-> cid, pair |-> pair, queue |-> queue]

Idle == Locals(None, None, None, {})

Job == [sid   : SessionIds \cup {None},
        cid   : ClientIds \cup {None},
        pair  : Tokens \cup {None},
        queue : SUBSET ClientIds]

(***************************************************************************)
(* What a message says, as far as the properties tell messages apart: its  *)
(* type, the connection it was written to, the connection whose goroutine  *)
(* it comes from, the client id it carries, and the client id its sender   *)
(* had put in it (the two differ when a queued candidate is flushed).      *)
(***************************************************************************)
Message == [type  : RelayTypes \cup {"session-created", "join-response", "peer-joined"},
            to    : Conns,
            from  : Conns \cup {None},
            cid   : ClientIds \cup {None},
            meant : ClientIds \cup {None}]

Msg(type, to, from, cid, meant) ==
  [type |-> type, to |-> to, from |-> from, cid |-> cid, meant |-> meant]

Received(type, c, k) ==
  \E m \in delivered : m.type = type /\ m.to = c /\ m.cid = k

Join == [conn : Conns, tok : Tokens]

PCs == {"off", "read", "register", "reply", "load", "enter", "notify",
        "respond", "flush", "unpublish", "forget", "done"}

TypeOK ==
  /\ StoreTypeOK
  /\ sessionPeers \in [SessionIds -> Tokens \cup {None}]
  /\ peers \in [Tokens -> Peers]
  /\ pc \in [Conns -> PCs]
  /\ me \in [Conns -> Identity]
  /\ job \in [Conns -> Job]
  /\ asked \subseteq Conns
  /\ open \subseteq Conns
  /\ delivered \subseteq Message
  /\ owner \in [Tokens -> Conns \cup {None}]
  /\ joins \in [ClientIds -> Join \cup {None}]
  /\ restarts \in 0..MaxRestarts
  /\ collided \subseteq Conns

Init ==
  /\ StoreInit
  /\ sessionPeers = [s \in SessionIds |-> None]
  /\ peers = [t \in Tokens |-> EmptyPair]
  /\ pc = [c \in Conns |-> "off"]
  /\ me = [c \in Conns |-> Nobody]
  /\ job = [c \in Conns |-> Idle]
  /\ asked = {}
  /\ open = {}
  /\ delivered = {}
  /\ owner = [t \in Tokens |-> None]
  /\ joins = [k \in ClientIds |-> None]
  /\ restarts = 0
  /\ collided = {}

-----------------------------------------------------------------------------
(* HandleWebSocket reads the next message only while the connection lives. *)
Reading(c) == pc[c] = "read" /\ c \in open

Goto(c, label) == pc' = [pc EXCEPT ![c] = label]

Return(c) == Goto(c, "read") /\ job' = [job EXCEPT ![c] = Idle]

(***************************************************************************)
(* sendMessage.  A write to a closed connection fails and is only logged.  *)
(* Nothing serialises the writers of a connection (its own handler, other  *)
(* handlers, pingLoop): gorilla/websocket calls that a data race, and the  *)
(* frame of the writer that loses it does not arrive.                      *)
(***************************************************************************)
Send(c, m) ==
  \/ /\ delivered' = IF m.to \in open THEN delivered \cup {m} ELSE delivered
     /\ UNCHANGED collided
  \/ /\ Cardinality(collided) < MaxRaces
     /\ collided' = collided \cup {c}
     /\ UNCHANGED delivered

-----------------------------------------------------------------------------
Connect(c) ==
  /\ pc[c] = "off"
  /\ Goto(c, "read")
  /\ open' = open \cup {c}
  /\ UNCHANGED <<store, room, me, job, asked, delivered, history, collided>>

(* The peer goes away, the network fails or no pong comes for pongWait. *)
Disconnect(c) ==
  /\ c \in open
  /\ open' = open \ {c}
  /\ UNCHANGED <<store, room, goroutine, delivered, history, collided>>

(***************************************************************************)
(* handleCreate: refused by the rate limit, the parser or the store, or    *)
(* CreateSession, then sessionPeers.Store, then the reply.                 *)
(***************************************************************************)
HandleCreate(c) ==
  /\ Reading(c)
  /\ c \notin asked
  /\ asked' = asked \cup {c}
  /\ UNCHANGED <<room, me, net, joins, restarts, collided>>
  /\ \/ UNCHANGED <<store, pc, job, owner>>
     \/ \E t \in FreshTokens, s \in NewSessionIds :
          /\ CreateSession(t, s)
          /\ owner' = [owner EXCEPT ![t] = c]
          /\ job' = [job EXCEPT ![c] = Locals(s, None, t, {})]
          /\ Goto(c, "register")

RegisterHost(c) ==
  /\ pc[c] = "register"
  /\ peers' = [peers EXCEPT ![job[c].pair] = PeerPair(c, NoClients, {})]
  /\ sessionPeers' = [sessionPeers EXCEPT ![job[c].sid] = job[c].pair]
  /\ Goto(c, "reply")
  /\ UNCHANGED <<store, me, job, asked, net, history, collided>>

ReplyCreated(c) ==
  /\ pc[c] = "reply"
  /\ Send(c, Msg("session-created", c, c, None, None))
  /\ me' = [me EXCEPT ![c] = [kind |-> "host", sid |-> job[c].sid, cid |-> None]]
  /\ Return(c)
  /\ UNCHANGED <<store, room, asked, open, history>>

(***************************************************************************)
(* handleJoin: look the token up, Load the peerPair, enter it under its    *)
(* lock (taking the slice of queued candidates), notify the host, answer   *)
(* the client, flush the candidates to it one by one.  The queue is kept   *)
(* and the token is not marked used.  Redis may fail to answer, which ends *)
(* the join without a reply.                                               *)
(***************************************************************************)
SharedTokens ==
  {t \in Tokens : owner[t] # None /\ Received("session-created", owner[t], None)}

HandleJoin(c) ==
  /\ Reading(c)
  /\ c \notin asked
  /\ asked' = asked \cup {c}
  /\ UNCHANGED <<store, room, me, net, owner, restarts, collided>>
  /\ \E t \in SharedTokens :
       \/ /\ ~Resolves(t) \/ Backend = "redis"
          /\ UNCHANGED <<pc, job, joins>>
       \/ /\ Resolves(t)
          /\ \E k \in {i \in ClientIds : joins[i] = None} :
               /\ joins' = [joins EXCEPT ![k] = [conn |-> c, tok |-> t]]
               /\ job' = [job EXCEPT ![c] =
                    Locals(tokenToSession[t], k, None, {})]
               /\ Goto(c, "load")

LoadPeers(c) ==
  /\ pc[c] = "load"
  /\ \/ /\ sessionPeers[job[c].sid] = None
        /\ Return(c)
     \/ /\ sessionPeers[job[c].sid] # None
        /\ job' = [job EXCEPT ![c] =
             Locals(job[c].sid, job[c].cid, sessionPeers[job[c].sid], {})]
        /\ Goto(c, "enter")
  /\ UNCHANGED <<store, room, me, asked, net, history, collided>>

EnterPeers(c) ==
  LET p == job[c].pair
  IN  /\ pc[c] = "enter"
      /\ peers' = [peers EXCEPT ![p] =
           PeerPair(@.host, [@.clients EXCEPT ![job[c].cid] = c], @.queued)]
      /\ job' = [job EXCEPT ![c] =
           Locals(job[c].sid, job[c].cid, p, peers[p].queued)]
      /\ Goto(c, "notify")
      /\ UNCHANGED <<store, sessionPeers, me, asked, net, history, collided>>

(* Fault: the join stops when the host cannot be written to. *)
NotifyHostOrReturn(c) ==
  /\ pc[c] = "notify"
  /\ Send(c, Msg("peer-joined", peers[job[c].pair].host, c, job[c].cid, None))
  /\ IF peers[job[c].pair].host \in open
     THEN Goto(c, "respond") /\ UNCHANGED job
     ELSE Return(c)
  /\ UNCHANGED <<store, room, me, asked, open, history>>

NotifyHost(c) ==
  /\ pc[c] = "notify"
  /\ Send(c, Msg("peer-joined", peers[job[c].pair].host, c, job[c].cid, None))
  /\ Goto(c, "respond")
  /\ UNCHANGED <<store, room, me, job, asked, open, history>>

Respond(c) ==
  /\ pc[c] = "respond"
  /\ Send(c, Msg("join-response", c, c, job[c].cid, None))
  /\ Goto(c, "flush")
  /\ UNCHANGED <<store, room, me, job, asked, open, history>>

(* The candidate keeps its content; its ClientID is set to the newcomer's. *)
FlushCandidate(c) ==
  /\ pc[c] = "flush"
  /\ \E k \in job[c].queue :
       /\ Send(c, Msg("ice", c, peers[job[c].pair].host, job[c].cid, k))
       /\ job' = [job EXCEPT ![c] =
            Locals(job[c].sid, job[c].cid, job[c].pair, job[c].queue \ {k})]
  /\ UNCHANGED <<store, room, pc, me, asked, open, history>>

JoinReturns(c) ==
  /\ pc[c] = "flush"
  /\ job[c].queue = {}
  /\ me' = [me EXCEPT ![c] =
       [kind |-> "client", sid |-> job[c].sid, cid |-> job[c].cid]]
  /\ Return(c)
  /\ UNCHANGED <<store, room, asked, net, history, collided>>

-----------------------------------------------------------------------------
(***************************************************************************)
(* handleRelay and handleICECandidate: Load the peerPair of the message's  *)
(* session, pick the target and write to it under the lock.  One action:   *)
(* while a host's own goroutine is here nobody closes or unpublishes its   *)
(* pair, and a client's target is peers.host, which never changes; so what *)
(* happens between the Load and the lock cannot be told from the same      *)
(* happening before the Load.                                              *)
(***************************************************************************)
Sendable(c) ==
  IF me[c].kind = "host"
  THEN {"offer", "ice"} \X {k \in ClientIds : Received("peer-joined", c, k)}
  ELSE {x \in {"answer", "ice"} \X {me[c].cid} :
          /\ me[c].kind = "client"
          /\ x[1] = "answer" => Received("offer", c, me[c].cid)
          /\ Received("join-response", c, me[c].cid)}

RelayTarget(c, p, k) ==
  IF me[c].kind = "host" THEN peers[p].clients[k] ELSE peers[p].host

(* An offer for a client that is not there is answered with an error; a    *)
(* host's candidate is queued for the next client.                         *)
HandleRelay(c) ==
  /\ Reading(c)
  /\ me[c].sid # None
  /\ sessionPeers[me[c].sid] # None
  /\ \E x \in Sendable(c) :
       LET p      == sessionPeers[me[c].sid]
           target == RelayTarget(c, p, x[2])
       IN  \/ /\ target # None
              /\ Send(c, Msg(x[1], target, c, x[2], x[2]))
              /\ UNCHANGED peers
           \/ /\ target = None
              /\ x[1] = "ice" /\ me[c].kind = "host"
              /\ peers' = [peers EXCEPT ![p] =
                   PeerPair(@.host, @.clients, @.queued \cup {x[2]})]
              /\ UNCHANGED <<delivered, collided>>
  /\ UNCHANGED <<store, sessionPeers, goroutine, open, history>>

(***************************************************************************)
(* The other outcome of a race between writers: gorilla panics in one      *)
(* writer.  net/http recovers it, the handler's locals are lost and the    *)
(* deferred cleanup closes the connection.                                 *)
(***************************************************************************)
WritePanics(c) ==
  /\ \/ pc[c] \in {"reply", "notify", "respond", "flush"}
     \/ Reading(c) /\ Sendable(c) # {}
  /\ Cardinality(collided) < MaxRaces
  /\ collided' = collided \cup {c}
  /\ open' = open \ {c}
  /\ Return(c)
  /\ UNCHANGED <<store, room, me, asked, delivered, history>>

-----------------------------------------------------------------------------
(***************************************************************************)
(* The deferred cleanup.  A host closes the clients of the peerPair found  *)
(* under its session id, unpublishes the id and deletes the session; a     *)
(* client leaves the peerPair found there.                                 *)
(***************************************************************************)
Leaving(c) == pc[c] = "read" /\ c \notin open

(* Fault: returning after the clients are closed. *)
CloseClientsOnly(c) ==
  /\ Leaving(c)
  /\ me[c].kind = "host"
  /\ open' = {d \in open : \A k \in ClientIds :
       sessionPeers[me[c].sid] # None => peers[sessionPeers[me[c].sid]].clients[k] # d}
  /\ Goto(c, "done")
  /\ UNCHANGED <<store, room, me, job, asked, delivered, history, collided>>

CloseClients(c) ==
  LET p == sessionPeers[me[c].sid]
  IN  /\ Leaving(c)
      /\ me[c].kind = "host"
      /\ \/ /\ p = None
            /\ UNCHANGED <<peers, open>>
         \/ /\ p # None
            /\ open' = {d \in open : \A k \in ClientIds : peers[p].clients[k] # d}
            /\ peers' = [peers EXCEPT ![p] =
                 PeerPair(@.host, NoClients, @.queued)]
      /\ Goto(c, "unpublish")
      /\ UNCHANGED <<store, sessionPeers, me, job, asked, delivered, history, collided>>

(* Fault: the peerPair stays in sessionPeers. *)
KeepPublished(c) ==
  /\ pc[c] = "unpublish"
  /\ Goto(c, "forget")
  /\ UNCHANGED <<store, room, me, job, asked, net, history, collided>>

Unpublish(c) ==
  /\ pc[c] = "unpublish"
  /\ sessionPeers' = [sessionPeers EXCEPT ![me[c].sid] = None]
  /\ Goto(c, "forget")
  /\ UNCHANGED <<store, peers, me, job, asked, net, history, collided>>

ForgetSession(c) ==
  /\ pc[c] = "forget"
  /\ DeleteSession(me[c].sid)
  /\ Goto(c, "done")
  /\ UNCHANGED <<room, me, job, asked, net, history, collided>>

(* Faults: a client that stays in its peerPair; one that takes the peerPair *)
(* away with it.                                                           *)
StayInSession(c) ==
  /\ Leaving(c)
  /\ me[c].kind = "client"
  /\ Goto(c, "done")
  /\ UNCHANGED <<store, room, me, job, asked, net, history, collided>>

LeaveAndUnpublish(c) ==
  /\ Leaving(c)
  /\ me[c].kind = "client"
  /\ sessionPeers' = [sessionPeers EXCEPT ![me[c].sid] = None]
  /\ Goto(c, "done")
  /\ UNCHANGED <<store, peers, me, job, asked, net, history, collided>>

LeaveSession(c) ==
  LET p == sessionPeers[me[c].sid]
  IN  /\ Leaving(c)
      /\ me[c].kind = "client"
      /\ peers' = IF p = None THEN peers
                  ELSE [peers EXCEPT ![p] =
                    PeerPair(@.host, [@.clients EXCEPT ![me[c].cid] = None], @.queued)]
      /\ Goto(c, "done")
      /\ UNCHANGED <<store, sessionPeers, me, job, asked, net, history, collided>>

LeaveUnnamed(c) ==
  /\ Leaving(c)
  /\ me[c].kind = "none"
  /\ Goto(c, "done")
  /\ UNCHANGED <<store, room, me, job, asked, net, history, collided>>

(* The process is killed (or pingLoop, which nobody recovers, panics) and  *)
(* started again: every connection and peerPair is gone.                   *)
Restart ==
  /\ restarts < MaxRestarts
  /\ \E c \in Conns : pc[c] \notin {"off", "done"}
  /\ restarts' = restarts + 1
  /\ StoreRestart
  /\ sessionPeers' = [s \in SessionIds |-> None]
  /\ peers' = [t \in Tokens |-> EmptyPair]
  /\ pc' = [c \in Conns |-> IF pc[c] = "off" THEN "off" ELSE "done"]
  /\ me' = [c \in Conns |-> Nobody]
  /\ job' = [c \in Conns |-> Idle]
  /\ open' = {}
  /\ UNCHANGED <<asked, delivered, owner, joins, collided>>

Expiry == TimePasses /\ UNCHANGED <<room, goroutine, net, history, collided>>

-----------------------------------------------------------------------------
(* The steps a goroutine takes by itself once it is scheduled. *)
Handler(c) ==
  \/ RegisterHost(c) \/ ReplyCreated(c)
  \/ LoadPeers(c) \/ EnterPeers(c) \/ NotifyHost(c) \/ Respond(c)
  \/ FlushCandidate(c) \/ JoinReturns(c)
  \/ CloseClients(c) \/ Unpublish(c) \/ ForgetSession(c)
  \/ LeaveSession(c) \/ LeaveUnnamed(c)

Request(c) == HandleCreate(c) \/ HandleJoin(c) \/ HandleRelay(c)

Next ==
  \/ \E c \in Conns : Connect(c) \/ Disconnect(c) \/ Request(c)
                      \/ Handler(c) \/ WritePanics(c)
  \/ Expiry
  \/ Restart

Spec == Init /\ [][Next]_vars

FairSpec == Spec /\ \A c \in Conns : WF_vars(Handler(c))

-----------------------------------------------------------------------------
(***************************************************************************)
(* Safety.                                                                 *)
(***************************************************************************)

(* A client sits in the peerPair of the token it presented, and in no      *)
(* other: its join looks up an id, then loads whatever is stored under it. *)
JoinsItsTokensHost ==
  \A p \in Tokens, k \in ClientIds :
     peers[p].clients[k] # None =>
        joins[k] = [conn |-> peers[p].clients[k], tok |-> p]

(* Notices, offers, answers and candidates travel only between the host    *)
(* that created a token and a client that presented that same token.       *)
RelayStaysInSession ==
  \A m \in delivered : m.cid # None =>
     /\ joins[m.cid] # None
     /\ {m.to, m.from} \subseteq {joins[m.cid].conn, owner[joins[m.cid].tok]}

(* While a host is served and its token has not expired, the token leads   *)
(* a joining client to that host: no other connection's create, join,      *)
(* cleanup or expiry takes the session away from under it.                 *)
LiveHostIsReachable ==
  \A t \in Tokens :
     (owner[t] # None /\ t \notin expired) =>
        LET h == owner[t] IN
        (me[h].kind = "host" /\ Reading(h)) =>
           Resolves(t) /\ sessionPeers[tokenToSession[t]] = t

(* A token that still leads a client to a peerPair leads it to one whose   *)
(* host's goroutine is still there to answer or to clean up.  (A create    *)
(* handler that panics on its reply never becomes a host: its connection   *)
(* leaves the session behind until it expires.)                            *)
Joinable(t) == Resolves(t) /\ sessionPeers[tokenToSession[t]] # None

JoinableHasHost ==
  \A t \in Tokens :
     Joinable(t) => LET h == peers[sessionPeers[tokenToSession[t]]].host
                    IN  pc[h] # "done" \/ h \in collided

(* A published peerPair holds no client whose goroutine has ended: the     *)
(* host would be told PEER_NOT_CONNECTED for nobody and messages would be  *)
(* written to dead connections.  (Except a join that panicked: it does not *)
(* know its client id any more.)                                           *)
NoGhostClient ==
  \A s \in SessionIds, k \in ClientIds :
     sessionPeers[s] # None =>
        LET c == peers[sessionPeers[s]].clients[k]
        IN  c # None => pc[c] # "done" \/ c \in collided

(***************************************************************************)
(* Action properties and liveness.                                         *)
(***************************************************************************)

(* A client that entered a session is answered, unless its connection is   *)
(* lost meanwhile.                                                         *)
JoinIsAnswered ==
  \A c \in Conns :
     (pc[c] = "notify") ~> (\/ \E k \in ClientIds : Received("join-response", c, k)
                            \/ c \notin open \/ c \in collided)

(* Once a host's connection is gone, its peerPair is taken away for good:  *)
(* whatever other hosts publish, and under whatever id, no later join is   *)
(* led to a host that is not there.                                        *)
HostGonePairGone ==
  \A t \in Tokens :
     (owner[t] # None /\ me[owner[t]].kind = "host" /\ owner[t] \notin open)
        ~> [](\A s \in SessionIds : sessionPeers[s] # t)

(***************************************************************************)
(* What the documents and comments say and the code does not ensure (see   *)
(* the README).                                                            *)
(***************************************************************************)

(* What websocket.go's cleanup says of a host that leaves ("Close all      *)
(* clients"): when it is done, no client of its session is left connected. *)
HostLeavesNoClient ==
  \A t \in Tokens, c \in open :
     (owner[t] # None /\ pc[owner[t]] = "done") =>
        ~(me[c].kind = "client" /\ \E k \in ClientIds :
             me[c].cid = k /\ joins[k].tok = t)

(* What signaling/client.go says of a host's candidate: it is sent "to a   *)
(* specific client", the one the host named.                               *)
CandidateReachesItsClient ==
  \A m \in delivered : (m.type = "ice" /\ m.meant # None) => m.cid = m.meant
=============================================================================
