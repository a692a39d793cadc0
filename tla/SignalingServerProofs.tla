----------------------- MODULE SignalingServerProofs -----------------------
(***************************************************************************)
(* What holds of the signaling server for any number of connections,       *)
(* tokens, sessions and clients, and any number of restarts and races.     *)
(***************************************************************************)
EXTENDS SignalingServer, TLAPS

-----------------------------------------------------------------------------
(* A session id the store hands out is one of SessionIds. *)
LEMMA NewSessionIdsType == NewSessionIds \subseteq SessionIds
  BY SessionIdsAssumption DEF NewSessionIds

(* The constructors build well-typed values. *)
LEMMA MsgType ==
  ASSUME NEW type \in {"session-created", "join-response", "peer-joined"} \cup RelayTypes,
         NEW to \in Conns, NEW from \in Conns \cup {None},
         NEW cid \in ClientIds \cup {None}, NEW meant \in ClientIds \cup {None}
  PROVE  Msg(type, to, from, cid, meant) \in Message
  BY DEF Msg, Message

LEMMA LocalsType ==
  ASSUME NEW sid \in SessionIds \cup {None}, NEW cid \in ClientIds \cup {None},
         NEW pair \in Tokens \cup {None}, NEW queue \in SUBSET ClientIds
  PROVE  Locals(sid, cid, pair, queue) \in Job
  BY DEF Locals, Job

LEMMA IdleType == Idle \in Job
  BY LocalsType DEF Idle

LEMMA PeerPairType ==
  ASSUME NEW host \in Conns \cup {None},
         NEW clients \in [ClientIds -> Conns \cup {None}],
         NEW queued \in SUBSET ClientIds
  PROVE  PeerPair(host, clients, queued) \in Peers
  BY DEF PeerPair, Peers

LEMMA NoneIsNoJoin == None \notin Join
  BY ServerNoneAssumption DEF Join

LEMMA PairFields ==
  ASSUME NEW host, NEW clients, NEW queued
  PROVE  /\ PeerPair(host, clients, queued).host = host
         /\ PeerPair(host, clients, queued).clients = clients
         /\ PeerPair(host, clients, queued).queued = queued
  BY DEF PeerPair

LEMMA NoClientsType == NoClients \in [ClientIds -> Conns \cup {None}]
  BY DEF NoClients

(* A write adds at most the one message, to an open connection. *)
LEMMA SendAdds ==
  ASSUME NEW c, NEW m, Send(c, m)
  PROVE  \/ delivered' = delivered
         \/ m.to \in open /\ delivered' = delivered \cup {m}
  BY DEF Send

(* Whatever a write does, the set of delivered messages keeps its type. *)
LEMMA SendType ==
  ASSUME NEW c \in Conns, NEW m, TypeOK, Send(c, m),
         m.to \in Conns => m \in Message
  PROVE  delivered' \subseteq Message /\ collided' \subseteq Conns
  BY DEF Send, TypeOK

-----------------------------------------------------------------------------
(***************************************************************************)
(* TypeOK is not inductive: a handler uses locals that earlier steps set.  *)
(* LocalsSet says which of them are set at each step.                      *)
(***************************************************************************)
Creating(c) == pc[c] \in {"register", "reply"}
Joining(c)  == pc[c] \in {"load", "enter", "notify", "respond", "flush"}
Entering(c) == pc[c] \in {"enter", "notify", "respond", "flush"}
Closing(c)  == pc[c] \in {"unpublish", "forget"}

LocalsSetAt(c) ==
  /\ Creating(c) => job[c].sid \in SessionIds /\ job[c].pair \in Tokens
  /\ Joining(c)  => job[c].sid \in SessionIds /\ job[c].cid \in ClientIds
  /\ Entering(c) => job[c].pair \in Tokens
  /\ Closing(c)  => me[c].kind = "host"
  /\ me[c].kind # "none"  => me[c].sid \in SessionIds
  /\ me[c].kind = "client" => me[c].cid \in ClientIds

LocalsSet == \A c \in Conns : LocalsSetAt(c)

TypeInv == TypeOK /\ LocalsSet

(* A goroutine that is between two messages has no job to look after. *)
LEMMA LocalsAtRest ==
  ASSUME NEW c, TypeInv, c \in Conns,
         pc'[c] \in {"off", "read", "done"}, me'[c] = me[c]
  PROVE  LocalsSetAt(c)'
  BY DEF TypeInv, LocalsSet, LocalsSetAt, Creating, Joining, Entering, Closing

(* A step of one goroutine leaves the locals of the others alone. *)
LEMMA LocalsOfOthers ==
  ASSUME TypeInv, NEW c \in Conns, NEW d \in Conns,
         pc'[d] = pc[d], job'[d] = job[d], me'[d] = me[d]
  PROVE  LocalsSetAt(d)'
  BY DEF TypeInv, LocalsSet, LocalsSetAt, Creating, Joining, Entering, Closing

(* A step that touches no goroutine keeps everybody's locals. *)
LEMMA LocalsKept ==
  ASSUME TypeInv, UNCHANGED <<pc, job, me>>
  PROVE  LocalsSet'
  BY DEF TypeInv, LocalsSet, LocalsSetAt, Creating, Joining, Entering, Closing

-----------------------------------------------------------------------------
(* Each step of Next preserves TypeInv. *)

LEMMA TypeConnect ==
  ASSUME TypeInv, NEW c \in Conns, Connect(c) PROVE TypeInv'
<1>1. TypeOK'
  BY DEF TypeInv, TypeOK, Connect, Goto, PCs, store, room, history, StoreTypeOK
<1>2. LocalsSet'
  BY LocalsAtRest, LocalsOfOthers DEF TypeInv, TypeOK, LocalsSet, Connect, Goto
<1> QED
  BY <1>1, <1>2 DEF TypeInv

LEMMA TypeDisconnect ==
  ASSUME TypeInv, NEW c \in Conns, Disconnect(c) PROVE TypeInv'
<1>1. TypeOK'
  BY DEF TypeInv, TypeOK, Disconnect, goroutine, store, room, history, StoreTypeOK
<1>2. LocalsSet'
  BY LocalsKept DEF Disconnect, goroutine
<1> QED
  BY <1>1, <1>2 DEF TypeInv

LEMMA TypeHandleCreate ==
  ASSUME TypeInv, NEW c \in Conns, HandleCreate(c) PROVE TypeInv'
<1> USE DEF TypeInv, TypeOK
<1>1. CASE UNCHANGED <<store, pc, job, owner>>
  <2>1. TypeOK'
    BY <1>1 DEF HandleCreate, store, room, net, StoreTypeOK
  <2> QED
    BY <1>1, <2>1, LocalsKept DEF HandleCreate
<1>2. ASSUME NEW t \in FreshTokens, NEW s \in NewSessionIds,
             CreateSession(t, s),
             owner' = [owner EXCEPT ![t] = c],
             job' = [job EXCEPT ![c] = Locals(s, None, t, {})],
             Goto(c, "register")
      PROVE  TypeInv'
  <2>1. t \in Tokens /\ s \in SessionIds
    BY <1>2, NewSessionIdsType DEF FreshTokens
  <2>2. StoreTypeOK'
    BY <1>2, <2>1 DEF CreateSession, StoreTypeOK
  <2>3. Locals(s, None, t, {}) \in Job
    BY <2>1, LocalsType
  <2>4. TypeOK'
    BY <1>2, <2>1, <2>2, <2>3 DEF HandleCreate, Goto, PCs, room, net
  <2>5. LocalsSetAt(c)'
    BY <1>2, <2>1
    DEF HandleCreate, Goto, Locals, LocalsSet, LocalsSetAt, Creating, Joining,
        Entering, Closing
  <2>6. \A d \in Conns \ {c} : LocalsSetAt(d)'
    BY <1>2, LocalsOfOthers DEF HandleCreate, Goto
  <2> QED
    BY <2>4, <2>5, <2>6 DEF LocalsSet
<1> QED
  BY <1>1, <1>2 DEF HandleCreate

LEMMA TypeHandleJoin ==
  ASSUME TypeInv, NEW c \in Conns, HandleJoin(c) PROVE TypeInv'
<1> USE DEF TypeInv, TypeOK
<1>1. CASE UNCHANGED <<pc, job, joins>>
  <2>1. TypeOK'
    BY <1>1 DEF HandleJoin, store, room, net, StoreTypeOK
  <2> QED
    BY <1>1, <2>1, LocalsKept DEF HandleJoin
<1>2. ASSUME NEW t \in Tokens, NEW k \in ClientIds, Resolves(t),
             joins' = [joins EXCEPT ![k] = [conn |-> c, tok |-> t]],
             job' = [job EXCEPT ![c] = Locals(tokenToSession[t], k, None, {})],
             Goto(c, "load")
      PROVE  TypeInv'
  <2>1. Locals(tokenToSession[t], k, None, {}) \in Job
    BY LocalsType DEF StoreTypeOK
  <2>2. [conn |-> c, tok |-> t] \in Join
    BY DEF Join
  <2>3. TypeOK'
    BY <1>2, <2>1, <2>2 DEF HandleJoin, Goto, PCs, store, room, net, StoreTypeOK
  <2>4. LocalsSetAt(c)'
    BY <1>2
    DEF HandleJoin, Goto, Locals, LocalsSet, LocalsSetAt, Creating, Joining,
        Entering, Closing, Resolves, StoreTypeOK
  <2>5. \A d \in Conns \ {c} : LocalsSetAt(d)'
    BY <1>2, LocalsOfOthers DEF HandleJoin, Goto
  <2> QED
    BY <2>3, <2>4, <2>5 DEF LocalsSet
<1> QED
  BY <1>1, <1>2 DEF HandleJoin, SharedTokens

(* What a connection may relay: about clients, once it has a role. *)
LEMMA SendableType ==
  ASSUME TypeInv, NEW c \in Conns, NEW x \in Sendable(c)
  PROVE  /\ x[1] \in RelayTypes /\ x[2] \in ClientIds
         /\ me[c].kind # "host" => me[c].kind = "client" /\ x[2] = me[c].cid
<1>1. me[c] \in Identity /\ (me[c].kind = "client" => me[c].cid \in ClientIds)
  BY DEF TypeInv, TypeOK, LocalsSet, LocalsSetAt
<1>2. CASE me[c].kind = "host"
  BY <1>2 DEF Sendable, RelayTypes
<1>3. CASE me[c].kind # "host"
  BY <1>1, <1>3 DEF Sendable, RelayTypes, Identity
<1> QED
  BY <1>2, <1>3

LEMMA TypeHandleRelay ==
  ASSUME TypeInv, NEW c \in Conns, HandleRelay(c) PROVE TypeInv'
<1> DEFINE p == sessionPeers[me[c].sid]
<1>1. LocalsSet'
  BY LocalsKept DEF HandleRelay, goroutine
<1>2. ASSUME NEW x \in Sendable(c), NEW target, target # None,
             Send(c, Msg(x[1], target, c, x[2], x[2])), UNCHANGED peers
      PROVE  TypeOK'
  <2>1. target \in Conns => Msg(x[1], target, c, x[2], x[2]) \in Message
    BY SendableType, MsgType
  <2>2. Msg(x[1], target, c, x[2], x[2]).to = target
    BY DEF Msg
  <2>3. delivered' \subseteq Message /\ collided' \subseteq Conns
    BY <1>2, <2>1, <2>2, SendType DEF TypeInv
  <2> QED
    BY <1>2, <2>3
    DEF HandleRelay, goroutine, store, history, StoreTypeOK, TypeInv, TypeOK
<1>3. ASSUME NEW x \in Sendable(c), me[c].sid # None, p # None,
             peers' = [peers EXCEPT ![p] =
                         PeerPair(@.host, @.clients, @.queued \cup {x[2]})],
             UNCHANGED <<delivered, collided>>
      PROVE  TypeOK'
  <2>1. p \in Tokens
    BY <1>3 DEF Identity, TypeInv, TypeOK
  <2>2. peers[p] \in Peers /\ x[2] \in ClientIds
    BY <2>1, SendableType DEF TypeInv, TypeOK
  <2>3. /\ peers[p].host \in Conns \cup {None}
        /\ peers[p].clients \in [ClientIds -> Conns \cup {None}]
        /\ peers[p].queued \cup {x[2]} \in SUBSET ClientIds
    BY <2>2 DEF Peers
  <2>4. PeerPair(peers[p].host, peers[p].clients, peers[p].queued \cup {x[2]}) \in Peers
    BY <2>3, PeerPairType
  <2>5. peers' \in [Tokens -> Peers]
    BY <1>3, <2>1, <2>4 DEF TypeInv, TypeOK
  <2> QED
    BY <1>3, <2>5
    DEF HandleRelay, goroutine, store, history, StoreTypeOK, TypeInv, TypeOK
<1> QED
  BY <1>1, <1>2, <1>3 DEF HandleRelay, TypeInv

LEMMA TypeWritePanics ==
  ASSUME TypeInv, NEW c \in Conns, WritePanics(c) PROVE TypeInv'
<1>1. TypeOK'
  BY IdleType
  DEF WritePanics, Return, Goto, PCs, store, room, history, StoreTypeOK,
      TypeInv, TypeOK
<1>2. LocalsSet'
  BY LocalsAtRest, LocalsOfOthers
  DEF TypeInv, TypeOK, LocalsSet, WritePanics, Return, Goto
<1> QED
  BY <1>1, <1>2 DEF TypeInv

LEMMA TypeRegisterHost ==
  ASSUME TypeInv, NEW c \in Conns, RegisterHost(c) PROVE TypeInv'
<1> USE DEF TypeInv, TypeOK
<1>1. job[c].pair \in Tokens /\ job[c].sid \in SessionIds
  BY DEF RegisterHost, LocalsSet, LocalsSetAt, Creating
<1>2. PeerPair(c, NoClients, {}) \in Peers
  BY PeerPairType, NoClientsType
<1>3. TypeOK'
  BY <1>1, <1>2 DEF RegisterHost, Goto, PCs, store, net, history, StoreTypeOK
<1>4. LocalsSetAt(c)'
  BY <1>1 DEF RegisterHost, Goto, LocalsSet, LocalsSetAt, Creating, Joining,
             Entering, Closing
<1>5. \A d \in Conns \ {c} : LocalsSetAt(d)'
  BY LocalsOfOthers DEF RegisterHost, Goto
<1> QED
  BY <1>3, <1>4, <1>5 DEF LocalsSet

LEMMA TypeReplyCreated ==
  ASSUME TypeInv, NEW c \in Conns, ReplyCreated(c) PROVE TypeInv'
<1> USE DEF TypeInv, TypeOK
<1>1. Msg("session-created", c, c, None, None) \in Message
  BY MsgType
<1>2. delivered' \subseteq Message /\ collided' \subseteq Conns
  BY <1>1, SendType DEF ReplyCreated
<1>3. job[c].sid \in SessionIds
  BY DEF ReplyCreated, LocalsSet, LocalsSetAt, Creating
<1>4. [kind |-> "host", sid |-> job[c].sid, cid |-> None] \in Identity
  BY <1>3 DEF Identity
<1>5. TypeOK'
  BY <1>2, <1>4, IdleType
  DEF ReplyCreated, Return, Goto, PCs, store, room, history, StoreTypeOK
<1>6. LocalsSetAt(c)'
  BY <1>3 DEF ReplyCreated, Return, Goto, LocalsSet, LocalsSetAt, Creating,
             Joining, Entering, Closing
<1>7. \A d \in Conns \ {c} : LocalsSetAt(d)'
  BY LocalsOfOthers DEF ReplyCreated, Return, Goto
<1> QED
  BY <1>5, <1>6, <1>7 DEF LocalsSet

LEMMA TypeLoadPeers ==
  ASSUME TypeInv, NEW c \in Conns, LoadPeers(c) PROVE TypeInv'
<1> USE DEF TypeInv, TypeOK
<1> DEFINE p == sessionPeers[job[c].sid]
<1>1. job[c].sid \in SessionIds /\ job[c].cid \in ClientIds
  BY DEF LoadPeers, LocalsSet, LocalsSetAt, Joining
<1>2. p \in Tokens \cup {None} /\ Locals(job[c].sid, job[c].cid, p, {}) \in Job
  BY <1>1, LocalsType
<1>3. TypeOK'
  BY <1>2, IdleType
  DEF LoadPeers, Return, Goto, PCs, store, room, net, history, StoreTypeOK
<1>4. LocalsSetAt(c)'
  BY <1>1, <1>2
  DEF LoadPeers, Return, Goto, Locals, LocalsSet, LocalsSetAt, Creating,
      Joining, Entering, Closing
<1>5. \A d \in Conns \ {c} : LocalsSetAt(d)'
  BY LocalsOfOthers DEF LoadPeers, Return, Goto
<1> QED
  BY <1>3, <1>4, <1>5 DEF LocalsSet

LEMMA TypeEnterPeers ==
  ASSUME TypeInv, NEW c \in Conns, EnterPeers(c) PROVE TypeInv'
<1> USE DEF TypeInv, TypeOK
<1> DEFINE p == job[c].pair
           k == job[c].cid
           entered == [peers[p].clients EXCEPT ![k] = c]
<1>1. job[c].sid \in SessionIds /\ k \in ClientIds /\ p \in Tokens
  BY DEF EnterPeers, LocalsSet, LocalsSetAt, Joining, Entering
<1>2. peers[p] \in Peers
  BY <1>1
<1>3. PeerPair(peers[p].host, entered, peers[p].queued) \in Peers
  BY <1>1, <1>2, PeerPairType DEF Peers
<1>4. Locals(job[c].sid, k, p, peers[p].queued) \in Job
  BY <1>1, <1>2, LocalsType DEF Peers
<1>5. TypeOK'
  BY <1>1, <1>3, <1>4 DEF EnterPeers, Goto, PCs, store, net, history, StoreTypeOK
<1>6. LocalsSetAt(c)'
  BY <1>1
  DEF EnterPeers, Goto, Locals, LocalsSet, LocalsSetAt, Creating, Joining,
      Entering, Closing
<1>7. \A d \in Conns \ {c} : LocalsSetAt(d)'
  BY LocalsOfOthers DEF EnterPeers, Goto
<1> QED
  BY <1>5, <1>6, <1>7 DEF LocalsSet

LEMMA TypeNotifyHost ==
  ASSUME TypeInv, NEW c \in Conns, NotifyHost(c) PROVE TypeInv'
<1> USE DEF TypeInv, TypeOK
<1> DEFINE h == peers[job[c].pair].host
           m == Msg("peer-joined", h, c, job[c].cid, None)
<1>1. job[c].cid \in ClientIds
  BY DEF NotifyHost, LocalsSet, LocalsSetAt, Joining
<1>2. m.to = h /\ (h \in Conns => m \in Message)
  BY <1>1, MsgType DEF Msg
<1>3. delivered' \subseteq Message /\ collided' \subseteq Conns
  BY <1>2, SendType DEF NotifyHost
<1>4. TypeOK'
  BY <1>3 DEF NotifyHost, Goto, PCs, store, room, history, StoreTypeOK
<1>5. LocalsSetAt(c)'
  BY DEF NotifyHost, Goto, LocalsSet, LocalsSetAt, Creating, Joining, Entering,
         Closing
<1>6. \A d \in Conns \ {c} : LocalsSetAt(d)'
  BY LocalsOfOthers DEF NotifyHost, Goto
<1> QED
  BY <1>4, <1>5, <1>6 DEF LocalsSet

LEMMA TypeRespond ==
  ASSUME TypeInv, NEW c \in Conns, Respond(c) PROVE TypeInv'
<1> USE DEF TypeInv, TypeOK
<1>1. job[c].cid \in ClientIds
  BY DEF Respond, LocalsSet, LocalsSetAt, Joining
<1>2. Msg("join-response", c, c, job[c].cid, None) \in Message
  BY <1>1, MsgType
<1>3. delivered' \subseteq Message /\ collided' \subseteq Conns
  BY <1>2, SendType DEF Respond
<1>4. TypeOK'
  BY <1>3 DEF Respond, Goto, PCs, store, room, history, StoreTypeOK
<1>5. LocalsSetAt(c)'
  BY DEF Respond, Goto, LocalsSet, LocalsSetAt, Creating, Joining, Entering,
         Closing
<1>6. \A d \in Conns \ {c} : LocalsSetAt(d)'
  BY LocalsOfOthers DEF Respond, Goto
<1> QED
  BY <1>4, <1>5, <1>6 DEF LocalsSet

LEMMA TypeFlushCandidate ==
  ASSUME TypeInv, NEW c \in Conns, FlushCandidate(c) PROVE TypeInv'
<1> USE DEF TypeInv, TypeOK
<1>1. /\ job[c] \in Job /\ job[c].sid \in SessionIds
      /\ job[c].cid \in ClientIds /\ job[c].pair \in Tokens
  BY DEF FlushCandidate, LocalsSet, LocalsSetAt, Joining, Entering
<1>2. PICK k \in job[c].queue :
        /\ Send(c, Msg("ice", c, peers[job[c].pair].host, job[c].cid, k))
        /\ job' = [job EXCEPT ![c] =
             Locals(job[c].sid, job[c].cid, job[c].pair, job[c].queue \ {k})]
  BY DEF FlushCandidate
<1>3. k \in ClientIds /\ job[c].queue \ {k} \in SUBSET ClientIds
  BY <1>1, <1>2 DEF Job
<1>4. peers[job[c].pair].host \in Conns \cup {None}
  BY <1>1 DEF Peers
<1>5. Msg("ice", c, peers[job[c].pair].host, job[c].cid, k) \in Message
  BY <1>1, <1>3, <1>4, MsgType DEF RelayTypes
<1>6. delivered' \subseteq Message /\ collided' \subseteq Conns
  BY <1>2, <1>5, SendType
<1>7. Locals(job[c].sid, job[c].cid, job[c].pair, job[c].queue \ {k}) \in Job
  BY <1>1, <1>3, LocalsType
<1>8. TypeOK'
  BY <1>2, <1>6, <1>7 DEF FlushCandidate, store, room, history, StoreTypeOK
<1>9. LocalsSetAt(c)'
  BY <1>1, <1>2
  DEF FlushCandidate, Locals, LocalsSet, LocalsSetAt, Creating, Joining,
      Entering, Closing
<1>10. \A d \in Conns \ {c} : LocalsSetAt(d)'
  BY <1>2, LocalsOfOthers DEF FlushCandidate
<1> QED
  BY <1>8, <1>9, <1>10 DEF LocalsSet

LEMMA TypeJoinReturns ==
  ASSUME TypeInv, NEW c \in Conns, JoinReturns(c) PROVE TypeInv'
<1> USE DEF TypeInv, TypeOK
<1>1. job[c].sid \in SessionIds /\ job[c].cid \in ClientIds
  BY DEF JoinReturns, LocalsSet, LocalsSetAt, Joining
<1>2. [kind |-> "client", sid |-> job[c].sid, cid |-> job[c].cid] \in Identity
  BY <1>1 DEF Identity
<1>3. TypeOK'
  BY <1>2, IdleType
  DEF JoinReturns, Return, Goto, PCs, store, room, net, history, StoreTypeOK
<1>4. LocalsSetAt(c)'
  BY <1>1 DEF JoinReturns, Return, Goto, LocalsSet, LocalsSetAt, Creating,
             Joining, Entering, Closing
<1>5. \A d \in Conns \ {c} : LocalsSetAt(d)'
  BY LocalsOfOthers DEF JoinReturns, Return, Goto
<1> QED
  BY <1>3, <1>4, <1>5 DEF LocalsSet

LEMMA TypeCloseClients ==
  ASSUME TypeInv, NEW c \in Conns, CloseClients(c) PROVE TypeInv'
<1> USE DEF TypeInv, TypeOK
<1> DEFINE p == sessionPeers[me[c].sid]
<1>1. p \in Tokens \cup {None}
  BY DEF CloseClients, LocalsSet, LocalsSetAt
<1>2. p # None => /\ peers[p] \in Peers
                  /\ PeerPair(peers[p].host, NoClients, peers[p].queued) \in Peers
  BY <1>1, PeerPairType, NoClientsType DEF Peers
<1>3. open' \subseteq Conns /\ peers' \in [Tokens -> Peers]
  BY <1>1, <1>2 DEF CloseClients
<1>4. TypeOK'
  BY <1>3 DEF CloseClients, Goto, PCs, store, history, StoreTypeOK
<1>5. LocalsSetAt(c)'
  BY DEF CloseClients, Goto, LocalsSet, LocalsSetAt, Creating, Joining,
         Entering, Closing
<1>6. \A d \in Conns \ {c} : LocalsSetAt(d)'
  BY LocalsOfOthers DEF CloseClients, Goto
<1> QED
  BY <1>4, <1>5, <1>6 DEF LocalsSet

LEMMA TypeUnpublish ==
  ASSUME TypeInv, NEW c \in Conns, Unpublish(c) PROVE TypeInv'
<1> USE DEF TypeInv, TypeOK
<1>1. TypeOK'
  BY DEF Unpublish, Goto, PCs, store, net, history, StoreTypeOK
<1>2. LocalsSetAt(c)'
  BY DEF Unpublish, Goto, LocalsSet, LocalsSetAt, Creating, Joining, Entering,
         Closing
<1>3. \A d \in Conns \ {c} : LocalsSetAt(d)'
  BY LocalsOfOthers DEF Unpublish, Goto
<1> QED
  BY <1>1, <1>2, <1>3 DEF LocalsSet

LEMMA TypeForgetSession ==
  ASSUME TypeInv, NEW c \in Conns, ForgetSession(c) PROVE TypeInv'
<1> USE DEF TypeInv, TypeOK
<1>1. StoreTypeOK'
  BY DEF ForgetSession, DeleteSession, StoreTypeOK, store
<1>2. TypeOK'
  BY <1>1 DEF ForgetSession, Goto, PCs, room, net, history
<1>3. LocalsSet'
  BY LocalsAtRest, LocalsOfOthers DEF LocalsSet, ForgetSession, Goto
<1> QED
  BY <1>2, <1>3

LEMMA TypeLeaveSession ==
  ASSUME TypeInv, NEW c \in Conns, LeaveSession(c) PROVE TypeInv'
<1> USE DEF TypeInv, TypeOK
<1> DEFINE p == sessionPeers[me[c].sid]
           left == [peers[p].clients EXCEPT ![me[c].cid] = None]
<1>1. p \in Tokens \cup {None} /\ me[c].cid \in ClientIds
  BY DEF LeaveSession, LocalsSet, LocalsSetAt
<1>2. p # None => peers[p] \in Peers
  BY <1>1
<1>3. p # None => PeerPair(peers[p].host, left, peers[p].queued) \in Peers
  BY <1>1, <1>2, PeerPairType DEF Peers
<1>4. peers' \in [Tokens -> Peers]
  BY <1>1, <1>3 DEF LeaveSession
<1>5. TypeOK'
  BY <1>4 DEF LeaveSession, Goto, PCs, store, net, history, StoreTypeOK
<1>6. LocalsSet'
  BY LocalsAtRest, LocalsOfOthers DEF LocalsSet, LeaveSession, Goto
<1> QED
  BY <1>5, <1>6

LEMMA TypeLeaveUnnamed ==
  ASSUME TypeInv, NEW c \in Conns, LeaveUnnamed(c) PROVE TypeInv'
<1> USE DEF TypeInv, TypeOK
<1>1. TypeOK'
  BY DEF LeaveUnnamed, Goto, PCs, store, room, net, history, StoreTypeOK
<1>2. LocalsSet'
  BY LocalsAtRest, LocalsOfOthers DEF LocalsSet, LeaveUnnamed, Goto
<1> QED
  BY <1>1, <1>2

LEMMA TypeRestart ==
  ASSUME TypeInv, Restart PROVE TypeInv'
<1> USE DEF TypeInv, TypeOK
<1>1. StoreTypeOK'
  BY DEF Restart, StoreRestart, StoreTypeOK
<1>2. EmptyPair \in Peers
  BY PeerPairType, NoClientsType DEF EmptyPair
<1>3. restarts' \in 0..MaxRestarts
  BY BoundsAssumption DEF Restart
<1>4. pc' \in [Conns -> PCs] /\ \A c \in Conns : pc'[c] \in {"off", "done"}
  BY DEF Restart, PCs
<1>5. me' \in [Conns -> Identity] /\ \A c \in Conns : me'[c] = Nobody
  BY DEF Restart, Nobody, Identity
<1>6. TypeOK'
  BY <1>1, <1>2, <1>3, <1>4, <1>5, IdleType DEF Restart
<1>7. LocalsSet'
  BY <1>4, <1>5
  DEF Nobody, LocalsSet, LocalsSetAt, Creating, Joining, Entering, Closing
<1> QED
  BY <1>6, <1>7

LEMMA TypeExpiry ==
  ASSUME TypeInv, Expiry PROVE TypeInv'
<1> USE DEF TypeInv, TypeOK
<1>1. StoreTypeOK'
  <2>1. ASSUME NEW t \in Tokens, Expire(t) \/ EvictSessionKey(t) \/ EvictTokenKey(t)
        PROVE  StoreTypeOK'
    BY <2>1 DEF Expire, EvictSessionKey, EvictTokenKey, StoreTypeOK
  <2>2. CASE Cleanup
    BY <2>2 DEF Cleanup, StoreTypeOK
  <2> QED
    BY <2>1, <2>2 DEF Expiry, TimePasses
<1>2. TypeOK'
  BY <1>1 DEF Expiry, room, goroutine, net, history
<1>3. LocalsSet'
  BY LocalsKept DEF Expiry, goroutine
<1> QED
  BY <1>2, <1>3

(* TypeInv is inductive. *)
LEMMA TypeInvInit == Init => TypeInv
<1> SUFFICES ASSUME Init PROVE TypeInv
  OBVIOUS
<1>1. StoreTypeOK
  BY DEF Init, StoreInit, StoreTypeOK
<1>2. peers \in [Tokens -> Peers]
  BY PeerPairType, NoClientsType DEF Init, EmptyPair
<1>3. pc \in [Conns -> PCs] /\ restarts \in 0 .. MaxRestarts
  BY BoundsAssumption DEF Init, PCs
<1>4. me \in [Conns -> Identity]
  BY DEF Init, Nobody, Identity
<1>5. job \in [Conns -> Job]
  BY IdleType DEF Init
<1>6. /\ sessionPeers \in [SessionIds -> Tokens \cup {None}]
      /\ owner \in [Tokens -> Conns \cup {None}]
      /\ joins \in [ClientIds -> Join \cup {None}]
  BY DEF Init
<1>7. LocalsSet
  BY DEF Init, Nobody, LocalsSet, LocalsSetAt, Creating, Joining, Entering, Closing
<1> QED BY <1>1, <1>2, <1>3, <1>4, <1>5, <1>6, <1>7 DEF Init, TypeInv, TypeOK

LEMMA TypeInvStep == TypeInv /\ [Next]_vars => TypeInv'
<1> SUFFICES ASSUME TypeInv, [Next]_vars PROVE TypeInv'
  OBVIOUS
<1>1. CASE UNCHANGED vars
  <2>1. LocalsSet'
    BY <1>1, LocalsKept DEF vars, goroutine
  <2> QED
    BY <1>1, <2>1
    DEF TypeInv, TypeOK, StoreTypeOK, vars, store, room, goroutine, net, history
<1>2. ASSUME NEW c \in Conns, Handler(c) PROVE TypeInv'
  BY <1>2, TypeRegisterHost, TypeReplyCreated, TypeLoadPeers, TypeEnterPeers,
     TypeNotifyHost, TypeRespond, TypeFlushCandidate, TypeJoinReturns,
     TypeCloseClients, TypeUnpublish, TypeForgetSession, TypeLeaveSession,
     TypeLeaveUnnamed
  DEF Handler
<1>3. ASSUME NEW c \in Conns,
             Connect(c) \/ Disconnect(c) \/ Request(c) \/ WritePanics(c)
      PROVE  TypeInv'
  BY <1>3, TypeConnect, TypeDisconnect, TypeHandleCreate, TypeHandleJoin,
     TypeHandleRelay, TypeWritePanics
  DEF Request
<1> QED
  BY <1>1, <1>2, <1>3, TypeExpiry, TypeRestart DEF Next

LEMMA TypeInvariance == Spec => []TypeInv
  BY TypeInvInit, TypeInvStep, PTL DEF Spec

(* Type correctness: every reachable state of the server is well typed,    *)
(* with either store.                                                      *)
THEOREM TypeCorrect == Spec => []TypeOK
<1>1. TypeInv => TypeOK
  BY DEF TypeInv
<1> QED
  BY <1>1, TypeInvariance, PTL

-----------------------------------------------------------------------------
(***************************************************************************)
(* Session isolation, for the store that hands out random session ids.     *)
(* A join goes from a token to an id, from the id to a peerPair, and enters*)
(* that pair later.  It ends in its own host's pair because ids are never  *)
(* shared, every index points back to where it came from, and each handler *)
(* in the middle of its steps still holds matching locals.                 *)
(***************************************************************************)
IdsUnique == \A t, u \in Tokens : idOf[t] # None /\ idOf[t] = idOf[u] => t = u

TokensIndexed ==
  \A t \in Tokens : tokenToSession[t] # None => tokenToSession[t] = idOf[t]

RoomsIndexed ==
  \A s \in SessionIds :
     LET p == sessionPeers[s]
     IN  p # None => idOf[p] = s /\ peers[p].host = owner[p]

JoinsKnown == \A k \in ClientIds : joins[k] # None => idOf[joins[k].tok] # None

HandlersMatchAt(c) ==
  /\ Creating(c) => /\ idOf[job[c].pair] = job[c].sid
                    /\ owner[job[c].pair] = c
  /\ Joining(c)  => /\ joins[job[c].cid] # None
                    /\ joins[job[c].cid].conn = c
                    /\ idOf[joins[job[c].cid].tok] = job[c].sid
  /\ Entering(c) => /\ joins[job[c].cid].tok = job[c].pair
                    /\ peers[job[c].pair].host = owner[job[c].pair]
  /\ me[c].kind = "host" =>
        \E t \in Tokens : owner[t] = c /\ idOf[t] = me[c].sid
  /\ me[c].kind = "client" =>
        /\ joins[me[c].cid] # None
        /\ joins[me[c].cid].conn = c
        /\ idOf[joins[me[c].cid].tok] = me[c].sid

HandlersMatch == \A c \in Conns : HandlersMatchAt(c)

IsolationInv ==
  /\ TypeInv
  /\ IdsUnique
  /\ TokensIndexed
  /\ RoomsIndexed
  /\ JoinsKnown
  /\ HandlersMatch
  /\ JoinsItsTokensHost
  /\ RelayStaysInSession

(* What was recorded about a session or a join is never rewritten. *)
HistoryKept ==
  /\ \A t \in Tokens : idOf[t] # None => idOf'[t] = idOf[t] /\ owner'[t] = owner[t]
  /\ \A k \in ClientIds : joins[k] # None => joins'[k] = joins[k]

LEMMA StoreSteps ==
  ASSUME TypeInv, [Next]_vars
  PROVE  \/ UNCHANGED store
         \/ \E c \in Conns : HandleCreate(c) \/ ForgetSession(c)
         \/ Expiry
         \/ Restart
<1> SUFFICES ASSUME ~Expiry, ~Restart,
                    \A c \in Conns : ~HandleCreate(c) /\ ~ForgetSession(c)
             PROVE  UNCHANGED store
  OBVIOUS
<1>1. ASSUME NEW c \in Conns, Handler(c) PROVE UNCHANGED store
  BY <1>1
  DEF Handler, RegisterHost, ReplyCreated, LoadPeers, EnterPeers, NotifyHost,
      Respond, FlushCandidate, JoinReturns, CloseClients, Unpublish,
      LeaveSession, LeaveUnnamed
<1>2. ASSUME NEW c \in Conns,
             Connect(c) \/ Disconnect(c) \/ Request(c) \/ WritePanics(c)
      PROVE  UNCHANGED store
  BY <1>2
  DEF Request, Connect, Disconnect, HandleJoin, HandleRelay, WritePanics
<1> QED
  BY <1>1, <1>2 DEF Next, vars

LEMMA HistorySteps ==
  ASSUME TypeInv, [Next]_vars
  PROVE  \/ UNCHANGED <<idOf, owner, joins>>
         \/ \E c \in Conns : HandleCreate(c) \/ HandleJoin(c)
<1> SUFFICES ASSUME \A c \in Conns : ~HandleCreate(c) /\ ~HandleJoin(c)
             PROVE  UNCHANGED <<idOf, owner, joins>>
  OBVIOUS
<1>1. ASSUME NEW c \in Conns, Handler(c) PROVE UNCHANGED <<idOf, owner, joins>>
  BY <1>1
  DEF Handler, RegisterHost, ReplyCreated, LoadPeers, EnterPeers, NotifyHost,
      Respond, FlushCandidate, JoinReturns, CloseClients, Unpublish,
      LeaveSession, LeaveUnnamed, ForgetSession, DeleteSession, store, history
<1>2. ASSUME NEW c \in Conns,
             Connect(c) \/ Disconnect(c) \/ Request(c) \/ WritePanics(c)
      PROVE  UNCHANGED <<idOf, owner, joins>>
  BY <1>2
  DEF Request, Connect, Disconnect, HandleRelay, WritePanics, store, history
<1>3. CASE Expiry
  BY <1>3 DEF Expiry, TimePasses, Expire, Cleanup, EvictSessionKey,
              EvictTokenKey, history
<1>4. CASE Restart
  BY <1>4 DEF Restart, StoreRestart
<1> QED
  BY <1>1, <1>2, <1>3, <1>4 DEF Next, vars, store, history

(* A create writes the records of a token nobody used before. *)
LEMMA CreateRecords ==
  ASSUME TypeInv, NEW c \in Conns, HandleCreate(c)
  PROVE  /\ joins' = joins
         /\ \/ UNCHANGED <<store, pc, job, owner>>
            \/ \E t \in Tokens, s \in SessionIds :
                 /\ idOf[t] = None
                 /\ s \in NewSessionIds
                 /\ CreateSession(t, s)
                 /\ owner' = [owner EXCEPT ![t] = c]
                 /\ job' = [job EXCEPT ![c] = Locals(s, None, t, {})]
                 /\ Goto(c, "register")
  BY NewSessionIdsType DEF HandleCreate, FreshTokens

(* A join writes the record of a client id nobody had before. *)
LEMMA JoinRecords ==
  ASSUME TypeInv, NEW c \in Conns, HandleJoin(c)
  PROVE  /\ UNCHANGED <<store, owner>>
         /\ \/ UNCHANGED <<pc, job, joins>>
            \/ \E t \in Tokens, k \in ClientIds :
                 /\ Resolves(t)
                 /\ joins[k] = None
                 /\ joins' = [joins EXCEPT ![k] = [conn |-> c, tok |-> t]]
                 /\ job' = [job EXCEPT ![c] = Locals(tokenToSession[t], k, None, {})]
                 /\ Goto(c, "load")
  BY DEF HandleJoin, SharedTokens

LEMMA HistoryIsKept ==
  ASSUME TypeInv, [Next]_vars PROVE HistoryKept
<1>1. CASE UNCHANGED <<idOf, owner, joins>>
  BY <1>1 DEF HistoryKept
<1>2. ASSUME NEW c \in Conns, HandleCreate(c) PROVE HistoryKept
  BY <1>2, CreateRecords DEF HistoryKept, CreateSession, store, TypeInv, TypeOK,
     StoreTypeOK
<1>3. ASSUME NEW c \in Conns, HandleJoin(c) PROVE HistoryKept
  BY <1>3, JoinRecords DEF HistoryKept, store, TypeInv, TypeOK
<1> QED
  BY <1>1, <1>2, <1>3, HistorySteps

LEMMA IdsUniqueStep ==
  ASSUME Backend = "redis", IsolationInv, [Next]_vars PROVE IdsUnique'
<1> USE DEF IsolationInv
<1>1. CASE UNCHANGED <<idOf, owner, joins>>
  BY <1>1 DEF IdsUnique
<1>2. ASSUME NEW c \in Conns, HandleCreate(c) PROVE IdsUnique'
  BY <1>2, CreateRecords
  DEF IdsUnique, CreateSession, NewSessionIds, store, TypeInv, TypeOK, StoreTypeOK
<1>3. ASSUME NEW c \in Conns, HandleJoin(c) PROVE IdsUnique'
  BY <1>3, JoinRecords DEF IdsUnique, store
<1> QED
  BY <1>1, <1>2, <1>3, HistorySteps

LEMMA TokensIndexedStep ==
  ASSUME Backend = "redis", IsolationInv, [Next]_vars PROVE TokensIndexed'
<1> USE DEF IsolationInv
<1>1. CASE UNCHANGED store
  BY <1>1 DEF TokensIndexed, store
<1>2. ASSUME NEW c \in Conns, HandleCreate(c) PROVE TokensIndexed'
  BY <1>2, CreateRecords
  DEF TokensIndexed, CreateSession, store, TypeInv, TypeOK, StoreTypeOK
<1>3. ASSUME NEW c \in Conns, ForgetSession(c) PROVE TokensIndexed'
  BY <1>3
  DEF ForgetSession, DeleteSession, TokensIndexed, store, TypeInv, TypeOK, StoreTypeOK
<1>4. CASE Expiry
  BY <1>4
  DEF Expiry, TimePasses, Expire, Cleanup, EvictSessionKey, EvictTokenKey,
      TokensIndexed, TypeInv, TypeOK, StoreTypeOK
<1>5. CASE Restart
  BY <1>5 DEF Restart, StoreRestart, TokensIndexed
<1> QED
  BY <1>1, <1>2, <1>3, <1>4, <1>5, StoreSteps

-----------------------------------------------------------------------------
(* Only a registration and a restart change the host of a peerPair. *)
LEMMA HostSteps ==
  ASSUME IsolationInv, [Next]_vars
  PROVE  \/ \A p \in Tokens : peers'[p].host = peers[p].host
         \/ \E c \in Conns : RegisterHost(c)
         \/ Restart
<1> USE DEF IsolationInv, TypeInv, TypeOK
<1> SUFFICES ASSUME ~Restart, \A c \in Conns : ~RegisterHost(c), NEW p \in Tokens
             PROVE  peers'[p].host = peers[p].host
  OBVIOUS
<1>1. CASE UNCHANGED peers
  BY <1>1
<1>2. ASSUME NEW c \in Conns, EnterPeers(c) PROVE peers'[p].host = peers[p].host
  BY <1>2 DEF EnterPeers, PeerPair
<1>3. ASSUME NEW c \in Conns, CloseClients(c) PROVE peers'[p].host = peers[p].host
  BY <1>3 DEF CloseClients, PeerPair
<1>4. ASSUME NEW c \in Conns, LeaveSession(c) PROVE peers'[p].host = peers[p].host
  BY <1>4 DEF LeaveSession, PeerPair
<1>5. ASSUME NEW c \in Conns, HandleRelay(c) PROVE peers'[p].host = peers[p].host
  BY <1>5 DEF HandleRelay, PeerPair
<1>6. ASSUME NEW c \in Conns, Handler(c) PROVE peers'[p].host = peers[p].host
  BY <1>1, <1>2, <1>3, <1>4, <1>6
  DEF Handler, ReplyCreated, LoadPeers, NotifyHost, Respond, FlushCandidate,
      JoinReturns, Unpublish, ForgetSession, LeaveUnnamed, room
<1>7. ASSUME NEW c \in Conns,
             Connect(c) \/ Disconnect(c) \/ Request(c) \/ WritePanics(c)
      PROVE  peers'[p].host = peers[p].host
  BY <1>1, <1>5, <1>7
  DEF Request, Connect, Disconnect, HandleCreate, HandleJoin, WritePanics, room
<1> QED
  BY <1>1, <1>6, <1>7 DEF Next, Expiry, vars, room

(* Only a registration, an unpublishing and a restart change the rooms. *)
LEMMA RoomSteps ==
  ASSUME IsolationInv, [Next]_vars
  PROVE  \/ UNCHANGED sessionPeers
         \/ \E c \in Conns : RegisterHost(c) \/ Unpublish(c)
         \/ Restart
<1> SUFFICES ASSUME ~Restart, \A c \in Conns : ~RegisterHost(c) /\ ~Unpublish(c)
             PROVE  UNCHANGED sessionPeers
  OBVIOUS
<1>1. ASSUME NEW c \in Conns, Handler(c) PROVE UNCHANGED sessionPeers
  BY <1>1
  DEF Handler, ReplyCreated, LoadPeers, EnterPeers, NotifyHost, Respond,
      FlushCandidate, JoinReturns, CloseClients, LeaveSession, LeaveUnnamed,
      ForgetSession, room
<1>2. ASSUME NEW c \in Conns,
             Connect(c) \/ Disconnect(c) \/ Request(c) \/ WritePanics(c)
      PROVE  UNCHANGED sessionPeers
  BY <1>2
  DEF Request, Connect, Disconnect, HandleCreate, HandleJoin, HandleRelay,
      WritePanics, room
<1> QED
  BY <1>1, <1>2 DEF Next, Expiry, vars, room

(* A registration publishes the pair of the goroutine's own token. *)
LEMMA Registers ==
  ASSUME IsolationInv, NEW c \in Conns, RegisterHost(c)
  PROVE  /\ job[c].pair \in Tokens /\ job[c].sid \in SessionIds
         /\ idOf[job[c].pair] = job[c].sid
         /\ owner[job[c].pair] = c
         /\ UNCHANGED <<idOf, owner, joins, delivered>>
         /\ peers' = [peers EXCEPT ![job[c].pair] = PeerPair(c, NoClients, {})]
         /\ sessionPeers' = [sessionPeers EXCEPT ![job[c].sid] = job[c].pair]
  BY DEF IsolationInv, TypeInv, LocalsSet, LocalsSetAt, HandlersMatch,
         HandlersMatchAt, Creating, RegisterHost, store, history, net

LEMMA RoomsIndexedStep ==
  ASSUME IsolationInv, [Next]_vars PROVE RoomsIndexed'
<1> USE DEF IsolationInv, TypeInv, TypeOK
<1>1. HistoryKept
  BY HistoryIsKept
<1>2. ASSUME NEW c \in Conns, RegisterHost(c) PROVE RoomsIndexed'
  <2> DEFINE q == job[c].pair
  <2>1. /\ peers'[q].host = c
        /\ \A p \in Tokens \ {q} : peers'[p] = peers[p]
    BY <1>2, Registers, PairFields
  <2>2. /\ sessionPeers'[job[c].sid] = q
        /\ \A s \in SessionIds \ {job[c].sid} : sessionPeers'[s] = sessionPeers[s]
    BY <1>2, Registers
  <2>3. idOf[q] = job[c].sid /\ owner[q] = c /\ UNCHANGED <<idOf, owner>>
    BY <1>2, Registers
  <2>4. ASSUME NEW s \in SessionIds, sessionPeers'[s] # None
        PROVE  /\ idOf'[sessionPeers'[s]] = s
               /\ peers'[sessionPeers'[s]].host = owner'[sessionPeers'[s]]
    <3>1. CASE s = job[c].sid
      BY <2>1, <2>2, <2>3, <3>1
    <3>2. CASE s # job[c].sid
      BY <2>1, <2>2, <2>3, <2>4, <3>2 DEF RoomsIndexed
    <3> QED
      BY <3>1, <3>2
  <2> QED
    BY <2>4 DEF RoomsIndexed
<1>3. CASE Restart
  BY <1>3 DEF Restart, RoomsIndexed
<1>4. CASE /\ \A p \in Tokens : peers'[p].host = peers[p].host
           /\ \A s \in SessionIds : sessionPeers'[s] \in {sessionPeers[s], None}
  BY <1>1, <1>4, StoreNoneAssumption DEF RoomsIndexed, HistoryKept, StoreTypeOK
<1>5. ASSUME NEW c \in Conns, Unpublish(c)
      PROVE  \A s \in SessionIds : sessionPeers'[s] \in {sessionPeers[s], None}
  BY <1>5 DEF Unpublish
<1> QED
  BY <1>2, <1>3, <1>4, <1>5, HostSteps, RoomSteps

LEMMA JoinsKnownStep ==
  ASSUME IsolationInv, [Next]_vars PROVE JoinsKnown'
<1> USE DEF IsolationInv, TypeInv, TypeOK
<1>1. HistoryKept
  BY HistoryIsKept
<1>2. \A k \in ClientIds : joins[k] # None => joins[k].tok \in Tokens
  BY DEF Join
<1>3. CASE UNCHANGED joins
  BY <1>1, <1>2, <1>3 DEF JoinsKnown, HistoryKept, StoreTypeOK
<1>4. ASSUME NEW c \in Conns, HandleJoin(c), ~UNCHANGED joins PROVE JoinsKnown'
  <2>1. PICK t \in Tokens, k \in ClientIds :
          Resolves(t) /\ joins' = [joins EXCEPT ![k] = [conn |-> c, tok |-> t]]
    BY <1>4, JoinRecords
  <2>2. idOf[t] # None
    BY <2>1, StoreNoneAssumption DEF Resolves, TokensIndexed, StoreTypeOK
  <2>3. idOf' = idOf
    BY <1>4, JoinRecords DEF store
  <2> QED
    BY <1>2, <2>1, <2>2, <2>3 DEF JoinsKnown
<1> QED
  BY <1>3, <1>4, HistorySteps, CreateRecords

(* Matching locals stay matching when the goroutine does not move and the  *)
(* host of the pair it is entering stays.                                  *)
LEMMA HandlersKept ==
  ASSUME IsolationInv, [Next]_vars, NEW c \in Conns,
         pc'[c] = pc[c], job'[c] = job[c], me'[c] = me[c],
         Entering(c) => peers'[job[c].pair].host = peers[job[c].pair].host
  PROVE  HandlersMatchAt(c)'
<1> USE DEF IsolationInv, TypeInv, TypeOK
<1>1. HistoryKept
  BY HistoryIsKept
<1>2. HandlersMatchAt(c) /\ LocalsSetAt(c)
  BY DEF HandlersMatch, LocalsSet
<1>3. \A k \in ClientIds : joins[k] # None =>
        joins'[k] = joins[k] /\ idOf'[joins[k].tok] = idOf[joins[k].tok]
  BY <1>1 DEF HistoryKept, JoinsKnown, Join
<1>4. Creating(c)' => /\ idOf'[job'[c].pair] = job'[c].sid
                      /\ owner'[job'[c].pair] = c
  BY <1>1, <1>2, StoreNoneAssumption
  DEF HistoryKept, HandlersMatchAt, LocalsSetAt, Creating
<1>5. Joining(c)' => /\ joins'[job'[c].cid] # None
                     /\ joins'[job'[c].cid].conn = c
                     /\ idOf'[joins'[job'[c].cid].tok] = job'[c].sid
  BY <1>2, <1>3 DEF HandlersMatchAt, LocalsSetAt, Joining
<1>6. Entering(c)' => /\ joins'[job'[c].cid].tok = job'[c].pair
                      /\ peers'[job'[c].pair].host = owner'[job'[c].pair]
  <2>1. Entering(c) => Joining(c)
    BY DEF Entering, Joining
  <2>2. Entering(c) => idOf[job[c].pair] # None
    BY <1>2, <2>1, StoreNoneAssumption DEF HandlersMatchAt, LocalsSetAt
  <2> QED
    BY <1>1, <1>2, <1>3, <2>1, <2>2
    DEF HistoryKept, HandlersMatchAt, LocalsSetAt, Entering
<1>7. me'[c].kind = "host" =>
        \E t \in Tokens : owner'[t] = c /\ idOf'[t] = me'[c].sid
  BY <1>1, <1>2, StoreNoneAssumption DEF HistoryKept, HandlersMatchAt, LocalsSetAt
<1>8. me'[c].kind = "client" => /\ joins'[me'[c].cid] # None
                                /\ joins'[me'[c].cid].conn = c
                                /\ idOf'[joins'[me'[c].cid].tok] = me'[c].sid
  BY <1>2, <1>3 DEF HandlersMatchAt, LocalsSetAt
<1> QED
  BY <1>4, <1>5, <1>6, <1>7, <1>8 DEF HandlersMatchAt

(* Every step leaves each goroutine's locals matching. *)
LEMMA HandlersMatchStep ==
  ASSUME Backend = "redis", IsolationInv, [Next]_vars PROVE HandlersMatch'
<1> USE DEF IsolationInv, TypeInv, TypeOK
<1>0. HistoryKept /\ TypeInv'
  BY HistoryIsKept, TypeInvStep
<1>1. SUFFICES ASSUME NEW c \in Conns PROVE HandlersMatchAt(c)'
  BY DEF HandlersMatch
<1>2. HandlersMatchAt(c) /\ LocalsSetAt(c) /\ LocalsSetAt(c)'
  BY <1>0 DEF HandlersMatch, LocalsSet
<1>3. CASE Restart
  BY <1>3
  DEF Restart, Nobody, HandlersMatchAt, Creating, Joining, Entering
<1>4. ASSUME ~Restart, Entering(c)
      PROVE  peers'[job[c].pair].host = peers[job[c].pair].host
  <2>1. job[c].pair \in Tokens /\ peers[job[c].pair].host = owner[job[c].pair]
    BY <1>2, <1>4 DEF HandlersMatchAt, LocalsSetAt
  <2>2. ASSUME NEW d \in Conns, RegisterHost(d)
        PROVE  peers'[job[c].pair].host = peers[job[c].pair].host
    <3>1. CASE job[c].pair = job[d].pair
      BY <2>1, <2>2, <3>1, Registers, PairFields
    <3>2. CASE job[c].pair # job[d].pair
      BY <2>1, <2>2, <3>2, Registers
    <3> QED
      BY <3>1, <3>2
  <2> QED
    BY <1>4, <2>1, <2>2, HostSteps
<1>5. CASE ~Restart /\ pc'[c] = pc[c] /\ job'[c] = job[c] /\ me'[c] = me[c]
  BY <1>4, <1>5, HandlersKept
<1>6. ASSUME NEW d \in Conns, d # c, Handler(d)
      PROVE  pc'[c] = pc[c] /\ job'[c] = job[c] /\ me'[c] = me[c]
  BY <1>6
  DEF Handler, RegisterHost, ReplyCreated, LoadPeers, EnterPeers, NotifyHost,
      Respond, FlushCandidate, JoinReturns, CloseClients, Unpublish,
      LeaveSession, LeaveUnnamed, ForgetSession, Return, Goto
<1>7. ASSUME NEW d \in Conns, d # c,
             Connect(d) \/ Disconnect(d) \/ Request(d) \/ WritePanics(d)
      PROVE  pc'[c] = pc[c] /\ job'[c] = job[c] /\ me'[c] = me[c]
  BY <1>7, CreateRecords, JoinRecords
  DEF Request, Connect, Disconnect, HandleCreate, HandleJoin, HandleRelay,
      WritePanics, Return, Goto, goroutine
<1>8. CASE UNCHANGED vars \/ Expiry
  BY <1>3, <1>5, <1>8 DEF vars, Expiry, goroutine
<1>9. ASSUME ~Restart, pc'[c] \in {"off", "read", "unpublish", "forget", "done"},
             me'[c] = me[c]
      PROVE  HandlersMatchAt(c)'
  <2>1. ~Creating(c)' /\ ~Joining(c)' /\ ~Entering(c)'
    BY <1>9 DEF Creating, Joining, Entering
  <2>2. me[c].kind = "host" =>
          \E t \in Tokens : owner'[t] = c /\ idOf'[t] = me[c].sid
    BY <1>0, <1>2, StoreNoneAssumption DEF HistoryKept, HandlersMatchAt, LocalsSetAt
  <2>3. me[c].kind = "client" => /\ joins'[me[c].cid] # None
                                 /\ joins'[me[c].cid].conn = c
                                 /\ idOf'[joins'[me[c].cid].tok] = me[c].sid
    BY <1>0, <1>2 DEF HistoryKept, HandlersMatchAt, LocalsSetAt, JoinsKnown, Join
  <2> QED
    BY <1>9, <2>1, <2>2, <2>3 DEF HandlersMatchAt
(* The goroutine's own steps: c creates, ... *)
<1>10. ASSUME HandleCreate(c) PROVE HandlersMatchAt(c)'
  <2>1. CASE UNCHANGED <<store, pc, job, owner>>
    BY <1>3, <1>5, <1>10, <2>1 DEF HandleCreate, Restart
  <2>2. ASSUME NEW t \in Tokens, NEW s \in SessionIds, idOf[t] = None,
               CreateSession(t, s),
               owner' = [owner EXCEPT ![t] = c],
               job' = [job EXCEPT ![c] = Locals(s, None, t, {})],
               Goto(c, "register")
        PROVE  HandlersMatchAt(c)'
    <3>1. idOf'[t] = s /\ owner'[t] = c /\ job'[c].sid = s /\ job'[c].pair = t
      BY <2>2 DEF CreateSession, StoreTypeOK, Locals
    <3>2. pc'[c] = "register" /\ me'[c] = me[c] /\ joins' = joins
      BY <1>10, <2>2 DEF HandleCreate, Goto
    <3>3. me[c].kind = "host" =>
            \E u \in Tokens : owner'[u] = c /\ idOf'[u] = me[c].sid
      BY <1>0, <1>2, StoreNoneAssumption DEF HistoryKept, HandlersMatchAt, LocalsSetAt
    <3>4. me[c].kind = "client" => /\ joins'[me[c].cid] # None
                                   /\ joins'[me[c].cid].conn = c
                                   /\ idOf'[joins'[me[c].cid].tok] = me[c].sid
      BY <1>0, <1>2 DEF HistoryKept, HandlersMatchAt, LocalsSetAt, JoinsKnown, Join
    <3> QED
      BY <3>1, <3>2, <3>3, <3>4 DEF HandlersMatchAt, Creating, Joining, Entering
  <2> QED
    BY <1>10, <2>1, <2>2, CreateRecords
(* ... publishes its pair and becomes a host, ... *)
<1>11. ASSUME RegisterHost(c) PROVE HandlersMatchAt(c)'
  <2>1. pc'[c] = "reply" /\ pc[c] = "register" /\ job'[c] = job[c] /\ me'[c] = me[c]
    BY <1>11 DEF RegisterHost, Goto
  <2>2. UNCHANGED <<idOf, owner, joins>>
    BY <1>11, Registers
  <2> QED
    BY <1>2, <2>1, <2>2 DEF HandlersMatchAt, Creating, Joining, Entering
<1>12. ASSUME ReplyCreated(c) PROVE HandlersMatchAt(c)'
  <2>1. /\ idOf[job[c].pair] = job[c].sid /\ owner[job[c].pair] = c
        /\ job[c].pair \in Tokens
    BY <1>2, <1>12 DEF ReplyCreated, HandlersMatchAt, LocalsSetAt, Creating
  <2>2. pc'[c] = "read" /\ me'[c].kind = "host" /\ me'[c].sid = job[c].sid
    BY <1>12 DEF ReplyCreated, Return, Goto
  <2>3. UNCHANGED <<idOf, owner>>
    BY <1>12 DEF ReplyCreated, store, history
  <2> QED
    BY <2>1, <2>2, <2>3 DEF HandlersMatchAt, Creating, Joining, Entering
(* ... joins, ... *)
<1>13. ASSUME HandleJoin(c) PROVE HandlersMatchAt(c)'
  <2>1. CASE UNCHANGED <<pc, job, joins>>
    BY <1>3, <1>5, <1>13, <2>1 DEF HandleJoin
  <2>2. ASSUME NEW t \in Tokens, NEW k \in ClientIds, Resolves(t), joins[k] = None,
               joins' = [joins EXCEPT ![k] = [conn |-> c, tok |-> t]],
               job' = [job EXCEPT ![c] = Locals(tokenToSession[t], k, None, {})],
               Goto(c, "load")
        PROVE  HandlersMatchAt(c)'
    <3>1. /\ joins'[k] = [conn |-> c, tok |-> t]
          /\ job'[c].cid = k /\ job'[c].sid = tokenToSession[t]
      BY <2>2 DEF Locals
    <3>2. [conn |-> c, tok |-> t] \in Join
      BY DEF Join
    <3>3. idOf' = idOf /\ owner' = owner /\ idOf[t] = tokenToSession[t]
      BY <1>13, <2>2, JoinRecords DEF store, Resolves, TokensIndexed
    <3>4. pc'[c] = "load" /\ me'[c] = me[c]
      BY <1>13, <2>2 DEF HandleJoin, Goto
    <3>5. me[c].kind = "client" => /\ joins'[me[c].cid] # None
                                   /\ joins'[me[c].cid].conn = c
                                   /\ idOf'[joins'[me[c].cid].tok] = me[c].sid
      BY <1>0, <1>2 DEF HistoryKept, HandlersMatchAt, LocalsSetAt, JoinsKnown, Join
    <3>6. joins'[k] # None
      BY <3>1, <3>2, NoneIsNoJoin
    <3> QED
      BY <1>2, <3>1, <3>3, <3>4, <3>5, <3>6
      DEF HandlersMatchAt, Creating, Joining, Entering
  <2> QED
    BY <1>13, <2>1, <2>2, JoinRecords
(* ... loads the pair, enters it and goes on to its reply, ... *)
<1>14. ASSUME LoadPeers(c) PROVE HandlersMatchAt(c)'
  <2> DEFINE p == sessionPeers[job[c].sid]
  <2>1. /\ UNCHANGED <<idOf, owner, joins, peers>>
        /\ me'[c] = me[c]
    BY <1>14 DEF LoadPeers, store, room, history
  <2>2. CASE p = None
    BY <1>9, <1>14, <2>1, <2>2 DEF LoadPeers, Return, Goto, Restart
  <2>3. CASE p # None
    <3>1. job'[c] = Locals(job[c].sid, job[c].cid, p, {}) /\ pc'[c] = "enter"
      BY <1>14, <2>3 DEF LoadPeers, Goto
    <3>2. /\ job'[c].sid = job[c].sid /\ job'[c].cid = job[c].cid
          /\ job'[c].pair = p
      BY <3>1 DEF Locals
    <3>3. /\ job[c].sid \in SessionIds /\ job[c].cid \in ClientIds
          /\ joins[job[c].cid] # None /\ joins[job[c].cid].conn = c
          /\ idOf[joins[job[c].cid].tok] = job[c].sid
      BY <1>2, <1>14 DEF LoadPeers, HandlersMatchAt, LocalsSetAt, Joining
    <3>4. p \in Tokens /\ idOf[p] = job[c].sid /\ peers[p].host = owner[p]
      BY <2>3, <3>3 DEF RoomsIndexed
    <3>5. joins[job[c].cid].tok = p
      BY <3>3, <3>4, StoreNoneAssumption DEF IdsUnique, Join
    <3> QED
      BY <1>2, <2>1, <3>1, <3>2, <3>3, <3>4, <3>5
      DEF HandlersMatchAt, Creating, Joining, Entering
  <2> QED
    BY <2>2, <2>3
<1>15. ASSUME EnterPeers(c) PROVE HandlersMatchAt(c)'
  <2>1. /\ UNCHANGED <<idOf, owner, joins>>
        /\ me'[c] = me[c]
        /\ pc[c] = "enter" /\ pc'[c] = "notify"
    BY <1>15 DEF EnterPeers, Goto, store, history
  <2>2. /\ job'[c].sid = job[c].sid /\ job'[c].cid = job[c].cid
        /\ job'[c].pair = job[c].pair
    BY <1>15 DEF EnterPeers, Locals
  <2>3. peers'[job[c].pair].host = peers[job[c].pair].host
    BY <1>4, <1>15, <2>1 DEF Entering, EnterPeers, Restart
  <2> QED
    BY <1>2, <2>1, <2>2, <2>3 DEF HandlersMatchAt, Creating, Joining, Entering
<1>16. ASSUME NotifyHost(c) \/ Respond(c) \/ FlushCandidate(c)
       PROVE  HandlersMatchAt(c)'
  <2>1. /\ UNCHANGED <<idOf, owner, joins, peers>>
        /\ me'[c] = me[c]
        /\ pc[c] \in {"notify", "respond", "flush"}
        /\ pc'[c] \in {"respond", "flush"}
    BY <1>16 DEF NotifyHost, Respond, FlushCandidate, Goto, store, room, history
  <2>2. /\ job'[c].sid = job[c].sid /\ job'[c].cid = job[c].cid
        /\ job'[c].pair = job[c].pair
    BY <1>16 DEF NotifyHost, Respond, FlushCandidate, Locals
  <2> QED
    BY <1>2, <2>1, <2>2 DEF HandlersMatchAt, Creating, Joining, Entering
<1>17. ASSUME JoinReturns(c) PROVE HandlersMatchAt(c)'
  <2>1. /\ UNCHANGED <<idOf, owner, joins>>
        /\ pc[c] = "flush" /\ pc'[c] = "read"
        /\ me'[c] = [kind |-> "client", sid |-> job[c].sid, cid |-> job[c].cid]
    BY <1>17 DEF JoinReturns, Return, Goto, store, history
  <2> QED
    BY <1>2, <2>1 DEF HandlersMatchAt, Creating, Joining, Entering
(* ... or leaves. *)
<1>18. ASSUME \/ Connect(c) \/ WritePanics(c) \/ CloseClients(c) \/ Unpublish(c)
              \/ ForgetSession(c) \/ LeaveSession(c) \/ LeaveUnnamed(c)
       PROVE  pc'[c] \in {"off", "read", "unpublish", "forget", "done"} /\ me'[c] = me[c]
  BY <1>18
  DEF Connect, WritePanics, CloseClients, Unpublish, ForgetSession,
      LeaveSession, LeaveUnnamed, Return, Goto
<1>19. ASSUME Disconnect(c) \/ HandleRelay(c)
       PROVE  pc'[c] = pc[c] /\ job'[c] = job[c] /\ me'[c] = me[c]
  BY <1>19 DEF Disconnect, HandleRelay, goroutine
<1> QED
  BY <1>3, <1>5, <1>6, <1>7, <1>8, <1>9, <1>10, <1>11, <1>12, <1>13, <1>14, <1>15,
     <1>16, <1>17, <1>18, <1>19
  DEF Next, Handler, Request

(* Nobody but a join in its critical section adds a client to a pair. *)
LEMMA ClientSteps ==
  ASSUME IsolationInv, [Next]_vars
  PROVE  \/ \E c \in Conns : EnterPeers(c)
         \/ \A p \in Tokens, k \in ClientIds :
               peers'[p].clients[k] \in {peers[p].clients[k], None}
<1> USE DEF IsolationInv, TypeInv, TypeOK
<1> SUFFICES ASSUME \A c \in Conns : ~EnterPeers(c),
                    NEW p \in Tokens, NEW k \in ClientIds
             PROVE  peers'[p].clients[k] \in {peers[p].clients[k], None}
  OBVIOUS
<1>0. peers[p] \in Peers
  OBVIOUS
<1>1. CASE UNCHANGED peers
  BY <1>1
<1>2. ASSUME NEW c \in Conns, RegisterHost(c)
      PROVE  peers'[p].clients[k] \in {peers[p].clients[k], None}
  <2>1. peers'[p] = peers[p] \/ peers'[p] = PeerPair(c, NoClients, {})
    BY <1>2, Registers
  <2> QED
    BY <2>1, PairFields DEF NoClients
<1>3. ASSUME NEW c \in Conns, CloseClients(c)
      PROVE  peers'[p].clients[k] \in {peers[p].clients[k], None}
  <2>1. \/ peers'[p] = peers[p]
        \/ peers'[p] = PeerPair(peers[p].host, NoClients, peers[p].queued)
    BY <1>3 DEF CloseClients
  <2> QED
    BY <2>1, PairFields DEF NoClients
<1>4. ASSUME NEW c \in Conns, LeaveSession(c)
      PROVE  peers'[p].clients[k] \in {peers[p].clients[k], None}
  <2>1. \/ peers'[p] = peers[p]
        \/ peers'[p] = PeerPair(peers[p].host,
                                [peers[p].clients EXCEPT ![me[c].cid] = None],
                                peers[p].queued)
    BY <1>4 DEF LeaveSession
  <2>2. peers[p].clients \in [ClientIds -> Conns \cup {None}]
    BY <1>0 DEF Peers
  <2> QED
    BY <2>1, <2>2, PairFields
<1>5. ASSUME NEW c \in Conns, HandleRelay(c)
      PROVE  peers'[p].clients[k] \in {peers[p].clients[k], None}
  <2>1. \/ peers'[p] = peers[p]
        \/ \E q : peers'[p] = PeerPair(peers[p].host, peers[p].clients, q)
    BY <1>5 DEF HandleRelay
  <2> QED
    BY <2>1, PairFields
<1>6. CASE Restart
  BY <1>6, PairFields DEF Restart, EmptyPair, NoClients
<1>7. ASSUME NEW c \in Conns, Handler(c)
      PROVE  peers'[p].clients[k] \in {peers[p].clients[k], None}
  BY <1>1, <1>2, <1>3, <1>4, <1>7
  DEF Handler, ReplyCreated, LoadPeers, NotifyHost, Respond, FlushCandidate,
      JoinReturns, Unpublish, ForgetSession, LeaveUnnamed, room
<1>8. ASSUME NEW c \in Conns,
             Connect(c) \/ Disconnect(c) \/ Request(c) \/ WritePanics(c)
      PROVE  peers'[p].clients[k] \in {peers[p].clients[k], None}
  BY <1>1, <1>5, <1>8
  DEF Request, Connect, Disconnect, HandleCreate, HandleJoin, WritePanics, room
<1> QED
  BY <1>1, <1>6, <1>7, <1>8 DEF Next, Expiry, vars, room

LEMMA JoinsItsTokensHostStep ==
  ASSUME IsolationInv, [Next]_vars PROVE JoinsItsTokensHost'
<1> USE DEF IsolationInv, TypeInv, TypeOK
<1>1. HistoryKept
  BY HistoryIsKept
<1>2. \A p \in Tokens, k \in ClientIds : [conn |-> peers[p].clients[k], tok |-> p] \in Join
        => [conn |-> peers[p].clients[k], tok |-> p] # None
  BY NoneIsNoJoin
<1>3. ASSUME NEW p \in Tokens, NEW k \in ClientIds,
             peers'[p].clients[k] = peers[p].clients[k], peers[p].clients[k] # None
      PROVE  joins'[k] = [conn |-> peers'[p].clients[k], tok |-> p]
  <2>1. peers[p].clients[k] \in Conns
    BY <1>3 DEF Peers
  <2>2. joins[k] = [conn |-> peers[p].clients[k], tok |-> p] /\ joins[k] # None
    BY <1>2, <1>3, <2>1 DEF JoinsItsTokensHost, Join
  <2> QED
    BY <1>1, <1>3, <2>2 DEF HistoryKept
<1>4. ASSUME NEW c \in Conns, EnterPeers(c) PROVE JoinsItsTokensHost'
  <2> DEFINE q == job[c].pair
             i == job[c].cid
  <2>1. /\ q \in Tokens /\ i \in ClientIds
        /\ joins[i] # None /\ joins[i].conn = c /\ joins[i].tok = q
    BY <1>4
    DEF EnterPeers, LocalsSet, LocalsSetAt, HandlersMatch, HandlersMatchAt,
        Joining, Entering
  <2>2. joins[i] = [conn |-> c, tok |-> q]
    BY <2>1 DEF Join
  <2>3. joins' = joins
    BY <1>4 DEF EnterPeers, history
  <2>4. peers'[q].clients = [peers[q].clients EXCEPT ![i] = c]
    BY <1>4, <2>1, PairFields DEF EnterPeers
  <2>5. \A p \in Tokens \ {q} : peers'[p] = peers[p]
    BY <1>4, <2>1 DEF EnterPeers
  <2>6. peers[q].clients \in [ClientIds -> Conns \cup {None}]
    BY <2>1 DEF Peers
  <2>7. ASSUME NEW p \in Tokens, NEW k \in ClientIds, peers'[p].clients[k] # None
        PROVE  joins'[k] = [conn |-> peers'[p].clients[k], tok |-> p]
    <3>1. CASE p = q /\ k = i
      BY <2>1, <2>2, <2>3, <2>4, <2>6, <3>1
    <3>2. CASE ~(p = q /\ k = i)
      <4>1. peers'[p].clients[k] = peers[p].clients[k]
        BY <2>4, <2>5, <2>6, <3>2
      <4> QED
        BY <1>3, <2>7, <4>1
    <3> QED
      BY <3>1, <3>2
  <2> QED
    BY <2>7 DEF JoinsItsTokensHost
<1>5. CASE \A p \in Tokens, k \in ClientIds :
             peers'[p].clients[k] \in {peers[p].clients[k], None}
  <2>1. ASSUME NEW p \in Tokens, NEW k \in ClientIds, peers'[p].clients[k] # None
        PROVE  joins'[k] = [conn |-> peers'[p].clients[k], tok |-> p]
    <3>1. peers'[p].clients[k] = peers[p].clients[k]
      BY <1>5, <2>1
    <3> QED
      BY <1>3, <2>1, <3>1
  <2> QED
    BY <2>1 DEF JoinsItsTokensHost
<1> QED
  BY <1>4, <1>5, ClientSteps

(* What one message must satisfy. *)
StaysInSession(m) ==
  m.cid # None =>
     /\ joins[m.cid] # None
     /\ {m.to, m.from} \subseteq {joins[m.cid].conn, owner[joins[m.cid].tok]}

(* A message of a host: from the owner of the pair to a client in it. *)
LEMMA HostRelayStays ==
  ASSUME Backend = "redis", IsolationInv, NEW c \in Conns, NEW k \in ClientIds,
         me[c].kind = "host", sessionPeers[me[c].sid] # None,
         peers[sessionPeers[me[c].sid]].clients[k] # None
  PROVE  /\ joins[k] # None
         /\ joins[k].conn = peers[sessionPeers[me[c].sid]].clients[k]
         /\ owner[joins[k].tok] = c
<1> USE DEF IsolationInv, TypeInv, TypeOK
<1> DEFINE p == sessionPeers[me[c].sid]
<1>1. PICK t \in Tokens : owner[t] = c /\ idOf[t] = me[c].sid
  BY DEF HandlersMatch, HandlersMatchAt
<1>2. me[c].sid \in SessionIds
  BY DEF LocalsSet, LocalsSetAt
<1>3. p \in Tokens /\ idOf[p] = me[c].sid
  BY <1>2 DEF RoomsIndexed
<1>4. t = p
  BY <1>1, <1>2, <1>3, StoreNoneAssumption DEF IdsUnique
<1>5. peers[p].clients[k] \in Conns
  BY <1>3 DEF Peers
<1>6. joins[k] = [conn |-> peers[p].clients[k], tok |-> p]
  BY <1>3 DEF JoinsItsTokensHost
<1> QED
  BY <1>1, <1>4, <1>5, <1>6, <1>3, NoneIsNoJoin DEF Join

(* A message of a client: to the owner of the token it presented. *)
LEMMA ClientRelayStays ==
  ASSUME Backend = "redis", IsolationInv, NEW c \in Conns,
         me[c].kind = "client", sessionPeers[me[c].sid] # None
  PROVE  /\ joins[me[c].cid] # None
         /\ joins[me[c].cid].conn = c
         /\ owner[joins[me[c].cid].tok] = peers[sessionPeers[me[c].sid]].host
<1> USE DEF IsolationInv, TypeInv, TypeOK
<1> DEFINE p == sessionPeers[me[c].sid]
           j == joins[me[c].cid]
<1>1. /\ me[c].cid \in ClientIds /\ j # None /\ j.conn = c
      /\ idOf[j.tok] = me[c].sid /\ me[c].sid \in SessionIds
  BY DEF HandlersMatch, HandlersMatchAt, LocalsSet, LocalsSetAt
<1>2. j.tok \in Tokens
  BY <1>1 DEF Join
<1>3. p \in Tokens /\ idOf[p] = me[c].sid /\ peers[p].host = owner[p]
  BY <1>1 DEF RoomsIndexed
<1>4. j.tok = p
  BY <1>1, <1>2, <1>3, StoreNoneAssumption DEF IdsUnique
<1> QED
  BY <1>1, <1>3, <1>4

(* A message in flight stays within its session: records do not change. *)
LEMMA StaysKept ==
  ASSUME IsolationInv, [Next]_vars, NEW m \in delivered
  PROVE  StaysInSession(m)'
<1> USE DEF IsolationInv, TypeInv, TypeOK
<1>1. HistoryKept
  BY HistoryIsKept
<1>2. m \in Message
  OBVIOUS
<1>3. CASE m.cid # None
  <2>1. m.cid \in ClientIds
    BY <1>2, <1>3 DEF Message
  <2>2. joins[m.cid] # None /\ joins[m.cid].tok \in Tokens
    BY <1>3, <2>1 DEF RelayStaysInSession, Join
  <2>3. /\ joins'[m.cid] = joins[m.cid]
        /\ owner'[joins[m.cid].tok] = owner[joins[m.cid].tok]
    BY <1>1, <2>1, <2>2 DEF HistoryKept, JoinsKnown
  <2> QED
    BY <2>2, <2>3 DEF RelayStaysInSession, StaysInSession
<1> QED
  BY <1>3 DEF StaysInSession

(* A step that sends one message which stays in its session. *)
LEMMA StaysAdded ==
  ASSUME IsolationInv, [Next]_vars, NEW c, NEW m, Send(c, m),
         UNCHANGED <<joins, owner>>, m.to \in open => StaysInSession(m)
  PROVE  RelayStaysInSession'
<1>1. \A n \in delivered' : StaysInSession(n)'
  <2>1. ASSUME NEW n \in delivered' PROVE StaysInSession(n)'
    <3>1. CASE n \in delivered
      BY <3>1, StaysKept
    <3>2. CASE n = m /\ m.to \in open
      BY <3>2 DEF StaysInSession
    <3> QED
      BY <3>1, <3>2, SendAdds
  <2> QED
    BY <2>1
<1> QED
  BY <1>1 DEF RelayStaysInSession, StaysInSession

LEMMA RelayStaysInSessionStep ==
  ASSUME Backend = "redis", IsolationInv, [Next]_vars PROVE RelayStaysInSession'
<1>1. CASE UNCHANGED delivered
  BY <1>1, StaysKept DEF RelayStaysInSession, StaysInSession
<1>2. ASSUME NEW c \in Conns, ReplyCreated(c) PROVE RelayStaysInSession'
  <2> DEFINE m == Msg("session-created", c, c, None, None)
  <2>1. Send(c, m) /\ UNCHANGED <<joins, owner>>
    BY <1>2 DEF ReplyCreated, history
  <2>2. StaysInSession(m)
    BY DEF StaysInSession, Msg
  <2> QED
    BY <2>1, <2>2, StaysAdded
<1>3. ASSUME NEW c \in Conns, Joining(c) /\ Entering(c)
      PROVE  /\ joins[job[c].cid] # None /\ joins[job[c].cid].conn = c
             /\ owner[joins[job[c].cid].tok] = peers[job[c].pair].host
  BY <1>3 DEF IsolationInv, HandlersMatch, HandlersMatchAt
<1>4. ASSUME NEW c \in Conns, NotifyHost(c) PROVE RelayStaysInSession'
  <2> DEFINE m == Msg("peer-joined", peers[job[c].pair].host, c, job[c].cid, None)
  <2>1. Send(c, m) /\ UNCHANGED <<joins, owner>> /\ Joining(c) /\ Entering(c)
    BY <1>4 DEF NotifyHost, history, Joining, Entering
  <2>2. StaysInSession(m)
    BY <1>3, <2>1 DEF StaysInSession, Msg
  <2> QED
    BY <2>1, <2>2, StaysAdded
<1>5. ASSUME NEW c \in Conns, Respond(c) PROVE RelayStaysInSession'
  <2> DEFINE m == Msg("join-response", c, c, job[c].cid, None)
  <2>1. Send(c, m) /\ UNCHANGED <<joins, owner>> /\ Joining(c) /\ Entering(c)
    BY <1>5 DEF Respond, history, Joining, Entering
  <2>2. StaysInSession(m)
    BY <1>3, <2>1 DEF StaysInSession, Msg
  <2> QED
    BY <2>1, <2>2, StaysAdded
<1>6. ASSUME NEW c \in Conns, FlushCandidate(c) PROVE RelayStaysInSession'
  <2>1. PICK k \in job[c].queue :
          Send(c, Msg("ice", c, peers[job[c].pair].host, job[c].cid, k))
    BY <1>6 DEF FlushCandidate
  <2> DEFINE m == Msg("ice", c, peers[job[c].pair].host, job[c].cid, k)
  <2>2. UNCHANGED <<joins, owner>> /\ Joining(c) /\ Entering(c)
    BY <1>6 DEF FlushCandidate, history, Joining, Entering
  <2>3. StaysInSession(m)
    BY <1>3, <2>2 DEF StaysInSession, Msg
  <2> QED
    BY <2>1, <2>2, <2>3, StaysAdded
<1>7. ASSUME NEW c \in Conns, HandleRelay(c), ~UNCHANGED delivered
      PROVE  RelayStaysInSession'
  <2> DEFINE p == sessionPeers[me[c].sid]
  <2>1. UNCHANGED <<joins, owner>> /\ p # None
    BY <1>7 DEF HandleRelay, history
  <2>2. PICK x \in Sendable(c) :
          /\ RelayTarget(c, p, x[2]) # None
          /\ Send(c, Msg(x[1], RelayTarget(c, p, x[2]), c, x[2], x[2]))
    BY <1>7 DEF HandleRelay
  <2> DEFINE target == RelayTarget(c, p, x[2])
             m == Msg(x[1], target, c, x[2], x[2])
  <2>3. x[2] \in ClientIds /\ (me[c].kind # "host" => me[c].kind = "client" /\ x[2] = me[c].cid)
    BY SendableType DEF IsolationInv
  <2>4. StaysInSession(m)
    <3>1. CASE me[c].kind = "host"
      <4>1. target = peers[p].clients[x[2]]
        BY <3>1 DEF RelayTarget
      <4>2. /\ joins[x[2]] # None /\ joins[x[2]].conn = target
            /\ owner[joins[x[2]].tok] = c
        BY <2>1, <2>2, <2>3, <3>1, <4>1, HostRelayStays
      <4> QED
        BY <4>2 DEF StaysInSession, Msg
    <3>2. CASE me[c].kind # "host"
      <4>1. target = peers[p].host
        BY <3>2 DEF RelayTarget
      <4>2. /\ joins[x[2]] # None /\ joins[x[2]].conn = c
            /\ owner[joins[x[2]].tok] = target
        BY <2>1, <2>3, <3>2, <4>1, ClientRelayStays
      <4> QED
        BY <4>2 DEF StaysInSession, Msg
    <3> QED
      BY <3>1, <3>2
  <2> QED
    BY <2>1, <2>2, <2>4, StaysAdded
<1>8. ASSUME NEW c \in Conns, Handler(c) PROVE RelayStaysInSession'
  BY <1>1, <1>2, <1>4, <1>5, <1>6, <1>8
  DEF Handler, RegisterHost, LoadPeers, EnterPeers, JoinReturns, CloseClients,
      Unpublish, ForgetSession, LeaveSession, LeaveUnnamed, net
<1>9. ASSUME NEW c \in Conns,
             Connect(c) \/ Disconnect(c) \/ Request(c) \/ WritePanics(c)
      PROVE  RelayStaysInSession'
  BY <1>1, <1>7, <1>9
  DEF Request, Connect, Disconnect, HandleCreate, HandleJoin, WritePanics, net
<1> QED
  BY <1>1, <1>8, <1>9 DEF Next, Expiry, Restart, vars, net

LEMMA IsolationInit == Init => IsolationInv
<1> SUFFICES ASSUME Init PROVE IsolationInv
  OBVIOUS
<1>1. \A p \in Tokens, k \in ClientIds : peers[p].clients[k] = None
  BY PairFields DEF Init, EmptyPair, NoClients
<1> QED
  BY <1>1, TypeInvInit
  DEF Init, StoreInit, IsolationInv, IdsUnique, TokensIndexed, RoomsIndexed,
      JoinsKnown, HandlersMatch, HandlersMatchAt, Creating, Joining, Entering,
      Nobody, JoinsItsTokensHost, RelayStaysInSession

LEMMA IsolationStep ==
  ASSUME Backend = "redis" PROVE IsolationInv /\ [Next]_vars => IsolationInv'
<1> SUFFICES ASSUME IsolationInv, [Next]_vars PROVE IsolationInv'
  OBVIOUS
<1>1. TypeInv'
  BY TypeInvStep DEF IsolationInv
<1> QED
  BY <1>1, IdsUniqueStep, TokensIndexedStep, RoomsIndexedStep, JoinsKnownStep,
     HandlersMatchStep, JoinsItsTokensHostStep, RelayStaysInSessionStep
  DEF IsolationInv

(* With random session ids a client is only ever in the peerPair of the    *)
(* host whose token it presented, however creates, joins, departures,      *)
(* expiries, restarts and lost writes interleave.                          *)
THEOREM JoinIsolation ==
  ASSUME Backend = "redis" PROVE Spec => []JoinsItsTokensHost
<1>1. IsolationInv => JoinsItsTokensHost
  BY DEF IsolationInv
<1>2. IsolationInv /\ [Next]_vars => IsolationInv'
  BY IsolationStep
<1> QED
  BY <1>1, <1>2, IsolationInit, PTL DEF Spec

(* ... and no notice, offer, answer or candidate crosses from one session  *)
(* to another.                                                             *)
THEOREM RelayIsolation ==
  ASSUME Backend = "redis" PROVE Spec => []RelayStaysInSession
<1>1. IsolationInv => RelayStaysInSession
  BY DEF IsolationInv
<1>2. IsolationInv /\ [Next]_vars => IsolationInv'
  BY IsolationStep
<1> QED
  BY <1>1, <1>2, IsolationInit, PTL DEF Spec

-----------------------------------------------------------------------------
(***************************************************************************)
(* The life of a session, for the store that hands out random session ids. *)
(* A session is created by one goroutine, which publishes its pair, serves *)
(* it and takes it away again.  While that goroutine is a host nobody else *)
(* can: every index leads to its own session, a connection creates at most *)
(* one, and whoever creates or joins never does so again.                  *)
(***************************************************************************)
OwnersKnown == \A t \in Tokens : owner[t] # None <=> idOf[t] # None

HostPCs == {"register", "reply", "read", "unpublish", "forget", "done"}

OwnersAsked ==
  \A t \in Tokens :
     owner[t] # None => owner[t] \in asked /\ pc[owner[t]] \in HostPCs

OneToken ==
  \A t, u \in Tokens : owner[t] # None /\ owner[t] = owner[u] => t = u

JoinersAsked ==
  \A k \in ClientIds : joins[k] # None => joins[k].conn \in asked

SessionsIndexed ==
  \A s \in SessionIds : sessions[s] # None => idOf[sessions[s]] = s

(* The store keeps a session until it expires or its host is done.         *)
SessionKept ==
  \A t \in Tokens :
     idOf[t] # None /\ t \notin expired /\ pc[owner[t]] # "done" =>
        tokenToSession[t] = idOf[t] /\ sessions[idOf[t]] = t

(* A goroutine has published its pair and not yet taken it away.           *)
Hosting(c) ==
  \/ pc[c] = "reply"
  \/ me[c].kind = "host" /\ pc[c] \in {"read", "unpublish"}

RoomKept ==
  \A t \in Tokens :
     owner[t] # None /\ Hosting(owner[t]) => sessionPeers[idOf[t]] = t

HostPresent ==
  \A s \in SessionIds :
     LET p == sessionPeers[s]
     IN  p # None => Hosting(owner[p]) \/ owner[p] \in collided

(* A goroutine has entered pair p as client k and not yet left.            *)
Inside(c, p, k) ==
  \/ /\ pc[c] \in {"notify", "respond", "flush"}
     /\ job[c].pair = p
     /\ job[c].cid = k
  \/ /\ pc[c] = "read" /\ me[c].kind = "client"
     /\ me[c].sid = idOf[p]
     /\ me[c].cid = k

ClientsPresent ==
  \A s \in SessionIds, k \in ClientIds :
     LET p == sessionPeers[s]
         c == peers[p].clients[k]
     IN  p # None /\ c # None => Inside(c, p, k) \/ c \in collided

OwnerInv == OwnersKnown /\ OwnersAsked /\ OneToken /\ JoinersAsked

LifeInv ==
  /\ IsolationInv
  /\ OwnerInv
  /\ SessionsIndexed
  /\ SessionKept
  /\ RoomKept
  /\ HostPresent
  /\ ClientsPresent

(* Only a goroutine itself moves on, and a restart ends it.                *)
LEMMA MovesAlone ==
  ASSUME TypeInv, [Next]_vars, NEW c \in Conns
  PROVE  \/ pc'[c] = pc[c] /\ job'[c] = job[c] /\ me'[c] = me[c]
         \/ Restart
         \/ Connect(c) \/ HandleCreate(c) \/ HandleJoin(c) \/ WritePanics(c)
         \/ Handler(c)
<1> USE DEF TypeInv, TypeOK
<1>1. ASSUME NEW d \in Conns, d # c, Handler(d)
      PROVE  pc'[c] = pc[c] /\ job'[c] = job[c] /\ me'[c] = me[c]
  BY <1>1
  DEF Handler, RegisterHost, ReplyCreated, LoadPeers, EnterPeers, NotifyHost,
      Respond, FlushCandidate, JoinReturns, CloseClients, Unpublish,
      LeaveSession, LeaveUnnamed, ForgetSession, Return, Goto
<1>2. ASSUME NEW d \in Conns, d # c,
             Connect(d) \/ HandleCreate(d) \/ HandleJoin(d) \/ WritePanics(d)
      PROVE  pc'[c] = pc[c] /\ job'[c] = job[c] /\ me'[c] = me[c]
  BY <1>2, CreateRecords, JoinRecords
  DEF Connect, HandleCreate, HandleJoin, WritePanics, Return, Goto
<1>3. ASSUME NEW d \in Conns, Disconnect(d) \/ HandleRelay(d)
      PROVE  pc'[c] = pc[c] /\ job'[c] = job[c] /\ me'[c] = me[c]
  BY <1>3 DEF Disconnect, HandleRelay, goroutine
<1>4. ASSUME NEW d \in Conns, Connect(d) \/ Disconnect(d) \/ Request(d) \/ WritePanics(d)
      PROVE  \/ pc'[c] = pc[c] /\ job'[c] = job[c] /\ me'[c] = me[c]
             \/ Connect(c) \/ HandleCreate(c) \/ HandleJoin(c) \/ WritePanics(c)
  BY <1>2, <1>3, <1>4 DEF Request
<1> QED
  BY <1>1, <1>4 DEF Next, vars, Expiry, goroutine

LEMMA AskedKept ==
  ASSUME [Next]_vars
  PROVE  asked \subseteq asked' /\ collided \subseteq collided'
<1>1. ASSUME NEW c \in Conns, Handler(c)
      PROVE  asked \subseteq asked' /\ collided \subseteq collided'
  BY <1>1
  DEF Handler, RegisterHost, ReplyCreated, LoadPeers, EnterPeers, NotifyHost,
      Respond, FlushCandidate, JoinReturns, CloseClients, Unpublish,
      LeaveSession, LeaveUnnamed, ForgetSession, Send
<1>2. ASSUME NEW c \in Conns,
             Connect(c) \/ Disconnect(c) \/ Request(c) \/ WritePanics(c)
      PROVE  asked \subseteq asked' /\ collided \subseteq collided'
  BY <1>2
  DEF Request, Connect, Disconnect, HandleCreate, HandleJoin, HandleRelay,
      WritePanics, Send, goroutine
<1> QED
  BY <1>1, <1>2 DEF Next, vars, Expiry, Restart, goroutine

(* Where a goroutine that serves a host goes on to.                        *)
LEMMA HostMoves ==
  ASSUME TypeInv, [Next]_vars, NEW c \in Conns, c \in asked, pc[c] \in HostPCs
  PROVE  \/ pc'[c] = pc[c] /\ job'[c] = job[c] /\ me'[c] = me[c]
         \/ Restart /\ pc'[c] = "done"
         \/ RegisterHost(c) /\ pc'[c] = "reply"
         \/ /\ ReplyCreated(c) /\ pc'[c] = "read" /\ me'[c].kind = "host"
         \/ /\ WritePanics(c) /\ pc[c] \in {"reply", "read"} /\ pc'[c] = "read"
            /\ me'[c] = me[c] /\ c \in collided'
         \/ CloseClients(c) /\ pc'[c] = "unpublish" /\ me'[c] = me[c]
         \/ Unpublish(c) /\ pc'[c] = "forget"
         \/ ForgetSession(c) /\ pc'[c] = "done"
         \/ (LeaveSession(c) \/ LeaveUnnamed(c)) /\ pc'[c] = "done"
<1> USE DEF TypeInv, TypeOK, HostPCs
<1>1. CASE Restart
  BY <1>1 DEF Restart
<1>2. CASE Connect(c) \/ HandleCreate(c) \/ HandleJoin(c)
  BY <1>2 DEF Connect, HandleCreate, HandleJoin
<1>3. CASE WritePanics(c)
  BY <1>3 DEF WritePanics, Return, Goto, Reading
<1>4. CASE LoadPeers(c) \/ EnterPeers(c) \/ NotifyHost(c) \/ Respond(c)
           \/ FlushCandidate(c) \/ JoinReturns(c)
  BY <1>4
  DEF LoadPeers, EnterPeers, NotifyHost, Respond, FlushCandidate, JoinReturns
<1>5. CASE RegisterHost(c)
  BY <1>5 DEF RegisterHost, Goto
<1>6. CASE ReplyCreated(c)
  BY <1>6 DEF ReplyCreated, Return, Goto
<1>7. CASE CloseClients(c)
  BY <1>7 DEF CloseClients, Goto
<1>8. CASE Unpublish(c)
  BY <1>8 DEF Unpublish, Goto
<1>9. CASE ForgetSession(c)
  BY <1>9 DEF ForgetSession, Goto
<1>10. CASE LeaveSession(c) \/ LeaveUnnamed(c)
  BY <1>10 DEF LeaveSession, LeaveUnnamed, Goto
<1> QED
  BY <1>1, <1>2, <1>3, <1>4, <1>5, <1>6, <1>7, <1>8, <1>9, <1>10, MovesAlone
  DEF Handler

LEMMA OwnerInvStep ==
  ASSUME LifeInv, [Next]_vars PROVE OwnerInv'
<1> USE DEF LifeInv, OwnerInv, IsolationInv, TypeInv, TypeOK
<1>1. asked \subseteq asked'
  BY AskedKept
<1>2. ASSUME NEW t \in Tokens, owner[t] # None
      PROVE  owner[t] \in asked' /\ pc'[owner[t]] \in HostPCs
  <2>1. owner[t] \in Conns /\ owner[t] \in asked /\ pc[owner[t]] \in HostPCs
    BY <1>2 DEF OwnersAsked
  <2> QED
    BY <1>1, <2>1, HostMoves DEF HostPCs
<1>3. \A k \in ClientIds : joins[k] # None => joins[k].conn \in asked'
  BY <1>1 DEF JoinersAsked
<1>4. CASE UNCHANGED <<idOf, owner, joins>>
  BY <1>2, <1>3, <1>4 DEF OwnersKnown, OwnersAsked, OneToken, JoinersAsked
<1>5. ASSUME NEW c \in Conns, HandleCreate(c) PROVE OwnerInv'
  <2>1. c \notin asked /\ asked' = asked \cup {c} /\ joins' = joins
    BY <1>5, CreateRecords DEF HandleCreate
  <2>2. CASE UNCHANGED <<store, pc, job, owner>>
    BY <1>2, <1>3, <2>1, <2>2
    DEF OwnersKnown, OwnersAsked, OneToken, JoinersAsked, store
  <2>3. ASSUME NEW t \in Tokens, NEW s \in SessionIds, idOf[t] = None,
               CreateSession(t, s), owner' = [owner EXCEPT ![t] = c],
               Goto(c, "register")
        PROVE  OwnerInv'
    <3>1. /\ idOf'[t] = s /\ owner'[t] = c /\ pc'[c] = "register"
          /\ \A u \in Tokens \ {t} : idOf'[u] = idOf[u] /\ owner'[u] = owner[u]
      BY <2>3 DEF CreateSession, Goto, StoreTypeOK
    <3>2. s # None /\ c # None
      BY StoreNoneAssumption, ServerNoneAssumption
    <3>3. \A u \in Tokens : owner[u] # c
      BY <2>1, <3>2 DEF OwnersAsked
    <3>4. OwnersKnown' /\ OneToken'
      BY <3>1, <3>2, <3>3 DEF OwnersKnown, OneToken
    <3>5. OwnersAsked'
      BY <1>2, <2>1, <3>1 DEF OwnersAsked, HostPCs
    <3>6. JoinersAsked'
      BY <1>3, <2>1 DEF JoinersAsked
    <3> QED
      BY <3>4, <3>5, <3>6
  <2> QED
    BY <1>5, <2>2, <2>3, CreateRecords
<1>6. ASSUME NEW c \in Conns, HandleJoin(c) PROVE OwnerInv'
  <2>1. asked' = asked \cup {c} /\ UNCHANGED <<idOf, owner>>
    BY <1>6, JoinRecords DEF HandleJoin, store
  <2>2. OwnersKnown' /\ OneToken' /\ OwnersAsked'
    BY <1>2, <2>1 DEF OwnersKnown, OneToken, OwnersAsked
  <2>3. JoinersAsked'
    BY <1>3, <1>6, <2>1, JoinRecords DEF JoinersAsked
  <2> QED
    BY <2>2, <2>3
<1> QED
  BY <1>4, <1>5, <1>6, HistorySteps

LEMMA SessionsIndexedStep ==
  ASSUME Backend = "redis", LifeInv, [Next]_vars PROVE SessionsIndexed'
<1> USE DEF LifeInv, IsolationInv, TypeInv, TypeOK, StoreTypeOK
<1>1. CASE UNCHANGED store
  BY <1>1 DEF SessionsIndexed, store
<1>2. ASSUME NEW c \in Conns, HandleCreate(c), ~UNCHANGED store
      PROVE  SessionsIndexed'
  <2>1. PICK t \in Tokens, s \in SessionIds : idOf[t] = None /\ CreateSession(t, s)
    BY <1>2, CreateRecords
  <2>2. /\ sessions'[s] = t /\ idOf'[t] = s
        /\ \A r \in SessionIds \ {s} : sessions'[r] = sessions[r]
        /\ \A u \in Tokens \ {t} : idOf'[u] = idOf[u]
    BY <2>1 DEF CreateSession
  <2>3. ASSUME NEW r \in SessionIds, sessions[r] # None
        PROVE  sessions[r] \in Tokens /\ sessions[r] # t
    BY <2>1, <2>3, StoreNoneAssumption DEF SessionsIndexed
  <2> QED
    BY <2>2, <2>3 DEF SessionsIndexed
<1>3. CASE idOf' = idOf /\ \A s \in SessionIds : sessions'[s] \in {sessions[s], None}
  BY <1>3 DEF SessionsIndexed
<1>4. ASSUME NEW c \in Conns, ForgetSession(c)
      PROVE  idOf' = idOf /\ \A s \in SessionIds : sessions'[s] \in {sessions[s], None}
  BY <1>4 DEF ForgetSession, DeleteSession, store
<1>5. CASE Expiry
  <2>1. idOf' = idOf /\ \A s \in SessionIds : sessions'[s] \in {sessions[s], None}
    BY <1>5
    DEF Expiry, TimePasses, Expire, Cleanup, EvictSessionKey, EvictTokenKey
  <2> QED
    BY <1>3, <2>1
<1>6. CASE Restart
  BY <1>6, <1>3 DEF Restart, StoreRestart
<1> QED
  BY <1>1, <1>2, <1>3, <1>4, <1>5, <1>6, StoreSteps

(* A goroutine that is done stays done. *)
LEMMA DoneStays ==
  ASSUME TypeInv, [Next]_vars, NEW c \in Conns, pc[c] = "done"
  PROVE  pc'[c] = "done"
<1>1. CASE Restart
  BY <1>1 DEF Restart
<1>2. ~(Connect(c) \/ HandleCreate(c) \/ HandleJoin(c) \/ WritePanics(c))
  BY DEF Connect, HandleCreate, HandleJoin, WritePanics, Reading
<1>3. ~Handler(c)
  BY DEF Handler, RegisterHost, ReplyCreated, LoadPeers, EnterPeers, NotifyHost,
         Respond, FlushCandidate, JoinReturns, CloseClients, Unpublish,
         LeaveSession, LeaveUnnamed, ForgetSession, Leaving
<1> QED
  BY <1>1, <1>2, <1>3, MovesAlone

(* The session a host's cleanup deletes is the one it created. *)
LEMMA ClosesOwn ==
  ASSUME LifeInv, NEW c \in Conns, me[c].kind = "host"
  PROVE  \E t \in Tokens :
           /\ owner[t] = c /\ idOf[t] = me[c].sid /\ idOf[t] \in SessionIds
           /\ \A u \in Tokens : owner[u] = c => u = t
           /\ \A u \in Tokens : idOf[u] = idOf[t] => u = t
<1> USE DEF LifeInv, OwnerInv, IsolationInv, TypeInv
<1>1. me[c].sid \in SessionIds
  BY DEF LocalsSet, LocalsSetAt
<1>2. PICK t \in Tokens : owner[t] = c /\ idOf[t] = me[c].sid
  BY DEF HandlersMatch, HandlersMatchAt
<1>3. idOf[t] # None /\ owner[t] # None
  BY <1>1, <1>2, StoreNoneAssumption, ServerNoneAssumption
<1>4. \A u \in Tokens : owner[u] = c => u = t
  BY <1>2, <1>3 DEF OneToken
<1>5. \A u \in Tokens : idOf[u] = idOf[t] => u = t
  BY <1>3 DEF IdsUnique
<1> QED
  BY <1>1, <1>2, <1>4, <1>5

LEMMA SessionKeptStep ==
  ASSUME Backend = "redis", LifeInv, [Next]_vars PROVE SessionKept'
<1> USE DEF LifeInv, IsolationInv, TypeInv, TypeOK, StoreTypeOK
<1>1. HistoryKept
  BY HistoryIsKept
<1>2. SUFFICES ASSUME NEW t \in Tokens, idOf'[t] # None, t \notin expired',
                      pc'[owner'[t]] # "done"
               PROVE  tokenToSession'[t] = idOf'[t] /\ sessions'[idOf'[t]] = t
  BY DEF SessionKept
<1>3. CASE idOf[t] = None
  <2>1. PICK c \in Conns : HandleCreate(c)
    BY <1>2, <1>3, HistorySteps, JoinRecords DEF store
  <2>2. PICK u \in Tokens, s \in SessionIds : CreateSession(u, s)
    BY <1>2, <1>3, <2>1, CreateRecords DEF store
  <2>3. u = t
    BY <1>2, <1>3, <2>2 DEF CreateSession
  <2> QED
    BY <2>2, <2>3 DEF CreateSession
<1>4. CASE idOf[t] # None
  <2>1. idOf'[t] = idOf[t] /\ owner'[t] = owner[t] /\ idOf[t] \in SessionIds
    BY <1>1, <1>4 DEF HistoryKept
  <2>2. owner[t] \in Conns
    BY <1>4 DEF OwnerInv, OwnersKnown
  <2>3. pc[owner[t]] # "done"
    BY <1>2, <2>1, <2>2, DoneStays
  <2>4. ASSUME t \notin expired
        PROVE  tokenToSession[t] = idOf[t] /\ sessions[idOf[t]] = t
    BY <1>4, <2>3, <2>4 DEF SessionKept
  <2>5. CASE UNCHANGED store
    BY <1>2, <2>1, <2>4, <2>5 DEF store
  <2>6. ASSUME NEW c \in Conns, HandleCreate(c), ~UNCHANGED store
        PROVE  tokenToSession'[t] = idOf'[t] /\ sessions'[idOf'[t]] = t
    <3>1. PICK u \in Tokens, s \in SessionIds :
            idOf[u] = None /\ s \in NewSessionIds /\ CreateSession(u, s)
      BY <2>6, CreateRecords
    <3>2. u # t /\ s # idOf[t]
      BY <1>4, <3>1 DEF NewSessionIds
    <3> QED
      BY <1>2, <2>1, <2>4, <3>1, <3>2 DEF CreateSession
  <2>7. ASSUME NEW c \in Conns, ForgetSession(c)
        PROVE  tokenToSession'[t] = idOf'[t] /\ sessions'[idOf'[t]] = t
    <3>1. pc'[c] = "done" /\ me[c].kind = "host" /\ DeleteSession(me[c].sid)
      BY <2>7 DEF ForgetSession, Goto, LocalsSet, LocalsSetAt, Closing
    <3>2. PICK u \in Tokens :
            /\ owner[u] = c /\ idOf[u] = me[c].sid /\ idOf[u] \in SessionIds
            /\ \A v \in Tokens : idOf[v] = idOf[u] => v = u
      BY <3>1, ClosesOwn
    <3>3. t # u /\ idOf[t] # idOf[u]
      BY <1>2, <2>1, <3>1, <3>2
    <3>4. sessions[idOf[u]] # None => sessions[idOf[u]] = u
      BY <3>2 DEF SessionsIndexed
    <3>5. /\ tokenToSession'[t] = tokenToSession[t]
          /\ sessions'[idOf[t]] = sessions[idOf[t]]
          /\ expired' = expired
      BY <3>1, <3>2, <3>3, <3>4, <2>1 DEF DeleteSession, store
    <3> QED
      BY <1>2, <2>1, <2>4, <3>5
  <2>8. CASE Expiry
    <3>1. t \notin expired
      BY <1>2, <2>8
      DEF Expiry, TimePasses, Expire, Cleanup, EvictSessionKey, EvictTokenKey
    <3>2. ASSUME NEW u \in Tokens, EvictSessionKey(u) \/ EvictTokenKey(u)
          PROVE  /\ tokenToSession'[t] = tokenToSession[t]
                 /\ sessions'[idOf[t]] = sessions[idOf[t]]
      <4>1. u \in expired /\ u # t
        BY <3>1, <3>2 DEF EvictSessionKey, EvictTokenKey
      <4>2. EvictSessionKey(u) => idOf[u] # idOf[t]
        BY <1>4, <4>1, <2>4, <3>1 DEF EvictSessionKey
      <4> QED
        BY <3>2, <4>1, <4>2, <2>1 DEF EvictSessionKey, EvictTokenKey
    <3>3. ASSUME NEW u \in Tokens, Expire(u)
          PROVE  UNCHANGED <<tokenToSession, sessions>>
      BY <3>3 DEF Expire
    <3>4. ~Cleanup
      BY DEF Cleanup
    <3> QED
      BY <2>8, <2>1, <2>4, <3>1, <3>2, <3>3, <3>4 DEF Expiry, TimePasses
  <2>9. CASE Restart
    BY <1>2, <2>1, <2>4, <2>9 DEF Restart, StoreRestart
  <2> QED
    BY <2>5, <2>6, <2>7, <2>8, <2>9, StoreSteps
<1> QED
  BY <1>3, <1>4

(* Only its host takes a pair out of the rooms. *)
LEMMA RoomStays ==
  ASSUME LifeInv, [Next]_vars, NEW t \in Tokens,
         owner[t] # None, sessionPeers[idOf[t]] = t,
         ~Restart, ~Unpublish(owner[t])
  PROVE  sessionPeers'[idOf[t]] = t
<1> USE DEF LifeInv, IsolationInv, TypeInv, TypeOK, StoreTypeOK
<1>1. idOf[t] \in SessionIds
  BY DEF OwnerInv, OwnersKnown
<1>2. ASSUME NEW c \in Conns, RegisterHost(c) PROVE sessionPeers'[idOf[t]] = t
  <2>1. /\ idOf[job[c].pair] = job[c].sid /\ job[c].pair \in Tokens
        /\ job[c].sid \in SessionIds
        /\ sessionPeers' = [sessionPeers EXCEPT ![job[c].sid] = job[c].pair]
    BY <1>2, Registers
  <2>2. job[c].sid = idOf[t] => job[c].pair = t
    BY <1>1, <2>1, StoreNoneAssumption DEF IdsUnique
  <2> QED
    BY <1>1, <2>1, <2>2
<1>3. ASSUME NEW c \in Conns, Unpublish(c) PROVE sessionPeers'[idOf[t]] = t
  <2>1. me[c].kind = "host" /\ sessionPeers' = [sessionPeers EXCEPT ![me[c].sid] = None]
    BY <1>3 DEF Unpublish, LocalsSet, LocalsSetAt, Closing
  <2>2. me[c].sid # idOf[t]
    BY <1>3, <2>1, ClosesOwn
  <2> QED
    BY <1>1, <2>1, <2>2
<1> QED
  BY <1>2, <1>3, RoomSteps

LEMMA RoomKeptStep ==
  ASSUME Backend = "redis", LifeInv, [Next]_vars PROVE RoomKept'
<1> USE DEF LifeInv, IsolationInv, TypeInv, TypeOK, StoreTypeOK
<1>1. HistoryKept
  BY HistoryIsKept
<1>2. SUFFICES ASSUME NEW t \in Tokens, NEW h, h = owner'[t], h # None, Hosting(h)'
               PROVE  sessionPeers'[idOf'[t]] = t
  BY DEF RoomKept, Hosting
<1>3. CASE owner[t] = None
  <2>1. PICK c \in Conns : HandleCreate(c)
    BY <1>2, <1>3, HistorySteps, JoinRecords
  <2>2. pc'[c] = "register" /\ h = c
    BY <1>2, <1>3, <2>1, CreateRecords DEF Goto
  <2> QED
    BY <1>2, <2>1, <2>2 DEF Hosting, HandleCreate, Reading
<1>4. CASE owner[t] # None
  <2>1. idOf[t] # None /\ idOf'[t] = idOf[t] /\ h = owner[t] /\ h \in Conns
    BY <1>1, <1>2, <1>4 DEF OwnerInv, OwnersKnown, HistoryKept
  <2>2. h \in asked /\ pc[h] \in HostPCs
    BY <1>4, <2>1 DEF OwnerInv, OwnersAsked
  <2>4. CASE RegisterHost(h)
    <3>1. job[h].pair \in Tokens /\ owner[job[h].pair] = h
          /\ idOf[job[h].pair] = job[h].sid /\ job[h].sid \in SessionIds
          /\ sessionPeers' = [sessionPeers EXCEPT ![job[h].sid] = job[h].pair]
      BY <2>1, <2>4, Registers
    <3>2. job[h].pair = t
      BY <1>4, <2>1, <3>1 DEF OwnerInv, OneToken
    <3> QED
      BY <2>1, <3>1, <3>2
  <2>5. ASSUME Hosting(h), ~Restart, ~Unpublish(h)
        PROVE  sessionPeers'[idOf'[t]] = t
    <3>1. sessionPeers[idOf[t]] = t
      BY <1>4, <2>1, <2>5 DEF RoomKept
    <3>2. ~Unpublish(owner[t])
      BY <2>1, <2>5
    <3> QED
      BY <1>4, <2>1, <2>5, <3>1, <3>2, RoomStays
  <2>6. ~Restart
    BY <1>2, <2>1 DEF Restart, Hosting, Nobody
  <2>7. ~Unpublish(h)
    BY <1>2, <2>1 DEF Unpublish, Goto, Hosting
  <2>8. Hosting(h) \/ RegisterHost(h)
    <3>1. CASE pc'[h] = pc[h] /\ me'[h] = me[h]
      BY <1>2, <3>1 DEF Hosting
    <3>2. CASE ReplyCreated(h) \/ CloseClients(h)
      BY <3>2 DEF Hosting, ReplyCreated, CloseClients, Leaving
    <3>3. CASE WritePanics(h) /\ pc[h] \in {"reply", "read"} /\ me'[h] = me[h]
               /\ pc'[h] = "read"
      BY <1>2, <3>3 DEF Hosting
    <3>4. pc'[h] \notin {"done", "forget"}
      BY <1>2 DEF Hosting
    <3> QED
      BY <2>1, <2>2, <2>6, <3>1, <3>2, <3>3, <3>4, HostMoves
  <2> QED
    BY <2>4, <2>5, <2>6, <2>7, <2>8
<1> QED
  BY <1>3, <1>4

(* A goroutine goes on serving its pair until it takes it away. *)
LEMMA HostingStays ==
  ASSUME TypeInv, [Next]_vars, NEW c \in Conns, c \in asked, pc[c] \in HostPCs,
         Hosting(c), ~Restart, ~Unpublish(c)
  PROVE  \/ pc'[c] = "reply"
         \/ me'[c].kind = "host" /\ pc'[c] \in {"read", "unpublish"}
         \/ c \in collided'
<1>1. CASE pc'[c] = pc[c] /\ me'[c] = me[c]
  BY <1>1 DEF Hosting
<1>2. ~LeaveSession(c) /\ ~LeaveUnnamed(c) /\ ~ForgetSession(c) /\ ~RegisterHost(c)
  BY DEF Hosting, LeaveSession, LeaveUnnamed, ForgetSession, RegisterHost, Leaving
<1>3. CloseClients(c) => me[c].kind = "host"
  BY DEF CloseClients
<1> QED
  BY <1>1, <1>2, <1>3, HostMoves

LEMMA HostPresentStep ==
  ASSUME Backend = "redis", LifeInv, [Next]_vars PROVE HostPresent'
<1> USE DEF LifeInv, IsolationInv, TypeInv, TypeOK, StoreTypeOK
<1>1. HistoryKept /\ collided \subseteq collided'
  BY HistoryIsKept, AskedKept
<1>2. CASE Restart
  BY <1>2 DEF Restart, HostPresent
<1>3. ASSUME ~Restart, NEW s \in SessionIds, NEW p, p = sessionPeers[s],
             p # None, sessionPeers'[s] = p
      PROVE  \/ pc'[owner'[p]] = "reply"
             \/ /\ me'[owner'[p]].kind = "host"
                /\ pc'[owner'[p]] \in {"read", "unpublish"}
             \/ owner'[p] \in collided'
  <2>1. p \in Tokens /\ idOf[p] = s /\ (Hosting(owner[p]) \/ owner[p] \in collided)
    BY <1>3 DEF RoomsIndexed, HostPresent
  <2>2. PICK c \in Conns : c = owner[p] /\ c # None /\ owner'[p] = c
    BY <1>1, <2>1, StoreNoneAssumption DEF OwnerInv, OwnersKnown, HistoryKept
  <2>3. c \in asked /\ pc[c] \in HostPCs
    BY <2>1, <2>2 DEF OwnerInv, OwnersAsked
  <2>4. CASE Hosting(c)
    <3>1. ~Unpublish(c)
      <4> SUFFICES ASSUME Unpublish(c) PROVE FALSE
        OBVIOUS
      <4>1. /\ me[c].kind = "host"
            /\ sessionPeers' = [sessionPeers EXCEPT ![me[c].sid] = None]
        BY DEF Unpublish, LocalsSet, LocalsSetAt, Closing
      <4>2. me[c].sid = s
        BY <2>1, <2>2, <4>1, ClosesOwn
      <4> QED
        BY <1>3, <4>1, <4>2
    <3> QED
      BY <1>3, <2>2, <2>3, <2>4, <3>1, HostingStays
  <2>5. CASE ~Hosting(c)
    BY <1>1, <2>1, <2>2, <2>5
  <2> QED
    BY <2>4, <2>5
<1>4. ASSUME NEW c \in Conns, RegisterHost(c), NEW s \in SessionIds,
             sessionPeers'[s] # sessionPeers[s]
      PROVE  pc'[owner'[sessionPeers'[s]]] = "reply"
  <2>1. sessionPeers'[s] = job[c].pair /\ owner'[job[c].pair] = c
    BY <1>4, Registers DEF RegisterHost, history
  <2>2. pc'[c] = "reply"
    BY <1>4 DEF RegisterHost, Goto
  <2> QED
    BY <2>1, <2>2
<1>5. ASSUME NEW c \in Conns, Unpublish(c)
      PROVE  \A s \in SessionIds : sessionPeers'[s] \in {sessionPeers[s], None}
  BY <1>5 DEF Unpublish
<1>6. CASE ~Restart
  <2>1. ASSUME NEW s \in SessionIds, sessionPeers'[s] # None
        PROVE  \/ pc'[owner'[sessionPeers'[s]]] = "reply"
               \/ /\ me'[owner'[sessionPeers'[s]]].kind = "host"
                  /\ pc'[owner'[sessionPeers'[s]]] \in {"read", "unpublish"}
               \/ owner'[sessionPeers'[s]] \in collided'
    <3>1. CASE sessionPeers'[s] = sessionPeers[s]
      BY <1>3, <1>6, <2>1, <3>1
    <3>2. CASE sessionPeers'[s] # sessionPeers[s]
      BY <1>4, <1>5, <1>6, <2>1, <3>2, RoomSteps
    <3> QED
      BY <3>1, <3>2
  <2> QED
    BY <2>1 DEF HostPresent, Hosting
<1> QED
  BY <1>2, <1>6

(* A client stays inside a pair until it leaves it itself. *)
LEMMA InsideStays ==
  ASSUME IsolationInv, [Next]_vars, NEW c \in Conns, NEW p \in Tokens,
         NEW k \in ClientIds, c \in asked, idOf[p] # None, Inside(c, p, k),
         ~Restart, ~LeaveSession(c)
  PROVE  Inside(c, p, k)' \/ c \in collided'
<1> USE DEF IsolationInv, TypeInv, TypeOK
<1>1. idOf'[p] = idOf[p]
  BY HistoryIsKept DEF HistoryKept
<1>2. CASE pc'[c] = pc[c] /\ job'[c] = job[c] /\ me'[c] = me[c]
  BY <1>1, <1>2 DEF Inside
<1>3. ~Connect(c) /\ ~HandleCreate(c) /\ ~HandleJoin(c)
  BY DEF Inside, Connect, HandleCreate, HandleJoin
<1>4. CASE WritePanics(c)
  BY <1>4 DEF WritePanics
<1>5. CASE NotifyHost(c)
  BY <1>1, <1>5 DEF NotifyHost, Goto, Inside
<1>6. CASE Respond(c)
  BY <1>1, <1>6 DEF Respond, Goto, Inside
<1>7. CASE FlushCandidate(c)
  <2>1. pc' = pc /\ pc[c] = "flush" /\ job[c].pair = p /\ job[c].cid = k
    BY <1>7 DEF FlushCandidate, Inside
  <2>2. job'[c].pair = job[c].pair /\ job'[c].cid = job[c].cid
    BY <1>7 DEF FlushCandidate, Locals
  <2> QED
    BY <2>1, <2>2 DEF Inside
<1>8. CASE JoinReturns(c)
  <2>1. pc[c] = "flush" /\ job[c].pair = p /\ job[c].cid = k
    BY <1>8 DEF JoinReturns, Inside
  <2>2. job[c].sid = idOf[p]
    BY <2>1 DEF HandlersMatch, HandlersMatchAt, Joining, Entering
  <2>3. /\ me'[c] = [kind |-> "client", sid |-> job[c].sid, cid |-> job[c].cid]
        /\ pc'[c] = "read"
    BY <1>8 DEF JoinReturns, Return, Goto
  <2> QED
    BY <1>1, <2>1, <2>2, <2>3 DEF Inside
<1>9. /\ ~RegisterHost(c) /\ ~ReplyCreated(c) /\ ~LoadPeers(c) /\ ~EnterPeers(c)
      /\ ~CloseClients(c) /\ ~Unpublish(c) /\ ~ForgetSession(c) /\ ~LeaveUnnamed(c)
  BY DEF Inside, RegisterHost, ReplyCreated, LoadPeers, EnterPeers, CloseClients,
         Unpublish, ForgetSession, LeaveUnnamed, Leaving
<1> QED
  BY <1>2, <1>3, <1>4, <1>5, <1>6, <1>7, <1>8, <1>9, MovesAlone DEF Handler

(* A client that leaves takes its entry out of the published pair. *)
LEMMA LeavesNothing ==
  ASSUME IsolationInv, NEW c \in Conns, NEW s \in SessionIds, NEW p \in Tokens,
         NEW k \in ClientIds, sessionPeers[s] = p, Inside(c, p, k), LeaveSession(c)
  PROVE  peers'[p].clients[k] = None
<1> USE DEF IsolationInv, TypeInv, TypeOK
<1>1. p # None
  BY StoreNoneAssumption
<1>2. me[c].sid = s /\ me[c].cid = k
  BY <1>1 DEF Inside, LeaveSession, Leaving, RoomsIndexed
<1>3. peers[p] \in Peers /\ peers[p].clients \in [ClientIds -> Conns \cup {None}]
  BY DEF Peers
<1>4. peers'[p] = PeerPair(peers[p].host, [peers[p].clients EXCEPT ![k] = None],
                           peers[p].queued)
  BY <1>1, <1>2 DEF LeaveSession
<1> QED
  BY <1>3, <1>4, PairFields

LEMMA ClientsPresentStep ==
  ASSUME LifeInv, [Next]_vars PROVE ClientsPresent'
<1> USE DEF LifeInv, IsolationInv, TypeInv, TypeOK
<1>1. CASE Restart
  BY <1>1 DEF Restart, ClientsPresent
<1>2. ASSUME ~Restart, NEW s \in SessionIds, NEW k \in ClientIds, NEW p, NEW c,
             sessionPeers'[s] = p, p # None, peers'[p].clients[k] = c, c # None
      PROVE  Inside(c, p, k)' \/ c \in collided'
  <2>1. p \in Tokens
    BY <1>2, TypeInvStep
  <2>2. ASSUME NEW d \in Conns, EnterPeers(d), job[d].pair = p, job[d].cid = k
        PROVE  Inside(c, p, k)'
    <3>1. peers[p].clients \in [ClientIds -> Conns \cup {None}]
      BY <2>1 DEF Peers
    <3>2. peers'[p] = PeerPair(peers[p].host, [peers[p].clients EXCEPT ![k] = d],
                               peers[p].queued)
      BY <2>1, <2>2 DEF EnterPeers
    <3>3. c = d
      BY <1>2, <3>1, <3>2, PairFields
    <3>4. pc'[d] = "notify" /\ job'[d].pair = p /\ job'[d].cid = k
      BY <2>2 DEF EnterPeers, Goto, Locals
    <3> QED
      BY <3>3, <3>4 DEF Inside
  <2>3. ASSUME \A d \in Conns : EnterPeers(d) => ~(job[d].pair = p /\ job[d].cid = k)
        PROVE  peers[p].clients[k] = c
    <3>1. ASSUME NEW d \in Conns, EnterPeers(d)
          PROVE  peers[p].clients[k] = c
      <4>1. job[d].pair \in Tokens /\ job[d].cid \in ClientIds
        BY <3>1 DEF EnterPeers, LocalsSet, LocalsSetAt, Joining, Entering
      <4>2. CASE job[d].pair # p
        BY <1>2, <2>1, <3>1, <4>1, <4>2 DEF EnterPeers
      <4>3. CASE job[d].pair = p
        <5>1. peers[p].clients \in [ClientIds -> Conns \cup {None}]
          BY <2>1 DEF Peers
        <5>2. peers'[p] = PeerPair(peers[p].host,
                                   [peers[p].clients EXCEPT ![job[d].cid] = d],
                                   peers[p].queued)
          BY <2>1, <3>1, <4>3 DEF EnterPeers
        <5> QED
          BY <1>2, <2>3, <3>1, <4>1, <4>3, <5>1, <5>2, PairFields
      <4> QED
        BY <4>2, <4>3
    <3>2. CASE \A q \in Tokens, i \in ClientIds :
                 peers'[q].clients[i] \in {peers[q].clients[i], None}
      BY <1>2, <2>1, <3>2
    <3> QED
      BY <3>1, <3>2, ClientSteps
  <2>4. sessionPeers[s] = p
    <3>1. ASSUME NEW d \in Conns, RegisterHost(d), sessionPeers[s] # p
          PROVE  FALSE
      <4>1. p = job[d].pair
        BY <1>2, <3>1, Registers
      <4>2. peers'[p] = PeerPair(d, NoClients, {})
        BY <2>1, <3>1, <4>1, Registers
      <4> QED
        BY <1>2, <4>2, PairFields DEF NoClients
    <3>2. ASSUME NEW d \in Conns, Unpublish(d), sessionPeers[s] # p
          PROVE  FALSE
      BY <1>2, <3>2 DEF Unpublish
    <3> QED
      BY <1>2, <3>1, <3>2, RoomSteps
  <2>5. CASE peers[p].clients[k] = c
    <3>1. c \in Conns /\ joins[k] = [conn |-> c, tok |-> p] /\ joins[k] # None
      <4>1. c \in Conns
        BY <1>2, <2>1, <2>5 DEF Peers
      <4> QED
        BY <1>2, <2>1, <2>5, <4>1, NoneIsNoJoin DEF JoinsItsTokensHost, Join
    <3>2. c \in asked
      BY <3>1 DEF OwnerInv, JoinersAsked
    <3>3. idOf[p] # None
      BY <1>2, <2>4, StoreNoneAssumption DEF RoomsIndexed
    <3>4. Inside(c, p, k) \/ c \in collided
      BY <1>2, <2>4, <2>5 DEF ClientsPresent
    <3>5. CASE Inside(c, p, k)
      <4>1. ~LeaveSession(c)
        BY <1>2, <2>1, <2>4, <3>1, <3>5, LeavesNothing
      <4> QED
        BY <1>2, <2>1, <3>1, <3>2, <3>3, <3>5, <4>1, InsideStays
    <3> QED
      BY <3>4, <3>5, AskedKept
  <2> QED
    BY <2>2, <2>3, <2>5
<1>3. CASE ~Restart
  BY <1>2, <1>3 DEF ClientsPresent, Inside
<1> QED
  BY <1>1, <1>3

LEMMA LifeInit == Init => LifeInv
<1> SUFFICES ASSUME Init PROVE LifeInv
  OBVIOUS
<1>1. IsolationInv
  BY IsolationInit
<1>2. OwnerInv
  BY DEF Init, StoreInit, OwnerInv, OwnersKnown, OwnersAsked, OneToken, JoinersAsked
<1>3. SessionsIndexed /\ SessionKept /\ RoomKept /\ HostPresent /\ ClientsPresent
  BY DEF Init, StoreInit, SessionsIndexed, SessionKept, RoomKept, HostPresent,
         ClientsPresent
<1> QED
  BY <1>1, <1>2, <1>3 DEF LifeInv

LEMMA LifeStep ==
  ASSUME Backend = "redis" PROVE LifeInv /\ [Next]_vars => LifeInv'
<1> SUFFICES ASSUME LifeInv, [Next]_vars PROVE LifeInv'
  OBVIOUS
<1>1. IsolationInv'
  BY IsolationStep DEF LifeInv
<1> QED
  BY <1>1, OwnerInvStep, SessionsIndexedStep, SessionKeptStep, RoomKeptStep,
     HostPresentStep, ClientsPresentStep
  DEF LifeInv

(* The token of a host that is being served leads to that host's own pair  *)
(* until it expires: no create, join, cleanup or expiry of anybody else    *)
(* (handleCreate, the deferred cleanup, RedisStore) takes the session away *)
(* from under it.                                                          *)
THEOREM LiveHosts ==
  ASSUME Backend = "redis" PROVE Spec => []LiveHostIsReachable
<1>1. LifeInv => LiveHostIsReachable
  <2> SUFFICES ASSUME LifeInv, NEW t \in Tokens, owner[t] # None, t \notin expired,
                      me[owner[t]].kind = "host", Reading(owner[t])
               PROVE  Resolves(t) /\ sessionPeers[tokenToSession[t]] = t
    BY DEF LiveHostIsReachable
  <2>1. idOf[t] # None /\ pc[owner[t]] = "read"
    BY DEF LifeInv, OwnerInv, OwnersKnown, Reading
  <2>2. tokenToSession[t] = idOf[t] /\ sessions[idOf[t]] = t
    BY <2>1 DEF LifeInv, SessionKept
  <2>3. sessionPeers[idOf[t]] = t
    BY <2>1 DEF LifeInv, RoomKept, Hosting
  <2> QED
    BY <2>1, <2>2, <2>3, StoreNoneAssumption DEF Resolves
<1>2. LifeInv /\ [Next]_vars => LifeInv'
  BY LifeStep
<1> QED
  BY <1>1, <1>2, LifeInit, PTL DEF Spec

(* A token that still leads a client to a pair leads it to one whose host  *)
(* is still served, or whose create handler panicked on its reply: no      *)
(* departure of a host (the deferred cleanup) leaves a joinable session    *)
(* without one.                                                            *)
THEOREM JoinableHosts ==
  ASSUME Backend = "redis" PROVE Spec => []JoinableHasHost
<1>1. LifeInv => JoinableHasHost
  <2> SUFFICES ASSUME LifeInv, NEW t \in Tokens, Joinable(t)
               PROVE  LET h == peers[sessionPeers[tokenToSession[t]]].host
                      IN  pc[h] # "done" \/ h \in collided
    BY DEF JoinableHasHost
  <2> DEFINE s == tokenToSession[t]
  <2>1. s \in SessionIds /\ sessionPeers[s] # None
    BY DEF Joinable, Resolves, LifeInv, IsolationInv, TypeInv, TypeOK, StoreTypeOK
  <2>2. peers[sessionPeers[s]].host = owner[sessionPeers[s]]
    BY <2>1 DEF LifeInv, IsolationInv, RoomsIndexed
  <2> QED
    BY <2>1, <2>2 DEF LifeInv, HostPresent, Hosting
<1>2. LifeInv /\ [Next]_vars => LifeInv'
  BY LifeStep
<1> QED
  BY <1>1, <1>2, LifeInit, PTL DEF Spec

(* A published pair holds no client whose goroutine has ended, save one    *)
(* that panicked in its join: the entry a join makes under peerPair.mu is  *)
(* taken out by that goroutine's own cleanup, which finds it by the client *)
(* id and the session id the join gave it.                                 *)
THEOREM NoGhosts ==
  ASSUME Backend = "redis" PROVE Spec => []NoGhostClient
<1>1. LifeInv => NoGhostClient
  BY DEF LifeInv, NoGhostClient, ClientsPresent, Inside
<1>2. LifeInv /\ [Next]_vars => LifeInv'
  BY LifeStep
<1> QED
  BY <1>1, <1>2, LifeInit, PTL DEF Spec
=============================================================================
