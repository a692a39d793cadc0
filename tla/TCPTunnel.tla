----------------------------- MODULE TCPTunnel -----------------------------
(***************************************************************************)
(* TCPProxy (internal/proxy/tcp.go) at both ends of a tunnel: the client   *)
(* accepts local connections, the host dials the target for each of them,  *)
(* and "connect", "data", "disconnect" and "error" messages travel through *)
(* the data channel.  Each goroutine of the proxy takes one action per     *)
(* message: the accept loop, forwardFromLocal and handleClientMessages at  *)
(* the client; StartHost, handleConnectionLifecycle and forwardFromTarget  *)
(* at the host.                                                            *)
(*                                                                         *)
(* A message here is one that fits in a frame (module DataChannel says     *)
(* what happens to larger ones), the connection stays up and the queues of *)
(* the peers have room.  The data channels are unordered (peer.go:189), so *)
(* each direction is a set of messages, any of which may come next; none   *)
(* is sent twice.  The n-th piece of data an application writes is the     *)
(* number n.                                                               *)
(***************************************************************************)
EXTENDS Naturals, Sequences

CONSTANTS Streams,  \* request ids, one per local connection
          MaxData,  \* bound: pieces of data the two ends of a stream write
          ChanCap   \* capacity of a request's channel at the host

ASSUME TunnelAssumption == MaxData \in Nat /\ ChanCap \in Nat \ {0}

VARIABLES
  \* the client
  local,        \* the local connection, as the proxy sees it
  localActive,  \* activeConns
  localReader,  \* forwardFromLocal
  written,      \* data read from the local connection so far
  localDeaf,    \* applications that read no more: a write to them blocks
  stuck,        \* the stream handleClientMessages is blocked on, if any
  \* the host
  reqChans,     \* the channel of each request
  life,         \* handleConnectionLifecycle
  target,       \* the connection to the target
  hostActive,   \* activeConns
  targetReader, \* forwardFromTarget
  answered,     \* data read from the target so far
  targetDeaf,   \* targets that read no more
  host,         \* "serving"; "stopping" after Stop; "stopped"
  \* the channel, and what has come through it
  toHost, toClient,
  gotTarget, gotLocal,  \* data written to the target, to the local connection
  lateToHost, lateToClient,  \* data that a later message overtook
  discarded,            \* messages StartHost had no channel or no room for
  closedBy              \* why the host closed the connection to the target

client  == <<local, localActive, localReader, written, localDeaf, stuck>>
hostTbl == <<reqChans, life>>
remote  == <<target, hostActive, targetReader, answered, targetDeaf>>
got     == <<gotTarget, gotLocal, lateToHost, lateToClient, discarded, closedBy>>
vars    == <<client, hostTbl, remote, host, toHost, toClient, got>>

-----------------------------------------------------------------------------
Msg(type, r, n) == [type |-> type, request |-> r, data |-> n]

Message ==
  [type : {"data"}, request : Streams, data : 1 .. MaxData]
    \cup [type : {"connect", "disconnect", "error"}, request : Streams, data : {0}]

(* A socket: not there, open, its application finished writing but still   *)
(* reading, its application gone, closed by the proxy.                     *)
Sockets == {"none", "open", "half", "gone", "closed"}

TypeOK ==
  /\ local \in [Streams -> Sockets]
  /\ target \in [Streams -> Sockets]
  /\ localActive \subseteq Streams
  /\ hostActive \subseteq Streams
  /\ localReader \in [Streams -> {"off", "on", "over"}]
  /\ targetReader \in [Streams -> {"off", "on", "over"}]
  /\ written \in [Streams -> 0 .. MaxData]
  /\ answered \in [Streams -> 0 .. MaxData]
  /\ localDeaf \subseteq Streams /\ targetDeaf \subseteq Streams
  /\ stuck = {} \/ \E r \in Streams : stuck = {r}
  /\ reqChans \in [Streams -> Seq(Message)]
  /\ \A r \in Streams : Len(reqChans[r]) <= ChanCap
  /\ life \in [Streams -> {"off", "wait", "dial", "run", "stuck", "over"}]
  /\ host \in {"serving", "stopping", "stopped"}
  /\ toHost \subseteq Message
  /\ toClient \subseteq Message
  /\ gotTarget \in [Streams -> Seq(1 .. MaxData)]
  /\ gotLocal \in [Streams -> Seq(1 .. MaxData)]
  /\ lateToHost \subseteq Message
  /\ lateToClient \subseteq Message
  /\ discarded \subseteq Message
  /\ closedBy \in [Streams -> {"nobody", "disconnect", "write", "Stop"}]

Init ==
  /\ local = [r \in Streams |-> "none"]
  /\ target = [r \in Streams |-> "none"]
  /\ localActive = {} /\ hostActive = {}
  /\ localReader = [r \in Streams |-> "off"]
  /\ targetReader = [r \in Streams |-> "off"]
  /\ written = [r \in Streams |-> 0]
  /\ answered = [r \in Streams |-> 0]
  /\ localDeaf = {} /\ targetDeaf = {}
  /\ stuck = {}
  /\ reqChans = [r \in Streams |-> << >>]
  /\ life = [r \in Streams |-> "off"]
  /\ host = "serving"
  /\ toHost = {} /\ toClient = {}
  /\ gotTarget = [r \in Streams |-> << >>]
  /\ gotLocal = [r \in Streams |-> << >>]
  /\ lateToHost = {} /\ lateToClient = {}
  /\ discarded = {}
  /\ closedBy = [r \in Streams |-> "nobody"]

-----------------------------------------------------------------------------
(* The bound on what the applications say. *)
MayTalk(r) == written[r] + answered[r] < MaxData

(* dcManager.SendMessage at either end. *)
SendHost(m)   == toHost' = toHost \cup {m}
SendClient(m) == toClient' = toClient \cup {m}

(* The data of the network q that was sent before m, to the same stream. *)
SentBefore(m, q) ==
  {k \in q : /\ k.request = m.request /\ k.type = "data"
             /\ \/ m.type = "data" /\ k.data < m.data
                \/ m.type = "disconnect"}

-----------------------------------------------------------------------------
(* The applications. *)
LocalApp(r) ==
  /\ local[r] \in {"open", "half"}
  /\ \E s \in {"half", "gone"} : s # local[r] /\ local' = [local EXCEPT ![r] = s]
  /\ UNCHANGED <<localActive, localReader, written, localDeaf, stuck, hostTbl,
                 remote, host, toHost, toClient, got>>

TargetApp(r) ==
  /\ target[r] \in {"open", "half"}
  /\ \E s \in {"half", "gone"} : s # target[r] /\ target' = [target EXCEPT ![r] = s]
  /\ UNCHANGED <<client, hostTbl, hostActive, targetReader, answered, targetDeaf,
                 host, toHost, toClient, got>>

(* An application reads no more and the buffers of its socket are full.    *)
(* One that only pauses is a write that returns late.                      *)
LocalStopsReading(r) ==
  /\ local[r] \in {"open", "half"} /\ r \notin localDeaf
  /\ localDeaf' = localDeaf \cup {r}
  /\ UNCHANGED <<local, localActive, localReader, written, stuck, hostTbl,
                 remote, host, toHost, toClient, got>>

TargetStopsReading(r) ==
  /\ target[r] \in {"open", "half"} /\ r \notin targetDeaf
  /\ targetDeaf' = targetDeaf \cup {r}
  /\ UNCHANGED <<client, hostTbl, target, hostActive, targetReader, answered,
                 host, toHost, toClient, got>>

-----------------------------------------------------------------------------
(* StartClient: a local connection is accepted. *)
Accept(r) ==
  /\ local[r] = "none"
  /\ local' = [local EXCEPT ![r] = "open"]
  /\ localActive' = localActive \cup {r}
  /\ SendHost(Msg("connect", r, 0))
  /\ localReader' = [localReader EXCEPT ![r] = "on"]
  /\ UNCHANGED <<written, localDeaf, stuck, hostTbl, remote, host, toClient, got>>

(* Fault (this definition and the others so marked are slips the code does *)
(* not make; the specification does not use them): the read buffer is used *)
(* again while a message still holds it.                                   *)
ForwardStaleBuffer(r) ==
  /\ localReader[r] = "on"
  /\ local[r] = "open"
  /\ MayTalk(r)
  /\ written' = [written EXCEPT ![r] = @ + 1]
  /\ SendHost(Msg("data", r, IF written[r] = 0 THEN 1 ELSE written[r]))
  /\ UNCHANGED <<local, localActive, localReader, localDeaf, stuck, hostTbl,
                 remote, host, toClient, got>>

(* forwardFromLocal: data, or the end of it.  The connection itself is not *)
(* closed here.                                                            *)
ForwardLocalData(r) ==
  /\ localReader[r] = "on"
  /\ local[r] = "open"
  /\ MayTalk(r)
  /\ written' = [written EXCEPT ![r] = @ + 1]
  /\ SendHost(Msg("data", r, written[r] + 1))
  /\ UNCHANGED <<local, localActive, localReader, localDeaf, stuck, hostTbl,
                 remote, host, toClient, got>>

(* Fault: the end of the local connection is not announced. *)
ForwardLocalEndSilently(r) ==
  /\ localReader[r] = "on"
  /\ local[r] # "open"
  /\ localActive' = localActive \ {r}
  /\ localReader' = [localReader EXCEPT ![r] = "over"]
  /\ UNCHANGED <<local, written, localDeaf, stuck, hostTbl, remote, host, toHost,
                 toClient, got>>

ForwardLocalEnd(r) ==
  /\ localReader[r] = "on"
  /\ local[r] # "open"
  /\ SendHost(Msg("disconnect", r, 0))
  /\ localActive' = localActive \ {r}
  /\ localReader' = [localReader EXCEPT ![r] = "over"]
  /\ UNCHANGED <<local, written, localDeaf, stuck, hostTbl, remote, host, toClient,
                 got>>

DeleteWithoutClose(r) ==  \* fault
  /\ localActive' = localActive \ {r}
  /\ UNCHANGED local

(* handleDisconnect: LoadAndDelete, then Close. *)
HandleDisconnect(r) ==
  /\ localActive' = localActive \ {r}
  /\ local' = IF r \in localActive THEN [local EXCEPT ![r] = "closed"] ELSE local

(* conn.Write, which has no deadline: it blocks while the application is   *)
(* there and reads no more; it succeeds unless the proxy closed the        *)
(* connection itself; and it may fail once the application is gone.        *)
Writable(s, deaf) == s = "gone" \/ (s \in {"open", "half"} /\ ~deaf)
Blocks(s, deaf)   == s \in {"open", "half"} /\ deaf
Broken(s)         == s \in {"gone", "closed"}

(* handleClientMessages, one goroutine for all streams; data for a         *)
(* connection that is not active is dropped.                               *)
ClientReceive(m) ==
  LET r == m.request
  IN  /\ stuck = {}
      /\ toClient' = toClient \ {m}
      /\ lateToClient' = lateToClient \cup SentBefore(m, toClient)
      /\ \/ /\ m.type = "data"
            /\ r \in localActive /\ Writable(local[r], r \in localDeaf)
            /\ gotLocal' = [gotLocal EXCEPT ![r] = Append(@, m.data)]
            /\ UNCHANGED <<local, localActive, stuck>>
         \/ /\ m.type = "data"
            /\ r \in localActive /\ Blocks(local[r], r \in localDeaf)
            /\ stuck' = {r}
            /\ UNCHANGED <<local, localActive, gotLocal>>
         \/ /\ m.type = "data"
            /\ r \in localActive /\ Broken(local[r])
            /\ HandleDisconnect(r)
            /\ UNCHANGED <<gotLocal, stuck>>
         \/ /\ m.type = "data"
            /\ r \notin localActive
            /\ UNCHANGED <<local, localActive, gotLocal, stuck>>
         \/ /\ m.type \in {"disconnect", "error"}
            /\ HandleDisconnect(r)
            /\ UNCHANGED <<gotLocal, stuck>>
      /\ UNCHANGED <<localReader, written, localDeaf, hostTbl, remote, host, toHost,
                     gotTarget, lateToHost, discarded, closedBy>>

(* The blocked write of handleData fails. *)
ClientUnblocks(r) ==
  /\ r \in stuck /\ Broken(local[r])
  /\ stuck' = {}
  /\ HandleDisconnect(r)
  /\ UNCHANGED <<localReader, written, localDeaf, hostTbl, remote, host, toHost,
                 toClient, got>>

-----------------------------------------------------------------------------
(* reqChans has a channel for a request as long as its lifecycle lives,    *)
(* and a full channel loses the message.                                   *)
HasChan(r) == life[r] \in {"wait", "dial", "run", "stuck"}

AlwaysRoom(r) == HasChan(r)  \* fault

HasRoom(r) == HasChan(r) /\ Len(reqChans[r]) < ChanCap

(* StartHost: a connect starts a lifecycle; every message goes into the    *)
(* channel of its request.                                                 *)
HostReceive(m) ==
  LET r == m.request
  IN  /\ host # "stopped"
      /\ toHost' = toHost \ {m}
      /\ lateToHost' = lateToHost \cup SentBefore(m, toHost)
      /\ \/ /\ m.type = "connect"
            /\ reqChans' = [reqChans EXCEPT ![r] = <<m>>]
            /\ life' = [life EXCEPT ![r] = "wait"]
            /\ UNCHANGED discarded
         \/ /\ m.type # "connect"
            /\ HasRoom(r)
            /\ reqChans' = [reqChans EXCEPT ![r] = Append(@, m)]
            /\ UNCHANGED <<life, discarded>>
         \/ /\ m.type # "connect"
            /\ ~HasRoom(r)
            /\ discarded' = discarded \cup {m}
            /\ UNCHANGED <<reqChans, life>>
      /\ UNCHANGED <<client, remote, host, toClient, gotTarget, gotLocal,
                     lateToClient, closedBy>>

(* handleConnectionLifecycle takes the connect, then dials the target. *)
StartDial(r) ==
  /\ life[r] = "wait"
  /\ reqChans[r] # << >>
  /\ reqChans' = [reqChans EXCEPT ![r] = Tail(@)]
  /\ life' = [life EXCEPT ![r] = "dial"]
  /\ UNCHANGED <<client, remote, host, toHost, toClient, got>>

DialFails(r) ==
  /\ life[r] = "dial"
  /\ SendClient(Msg("error", r, 0))
  /\ reqChans' = [reqChans EXCEPT ![r] = << >>]
  /\ life' = [life EXCEPT ![r] = "over"]
  /\ UNCHANGED <<client, remote, host, toHost, got>>

DialOk(r) ==
  /\ life[r] = "dial"
  /\ target' = [target EXCEPT ![r] = "open"]
  /\ hostActive' = hostActive \cup {r}
  /\ targetReader' = [targetReader EXCEPT ![r] = "on"]
  /\ life' = [life EXCEPT ![r] = "run"]
  /\ UNCHANGED <<client, reqChans, answered, targetDeaf, host, toHost, toClient,
                 got>>

(* The lifecycle returns; its deferred calls close and forget everything. *)
Finish(r, why) ==
  /\ target' = [target EXCEPT ![r] = "closed"]
  /\ closedBy' = IF closedBy[r] = "nobody" THEN [closedBy EXCEPT ![r] = why] ELSE closedBy
  /\ hostActive' = hostActive \ {r}
  /\ reqChans' = [reqChans EXCEPT ![r] = << >>]
  /\ life' = [life EXCEPT ![r] = "over"]

WriteTarget(r) ==
  /\ life[r] = "run"
  /\ reqChans[r] # << >> /\ Head(reqChans[r]).type = "data"
  /\ \/ /\ Writable(target[r], r \in targetDeaf)
        /\ gotTarget' = [gotTarget EXCEPT ![r] = Append(@, Head(reqChans[r]).data)]
        /\ reqChans' = [reqChans EXCEPT ![r] = Tail(@)]
        /\ UNCHANGED <<life, target, hostActive, closedBy>>
     \/ /\ Blocks(target[r], r \in targetDeaf)
        /\ reqChans' = [reqChans EXCEPT ![r] = Tail(@)]
        /\ life' = [life EXCEPT ![r] = "stuck"]
        /\ UNCHANGED <<target, hostActive, gotTarget, closedBy>>
     \/ /\ Broken(target[r])
        /\ Finish(r, "write")
        /\ UNCHANGED gotTarget
  /\ UNCHANGED <<client, targetReader, answered, targetDeaf, host, toHost, toClient,
                 gotLocal, lateToHost, lateToClient, discarded>>

(* The blocked write fails. *)
WriteUnblocks(r) ==
  /\ life[r] = "stuck" /\ Broken(target[r])
  /\ Finish(r, "write")
  /\ UNCHANGED <<client, targetReader, answered, targetDeaf, host, toHost, toClient,
                 gotTarget, gotLocal, lateToHost, lateToClient, discarded>>

(* Fault: a disconnect does not wait for the data queued before it. *)
EndOfRequestEager(r) ==
  /\ life[r] = "run"
  /\ \/ /\ \E i \in DOMAIN reqChans[r] : reqChans[r][i].type = "disconnect"
        /\ Finish(r, "disconnect")
     \/ /\ reqChans[r] = << >> /\ host = "stopped"
        /\ Finish(r, "Stop")
  /\ UNCHANGED <<client, targetReader, answered, targetDeaf, host, toHost, toClient,
                 gotTarget, gotLocal, lateToHost, lateToClient, discarded>>

EndOfRequest(r) ==
  /\ life[r] = "run"
  /\ \/ /\ reqChans[r] # << >> /\ Head(reqChans[r]).type = "disconnect"
        /\ Finish(r, "disconnect")
     \/ /\ reqChans[r] = << >> /\ host = "stopped"
        /\ Finish(r, "Stop")
  /\ UNCHANGED <<client, targetReader, answered, targetDeaf, host, toHost, toClient,
                 gotTarget, gotLocal, lateToHost, lateToClient, discarded>>

(* forwardFromTarget: data, or the end of it. *)
ForwardTargetData(r) ==
  /\ targetReader[r] = "on"
  /\ target[r] = "open"
  /\ MayTalk(r)
  /\ answered' = [answered EXCEPT ![r] = @ + 1]
  /\ SendClient(Msg("data", r, answered[r] + 1))
  /\ UNCHANGED <<client, hostTbl, target, hostActive, targetReader, targetDeaf, host,
                 toHost, got>>

(* Fault: the data that a Read returns along with an error is ignored. *)
ForwardTargetEndOnly(r) ==
  /\ targetReader[r] = "on"
  /\ target[r] # "open"
  /\ answered' = [answered EXCEPT ![r] = MaxData]
  /\ SendClient(Msg("disconnect", r, 0))
  /\ hostActive' = hostActive \ {r}
  /\ targetReader' = [targetReader EXCEPT ![r] = "over"]
  /\ UNCHANGED <<client, hostTbl, target, targetDeaf, host, toHost, got>>

ForwardTargetEnd(r) ==
  /\ targetReader[r] = "on"
  /\ target[r] # "open"
  /\ SendClient(Msg("disconnect", r, 0))
  /\ hostActive' = hostActive \ {r}
  /\ targetReader' = [targetReader EXCEPT ![r] = "over"]
  /\ UNCHANGED <<client, hostTbl, target, answered, targetDeaf, host, toHost, got>>

(***************************************************************************)
(* Stop closes done and every active connection; StartHost sees done, now  *)
(* or some messages later, and closes the channels of the requests.        *)
(***************************************************************************)
Stop ==
  /\ host = "serving"
  /\ host' = "stopping"
  /\ target' = [r \in Streams |-> IF r \in hostActive THEN "closed" ELSE target[r]]
  /\ closedBy' = [r \in Streams |->
       IF r \in hostActive /\ closedBy[r] = "nobody" THEN "Stop" ELSE closedBy[r]]
  /\ hostActive' = {}
  /\ UNCHANGED <<client, hostTbl, targetReader, answered, targetDeaf, toHost,
                 toClient, gotTarget, gotLocal, lateToHost, lateToClient, discarded>>

(* Fault: the channels of the requests are left open. *)
HostKeepsChans ==
  /\ host = "stopping"
  /\ UNCHANGED vars

HostStops ==
  /\ host = "stopping"
  /\ host' = "stopped"
  /\ UNCHANGED <<client, hostTbl, remote, toHost, toClient, got>>

-----------------------------------------------------------------------------
Reader(r) ==
  \/ ForwardLocalData(r) \/ ForwardLocalEnd(r)
  \/ ForwardTargetData(r) \/ ForwardTargetEnd(r)

Lifecycle(r) ==
  \/ StartDial(r) \/ DialFails(r) \/ DialOk(r)
  \/ WriteTarget(r) \/ WriteUnblocks(r) \/ EndOfRequest(r)

App(r) ==
  LocalApp(r) \/ LocalStopsReading(r) \/ TargetApp(r) \/ TargetStopsReading(r)

Dispatch == \E m \in toHost : HostReceive(m)

Handle == \/ \E m \in toClient : ClientReceive(m)
          \/ \E r \in Streams : ClientUnblocks(r)

Next ==
  \/ \E r \in Streams : App(r) \/ Accept(r) \/ Reader(r) \/ Lifecycle(r)
  \/ Dispatch \/ Handle
  \/ Stop
  \/ HostStops

Spec == Init /\ [][Next]_vars

(* Every goroutine runs, dials end, the channel delivers; applications     *)
(* need not do anything, and a write to one that does not read never ends. *)
FairSpec ==
  /\ Spec
  /\ \A r \in Streams : WF_vars(ForwardLocalEnd(r)) /\ WF_vars(ForwardTargetEnd(r))
                        /\ WF_vars(Lifecycle(r))
  /\ WF_vars(Dispatch)
  /\ WF_vars(Handle)
  /\ WF_vars(HostStops)

-----------------------------------------------------------------------------
(***************************************************************************)
(* Properties.                                                             *)
(***************************************************************************)
Disconnect(r) == Msg("disconnect", r, 0)

(* The data of r in a set of messages, and of what was delivered. *)
Of(r, messages) == {n \in 1 .. MaxData : Msg("data", r, n) \in messages}
Given(s)        == {s[i] : i \in DOMAIN s}
Before(s, j)    == {s[i] : i \in 1 .. j - 1}

(* "TCPProxy forwards TCP connections": what reaches either end is a       *)
(* prefix of what the other wrote.  The code does not ensure this.         *)
StreamInOrder ==
  \A r \in Streams :
     /\ (\A m \in discarded : m.request # r) =>
          \A j \in DOMAIN gotTarget[r] : gotTarget[r][j] = j
     /\ \A j \in DOMAIN gotLocal[r] : gotLocal[r][j] = j

(* A lifecycle "processes packets sequentially", and one goroutine handles *)
(* the client's messages: no piece is written twice, and one is written    *)
(* out of its place only if a later message overtook it in the network or  *)
(* StartHost discarded it.  No queue, failed write, Stop or end of a       *)
(* connection adds a gap to the stream.                                    *)
InPlace(s, lost) ==
  \A j \in DOMAIN s : /\ s[j] \notin Before(s, j)
                      /\ 1 .. s[j] - 1 \subseteq Before(s, j) \cup lost

Lost(r) == Of(r, lateToHost \cup discarded)

ReorderedOnlyOnTheWay ==
  \A r \in Streams : /\ InPlace(gotTarget[r], Lost(r))
                     /\ InPlace(gotLocal[r], Of(r, lateToClient))

(* A target sees a clean end of the stream only after everything the local *)
(* application wrote, but for what the disconnect or other data overtook   *)
(* and what StartHost discarded.                                           *)
CleanEndLosesOnlyOvertaken ==
  \A r \in Streams : closedBy[r] = "disconnect" =>
     1 .. written[r] \subseteq Given(gotTarget[r]) \cup Lost(r)

(* Why the host is done with a stream whose client did not end it: its     *)
(* target ended or could not be dialed, or the proxy was stopped.          *)
HostIsDone(r) ==
  \/ targetReader[r] = "over"
     /\ (target[r] \in {"half", "gone"} \/ closedBy[r] \in {"write", "Stop"})
  \/ life[r] = "over" /\ target[r] = "none"

(* A local application that keeps its end open is cut off only when the    *)
(* host is done, and then it has been given everything the target said but *)
(* for what was overtaken.                                                 *)
LocalCutOnlyByOvertaking ==
  [][\A r \in Streams : (local[r] = "open" /\ local'[r] = "closed") =>
        /\ HostIsDone(r)
        /\ 1 .. answered[r] \subseteq
             Given(gotLocal[r]) \cup Of(r, lateToClient')]_vars

(* The host is through with the stream and will not begin anew. *)
Released(r) ==
  /\ target[r] \in {"none", "closed"} /\ life[r] \in {"off", "over"}
  /\ Msg("connect", r, 0) \in toHost => host = "stopped"

(* The lifecycle is blocked on a target that is there and does not read;   *)
(* handleClientMessages on such a local application.                       *)
TargetBlocks(r) == life[r] = "stuck" /\ target[r] \in {"open", "half"}

LocalBlocks == \E r \in stuck : local[r] \in {"open", "half"}

(* When Stop has been called, no connection to a target stays open, unless *)
(* a write to it is blocked for ever: Stop closes what is active, and a    *)
(* connection whose target ended its half, or that was dialed meanwhile,   *)
(* is not.                                                                 *)
StopReleases ==
  \A r \in Streams :
     (host # "serving") ~> (Released(r) \/ []TargetBlocks(r))

(* When the local application closes, the host releases the target, unless *)
(* StartHost discarded the disconnect (no channel yet, or a full one) or   *)
(* the write before it is blocked for ever.                                *)
LocalEndReleases ==
  \A r \in Streams :
     (local[r] \in {"half", "gone", "closed"}) ~>
        (Released(r) \/ Disconnect(r) \in discarded \/ []TargetBlocks(r))

(* When the target ends, the local connection is released, and then the    *)
(* lifecycle that is waiting for the client's disconnect, unless an        *)
(* application that never reads blocks the client or this lifecycle.       *)
TargetEndReleases ==
  \A r \in Streams :
     (target[r] \in {"half", "gone"}) ~>
        \/ /\ r \notin localActive
           /\ Released(r) \/ Disconnect(r) \in discarded
        \/ []TargetBlocks(r)
        \/ []LocalBlocks
=============================================================================
