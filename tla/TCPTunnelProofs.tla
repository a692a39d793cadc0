-------------------------- MODULE TCPTunnelProofs --------------------------
(***************************************************************************)
(* Proofs about TCPTunnel, for any streams, any amount of data and any     *)
(* capacity of the channels: its types, and that over a network that       *)
(* delivers in any order nothing but that order and a full or missing      *)
(* channel puts a piece of a stream out of its place or loses it.          *)
(***************************************************************************)
EXTENDS TCPTunnel, SequenceTheorems, TLAPS

-----------------------------------------------------------------------------
(***************************************************************************)
(* Messages and queues of them.                                            *)
(***************************************************************************)
LEMMA MsgType ==
  ASSUME NEW r \in Streams
  PROVE  /\ \A n \in 1 .. MaxData : Msg("data", r, n) \in Message
         /\ \A t \in {"connect", "disconnect", "error"} : Msg(t, r, 0) \in Message
BY DEF Msg, Message

LEMMA MsgFields ==
  ASSUME NEW t, NEW r, NEW n
  PROVE  Msg(t, r, n).type = t /\ Msg(t, r, n).request = r /\ Msg(t, r, n).data = n
BY DEF Msg

LEMMA MessageFields ==
  ASSUME NEW m \in Message
  PROVE  /\ m.request \in Streams
         /\ m.type \in {"data", "connect", "disconnect", "error"}
         /\ m.type = "data" => m.data \in 1 .. MaxData /\ m = Msg("data", m.request, m.data)
         /\ m.type # "data" => m = Msg(m.type, m.request, 0)
BY DEF Message, Msg

(* Appending to a queue. *)
LEMMA AppendQueue ==
  ASSUME NEW S, NEW q \in Seq(S), NEW m \in S
  PROVE  /\ Append(q, m) \in Seq(S)
         /\ Append(q, m) # << >>
         /\ Len(q) \in Nat /\ DOMAIN q = 1 .. Len(q)
         /\ Len(Append(q, m)) = Len(q) + 1
         /\ DOMAIN Append(q, m) = 1 .. Len(q) + 1
         /\ \A i \in 1 .. Len(q) : Append(q, m)[i] = q[i]
         /\ Append(q, m)[Len(q) + 1] = m
BY AppendProperties, LenProperties

(* Taking the head of a queue. *)
LEMMA TailQueue ==
  ASSUME NEW S, NEW q \in Seq(S), q # << >>
  PROVE  /\ Tail(q) \in Seq(S)
         /\ Len(q) \in Nat \ {0} /\ DOMAIN q = 1 .. Len(q)
         /\ Len(Tail(q)) = Len(q) - 1
         /\ DOMAIN Tail(q) = 1 .. Len(q) - 1
         /\ \A i \in 1 .. Len(q) - 1 : Tail(q)[i] = q[i + 1]
         /\ Head(q) = q[1] /\ Head(q) \in S
<1>1. /\ Tail(q) \in Seq(S) /\ Len(Tail(q)) = Len(q) - 1
      /\ \A i \in 1 .. Len(Tail(q)) : Tail(q)[i] = q[i + 1]
      /\ Head(q) \in S
  BY HeadTailProperties
<1>2. /\ Len(q) \in Nat \ {0} /\ DOMAIN q = 1 .. Len(q)
      /\ DOMAIN Tail(q) = 1 .. Len(q) - 1
  BY <1>1, LenProperties, EmptySeq
<1>3. Head(q) = q[1]
  BY <1>2
<1> QED BY <1>1, <1>2, <1>3

-----------------------------------------------------------------------------
(***************************************************************************)
(* Types, action by action.                                                *)
(***************************************************************************)
Lives == {"off", "wait", "dial", "run", "stuck", "over"}

ClientTypes ==
  /\ local \in [Streams -> Sockets]
  /\ localActive \subseteq Streams
  /\ localReader \in [Streams -> {"off", "on", "over"}]
  /\ written \in [Streams -> 0 .. MaxData]
  /\ localDeaf \subseteq Streams
  /\ stuck = {} \/ \E r \in Streams : stuck = {r}
  /\ gotLocal \in [Streams -> Seq(1 .. MaxData)]
  /\ lateToClient \subseteq Message
  /\ toClient \subseteq Message

ChanTypes ==
  /\ reqChans \in [Streams -> Seq(Message)]
  /\ \A r \in Streams : Len(reqChans[r]) <= ChanCap
  /\ life \in [Streams -> Lives]

HostTypes ==
  /\ target \in [Streams -> Sockets]
  /\ hostActive \subseteq Streams
  /\ targetReader \in [Streams -> {"off", "on", "over"}]
  /\ answered \in [Streams -> 0 .. MaxData]
  /\ targetDeaf \subseteq Streams
  /\ host \in {"serving", "stopping", "stopped"}
  /\ gotTarget \in [Streams -> Seq(1 .. MaxData)]
  /\ lateToHost \subseteq Message
  /\ discarded \subseteq Message
  /\ toHost \subseteq Message
  /\ closedBy \in [Streams -> {"nobody", "disconnect", "write", "Stop"}]

LEMMA TypeParts == /\ TypeOK <=> ClientTypes /\ ChanTypes /\ HostTypes
                   /\ TypeOK' <=> ClientTypes' /\ ChanTypes' /\ HostTypes'
BY DEF TypeOK, ClientTypes, ChanTypes, HostTypes, Lives

LEMMA TypeInit == Init => TypeOK
<1> SUFFICES ASSUME Init PROVE ClientTypes /\ ChanTypes /\ HostTypes
  BY TypeParts
<1>1. << >> \in Seq(Message) /\ << >> \in Seq(1 .. MaxData) /\ Len(<< >>) = 0
  BY EmptySeq
<1>2. 0 \in 0 .. MaxData /\ 0 <= ChanCap
  BY TunnelAssumption
<1>3. ClientTypes
  BY <1>1, <1>2 DEF Init, ClientTypes, Sockets
<1>4. ChanTypes
  BY <1>1, <1>2 DEF Init, ChanTypes, Lives
<1>5. HostTypes
  BY <1>1, <1>2 DEF Init, HostTypes, Sockets
<1> QED BY <1>3, <1>4, <1>5

LEMMA TypeApp ==
  ASSUME TypeOK, NEW r \in Streams, App(r)
  PROVE  TypeOK'
<1>1. ClientTypes'
  BY TypeParts DEF App, LocalApp, LocalStopsReading, TargetApp, TargetStopsReading,
       ClientTypes, Sockets, client, got
<1>2. ChanTypes'
  BY TypeParts DEF App, LocalApp, LocalStopsReading, TargetApp, TargetStopsReading,
       ChanTypes, hostTbl
<1>3. HostTypes'
  BY TypeParts DEF App, LocalApp, LocalStopsReading, TargetApp, TargetStopsReading,
       HostTypes, Sockets, remote, got
<1> QED BY <1>1, <1>2, <1>3, TypeParts

LEMMA TypeAccept ==
  ASSUME TypeOK, NEW r \in Streams, Accept(r)
  PROVE  TypeOK'
<1>1. ClientTypes'
  BY TypeParts DEF Accept, ClientTypes, Sockets, got
<1>2. ChanTypes'
  BY TypeParts DEF Accept, ChanTypes, hostTbl
<1>3. HostTypes'
  BY TypeParts, MsgType DEF Accept, SendHost, HostTypes, remote, got
<1> QED BY <1>1, <1>2, <1>3, TypeParts

LEMMA TypeReader ==
  ASSUME TypeOK, NEW r \in Streams, Reader(r)
  PROVE  TypeOK'
<1>1. ChanTypes'
  BY TypeParts DEF Reader, ForwardLocalData, ForwardLocalEnd, ForwardTargetData,
       ForwardTargetEnd, ChanTypes, hostTbl
<1>2. MayTalk(r) => written[r] + 1 \in 1 .. MaxData /\ answered[r] + 1 \in 1 .. MaxData
  <2>1. written[r] \in 0 .. MaxData /\ answered[r] \in 0 .. MaxData
    BY TypeParts DEF ClientTypes, HostTypes
  <2> QED BY <2>1, TunnelAssumption DEF MayTalk
<1>3. CASE ForwardLocalData(r)
  <2>1. Msg("data", r, written[r] + 1) \in Message
    BY <1>2, <1>3, MsgType DEF ForwardLocalData
  <2>2. written' \in [Streams -> 0 .. MaxData]
    BY <1>2, <1>3, TypeParts, TunnelAssumption DEF ForwardLocalData, ClientTypes
  <2>3. ClientTypes'
    BY <1>3, <2>2, TypeParts DEF ForwardLocalData, ClientTypes, got
  <2>4. HostTypes'
    BY <1>3, <2>1, TypeParts DEF ForwardLocalData, SendHost, HostTypes, remote, got
  <2> QED BY <1>1, <2>3, <2>4, TypeParts
<1>4. CASE ForwardLocalEnd(r)
  <2>1. ClientTypes'
    BY <1>4, TypeParts DEF ForwardLocalEnd, ClientTypes, got
  <2>2. HostTypes'
    BY <1>4, TypeParts, MsgType DEF ForwardLocalEnd, SendHost, HostTypes, remote, got
  <2> QED BY <1>1, <2>1, <2>2, TypeParts
<1>5. CASE ForwardTargetData(r)
  <2>1. Msg("data", r, answered[r] + 1) \in Message
    BY <1>2, <1>5, MsgType DEF ForwardTargetData
  <2>2. answered' \in [Streams -> 0 .. MaxData]
    BY <1>2, <1>5, TypeParts, TunnelAssumption DEF ForwardTargetData, HostTypes
  <2>3. ClientTypes'
    BY <1>5, <2>1, TypeParts DEF ForwardTargetData, SendClient, ClientTypes, client, got
  <2>4. HostTypes'
    BY <1>5, <2>2, TypeParts DEF ForwardTargetData, HostTypes, got
  <2> QED BY <1>1, <2>3, <2>4, TypeParts
<1>6. CASE ForwardTargetEnd(r)
  <2>1. ClientTypes'
    BY <1>6, TypeParts, MsgType DEF ForwardTargetEnd, SendClient, ClientTypes, client, got
  <2>2. HostTypes'
    BY <1>6, TypeParts DEF ForwardTargetEnd, HostTypes, got
  <2> QED BY <1>1, <2>1, <2>2, TypeParts
<1> QED BY <1>3, <1>4, <1>5, <1>6 DEF Reader

LEMMA TypeHostReceive ==
  ASSUME TypeOK, NEW m \in toHost, HostReceive(m)
  PROVE  TypeOK'
<1> DEFINE r == m.request
<1>1. m \in Message /\ r \in Streams
  BY TypeParts, MessageFields DEF HostTypes
<1>2. ClientTypes'
  BY TypeParts DEF HostReceive, ClientTypes, client
<1>3. HostTypes'
  BY <1>1, TypeParts DEF HostReceive, SentBefore, HostTypes, remote
<1>4. ChanTypes'
  <2>1. CASE reqChans' = [reqChans EXCEPT ![r] = <<m>>] /\ life' = [life EXCEPT ![r] = "wait"]
    <3>1. <<m>> \in Seq(Message) /\ Len(<<m>>) = 1 /\ 1 <= ChanCap
      BY <1>1, TunnelAssumption
    <3> QED BY <1>1, <2>1, <3>1, TypeParts DEF ChanTypes, Lives
  <2>2. CASE HasRoom(r) /\ reqChans' = [reqChans EXCEPT ![r] = Append(@, m)] /\ life' = life
    <3>1. reqChans[r] \in Seq(Message)
      BY <1>1, TypeParts DEF ChanTypes
    <3>2. /\ Append(reqChans[r], m) \in Seq(Message)
          /\ Len(Append(reqChans[r], m)) = Len(reqChans[r]) + 1 /\ Len(reqChans[r]) \in Nat
      BY <1>1, <3>1, AppendQueue
    <3>3. Len(reqChans[r]) + 1 <= ChanCap
      BY <2>2, <3>2, TunnelAssumption DEF HasRoom
    <3> QED BY <1>1, <2>2, <3>2, <3>3, TypeParts DEF ChanTypes
  <2>3. CASE UNCHANGED <<reqChans, life>>
    BY <2>3, TypeParts DEF ChanTypes
  <2> QED BY <2>1, <2>2, <2>3 DEF HostReceive
<1> QED BY <1>2, <1>3, <1>4, TypeParts

LEMMA TypeClient ==
  ASSUME TypeOK, Handle
  PROVE  TypeOK'
<1>1. ChanTypes' /\ HostTypes'
  BY TypeParts DEF Handle, ClientReceive, ClientUnblocks, ChanTypes, HostTypes, hostTbl,
       remote, got
<1>2. ASSUME NEW r \in Streams, HandleDisconnect(r)
      PROVE  local' \in [Streams -> Sockets] /\ localActive' \subseteq Streams
  BY <1>2, TypeParts DEF HandleDisconnect, ClientTypes, Sockets
<1>3. ASSUME NEW m \in toClient, ClientReceive(m) PROVE ClientTypes'
  <2> DEFINE r == m.request
  <2>1. m \in Message /\ r \in Streams
    BY <1>3, TypeParts, MessageFields DEF ClientTypes
  <2>2. local' \in [Streams -> Sockets] /\ localActive' \subseteq Streams
    BY <1>2, <1>3, <2>1, TypeParts DEF ClientReceive, ClientTypes
  <2>3. gotLocal' \in [Streams -> Seq(1 .. MaxData)]
    <3>1. CASE m.type = "data" /\ gotLocal' = [gotLocal EXCEPT ![r] = Append(@, m.data)]
      <4>1. Append(gotLocal[r], m.data) \in Seq(1 .. MaxData)
        BY <2>1, <3>1, MessageFields, AppendQueue, TypeParts DEF ClientTypes
      <4> QED BY <3>1, <4>1, <2>1, TypeParts DEF ClientTypes
    <3>2. CASE gotLocal' = gotLocal
      BY <3>2, TypeParts DEF ClientTypes
    <3> QED BY <1>3, <3>1, <3>2 DEF ClientReceive
  <2>4. stuck' = {} \/ \E s \in Streams : stuck' = {s}
    BY <1>3, <2>1 DEF ClientReceive
  <2>5. toClient' \subseteq Message /\ lateToClient' \subseteq Message
    BY <1>3, TypeParts DEF ClientReceive, SentBefore, ClientTypes
  <2> QED BY <1>3, <2>2, <2>3, <2>4, <2>5, TypeParts DEF ClientReceive, ClientTypes
<1>4. ASSUME NEW r \in Streams, ClientUnblocks(r) PROVE ClientTypes'
  <2>1. local' \in [Streams -> Sockets] /\ localActive' \subseteq Streams
    BY <1>2, <1>4 DEF ClientUnblocks
  <2> QED BY <1>4, <2>1, TypeParts DEF ClientUnblocks, ClientTypes, got
<1> QED BY <1>1, <1>3, <1>4, TypeParts DEF Handle

LEMMA TypeTail ==
  ASSUME TypeOK, NEW r \in Streams, reqChans[r] # << >>,
         reqChans' = [reqChans EXCEPT ![r] = Tail(@)],
         life' \in [Streams -> Lives]
  PROVE  ChanTypes'
<1>1. reqChans[r] \in Seq(Message) /\ Len(reqChans[r]) <= ChanCap
  BY TypeParts DEF ChanTypes
<1>2. Tail(reqChans[r]) \in Seq(Message) /\ Len(Tail(reqChans[r])) <= ChanCap
  BY <1>1, TailQueue, TunnelAssumption
<1> QED BY <1>2, TypeParts DEF ChanTypes

LEMMA TypeForget ==
  ASSUME TypeOK, NEW r \in Streams,
         reqChans' = [reqChans EXCEPT ![r] = << >>],
         life' = [life EXCEPT ![r] = "over"]
  PROVE  ChanTypes'
<1>1. << >> \in Seq(Message) /\ Len(<< >>) = 0 /\ 0 <= ChanCap
  BY EmptySeq, TunnelAssumption
<1> QED BY <1>1, TypeParts DEF ChanTypes, Lives

LEMMA TypeFinish ==
  ASSUME TypeOK, NEW r \in Streams, NEW why \in {"disconnect", "write", "Stop"},
         Finish(r, why)
  PROVE  /\ ChanTypes'
         /\ target' \in [Streams -> Sockets]
         /\ closedBy' \in [Streams -> {"nobody", "disconnect", "write", "Stop"}]
         /\ hostActive' \subseteq Streams
BY TypeForget, TypeParts DEF Finish, HostTypes, Sockets

LEMMA TypeLifecycle ==
  ASSUME TypeOK, NEW r \in Streams, Lifecycle(r)
  PROVE  TypeOK'
<1>1. CASE StartDial(r)
  <2>1. ChanTypes'
    BY <1>1, TypeTail, TypeParts DEF StartDial, ChanTypes, Lives
  <2> QED BY <1>1, <2>1, TypeParts DEF StartDial, ClientTypes, HostTypes, client, remote, got
<1>2. CASE DialFails(r)
  <2>1. ChanTypes'
    BY <1>2, TypeForget DEF DialFails
  <2>2. toClient' \subseteq Message
    BY <1>2, MsgType, TypeParts DEF DialFails, SendClient, ClientTypes
  <2> QED BY <1>2, <2>1, <2>2, TypeParts
          DEF DialFails, ClientTypes, HostTypes, client, remote, got
<1>3. CASE DialOk(r)
  <2>1. ChanTypes'
    BY <1>3, TypeParts DEF DialOk, ChanTypes, Lives
  <2>2. HostTypes'
    BY <1>3, TypeParts DEF DialOk, HostTypes, Sockets, got
  <2> QED BY <1>3, <2>1, <2>2, TypeParts DEF DialOk, ClientTypes, client, got
<1>4. CASE WriteTarget(r)
  <2>1. ClientTypes'
    BY <1>4, TypeParts DEF WriteTarget, ClientTypes, client
  <2>2. CASE Finish(r, "write") /\ UNCHANGED gotTarget
    BY <1>4, <2>1, <2>2, TypeFinish, TypeParts DEF WriteTarget, HostTypes
  <2>3. CASE /\ reqChans' = [reqChans EXCEPT ![r] = Tail(@)]
             /\ life' = [life EXCEPT ![r] = "stuck"]
             /\ UNCHANGED <<target, hostActive, gotTarget, closedBy>>
    <3>1. ChanTypes'
      BY <1>4, <2>3, TypeTail, TypeParts DEF WriteTarget, ChanTypes, Lives
    <3> QED BY <1>4, <2>1, <2>3, <3>1, TypeParts DEF WriteTarget, HostTypes
  <2>4. CASE /\ gotTarget' = [gotTarget EXCEPT ![r] = Append(@, Head(reqChans[r]).data)]
             /\ reqChans' = [reqChans EXCEPT ![r] = Tail(@)]
             /\ UNCHANGED <<life, target, hostActive, closedBy>>
    <3>1. ChanTypes'
      BY <1>4, <2>4, TypeTail, TypeParts DEF WriteTarget, ChanTypes
    <3>2. Head(reqChans[r]) \in Message
      BY <1>4, TailQueue, TypeParts DEF WriteTarget, ChanTypes
    <3>3. Append(gotTarget[r], Head(reqChans[r]).data) \in Seq(1 .. MaxData)
      BY <1>4, <3>2, MessageFields, AppendQueue, TypeParts DEF WriteTarget, HostTypes
    <3>4. gotTarget' \in [Streams -> Seq(1 .. MaxData)]
      BY <2>4, <3>3, TypeParts DEF HostTypes
    <3> QED BY <1>4, <2>1, <2>4, <3>1, <3>4, TypeParts DEF WriteTarget, HostTypes
  <2> QED BY <1>4, <2>2, <2>3, <2>4 DEF WriteTarget
<1>5. CASE WriteUnblocks(r) \/ EndOfRequest(r)
  <2>1. PICK why \in {"disconnect", "write", "Stop"} : Finish(r, why)
    BY <1>5 DEF WriteUnblocks, EndOfRequest
  <2>2. ClientTypes'
    BY <1>5, TypeParts DEF WriteUnblocks, EndOfRequest, ClientTypes, client
  <2> QED BY <1>5, <2>1, <2>2, TypeFinish, TypeParts
          DEF WriteUnblocks, EndOfRequest, HostTypes
<1> QED BY <1>1, <1>2, <1>3, <1>4, <1>5 DEF Lifecycle

LEMMA TypeStop ==
  ASSUME TypeOK, Stop \/ HostStops
  PROVE  TypeOK'
<1>1. ClientTypes' /\ ChanTypes'
  BY TypeParts DEF Stop, HostStops, ClientTypes, ChanTypes, client, hostTbl, got
<1>2. HostTypes'
  BY TypeParts DEF Stop, HostStops, HostTypes, Sockets, remote, got
<1> QED BY <1>1, <1>2, TypeParts

LEMMA TypeStep == TypeOK /\ [Next]_vars => TypeOK'
<1> SUFFICES ASSUME TypeOK, [Next]_vars PROVE TypeOK'
  OBVIOUS
<1>1. CASE UNCHANGED vars
  BY <1>1 DEF vars, client, hostTbl, remote, got, TypeOK
<1>2. ASSUME NEW r \in Streams, App(r) \/ Accept(r) \/ Reader(r) \/ Lifecycle(r)
      PROVE  TypeOK'
  BY <1>2, TypeApp, TypeAccept, TypeReader, TypeLifecycle
<1>3. CASE Dispatch \/ Handle
  BY <1>3, TypeHostReceive, TypeClient DEF Dispatch
<1>4. CASE Stop \/ HostStops
  BY <1>4, TypeStop
<1> QED BY <1>1, <1>2, <1>3, <1>4 DEF Next

(* The tables and channels of TCPProxy at both ends keep their types, and  *)
(* no request's channel holds more than its capacity, whatever order the   *)
(* network delivers in and whoever stops reading.                          *)
THEOREM TunnelTypes == Spec => []TypeOK
BY TypeInit, TypeStep, PTL DEF Spec

-----------------------------------------------------------------------------
(***************************************************************************)
(* The invariant of a stream.                                              *)
(***************************************************************************)

(* What waits in a request's channel q, and what waits in it ahead of the  *)
(* j-th message.                                                           *)
Waiting(r, q)  == {n \in 1 .. MaxData : \E i \in DOMAIN q : q[i] = Msg("data", r, n)}
Ahead(r, q, j) == {n \in 1 .. MaxData : \E i \in 1 .. j - 1 : q[i] = Msg("data", r, n)}

(* The channel q of a request whose client wrote w pieces, when g has been *)
(* given to its target and lost was overtaken or discarded: what is before *)
(* a message is given, ahead of it, or lost.                               *)
ChanOK(r, q, g, w, lost) ==
  \A j \in DOMAIN q :
    /\ q[j].request = r
    /\ q[j].type = "data" =>
         /\ q[j].data \notin Given(g) \cup Ahead(r, q, j)
         /\ 1 .. q[j].data - 1 \subseteq Given(g) \cup Ahead(r, q, j) \cup lost
    /\ q[j].type = "disconnect" =>
         1 .. w \subseteq Given(g) \cup Ahead(r, q, j) \cup lost

(* The goroutines and the connections of a stream. *)
LifeInv(r) ==
  /\ local[r] = "none" => /\ life[r] = "off" /\ localReader[r] = "off"
                          /\ Msg("connect", r, 0) \notin toHost
  /\ localReader[r] = "over" => local[r] \notin {"none", "open"}
  /\ Msg("connect", r, 0) \in toHost => life[r] = "off"
  /\ life[r] \in {"off", "over"} => reqChans[r] = << >>
  /\ life[r] = "wait" => reqChans[r] # << >> /\ reqChans[r][1].type = "connect"
  /\ life[r] \in {"off", "wait", "dial"} =>
       /\ gotTarget[r] = << >> /\ closedBy[r] = "nobody" /\ target[r] = "none"
  /\ life[r] \in {"run", "stuck"} => target[r] # "none"
  /\ target[r] = "none" =>
       targetReader[r] = "off" /\ answered[r] = 0 /\ r \notin hostActive
  /\ targetReader[r] = "over" => target[r] # "open"
  /\ target[r] = "closed" => closedBy[r] # "nobody"

ToTargetInv(r) ==
  /\ InPlace(gotTarget[r], Lost(r))
  /\ life[r] # "stuck" =>
       ChanOK(r, reqChans[r], gotTarget[r], written[r], Lost(r))
  /\ Given(gotTarget[r]) \cup Waiting(r, reqChans[r]) \cup Of(r, toHost)
       \subseteq 1 .. written[r]
  /\ Of(r, toHost) \cap (Given(gotTarget[r]) \cup Waiting(r, reqChans[r])) = {}
  /\ life[r] \notin {"stuck", "over"} =>
       1 .. written[r] \subseteq Of(r, toHost) \cup Given(gotTarget[r])
                                 \cup Waiting(r, reqChans[r]) \cup Of(r, discarded)
  /\ closedBy[r] = "disconnect" =>
       1 .. written[r] \subseteq Given(gotTarget[r]) \cup Lost(r)
  /\ \/ closedBy[r] = "disconnect"
     \/ Disconnect(r) \in toHost
     \/ \E j \in DOMAIN reqChans[r] : reqChans[r][j].type = "disconnect"
     => localReader[r] = "over"

ToLocalInv(r) ==
  /\ InPlace(gotLocal[r], Of(r, lateToClient))
  /\ Given(gotLocal[r]) \cup Of(r, toClient) \subseteq 1 .. answered[r]
  /\ Of(r, toClient) \cap Given(gotLocal[r]) = {}
  /\ r \in localActive \ stuck =>
       1 .. answered[r] \subseteq Of(r, toClient) \cup Given(gotLocal[r])
  /\ Disconnect(r) \in toClient => targetReader[r] = "over"
  /\ Msg("error", r, 0) \in toClient => life[r] = "over" /\ target[r] = "none"

StreamInv(r) == LifeInv(r) /\ ToTargetInv(r) /\ ToLocalInv(r)

TunnelInv == TypeOK /\ \A r \in Streams : StreamInv(r)
-----------------------------------------------------------------------------
(***************************************************************************)
(* What InPlace and ChanOK need of sequences.                              *)
(***************************************************************************)
LEMMA OfData ==
  ASSUME NEW r, NEW n \in 1 .. MaxData, NEW messages
  PROVE  n \in Of(r, messages) <=> Msg("data", r, n) \in messages
BY DEF Of

LEMMA EmptyGiven == Given(<< >>) = {} /\ \A r : Waiting(r, << >>) = {}
BY DEF Given, Waiting

LEMMA InPlaceMore ==
  ASSUME NEW s, NEW lost, NEW more, InPlace(s, lost), lost \subseteq more
  PROVE  InPlace(s, more)
BY DEF InPlace

(* The next piece is in its place when what is before it came or is lost.  *)
Fits(n, s, lost) == n \notin Given(s) /\ 1 .. n - 1 \subseteq Given(s) \cup lost

LEMMA InPlaceAppend ==
  ASSUME NEW s \in Seq(1 .. MaxData), NEW n \in 1 .. MaxData, NEW lost,
         InPlace(s, lost), Fits(n, s, lost)
  PROVE  /\ InPlace(Append(s, n), lost)
         /\ Given(Append(s, n)) = Given(s) \cup {n}
<1> DEFINE a == Append(s, n)
<1>1. /\ Len(s) \in Nat /\ DOMAIN s = 1 .. Len(s)
      /\ DOMAIN a = 1 .. Len(s) + 1
      /\ \A i \in 1 .. Len(s) : a[i] = s[i]
      /\ a[Len(s) + 1] = n
  BY AppendQueue
<1> HIDE DEF a
<1>2. ASSUME NEW j \in 1 .. Len(s) PROVE Before(a, j) = Before(s, j) /\ a[j] = s[j]
  <2>1. \A i \in 1 .. j - 1 : i \in 1 .. Len(s)
    BY <1>1
  <2> QED BY <1>1, <2>1 DEF Before
<1>3. Before(a, Len(s) + 1) = Given(s)
  <2>1. Len(s) + 1 - 1 = Len(s)
    BY <1>1
  <2> QED BY <1>1, <2>1 DEF Before, Given
<1>4. \A j \in DOMAIN a : j \in 1 .. Len(s) \/ j = Len(s) + 1
  BY <1>1
<1>5. InPlace(a, lost)
  <2> SUFFICES ASSUME NEW j \in DOMAIN a
               PROVE  /\ a[j] \notin Before(a, j)
                      /\ 1 .. a[j] - 1 \subseteq Before(a, j) \cup lost
    BY DEF InPlace
  <2>1. CASE j \in 1 .. Len(s)
    BY <1>1, <1>2, <2>1 DEF InPlace
  <2>2. CASE j = Len(s) + 1
    BY <1>1, <1>3, <2>2 DEF Fits
  <2> QED BY <1>4, <2>1, <2>2
<1>6. Given(a) = Given(s) \cup {n}
  <2>1. \A j \in DOMAIN a : a[j] \in Given(s) \cup {n}
    BY <1>1, <1>4 DEF Given
  <2>2. \A j \in DOMAIN s : s[j] \in Given(a)
    <3>1. \A j \in DOMAIN s : j \in DOMAIN a /\ a[j] = s[j]
      BY <1>1
    <3> QED BY <3>1 DEF Given
  <2>3. n \in Given(a)
    BY <1>1 DEF Given
  <2> QED BY <2>1, <2>2, <2>3 DEF Given
<1> QED BY <1>5, <1>6 DEF a

LEMMA ChanMore ==
  ASSUME NEW r, NEW q, NEW g, NEW w, NEW lost, NEW more,
         ChanOK(r, q, g, w, lost), lost \subseteq more
  PROVE  ChanOK(r, q, g, w, more)
BY DEF ChanOK

LEMMA ChanEmpty ==
  ASSUME NEW r, NEW g, NEW w, NEW lost
  PROVE  ChanOK(r, << >>, g, w, lost)
BY DEF ChanOK

(* A message that comes into the channel. *)
LEMMA ChanAppend ==
  ASSUME NEW r \in Streams, NEW q \in Seq(Message), NEW m \in Message, m.request = r
  PROVE  LET a == Append(q, m)
         IN  /\ \A j \in DOMAIN q : j \in DOMAIN a /\ a[j] = q[j] /\ Ahead(r, a, j) = Ahead(r, q, j)
             /\ Len(q) + 1 \in DOMAIN a /\ a[Len(q) + 1] = m
             /\ Ahead(r, a, Len(q) + 1) = Waiting(r, q)
             /\ \A j \in DOMAIN a : j \in DOMAIN q \/ j = Len(q) + 1
             /\ m.type = "data" => Waiting(r, a) = Waiting(r, q) \cup {m.data}
             /\ m.type # "data" => Waiting(r, a) = Waiting(r, q)
<1> DEFINE a == Append(q, m)
<1>1. /\ Len(q) \in Nat /\ DOMAIN q = 1 .. Len(q)
      /\ DOMAIN a = 1 .. Len(q) + 1
      /\ \A i \in 1 .. Len(q) : a[i] = q[i]
      /\ a[Len(q) + 1] = m
  BY AppendQueue
<1> HIDE DEF a
<1>2. ASSUME NEW j \in DOMAIN q
      PROVE  j \in DOMAIN a /\ a[j] = q[j] /\ Ahead(r, a, j) = Ahead(r, q, j)
  <2>1. \A i \in 1 .. j - 1 : i \in 1 .. Len(q)
    BY <1>1
  <2> QED BY <1>1, <2>1 DEF Ahead
<1>3. Ahead(r, a, Len(q) + 1) = Waiting(r, q)
  <2>1. Len(q) + 1 - 1 = Len(q)
    BY <1>1
  <2> QED BY <1>1, <2>1 DEF Ahead, Waiting
<1>4. \A j \in DOMAIN a : j \in DOMAIN q \/ j = Len(q) + 1
  BY <1>1
<1>5. ASSUME NEW n \in 1 .. MaxData
      PROVE  (\E i \in DOMAIN a : a[i] = Msg("data", r, n)) <=>
             (n \in Waiting(r, q) \/ m = Msg("data", r, n))
  <2>1. Len(q) + 1 \in DOMAIN a
    BY <1>1
  <2> QED BY <1>1, <1>2, <1>4, <2>1 DEF Waiting
<1>6. m.type = "data" => Waiting(r, a) = Waiting(r, q) \cup {m.data}
  <2> SUFFICES ASSUME m.type = "data" PROVE Waiting(r, a) = Waiting(r, q) \cup {m.data}
    OBVIOUS
  <2>1. m.data \in 1 .. MaxData /\ \A n : m = Msg("data", r, n) <=> n = m.data
    BY MessageFields, MsgFields
  <2> QED BY <1>5, <2>1 DEF Waiting
<1>7. m.type # "data" => Waiting(r, a) = Waiting(r, q)
  <2> SUFFICES ASSUME m.type # "data" PROVE Waiting(r, a) = Waiting(r, q)
    OBVIOUS
  <2>1. \A n : m # Msg("data", r, n)
    BY MsgFields
  <2> QED BY <1>5, <2>1 DEF Waiting
<1>8. Len(q) + 1 \in DOMAIN a
  BY <1>1
<1> QED BY <1>1, <1>2, <1>3, <1>4, <1>6, <1>7, <1>8 DEF a

LEMMA ChanOKAppend ==
  ASSUME NEW r \in Streams, NEW q \in Seq(Message), NEW m \in Message, m.request = r,
         NEW g, NEW w, NEW lost, ChanOK(r, q, g, w, lost),
         m.type = "data" =>
           /\ m.data \notin Given(g) \cup Waiting(r, q)
           /\ 1 .. m.data - 1 \subseteq Given(g) \cup Waiting(r, q) \cup lost,
         m.type = "disconnect" => 1 .. w \subseteq Given(g) \cup Waiting(r, q) \cup lost
  PROVE  ChanOK(r, Append(q, m), g, w, lost)
<1> DEFINE a == Append(q, m)
<1>1. /\ \A j \in DOMAIN q : j \in DOMAIN a /\ a[j] = q[j] /\ Ahead(r, a, j) = Ahead(r, q, j)
      /\ a[Len(q) + 1] = m /\ Ahead(r, a, Len(q) + 1) = Waiting(r, q)
      /\ \A j \in DOMAIN a : j \in DOMAIN q \/ j = Len(q) + 1
  BY ChanAppend
<1> HIDE DEF a
<1>2. ASSUME NEW j \in DOMAIN a, j \in DOMAIN q
      PROVE  /\ a[j].request = r
             /\ a[j].type = "data" =>
                  /\ a[j].data \notin Given(g) \cup Ahead(r, a, j)
                  /\ 1 .. a[j].data - 1 \subseteq Given(g) \cup Ahead(r, a, j) \cup lost
             /\ a[j].type = "disconnect" =>
                  1 .. w \subseteq Given(g) \cup Ahead(r, a, j) \cup lost
  BY <1>1, <1>2 DEF ChanOK
<1>3. ASSUME NEW j \in DOMAIN a, j = Len(q) + 1
      PROVE  /\ a[j].request = r
             /\ a[j].type = "data" =>
                  /\ a[j].data \notin Given(g) \cup Ahead(r, a, j)
                  /\ 1 .. a[j].data - 1 \subseteq Given(g) \cup Ahead(r, a, j) \cup lost
             /\ a[j].type = "disconnect" =>
                  1 .. w \subseteq Given(g) \cup Ahead(r, a, j) \cup lost
  BY <1>1, <1>3
<1>4. ChanOK(r, a, g, w, lost)
  BY <1>1, <1>2, <1>3 DEF ChanOK
<1> QED BY <1>4 DEF a

(* The head of the channel that is taken: if it is data, it is given.      *)
LEMMA ChanTail ==
  ASSUME NEW r \in Streams, NEW q \in Seq(Message), q # << >>
  PROVE  LET t == Tail(q)
         IN  /\ \A j \in DOMAIN t :
                  /\ j + 1 \in DOMAIN q /\ t[j] = q[j + 1]
                  /\ Ahead(r, q, j + 1) \subseteq Waiting(r, <<Head(q)>>) \cup Ahead(r, t, j)
                  /\ Ahead(r, t, j) \subseteq Ahead(r, q, j + 1)
                  /\ Waiting(r, <<Head(q)>>) \subseteq Ahead(r, q, j + 1)
             /\ Waiting(r, q) = Waiting(r, <<Head(q)>>) \cup Waiting(r, t)
<1> DEFINE t == Tail(q)
           h == Waiting(r, <<Head(q)>>)
<1>1. /\ Len(q) \in Nat \ {0} /\ DOMAIN q = 1 .. Len(q)
      /\ DOMAIN t = 1 .. Len(q) - 1
      /\ \A i \in 1 .. Len(q) - 1 : t[i] = q[i + 1]
      /\ Head(q) = q[1]
  BY TailQueue
<1>2. h = {n \in 1 .. MaxData : q[1] = Msg("data", r, n)}
  BY <1>1 DEF Waiting
<1> HIDE DEF t, h
<1>3. ASSUME NEW j \in DOMAIN t
      PROVE  /\ j + 1 \in DOMAIN q /\ t[j] = q[j + 1]
             /\ Ahead(r, q, j + 1) \subseteq h \cup Ahead(r, t, j)
             /\ Ahead(r, t, j) \subseteq Ahead(r, q, j + 1)
             /\ h \subseteq Ahead(r, q, j + 1)
  <2>1. j \in Nat \ {0} /\ j + 1 - 1 = j /\ j + 1 \in DOMAIN q /\ t[j] = q[j + 1]
    BY <1>1
  <2>2. ASSUME NEW i \in 1 .. j, i # 1 PROVE i - 1 \in 1 .. j - 1 /\ t[i - 1] = q[i]
    <3>1. i - 1 \in 1 .. j - 1 /\ i - 1 \in 1 .. Len(q) - 1 /\ (i - 1) + 1 = i
      BY <1>1, <2>1, <2>2
    <3> QED BY <1>1, <3>1
  <2>3. ASSUME NEW i \in 1 .. j - 1 PROVE i + 1 \in 1 .. j /\ t[i] = q[i + 1]
    <3>1. i \in 1 .. Len(q) - 1 /\ i + 1 \in 1 .. j
      BY <1>1, <2>1
    <3> QED BY <1>1, <3>1
  <2>4. Ahead(r, q, j + 1) \subseteq h \cup Ahead(r, t, j)
    <3> SUFFICES ASSUME NEW n \in Ahead(r, q, j + 1) PROVE n \in h \cup Ahead(r, t, j)
      OBVIOUS
    <3>1. n \in 1 .. MaxData
      BY DEF Ahead
    <3>2. PICK i \in 1 .. j : q[i] = Msg("data", r, n)
      BY <2>1 DEF Ahead
    <3>3. CASE i = 1
      BY <1>2, <3>1, <3>2, <3>3
    <3>4. CASE i # 1
      BY <2>2, <3>1, <3>2, <3>4 DEF Ahead
    <3> QED BY <3>3, <3>4
  <2>5. Ahead(r, t, j) \subseteq Ahead(r, q, j + 1)
    BY <2>1, <2>3 DEF Ahead
  <2>6. h \subseteq Ahead(r, q, j + 1)
    BY <1>2, <2>1 DEF Ahead
  <2> QED BY <2>1, <2>4, <2>5, <2>6
<1>4. Waiting(r, q) = h \cup Waiting(r, t)
  <2>1. ASSUME NEW i \in DOMAIN q, i # 1 PROVE i - 1 \in DOMAIN t /\ t[i - 1] = q[i]
    <3>1. i - 1 \in 1 .. Len(q) - 1 /\ (i - 1) + 1 = i
      BY <1>1, <2>1
    <3> QED BY <1>1, <3>1
  <2>2. 1 \in DOMAIN q
    BY <1>1
  <2>3. Waiting(r, q) \subseteq h \cup Waiting(r, t)
    BY <1>2, <2>1 DEF Waiting
  <2>4. h \cup Waiting(r, t) \subseteq Waiting(r, q)
    BY <1>2, <1>3, <2>2 DEF Waiting
  <2> QED BY <2>3, <2>4
<1> QED BY <1>3, <1>4 DEF t, h

LEMMA ChanOKTail ==
  ASSUME NEW r \in Streams, NEW q \in Seq(Message), q # << >>,
         NEW g, NEW h, NEW w, NEW lost, ChanOK(r, q, g, w, lost),
         Given(h) = Given(g) \cup Waiting(r, <<Head(q)>>)
  PROVE  ChanOK(r, Tail(q), h, w, lost)
<1> DEFINE t == Tail(q)
           k == Waiting(r, <<Head(q)>>)
<1>1. \A j \in DOMAIN t :
        /\ j + 1 \in DOMAIN q /\ t[j] = q[j + 1]
        /\ Ahead(r, q, j + 1) \subseteq k \cup Ahead(r, t, j)
        /\ Ahead(r, t, j) \subseteq Ahead(r, q, j + 1)
        /\ k \subseteq Ahead(r, q, j + 1)
  BY ChanTail
<1>2. Given(h) = Given(g) \cup k
  OBVIOUS
<1> HIDE DEF t, k
<1>3. ASSUME NEW j \in DOMAIN t
      PROVE  /\ t[j].request = r
             /\ t[j].type = "data" =>
                  /\ t[j].data \notin Given(h) \cup Ahead(r, t, j)
                  /\ 1 .. t[j].data - 1 \subseteq Given(h) \cup Ahead(r, t, j) \cup lost
             /\ t[j].type = "disconnect" =>
                  1 .. w \subseteq Given(h) \cup Ahead(r, t, j) \cup lost
  <2>1. /\ q[j + 1].request = r
        /\ q[j + 1].type = "data" =>
             /\ q[j + 1].data \notin Given(g) \cup Ahead(r, q, j + 1)
             /\ 1 .. q[j + 1].data - 1 \subseteq Given(g) \cup Ahead(r, q, j + 1) \cup lost
        /\ q[j + 1].type = "disconnect" =>
             1 .. w \subseteq Given(g) \cup Ahead(r, q, j + 1) \cup lost
    BY <1>1 DEF ChanOK
  <2> QED BY <1>1, <1>2, <2>1
<1>4. ChanOK(r, t, h, w, lost)
  BY <1>3 DEF ChanOK
<1> QED BY <1>4 DEF t

(* What is at the head of a channel that is as it should be. *)
LEMMA ChanHead ==
  ASSUME NEW r \in Streams, NEW q \in Seq(Message), q # << >>,
         NEW g, NEW w, NEW lost, ChanOK(r, q, g, w, lost)
  PROVE  /\ Head(q) \in Message /\ Head(q).request = r
         /\ Head(q).type = "data" =>
              /\ Waiting(r, <<Head(q)>>) = {Head(q).data}
              /\ Head(q).data \in 1 .. MaxData /\ Head(q).data \in Waiting(r, q)
              /\ Head(q).data \notin Given(g)
              /\ 1 .. Head(q).data - 1 \subseteq Given(g) \cup lost
         /\ Head(q).type = "disconnect" => 1 .. w \subseteq Given(g) \cup lost
<1> DEFINE m == Head(q)
<1>1. 1 \in DOMAIN q /\ m = q[1] /\ m \in Message
  BY TailQueue
<1>2. Ahead(r, q, 1) = {}
  BY DEF Ahead
<1>3. /\ m.request = r
      /\ m.type = "data" =>
           m.data \notin Given(g) /\ 1 .. m.data - 1 \subseteq Given(g) \cup lost
      /\ m.type = "disconnect" => 1 .. w \subseteq Given(g) \cup lost
  BY <1>1, <1>2 DEF ChanOK
<1>4. m.type = "data" => m.data \in 1 .. MaxData /\ Waiting(r, <<m>>) = {m.data}
  <2> SUFFICES ASSUME m.type = "data"
               PROVE  m.data \in 1 .. MaxData /\ Waiting(r, <<m>>) = {m.data}
    OBVIOUS
  <2>1. m.data \in 1 .. MaxData /\ \A n : m = Msg("data", r, n) <=> n = m.data
    BY <1>1, <1>3, MessageFields, MsgFields
  <2> QED BY <2>1 DEF Waiting
<1>5. Waiting(r, <<m>>) \subseteq Waiting(r, q)
  BY ChanTail
<1> QED BY <1>1, <1>3, <1>4, <1>5

LEMMA HeadNoData ==
  ASSUME NEW r, NEW m, m.type # "data"
  PROVE  Waiting(r, <<m>>) = {}
BY MsgFields DEF Waiting

-----------------------------------------------------------------------------
(***************************************************************************)
(* Steps that leave a part of a stream as it is.                           *)
(***************************************************************************)
SameLife(r) ==
  /\ local'[r] = local[r] /\ localReader'[r] = localReader[r]
  /\ reqChans'[r] = reqChans[r] /\ life'[r] = life[r]
  /\ target'[r] = target[r] /\ targetReader'[r] = targetReader[r]
  /\ answered'[r] = answered[r] /\ gotTarget'[r] = gotTarget[r]
  /\ closedBy'[r] = closedBy[r]
  /\ r \in hostActive' => r \in hostActive
  /\ Msg("connect", r, 0) \in toHost' => Msg("connect", r, 0) \in toHost

LEMMA KeepLife ==
  ASSUME NEW r \in Streams, LifeInv(r), SameLife(r)
  PROVE  LifeInv(r)'
BY DEF LifeInv, SameLife

(* The way from the local application to the target. *)
SameToTarget(r) ==
  /\ reqChans'[r] = reqChans[r] /\ gotTarget'[r] = gotTarget[r]
  /\ written'[r] = written[r]
  /\ \A n : Msg("data", r, n) \in toHost' <=> Msg("data", r, n) \in toHost
  /\ lateToHost \subseteq lateToHost' /\ discarded \subseteq discarded'
  /\ life[r] \in {"stuck", "over"} => life'[r] = life[r]
  /\ closedBy'[r] = "disconnect" => closedBy[r] = "disconnect"
  /\ Disconnect(r) \in toHost' => Disconnect(r) \in toHost
  /\ localReader[r] = "over" => localReader'[r] = "over"

LEMMA LostGrows ==
  ASSUME NEW r, lateToHost \subseteq lateToHost', discarded \subseteq discarded'
  PROVE  Lost(r) \subseteq Lost(r)' /\ Of(r, discarded) \subseteq Of(r, discarded')
BY DEF Lost, Of

LEMMA KeepToTarget ==
  ASSUME NEW r \in Streams, ToTargetInv(r), SameToTarget(r)
  PROVE  ToTargetInv(r)'
<1>1. Lost(r) \subseteq Lost(r)' /\ Of(r, discarded) \subseteq Of(r, discarded')
  BY LostGrows DEF SameToTarget
<1>2. Of(r, toHost') = Of(r, toHost)
  BY DEF SameToTarget, Of
<1>3. InPlace(gotTarget[r], Lost(r))'
  BY <1>1, InPlaceMore DEF ToTargetInv, SameToTarget
<1>4. (life[r] # "stuck")' =>
        ChanOK(r, reqChans[r], gotTarget[r], written[r], Lost(r))'
  BY <1>1, ChanMore DEF ToTargetInv, SameToTarget
<1>5. (life[r] \notin {"stuck", "over"})' => life[r] \notin {"stuck", "over"}
  BY DEF SameToTarget
<1> QED BY <1>1, <1>2, <1>3, <1>4, <1>5 DEF ToTargetInv, SameToTarget

(* The way back. *)
SameToLocal(r) ==
  /\ gotLocal'[r] = gotLocal[r] /\ answered'[r] = answered[r]
  /\ \A n : Msg("data", r, n) \in toClient' <=> Msg("data", r, n) \in toClient
  /\ lateToClient \subseteq lateToClient'
  /\ r \in localActive' \ stuck' => r \in localActive \ stuck
  /\ Disconnect(r) \in toClient' => Disconnect(r) \in toClient
  /\ targetReader[r] = "over" => targetReader'[r] = "over"
  /\ Msg("error", r, 0) \in toClient' => Msg("error", r, 0) \in toClient
  /\ (life[r] = "over" /\ target[r] = "none") => (life'[r] = "over" /\ target'[r] = "none")

LEMMA KeepToLocal ==
  ASSUME NEW r \in Streams, ToLocalInv(r), SameToLocal(r)
  PROVE  ToLocalInv(r)'
<1>1. Of(r, lateToClient) \subseteq Of(r, lateToClient')
  BY DEF SameToLocal, Of
<1>2. Of(r, toClient') = Of(r, toClient)
  BY DEF SameToLocal, Of
<1>3. InPlace(gotLocal[r], Of(r, lateToClient))'
  BY <1>1, InPlaceMore DEF ToLocalInv, SameToLocal
<1> QED BY <1>1, <1>2, <1>3 DEF ToLocalInv, SameToLocal

Same(r) == SameLife(r) /\ SameToTarget(r) /\ SameToLocal(r)

LEMMA KeepStream ==
  ASSUME NEW r \in Streams, StreamInv(r), Same(r)
  PROVE  StreamInv(r)'
BY KeepLife, KeepToTarget, KeepToLocal DEF StreamInv, Same

(* The other streams, and what is on its way of them. *)
LEMMA OtherMessages ==
  ASSUME NEW r, NEW s, s # r, NEW t, NEW n
  PROVE  \A u, k : Msg(u, s, k) # Msg(t, r, n)
BY MsgFields

LEMMA StreamInit == Init => TunnelInv
<1> SUFFICES ASSUME Init PROVE TunnelInv
  OBVIOUS
<1>1. TypeOK
  BY TypeInit
<1> SUFFICES ASSUME NEW r \in Streams PROVE StreamInv(r)
  BY <1>1 DEF TunnelInv
<1>2. /\ local[r] = "none" /\ localReader[r] = "off" /\ toHost = {} /\ toClient = {}
      /\ life[r] = "off" /\ reqChans[r] = << >> /\ target[r] = "none"
      /\ targetReader[r] = "off" /\ answered[r] = 0 /\ written[r] = 0
      /\ gotTarget[r] = << >> /\ gotLocal[r] = << >> /\ closedBy[r] = "nobody"
      /\ hostActive = {} /\ localActive = {}
  BY DEF Init
<1>3. LifeInv(r)
  BY <1>2 DEF LifeInv
<1>4. InPlace(<< >>, Lost(r)) /\ InPlace(<< >>, Of(r, lateToClient))
  BY DEF InPlace
<1>5. Of(r, {}) = {} /\ 1 .. 0 = {}
  BY DEF Of
<1>6. ToTargetInv(r)
  BY <1>2, <1>4, <1>5, ChanEmpty, EmptyGiven DEF ToTargetInv
<1>7. ToLocalInv(r)
  BY <1>2, <1>4, <1>5, EmptyGiven DEF ToLocalInv
<1> QED BY <1>3, <1>6, <1>7 DEF StreamInv

-----------------------------------------------------------------------------
(***************************************************************************)
(* The invariant, action by action: first the stream of the action, then   *)
(* the others.                                                             *)
(***************************************************************************)
LEMMA StreamApp ==
  ASSUME TunnelInv, NEW r \in Streams, App(r)
  PROVE  \A s \in Streams : StreamInv(s)'
<1>1. TypeOK /\ \A s \in Streams : StreamInv(s)
  BY DEF TunnelInv
<1>2. ASSUME NEW s \in Streams PROVE SameToTarget(s)
  BY <1>2 DEF App, LocalApp, LocalStopsReading, TargetApp, TargetStopsReading,
       SameToTarget, client, hostTbl, remote, got
<1>3. CASE LocalApp(r)
  <2>1. ASSUME NEW s \in Streams PROVE SameToLocal(s)
    BY <1>3 DEF LocalApp, SameToLocal, hostTbl, remote, got
  <2>2. ASSUME NEW s \in Streams PROVE LifeInv(s)'
    <3>1. CASE s = r
      <4>1. local[r] \in {"open", "half"} /\ local'[r] \in {"half", "gone"}
        BY <1>1, <1>3 DEF LocalApp, TypeOK
      <4> QED BY <1>1, <1>3, <3>1, <4>1 DEF LocalApp, StreamInv, LifeInv, hostTbl, remote, got
    <3>2. CASE s # r
      BY <1>1, <1>3, <3>2, KeepLife
         DEF LocalApp, SameLife, StreamInv, TypeOK, hostTbl, remote, got
    <3> QED BY <3>1, <3>2
  <2> QED BY <1>1, <1>2, <2>1, <2>2, KeepToTarget, KeepToLocal DEF StreamInv
<1>4. CASE LocalStopsReading(r) \/ TargetStopsReading(r)
  <2>1. ASSUME NEW s \in Streams PROVE SameLife(s) /\ SameToLocal(s)
    BY <1>4 DEF LocalStopsReading, TargetStopsReading, SameLife, SameToLocal,
         client, hostTbl, remote, got
  <2> QED BY <1>1, <1>2, <2>1, KeepStream DEF Same
<1>5. CASE TargetApp(r)
  <2>1. target[r] \in {"open", "half"} /\ target'[r] \in {"half", "gone"}
    BY <1>1, <1>5 DEF TargetApp, TypeOK
  <2>2. ASSUME NEW s \in Streams, s # r PROVE target'[s] = target[s]
    BY <1>1, <1>5, <2>2 DEF TargetApp, TypeOK
  <2>3. ASSUME NEW s \in Streams PROVE SameToLocal(s)
    BY <1>5, <2>1, <2>2 DEF TargetApp, SameToLocal, client, hostTbl, got
  <2>4. ASSUME NEW s \in Streams PROVE LifeInv(s)'
    <3>1. CASE s = r
      BY <1>1, <1>5, <2>1, <3>1 DEF TargetApp, StreamInv, LifeInv, client, hostTbl, got
    <3>2. CASE s # r
      BY <1>1, <1>5, <2>2, <3>2, KeepLife
         DEF TargetApp, SameLife, StreamInv, client, hostTbl, got
    <3> QED BY <3>1, <3>2
  <2> QED BY <1>1, <1>2, <2>3, <2>4, KeepToTarget, KeepToLocal DEF StreamInv
<1> QED BY <1>3, <1>4, <1>5 DEF App

LEMMA StreamStop ==
  ASSUME TunnelInv, Stop \/ HostStops
  PROVE  \A s \in Streams : StreamInv(s)'
<1>1. TypeOK /\ \A s \in Streams : StreamInv(s)
  BY DEF TunnelInv
<1>2. ASSUME NEW s \in Streams PROVE SameToTarget(s)
  BY DEF Stop, HostStops, SameToTarget, client, hostTbl, remote, got
<1>3. CASE Stop
  <2>1. ASSUME NEW s \in Streams
        PROVE  /\ target'[s] = IF s \in hostActive THEN "closed" ELSE target[s]
               /\ closedBy'[s] = IF s \in hostActive /\ closedBy[s] = "nobody"
                                 THEN "Stop" ELSE closedBy[s]
               /\ s \notin hostActive'
               /\ s \in hostActive => target[s] # "none"
    BY <1>1, <1>3 DEF Stop, StreamInv, LifeInv
  <2>2. ASSUME NEW s \in Streams PROVE SameToLocal(s)
    BY <1>3, <2>1 DEF Stop, SameToLocal, client, hostTbl
  <2>3. ASSUME NEW s \in Streams PROVE LifeInv(s)'
    BY <1>1, <1>3, <2>1 DEF Stop, StreamInv, LifeInv, client, hostTbl
  <2> QED BY <1>1, <1>2, <2>2, <2>3, KeepToTarget, KeepToLocal DEF StreamInv
<1>4. CASE HostStops
  <2>1. ASSUME NEW s \in Streams PROVE SameLife(s) /\ SameToLocal(s)
    BY <1>4 DEF HostStops, SameLife, SameToLocal, client, hostTbl, remote, got
  <2> QED BY <1>1, <1>2, <2>1, KeepStream DEF Same
<1> QED BY <1>3, <1>4

LEMMA StreamAccept ==
  ASSUME TunnelInv, NEW r \in Streams, Accept(r)
  PROVE  \A s \in Streams : StreamInv(s)'
<1>1. TypeOK /\ \A s \in Streams : StreamInv(s)
  BY DEF TunnelInv
<1>2. /\ local[r] = "none" /\ local'[r] = "open" /\ localReader'[r] = "on"
      /\ \A s \in Streams \ {r} :
           local'[s] = local[s] /\ localReader'[s] = localReader[s]
  BY <1>1 DEF Accept, TypeOK
<1>3. /\ life[r] = "off" /\ localReader[r] = "off" /\ answered[r] = 0
  BY <1>1, <1>2 DEF StreamInv, LifeInv
<1>4. ASSUME NEW s \in Streams, NEW t, NEW n
      PROVE  Msg(t, s, n) \in toHost' <=>
             (Msg(t, s, n) \in toHost \/ (t = "connect" /\ s = r /\ n = 0))
  BY MsgFields DEF Accept, SendHost
<1>5. ASSUME NEW s \in Streams PROVE SameToTarget(s)
  BY <1>2, <1>3, <1>4 DEF Accept, SameToTarget, Disconnect, hostTbl, remote, got
<1>6. ASSUME NEW s \in Streams, s # r PROVE SameLife(s) /\ SameToLocal(s)
  BY <1>2, <1>4, <1>6 DEF Accept, SameLife, SameToLocal, hostTbl, remote, got
<1>7. LifeInv(r)'
  BY <1>1, <1>2, <1>3 DEF Accept, StreamInv, LifeInv, hostTbl, remote, got
<1>8. ToLocalInv(r)'
  <2>1. 1 .. answered[r] = {}
    BY <1>3
  <2> QED BY <1>1, <2>1 DEF Accept, StreamInv, ToLocalInv, hostTbl, remote, got
<1> QED BY <1>1, <1>5, <1>6, <1>7, <1>8, KeepStream, KeepToTarget DEF Same, StreamInv

LEMMA StreamForwardLocalData ==
  ASSUME TunnelInv, NEW r \in Streams, ForwardLocalData(r)
  PROVE  \A s \in Streams : StreamInv(s)'
<1> DEFINE w == written[r]
<1>1. TypeOK /\ \A s \in Streams : StreamInv(s)
  BY DEF TunnelInv
<1>2. /\ w \in Nat /\ w + 1 \in 1 .. MaxData
      /\ written'[r] = w + 1
      /\ \A s \in Streams \ {r} : written'[s] = written[s]
  BY <1>1, TunnelAssumption DEF ForwardLocalData, MayTalk, TypeOK
<1>3. ASSUME NEW s \in Streams, NEW t, NEW n
      PROVE  Msg(t, s, n) \in toHost' <=>
             (Msg(t, s, n) \in toHost \/ (t = "data" /\ s = r /\ n = w + 1))
  BY MsgFields DEF ForwardLocalData, SendHost
<1>4. ASSUME NEW s \in Streams PROVE SameLife(s) /\ SameToLocal(s)
  BY <1>3 DEF ForwardLocalData, SameLife, SameToLocal, hostTbl, remote, got
<1>5. ASSUME NEW s \in Streams, s # r PROVE SameToTarget(s)
  BY <1>2, <1>3, <1>5
     DEF ForwardLocalData, SameToTarget, Disconnect, hostTbl, remote, got
<1>6. ToTargetInv(r)'
  <2>1. /\ UNCHANGED <<reqChans, gotTarget, life, closedBy, localReader, discarded>>
        /\ Lost(r)' = Lost(r) /\ localReader[r] = "on"
    BY DEF ForwardLocalData, hostTbl, remote, got, Lost
  <2>2. Of(r, toHost') = Of(r, toHost) \cup {w + 1}
    BY <1>2, <1>3 DEF Of
  <2>3. 1 .. w + 1 = (1 .. w) \cup {w + 1} /\ w + 1 \notin 1 .. w
    BY <1>2
  <2>4. /\ closedBy[r] # "disconnect" /\ Disconnect(r) \notin toHost
        /\ \A j \in DOMAIN reqChans[r] : reqChans[r][j].type # "disconnect"
    BY <1>1, <2>1 DEF StreamInv, ToTargetInv
  <2>5. life[r] # "stuck" => ChanOK(r, reqChans[r], gotTarget[r], w + 1, Lost(r))
    BY <1>1, <2>4 DEF StreamInv, ToTargetInv, ChanOK
  <2>6. Disconnect(r) \notin toHost'
    BY <1>3, <2>4 DEF Disconnect
  <2> QED BY <1>1, <1>2, <2>1, <2>2, <2>3, <2>4, <2>5, <2>6 DEF StreamInv, ToTargetInv
<1> QED BY <1>1, <1>4, <1>5, <1>6, KeepStream, KeepLife, KeepToLocal DEF Same, StreamInv

LEMMA StreamForwardLocalEnd ==
  ASSUME TunnelInv, NEW r \in Streams, ForwardLocalEnd(r)
  PROVE  \A s \in Streams : StreamInv(s)'
<1>1. TypeOK /\ \A s \in Streams : StreamInv(s)
  BY DEF TunnelInv
<1>2. /\ localReader[r] = "on" /\ local[r] # "open" /\ localReader'[r] = "over"
      /\ \A s \in Streams \ {r} : localReader'[s] = localReader[s]
      /\ r \notin localActive' /\ localActive' \subseteq localActive
  BY <1>1 DEF ForwardLocalEnd, TypeOK
<1>3. ASSUME NEW s \in Streams, NEW t, NEW n
      PROVE  Msg(t, s, n) \in toHost' <=>
             (Msg(t, s, n) \in toHost \/ (t = "disconnect" /\ s = r /\ n = 0))
  BY MsgFields DEF ForwardLocalEnd, SendHost
<1>4. ASSUME NEW s \in Streams PROVE SameToLocal(s)
  BY <1>2, <1>3 DEF ForwardLocalEnd, SameToLocal, hostTbl, remote, got
<1>5. ASSUME NEW s \in Streams, s # r PROVE SameToTarget(s) /\ SameLife(s)
  BY <1>2, <1>3, <1>5
     DEF ForwardLocalEnd, SameToTarget, SameLife, Disconnect, hostTbl, remote, got
<1>6. LifeInv(r)'
  BY <1>1, <1>2, <1>3 DEF ForwardLocalEnd, StreamInv, LifeInv, hostTbl, remote, got
<1>7. ToTargetInv(r)'
  <2>1. /\ UNCHANGED <<reqChans, gotTarget, life, closedBy, written, discarded>>
        /\ Lost(r)' = Lost(r)
    BY DEF ForwardLocalEnd, hostTbl, remote, got, Lost
  <2>2. Of(r, toHost') = Of(r, toHost)
    BY <1>3 DEF Of
  <2> QED BY <1>1, <1>2, <2>1, <2>2 DEF StreamInv, ToTargetInv
<1> QED BY <1>1, <1>4, <1>5, <1>6, <1>7, KeepStream, KeepToLocal DEF Same, StreamInv

LEMMA StreamForwardTargetData ==
  ASSUME TunnelInv, NEW r \in Streams, ForwardTargetData(r)
  PROVE  \A s \in Streams : StreamInv(s)'
<1> DEFINE a == answered[r]
<1>1. TypeOK /\ \A s \in Streams : StreamInv(s)
  BY DEF TunnelInv
<1>2. /\ a \in Nat /\ a + 1 \in 1 .. MaxData
      /\ answered'[r] = a + 1 /\ target[r] = "open"
      /\ \A s \in Streams \ {r} : answered'[s] = answered[s]
  BY <1>1, TunnelAssumption DEF ForwardTargetData, MayTalk, TypeOK
<1>3. ASSUME NEW s \in Streams, NEW t, NEW n
      PROVE  Msg(t, s, n) \in toClient' <=>
             (Msg(t, s, n) \in toClient \/ (t = "data" /\ s = r /\ n = a + 1))
  BY MsgFields DEF ForwardTargetData, SendClient
<1>4. ASSUME NEW s \in Streams PROVE SameToTarget(s)
  BY DEF ForwardTargetData, SameToTarget, client, hostTbl, got
<1>5. ASSUME NEW s \in Streams, s # r PROVE SameLife(s) /\ SameToLocal(s)
  BY <1>2, <1>3, <1>5
     DEF ForwardTargetData, SameLife, SameToLocal, Disconnect, client, hostTbl, got
<1>6. LifeInv(r)'
  BY <1>1, <1>2 DEF ForwardTargetData, StreamInv, LifeInv, client, hostTbl, got
<1>7. ToLocalInv(r)'
  <2>1. Of(r, toClient') = Of(r, toClient) \cup {a + 1}
    BY <1>2, <1>3 DEF Of
  <2>2. 1 .. a + 1 = (1 .. a) \cup {a + 1} /\ a + 1 \notin 1 .. a
    BY <1>2
  <2>3. /\ Disconnect(r) \in toClient' => Disconnect(r) \in toClient
        /\ Msg("error", r, 0) \in toClient' => Msg("error", r, 0) \in toClient
    BY <1>3 DEF Disconnect
  <2>4. UNCHANGED <<gotLocal, lateToClient, localActive, stuck, targetReader, life, target>>
    BY DEF ForwardTargetData, client, hostTbl, got
  <2> QED BY <1>1, <1>2, <2>1, <2>2, <2>3, <2>4 DEF StreamInv, ToLocalInv
<1> QED BY <1>1, <1>4, <1>5, <1>6, <1>7, KeepStream, KeepToTarget DEF Same, StreamInv

LEMMA StreamForwardTargetEnd ==
  ASSUME TunnelInv, NEW r \in Streams, ForwardTargetEnd(r)
  PROVE  \A s \in Streams : StreamInv(s)'
<1>1. TypeOK /\ \A s \in Streams : StreamInv(s)
  BY DEF TunnelInv
<1>2. /\ targetReader[r] = "on" /\ target[r] # "open" /\ targetReader'[r] = "over"
      /\ \A s \in Streams \ {r} : targetReader'[s] = targetReader[s]
      /\ hostActive' \subseteq hostActive
  BY <1>1 DEF ForwardTargetEnd, TypeOK
<1>3. ASSUME NEW s \in Streams, NEW t, NEW n
      PROVE  Msg(t, s, n) \in toClient' <=>
             (Msg(t, s, n) \in toClient \/ (t = "disconnect" /\ s = r /\ n = 0))
  BY MsgFields DEF ForwardTargetEnd, SendClient
<1>4. ASSUME NEW s \in Streams PROVE SameToTarget(s)
  BY DEF ForwardTargetEnd, SameToTarget, client, hostTbl, got
<1>5. ASSUME NEW s \in Streams, s # r PROVE SameLife(s) /\ SameToLocal(s)
  BY <1>2, <1>3, <1>5
     DEF ForwardTargetEnd, SameLife, SameToLocal, Disconnect, client, hostTbl, got
<1>6. LifeInv(r)'
  BY <1>1, <1>2 DEF ForwardTargetEnd, StreamInv, LifeInv, client, hostTbl, got
<1>7. ToLocalInv(r)'
  <2>1. Of(r, toClient') = Of(r, toClient)
    BY <1>3 DEF Of
  <2>2. Msg("error", r, 0) \in toClient' => Msg("error", r, 0) \in toClient
    BY <1>3
  <2>3. UNCHANGED <<gotLocal, answered, lateToClient, localActive, stuck, life, target>>
    BY DEF ForwardTargetEnd, client, hostTbl, got
  <2> QED BY <1>1, <1>2, <2>1, <2>2, <2>3 DEF StreamInv, ToLocalInv
<1> QED BY <1>1, <1>4, <1>5, <1>6, <1>7, KeepStream, KeepToTarget DEF Same, StreamInv

LEMMA StreamHostReceive ==
  ASSUME TunnelInv, NEW m \in toHost, HostReceive(m)
  PROVE  \A s \in Streams : StreamInv(s)'
<1> DEFINE r == m.request
           q == reqChans[r]
           g == gotTarget[r]
           w == written[r]
<1>1. TypeOK /\ \A s \in Streams : StreamInv(s)
  BY DEF TunnelInv
<1>2. /\ m \in Message /\ r \in Streams /\ q \in Seq(Message)
  BY <1>1, MessageFields DEF TypeOK
<1>3. ASSUME NEW s \in Streams, s # r, NEW t, NEW n
      PROVE  m # Msg(t, s, n)
  BY <1>3, MsgFields
<1>4. ASSUME NEW s \in Streams PROVE SameToLocal(s)
  <2>1. life[s] = "over" => life'[s] = "over"
    <3>1. CASE m.type = "connect"
      <4>1. m = Msg("connect", r, 0)
        BY <1>2, <3>1, MessageFields
      <4>2. life[r] = "off"
        BY <1>1, <1>2, <4>1 DEF StreamInv, LifeInv
      <4> QED BY <1>1, <1>2, <3>1, <4>2 DEF HostReceive, TypeOK
    <3>2. CASE m.type # "connect"
      BY <3>2 DEF HostReceive
    <3> QED BY <3>1, <3>2
  <2> QED BY <2>1 DEF HostReceive, SameToLocal, client, remote
<1>5. ASSUME NEW s \in Streams, s # r PROVE SameLife(s) /\ SameToTarget(s)
  <2>1. reqChans'[s] = reqChans[s] /\ life'[s] = life[s]
    BY <1>1, <1>2, <1>5 DEF HostReceive, TypeOK
  <2>2. \A t, n : Msg(t, s, n) \in toHost' <=> Msg(t, s, n) \in toHost
    BY <1>3, <1>5 DEF HostReceive
  <2>3. lateToHost \subseteq lateToHost' /\ discarded \subseteq discarded'
    BY DEF HostReceive
  <2> QED BY <2>1, <2>2, <2>3
          DEF HostReceive, SameLife, SameToTarget, Disconnect, client, remote
<1>6. LifeInv(r)' /\ ToTargetInv(r)'
  <2>1. /\ UNCHANGED <<client, remote, gotTarget, closedBy>>
        /\ toHost' = toHost \ {m}
        /\ lateToHost \subseteq lateToHost' /\ discarded \subseteq discarded'
    BY DEF HostReceive
  <2>2. Lost(r) \subseteq Lost(r)' /\ Of(r, discarded) \subseteq Of(r, discarded')
    BY <2>1, LostGrows
  <2>3. InPlace(gotTarget[r], Lost(r))'
    BY <1>1, <1>2, <2>1, <2>2, InPlaceMore DEF StreamInv, ToTargetInv
  <2>4. Of(r, toHost') \subseteq Of(r, toHost)
    BY <2>1 DEF Of
  <2>5. m.type # "data" => Of(r, toHost') = Of(r, toHost)
    BY <2>1, MsgFields DEF Of
  <2>6. m.type = "data" =>
          /\ m.data \in 1 .. MaxData /\ m = Msg("data", r, m.data)
          /\ m.data \in Of(r, toHost) /\ Of(r, toHost') = Of(r, toHost) \ {m.data}
    <3> SUFFICES ASSUME m.type = "data"
                 PROVE  /\ m.data \in 1 .. MaxData /\ m = Msg("data", r, m.data)
                        /\ m.data \in Of(r, toHost)
                        /\ Of(r, toHost') = Of(r, toHost) \ {m.data}
      OBVIOUS
    <3>1. m.data \in 1 .. MaxData /\ m = Msg("data", r, m.data)
      BY <1>2, MessageFields
    <3>2. \A n : Msg("data", r, n) = m <=> n = m.data
      BY <3>1, MsgFields
    <3> QED BY <2>1, <3>1, <3>2 DEF Of
  <2>7. m.type = "disconnect" => Disconnect(r) \in toHost /\ localReader[r] = "over"
    <3>1. m.type = "disconnect" => m = Disconnect(r)
      BY <1>2, MessageFields DEF Disconnect
    <3> QED BY <1>1, <1>2, <3>1 DEF StreamInv, ToTargetInv
  <2>8. CASE m.type = "connect"
    <3>1. m = Msg("connect", r, 0)
      BY <1>2, <2>8, MessageFields
    <3>2. life[r] = "off" /\ local[r] # "none" /\ q = << >>
      BY <1>1, <1>2, <3>1 DEF StreamInv, LifeInv
    <3>3. /\ reqChans'[r] = <<m>> /\ life'[r] = "wait" /\ discarded' = discarded
          /\ Msg("connect", r, 0) \notin toHost'
      BY <1>1, <1>2, <2>1, <2>8, <3>1 DEF HostReceive, TypeOK
    <3>4. <<m>> # << >> /\ <<m>>[1] = m /\ DOMAIN <<m>> = {1}
      OBVIOUS
    <3>5. LifeInv(r)'
      BY <1>1, <1>2, <2>1, <2>8, <3>2, <3>3, <3>4
         DEF StreamInv, LifeInv, client, remote
    <3>6. Waiting(r, <<m>>) = {} /\ Waiting(r, q) = {}
      BY <2>8, <3>2, HeadNoData, EmptyGiven
    <3>7. ChanOK(r, <<m>>, g, w, Lost(r)')
      BY <2>8, <3>4 DEF ChanOK
    <3>8. Disconnect(r) \in toHost' => Disconnect(r) \in toHost
      BY <2>1
    <3>9. Of(r, toHost') = Of(r, toHost)
      BY <2>5, <2>8
    <3> QED BY <1>1, <1>2, <2>1, <2>2, <2>3, <2>8, <3>2, <3>3, <3>4, <3>5, <3>6, <3>7, <3>8,
               <3>9
            DEF StreamInv, ToTargetInv, client, remote
  <2>9. CASE m.type # "connect" /\ HasRoom(r)
    <3> DEFINE a == Append(q, m)
    <3>1. /\ reqChans'[r] = a /\ life' = life /\ discarded' = discarded
          /\ life[r] \notin {"off", "over"}
      BY <1>1, <1>2, <2>9 DEF HostReceive, HasRoom, HasChan, TypeOK
    <3>2. /\ \A j \in DOMAIN q : j \in DOMAIN a /\ a[j] = q[j]
          /\ a[Len(q) + 1] = m /\ a # << >>
          /\ \A j \in DOMAIN a : j \in DOMAIN q \/ j = Len(q) + 1
          /\ m.type = "data" => Waiting(r, a) = Waiting(r, q) \cup {m.data}
          /\ m.type # "data" => Waiting(r, a) = Waiting(r, q)
      BY <1>2, ChanAppend, AppendQueue
    <3>3. life[r] # "stuck" => ChanOK(r, a, g, w, Lost(r)')
      <4> SUFFICES ASSUME life[r] # "stuck" PROVE ChanOK(r, a, g, w, Lost(r)')
        OBVIOUS
      <4>1. ChanOK(r, q, g, w, Lost(r)')
        BY <1>1, <1>2, <2>2, ChanMore DEF StreamInv, ToTargetInv
      <4>2. 1 .. w \subseteq Of(r, toHost) \cup Given(g) \cup Waiting(r, q) \cup Lost(r)
        BY <1>1, <1>2, <3>1 DEF StreamInv, ToTargetInv, Lost, Of
      <4>3. ASSUME m.type = "data"
            PROVE  /\ m.data \notin Given(g) \cup Waiting(r, q)
                   /\ 1 .. m.data - 1 \subseteq Given(g) \cup Waiting(r, q) \cup Lost(r)'
        <5>1. m.data \notin Given(g) \cup Waiting(r, q) /\ m.data \in 1 .. w
          BY <1>1, <1>2, <2>6, <4>3 DEF StreamInv, ToTargetInv
        <5>2. w \in Nat
          BY <1>1, <1>2 DEF TypeOK
        <5>3. ASSUME NEW n \in 1 .. m.data - 1, n \in Of(r, toHost) PROVE n \in Lost(r)'
          <6>1. /\ n \in 1 .. MaxData /\ n < m.data
                /\ Msg("data", r, n) \in toHost
            BY <2>6, <4>3, <5>3 DEF Of
          <6>2. Msg("data", r, n) \in SentBefore(m, toHost)
            BY <4>3, <6>1, MsgFields DEF SentBefore
          <6>3. Msg("data", r, n) \in lateToHost'
            BY <6>2 DEF HostReceive
          <6> QED BY <6>1, <6>3 DEF Lost, Of
        <5>4. ASSUME NEW n \in 1 .. m.data - 1 PROVE n \in 1 .. w
          BY <5>1, <5>2
        <5> QED BY <2>2, <4>2, <5>1, <5>3, <5>4
      <4>4. ASSUME m.type = "disconnect"
            PROVE  1 .. w \subseteq Given(g) \cup Waiting(r, q) \cup Lost(r)'
        <5>1. ASSUME NEW n \in Of(r, toHost) PROVE n \in Lost(r)'
          <6>1. n \in 1 .. MaxData /\ Msg("data", r, n) \in toHost
            BY <5>1 DEF Of
          <6>2. Msg("data", r, n) \in SentBefore(m, toHost)
            BY <4>4, <6>1, MsgFields DEF SentBefore
          <6>3. Msg("data", r, n) \in lateToHost'
            BY <6>2 DEF HostReceive
          <6> QED BY <6>1, <6>3 DEF Lost, Of
        <5> QED BY <2>2, <4>2, <5>1
      <4> QED BY <1>2, <4>1, <4>3, <4>4, ChanOKAppend
    <3> HIDE DEF a
    <3>4. Msg("connect", r, 0) \in toHost' => Msg("connect", r, 0) \in toHost
      BY <2>1
    <3>5. LifeInv(r)'
      <4>1. q # << >> => 1 \in DOMAIN q
        BY <1>2, TailQueue
      <4> QED BY <1>1, <1>2, <2>1, <3>1, <3>2, <3>4, <4>1
              DEF StreamInv, LifeInv, client, remote
    <3>6. (Disconnect(r) \in toHost' \/ \E j \in DOMAIN a : a[j].type = "disconnect") =>
             \/ Disconnect(r) \in toHost
             \/ \E j \in DOMAIN q : q[j].type = "disconnect"
      BY <2>1, <2>7, <3>2
    <3>7. Of(r, toHost') \cup Waiting(r, a) = Of(r, toHost) \cup Waiting(r, q)
      BY <2>5, <2>6, <3>2
    <3>8. Of(r, toHost') \cap (Given(g) \cup Waiting(r, a)) = {}
      BY <1>1, <1>2, <2>5, <2>6, <3>2 DEF StreamInv, ToTargetInv
    <3>9. /\ Given(g) \cup Waiting(r, a) \cup Of(r, toHost') \subseteq 1 .. w
          /\ life[r] \notin {"stuck", "over"} =>
               1 .. w \subseteq Of(r, toHost') \cup Given(g) \cup Waiting(r, a)
                                \cup Of(r, discarded')
      BY <1>1, <1>2, <3>1, <3>7 DEF StreamInv, ToTargetInv
    <3>10. ToTargetInv(r)'
      BY <1>1, <1>2, <2>1, <2>2, <2>3, <3>1, <3>3, <3>6, <3>8, <3>9
         DEF StreamInv, ToTargetInv, client, remote
    <3> QED BY <3>5, <3>10
  <2>10. CASE m.type # "connect" /\ ~HasRoom(r)
    <3>1. /\ UNCHANGED <<reqChans, life>> /\ discarded' = discarded \cup {m}
      BY <2>10 DEF HostReceive
    <3>2. SameLife(r)
      BY <2>1, <3>1 DEF SameLife, client, remote
    <3>3. m.type = "data" => m.data \in Of(r, discarded')
      BY <2>6, <3>1 DEF Of
    <3>4. Of(r, toHost) \subseteq Of(r, toHost') \cup Of(r, discarded')
      BY <2>5, <2>6, <3>3
    <3>5. life[r] # "stuck" => ChanOK(r, q, g, w, Lost(r)')
      BY <1>1, <1>2, <2>2, ChanMore DEF StreamInv, ToTargetInv
    <3>6. Disconnect(r) \in toHost' => Disconnect(r) \in toHost
      BY <2>1
    <3>7. /\ Given(g) \cup Waiting(r, q) \cup Of(r, toHost') \subseteq 1 .. w
          /\ Of(r, toHost') \cap (Given(g) \cup Waiting(r, q)) = {}
          /\ life[r] \notin {"stuck", "over"} =>
               1 .. w \subseteq Of(r, toHost') \cup Given(g) \cup Waiting(r, q)
                                \cup Of(r, discarded')
      BY <1>1, <1>2, <2>2, <2>4, <3>4 DEF StreamInv, ToTargetInv
    <3>8. ToTargetInv(r)'
      BY <1>1, <1>2, <2>1, <2>2, <2>3, <3>1, <3>5, <3>6, <3>7
         DEF StreamInv, ToTargetInv, client, remote
    <3> QED BY <1>1, <1>2, <3>2, <3>8, KeepLife DEF StreamInv
  <2> QED BY <2>8, <2>9, <2>10
<1> QED BY <1>1, <1>2, <1>4, <1>5, <1>6, KeepStream, KeepToLocal DEF Same, StreamInv

(* The lifecycle takes a message that is not data, or blocks on it. *)
LEMMA StreamStartDial ==
  ASSUME TunnelInv, NEW r \in Streams, StartDial(r)
  PROVE  \A s \in Streams : StreamInv(s)'
<1> DEFINE q == reqChans[r]
<1>1. TypeOK /\ \A s \in Streams : StreamInv(s)
  BY DEF TunnelInv
<1>2. /\ life[r] = "wait" /\ q # << >> /\ q \in Seq(Message)
      /\ reqChans'[r] = Tail(q) /\ life'[r] = "dial"
      /\ \A s \in Streams \ {r} : reqChans'[s] = reqChans[s] /\ life'[s] = life[s]
      /\ UNCHANGED <<client, remote, host, toHost, toClient, got>>
  BY <1>1 DEF StartDial, TypeOK
<1>3. ASSUME NEW s \in Streams, s # r PROVE Same(s)
  BY <1>2, <1>3 DEF Same, SameLife, SameToTarget, SameToLocal, client, remote, got
<1>4. Head(q).type = "connect" /\ Waiting(r, <<Head(q)>>) = {}
  <2>1. Head(q).type = "connect"
    BY <1>1, <1>2, TailQueue DEF StreamInv, LifeInv
  <2> QED BY <2>1, HeadNoData
<1>5. LifeInv(r)'
  BY <1>1, <1>2 DEF StreamInv, LifeInv, client, remote, got
<1>6. ToTargetInv(r)'
  <2>1. ChanOK(r, Tail(q), gotTarget[r], written[r], Lost(r))
    BY <1>1, <1>2, <1>4, ChanOKTail DEF StreamInv, ToTargetInv
  <2>2. Waiting(r, Tail(q)) = Waiting(r, q)
    <3>1. Waiting(r, q) = Waiting(r, <<Head(q)>>) \cup Waiting(r, Tail(q))
      <4>1. q \in Seq(Message) /\ q # << >>
        BY <1>2
      <4> HIDE DEF q
      <4> QED BY <4>1, ChanTail
    <3> QED BY <1>4, <3>1
  <2>3. (\E j \in DOMAIN Tail(q) : Tail(q)[j].type = "disconnect") =>
          \E j \in DOMAIN q : q[j].type = "disconnect"
    BY <1>2, ChanTail
  <2>4. Lost(r)' = Lost(r)
    BY <1>2 DEF Lost, got
  <2> QED BY <1>1, <1>2, <2>1, <2>2, <2>3, <2>4
          DEF StreamInv, ToTargetInv, client, remote, got
<1>7. SameToLocal(r)
  BY <1>2 DEF SameToLocal, client, remote, got
<1> QED BY <1>1, <1>3, <1>5, <1>6, <1>7, KeepStream, KeepToLocal DEF StreamInv

LEMMA StreamDialOk ==
  ASSUME TunnelInv, NEW r \in Streams, DialOk(r)
  PROVE  \A s \in Streams : StreamInv(s)'
<1>1. TypeOK /\ \A s \in Streams : StreamInv(s)
  BY DEF TunnelInv
<1>2. /\ life[r] = "dial" /\ life'[r] = "run" /\ target'[r] = "open"
      /\ targetReader'[r] = "on" /\ hostActive' = hostActive \cup {r}
      /\ \A s \in Streams \ {r} : life'[s] = life[s] /\ target'[s] = target[s]
                                  /\ targetReader'[s] = targetReader[s]
      /\ UNCHANGED <<client, reqChans, answered, host, toHost, toClient, got>>
  BY <1>1 DEF DialOk, TypeOK
<1>3. ASSUME NEW s \in Streams, s # r PROVE Same(s)
  BY <1>2, <1>3 DEF Same, SameLife, SameToTarget, SameToLocal, client, got
<1>4. target[r] = "none" /\ targetReader[r] = "off"
  BY <1>1, <1>2 DEF StreamInv, LifeInv
<1>5. LifeInv(r)'
  BY <1>1, <1>2, <1>4 DEF StreamInv, LifeInv, client, got
<1>6. SameToTarget(r) /\ SameToLocal(r)
  BY <1>2, <1>4 DEF SameToTarget, SameToLocal, client, got
<1> QED BY <1>1, <1>3, <1>5, <1>6, KeepStream, KeepToTarget, KeepToLocal DEF StreamInv

(* What has no channel any more leaves the way to the target as it is. *)
LEMMA Forgotten ==
  ASSUME NEW r \in Streams, ToTargetInv(r),
         reqChans'[r] = << >>, life'[r] = "over",
         UNCHANGED <<gotTarget, written, toHost, lateToHost, discarded, localReader>>,
         closedBy'[r] = "disconnect" =>
           /\ 1 .. written[r] \subseteq Given(gotTarget[r]) \cup Lost(r)
           /\ localReader[r] = "over"
  PROVE  ToTargetInv(r)'
<1>1. ChanOK(r, << >>, gotTarget[r], written[r], Lost(r)) /\ Waiting(r, << >>) = {}
  BY ChanEmpty, EmptyGiven
<1>2. Lost(r)' = Lost(r)
  BY DEF Lost
<1>3. DOMAIN << >> = {}
  OBVIOUS
<1> QED BY <1>1, <1>2, <1>3 DEF ToTargetInv

LEMMA StreamDialFails ==
  ASSUME TunnelInv, NEW r \in Streams, DialFails(r)
  PROVE  \A s \in Streams : StreamInv(s)'
<1>1. TypeOK /\ \A s \in Streams : StreamInv(s)
  BY DEF TunnelInv
<1>2. /\ life[r] = "dial" /\ life'[r] = "over" /\ reqChans'[r] = << >>
      /\ \A s \in Streams \ {r} : life'[s] = life[s] /\ reqChans'[s] = reqChans[s]
      /\ UNCHANGED <<client, remote, host, toHost, got>>
  BY <1>1 DEF DialFails, TypeOK
<1>3. ASSUME NEW s \in Streams, NEW t, NEW n
      PROVE  Msg(t, s, n) \in toClient' <=>
             (Msg(t, s, n) \in toClient \/ (t = "error" /\ s = r /\ n = 0))
  BY MsgFields DEF DialFails, SendClient
<1>4. ASSUME NEW s \in Streams, s # r PROVE Same(s)
  BY <1>2, <1>3, <1>4
     DEF Same, SameLife, SameToTarget, SameToLocal, Disconnect, client, remote, got
<1>5. target[r] = "none" /\ closedBy[r] = "nobody"
  BY <1>1, <1>2 DEF StreamInv, LifeInv
<1>6. LifeInv(r)'
  BY <1>1, <1>2, <1>5 DEF StreamInv, LifeInv, client, remote, got
<1>7. ToTargetInv(r)'
  BY <1>1, <1>2, <1>5, Forgotten DEF StreamInv, client, remote, got
<1>8. ToLocalInv(r)'
  <2>1. Of(r, toClient') = Of(r, toClient)
    BY <1>3 DEF Of
  <2>2. Disconnect(r) \in toClient' => Disconnect(r) \in toClient
    BY <1>3 DEF Disconnect
  <2> QED BY <1>1, <1>2, <1>5, <2>1, <2>2 DEF StreamInv, ToLocalInv, client, remote, got
<1> QED BY <1>1, <1>4, <1>6, <1>7, <1>8, KeepStream DEF StreamInv

(* The lifecycle returns. *)
LEMMA StreamFinish ==
  ASSUME TunnelInv, NEW r \in Streams, NEW why \in {"disconnect", "write", "Stop"},
         Finish(r, why), life[r] \in {"run", "stuck"},
         UNCHANGED <<client, targetReader, answered, targetDeaf, host, toHost, toClient,
                     gotTarget, gotLocal, lateToHost, lateToClient, discarded>>,
         why = "disconnect" =>
           /\ 1 .. written[r] \subseteq Given(gotTarget[r]) \cup Lost(r)
           /\ localReader[r] = "over"
  PROVE  \A s \in Streams : StreamInv(s)'
<1>1. TypeOK /\ \A s \in Streams : StreamInv(s)
  BY DEF TunnelInv
<1>2. /\ target'[r] = "closed" /\ reqChans'[r] = << >> /\ life'[r] = "over"
      /\ closedBy'[r] # "nobody" /\ hostActive' = hostActive \ {r}
      /\ closedBy'[r] = "disconnect" => closedBy[r] = "disconnect" \/ why = "disconnect"
      /\ \A s \in Streams \ {r} :
           /\ target'[s] = target[s] /\ reqChans'[s] = reqChans[s] /\ life'[s] = life[s]
           /\ closedBy'[s] = closedBy[s]
  BY <1>1 DEF Finish, TypeOK
<1>3. ASSUME NEW s \in Streams, s # r PROVE Same(s)
  BY <1>2, <1>3 DEF Same, SameLife, SameToTarget, SameToLocal, client
<1>4. target[r] # "none"
  BY <1>1 DEF StreamInv, LifeInv
<1>5. LifeInv(r)'
  BY <1>1, <1>2, <1>4 DEF StreamInv, LifeInv, client
<1>6. ToTargetInv(r)'
  <2>1. closedBy'[r] = "disconnect" =>
          /\ 1 .. written[r] \subseteq Given(gotTarget[r]) \cup Lost(r)
          /\ localReader[r] = "over"
    BY <1>1, <1>2 DEF StreamInv, ToTargetInv
  <2> QED BY <1>1, <1>2, <2>1, Forgotten DEF StreamInv, client
<1>7. SameToLocal(r)
  BY <1>2, <1>4 DEF SameToLocal, client
<1> QED BY <1>1, <1>3, <1>5, <1>6, <1>7, KeepStream, KeepToLocal DEF StreamInv

LEMMA StreamWriteTarget ==
  ASSUME TunnelInv, NEW r \in Streams, WriteTarget(r)
  PROVE  \A s \in Streams : StreamInv(s)'
<1> DEFINE q == reqChans[r]
           g == gotTarget[r]
           k == Head(q).data
<1>1. TypeOK /\ \A s \in Streams : StreamInv(s)
  BY DEF TunnelInv
<1>2. /\ life[r] = "run" /\ q # << >> /\ q \in Seq(Message) /\ g \in Seq(1 .. MaxData)
      /\ Head(q).type = "data"
  BY <1>1 DEF WriteTarget, TypeOK
<1>3. /\ Waiting(r, <<Head(q)>>) = {k} /\ k \in 1 .. MaxData /\ k \in Waiting(r, q)
      /\ k \notin Given(g) /\ 1 .. k - 1 \subseteq Given(g) \cup Lost(r)
  <2>1. ChanOK(r, q, g, written[r], Lost(r))
    BY <1>1, <1>2 DEF StreamInv, ToTargetInv
  <2>2. q \in Seq(Message) /\ q # << >> /\ Head(q).type = "data"
    BY <1>2
  <2> HIDE DEF q, g
  <2> QED BY <2>1, <2>2, ChanHead
<1>4. Waiting(r, q) = {k} \cup Waiting(r, Tail(q))
  BY <1>2, <1>3, ChanTail
<1>5. (\E j \in DOMAIN Tail(q) : Tail(q)[j].type = "disconnect") =>
        \E j \in DOMAIN q : q[j].type = "disconnect"
  BY <1>2, ChanTail
<1>6. CASE Finish(r, "write") /\ UNCHANGED gotTarget
  BY <1>2, <1>6, StreamFinish DEF WriteTarget
<1>7. CASE /\ reqChans' = [reqChans EXCEPT ![r] = Tail(@)]
           /\ life' = [life EXCEPT ![r] = "stuck"]
           /\ UNCHANGED <<target, hostActive, gotTarget, closedBy>>
  <2>1. /\ reqChans'[r] = Tail(q) /\ life'[r] = "stuck"
        /\ \A s \in Streams \ {r} : reqChans'[s] = reqChans[s] /\ life'[s] = life[s]
        /\ UNCHANGED <<client, target, hostActive, targetReader, answered, toHost, toClient,
                       gotTarget, gotLocal, lateToHost, lateToClient, discarded, closedBy>>
    BY <1>1, <1>7 DEF WriteTarget, TypeOK
  <2>2. ASSUME NEW s \in Streams, s # r PROVE Same(s)
    BY <2>1, <2>2 DEF Same, SameLife, SameToTarget, SameToLocal, client
  <2>3. LifeInv(r)'
    BY <1>1, <1>2, <2>1 DEF StreamInv, LifeInv, client
  <2>4. ToTargetInv(r)'
    <3>1. Lost(r)' = Lost(r)
      BY <2>1 DEF Lost
    <3> QED BY <1>1, <1>4, <1>5, <2>1, <3>1 DEF StreamInv, ToTargetInv, client
  <2>5. SameToLocal(r)
    BY <1>2, <2>1 DEF SameToLocal, client
  <2> QED BY <1>1, <2>2, <2>3, <2>4, <2>5, KeepStream, KeepToLocal DEF StreamInv
<1>8. CASE /\ gotTarget' = [gotTarget EXCEPT ![r] = Append(@, k)]
           /\ reqChans' = [reqChans EXCEPT ![r] = Tail(@)]
           /\ UNCHANGED <<life, target, hostActive, closedBy>>
  <2> DEFINE h == Append(g, k)
  <2>1. /\ reqChans'[r] = Tail(q) /\ gotTarget'[r] = h
        /\ \A s \in Streams \ {r} :
             reqChans'[s] = reqChans[s] /\ gotTarget'[s] = gotTarget[s]
        /\ UNCHANGED <<client, life, target, hostActive, targetReader, answered, toHost,
                       toClient, gotLocal, lateToHost, lateToClient, discarded, closedBy>>
    BY <1>1, <1>8 DEF WriteTarget, TypeOK
  <2>2. ASSUME NEW s \in Streams, s # r PROVE Same(s)
    BY <2>1, <2>2 DEF Same, SameLife, SameToTarget, SameToLocal, client
  <2>3. LifeInv(r)'
    BY <1>1, <1>2, <2>1 DEF StreamInv, LifeInv, client
  <2>4. ToTargetInv(r)'
    <3>1. Lost(r)' = Lost(r)
      BY <2>1 DEF Lost
    <3>2. InPlace(h, Lost(r)) /\ Given(h) = Given(g) \cup {k}
      <4>1. InPlace(g, Lost(r))
        BY <1>1 DEF StreamInv, ToTargetInv
      <4>2. g \in Seq(1 .. MaxData)
        BY <1>2
      <4>3. k \in 1 .. MaxData /\ Fits(k, g, Lost(r))
        BY <1>3 DEF Fits
      <4> HIDE DEF g, k
      <4> QED BY <4>1, <4>2, <4>3, InPlaceAppend
    <3> HIDE DEF h
    <3>3. ChanOK(r, Tail(q), h, written[r], Lost(r))
      BY <1>1, <1>2, <1>3, <3>2, ChanOKTail DEF StreamInv, ToTargetInv
    <3>4. /\ Given(h) \cup Waiting(r, Tail(q)) = Given(g) \cup Waiting(r, q)
      BY <1>4, <3>2
    <3>5. /\ Given(h) \cup Waiting(r, Tail(q)) \cup Of(r, toHost) \subseteq 1 .. written[r]
          /\ Of(r, toHost) \cap (Given(h) \cup Waiting(r, Tail(q))) = {}
          /\ 1 .. written[r] \subseteq Of(r, toHost) \cup Given(h) \cup Waiting(r, Tail(q))
                                       \cup Of(r, discarded)
      BY <1>1, <1>2, <3>4 DEF StreamInv, ToTargetInv
    <3>6. closedBy[r] = "disconnect" => 1 .. written[r] \subseteq Given(h) \cup Lost(r)
      BY <1>1, <3>2 DEF StreamInv, ToTargetInv
    <3> QED BY <1>1, <1>2, <1>5, <2>1, <3>1, <3>2, <3>3, <3>5, <3>6
            DEF StreamInv, ToTargetInv, client
  <2>5. SameToLocal(r)
    BY <2>1 DEF SameToLocal, client
  <2> QED BY <1>1, <2>2, <2>3, <2>4, <2>5, KeepStream, KeepToLocal DEF StreamInv
<1> QED BY <1>6, <1>7, <1>8 DEF WriteTarget

LEMMA StreamEnd ==
  ASSUME TunnelInv, NEW r \in Streams, WriteUnblocks(r) \/ EndOfRequest(r)
  PROVE  \A s \in Streams : StreamInv(s)'
<1>1. TypeOK /\ \A s \in Streams : StreamInv(s)
  BY DEF TunnelInv
<1>2. CASE WriteUnblocks(r)
  BY <1>2, StreamFinish DEF WriteUnblocks
<1>3. CASE EndOfRequest(r) /\ Finish(r, "Stop")
  BY <1>3, StreamFinish DEF EndOfRequest
<1>4. CASE /\ EndOfRequest(r) /\ Finish(r, "disconnect")
           /\ reqChans[r] # << >> /\ Head(reqChans[r]).type = "disconnect"
  <2>1. reqChans[r] \in Seq(Message) /\ life[r] = "run"
    BY <1>1, <1>4 DEF EndOfRequest, TypeOK
  <2>2. 1 .. written[r] \subseteq Given(gotTarget[r]) \cup Lost(r)
    <3> DEFINE q == reqChans[r]
               g == gotTarget[r]
               w == written[r]
    <3>1. ChanOK(r, q, g, w, Lost(r))
      BY <1>1, <2>1 DEF StreamInv, ToTargetInv
    <3>2. q \in Seq(Message) /\ q # << >> /\ Head(q).type = "disconnect"
      BY <1>4, <2>1
    <3> HIDE DEF q, g, w
    <3>3. 1 .. w \subseteq Given(g) \cup Lost(r)
      BY <3>1, <3>2, ChanHead
    <3> QED BY <3>3 DEF q, g, w
  <2>3. localReader[r] = "over"
    <3>1. 1 \in DOMAIN reqChans[r] /\ reqChans[r][1].type = "disconnect"
      BY <1>4, <2>1, TailQueue
    <3> QED BY <1>1, <3>1 DEF StreamInv, ToTargetInv
  <2> QED BY <1>4, <2>1, <2>2, <2>3, StreamFinish DEF EndOfRequest
<1> QED BY <1>2, <1>3, <1>4 DEF EndOfRequest

(* handleDisconnect, for whatever message or failed write. *)
LEMMA StreamHandleDisconnect ==
  ASSUME TunnelInv, NEW r \in Streams, HandleDisconnect(r),
         \A s \in Streams \ {r} : s \in stuck => s \in stuck',
         UNCHANGED <<localReader, written, hostTbl, remote, toHost, gotTarget, gotLocal,
                     lateToHost, discarded, closedBy>>,
         toClient' \subseteq toClient, lateToClient \subseteq lateToClient',
         \A s \in Streams \ {r}, n \in Nat :
            Msg("data", s, n) \in toClient => Msg("data", s, n) \in toClient'
  PROVE  \A s \in Streams : StreamInv(s)'
<1>1. TypeOK /\ \A s \in Streams : StreamInv(s)
  BY DEF TunnelInv
<1>2. /\ r \notin localActive' /\ localActive' \subseteq localActive
      /\ local'[r] \in {local[r], "closed"}
      /\ \A s \in Streams \ {r} : local'[s] = local[s]
  BY <1>1 DEF HandleDisconnect, TypeOK
<1>3. ASSUME NEW s \in Streams PROVE SameToTarget(s)
  BY DEF SameToTarget, hostTbl
<1>4. ASSUME NEW s \in Streams, s # r PROVE StreamInv(s)'
  <2>1. SameLife(s)
    BY <1>2, <1>4 DEF SameLife, hostTbl, remote
  <2>2. Of(s, toClient') = Of(s, toClient)
    BY <1>4 DEF Of
  <2>3. InPlace(gotLocal[s], Of(s, lateToClient'))
    <3>1. Of(s, lateToClient) \subseteq Of(s, lateToClient')
      BY DEF Of
    <3> QED BY <1>1, <3>1, InPlaceMore DEF StreamInv, ToLocalInv
  <2>4. ToLocalInv(s)'
    BY <1>1, <1>2, <1>4, <2>2, <2>3 DEF StreamInv, ToLocalInv, hostTbl, remote
  <2> QED BY <1>1, <1>3, <2>1, <2>4, KeepLife, KeepToTarget DEF StreamInv
<1>5. LifeInv(r)'
  BY <1>1, <1>2 DEF StreamInv, LifeInv, hostTbl, remote
<1>6. ToLocalInv(r)'
  <2>1. Of(r, toClient') \subseteq Of(r, toClient)
    BY DEF Of
  <2>2. InPlace(gotLocal[r], Of(r, lateToClient'))
    <3>1. Of(r, lateToClient) \subseteq Of(r, lateToClient')
      BY DEF Of
    <3> QED BY <1>1, <3>1, InPlaceMore DEF StreamInv, ToLocalInv
  <2> QED BY <1>1, <1>2, <2>1, <2>2 DEF StreamInv, ToLocalInv, hostTbl, remote
<1> QED BY <1>1, <1>3, <1>4, <1>5, <1>6, KeepToTarget DEF StreamInv

LEMMA StreamClientReceive ==
  ASSUME TunnelInv, NEW m \in toClient, ClientReceive(m)
  PROVE  \A s \in Streams : StreamInv(s)'
<1> DEFINE r == m.request
           n == m.data
           g == gotLocal[r]
<1>1. TypeOK /\ \A s \in Streams : StreamInv(s)
  BY DEF TunnelInv
<1>2. /\ m \in Message /\ r \in Streams /\ m = Msg(m.type, r, n)
      /\ m.type = "data" => n \in 1 .. MaxData
      /\ m.type \in {"data", "connect", "disconnect", "error"}
  <2>1. m \in Message
    BY <1>1 DEF TypeOK
  <2>2. m = Msg(m.type, r, n)
    BY <2>1, MessageFields, MsgFields
  <2> QED BY <2>1, <2>2, MessageFields
<1>3. /\ stuck = {} /\ toClient' = toClient \ {m}
      /\ lateToClient' = lateToClient \cup SentBefore(m, toClient)
      /\ UNCHANGED <<localReader, written, localDeaf, hostTbl, remote, host, toHost,
                     gotTarget, lateToHost, discarded, closedBy>>
  BY DEF ClientReceive
<1>4. ASSUME NEW s \in Streams, s # r, NEW t, NEW k
      PROVE  Msg(t, s, k) \in toClient => Msg(t, s, k) \in toClient'
  BY <1>2, <1>3, <1>4, MsgFields
<1>5. CASE HandleDisconnect(r) /\ UNCHANGED <<gotLocal, stuck>>
  BY <1>2, <1>3, <1>4, <1>5, StreamHandleDisconnect
<1>6. ASSUME UNCHANGED <<local, localActive>>, m.type = "data", stuck' \in {{}, {r}},
             \A s \in Streams \ {r} : gotLocal'[s] = gotLocal[s],
             ToLocalInv(r)'
      PROVE  \A s \in Streams : StreamInv(s)'
  <2>1. ASSUME NEW s \in Streams PROVE SameLife(s) /\ SameToTarget(s)
    BY <1>3, <1>6 DEF SameLife, SameToTarget, hostTbl, remote
  <2>2. ASSUME NEW s \in Streams, s # r PROVE SameToLocal(s)
    BY <1>3, <1>4, <1>6, <2>2 DEF SameToLocal, hostTbl, remote
  <2> QED BY <1>1, <1>6, <2>1, <2>2, KeepStream, KeepLife, KeepToTarget DEF Same, StreamInv
<1>7. Of(r, toClient') \subseteq Of(r, toClient)
  BY <1>3 DEF Of
<1>8. Of(r, lateToClient) \subseteq Of(r, lateToClient')
  BY <1>3 DEF Of
<1>9. InPlace(g, Of(r, lateToClient'))
  BY <1>1, <1>2, <1>8, InPlaceMore DEF StreamInv, ToLocalInv
<1>10. CASE /\ m.type = "data" /\ r \notin localActive' \ stuck' /\ stuck' \in {{}, {r}}
            /\ UNCHANGED <<local, localActive, gotLocal>>
  <2>1. ToLocalInv(r)'
    BY <1>1, <1>2, <1>3, <1>7, <1>9, <1>10 DEF StreamInv, ToLocalInv, hostTbl, remote
  <2> QED BY <1>6, <1>10, <2>1
<1>11. CASE /\ m.type = "data" /\ r \in localActive
            /\ gotLocal' = [gotLocal EXCEPT ![r] = Append(@, m.data)]
            /\ UNCHANGED <<local, localActive, stuck>>
  <2> DEFINE h == Append(g, n)
  <2>1. gotLocal'[r] = h /\ g \in Seq(1 .. MaxData)
        /\ \A s \in Streams \ {r} : gotLocal'[s] = gotLocal[s]
    BY <1>1, <1>2, <1>11 DEF TypeOK
  <2>2. /\ n \in Of(r, toClient) /\ Of(r, toClient') = Of(r, toClient) \ {n}
    BY <1>2, <1>3, <1>11, MsgFields DEF Of
  <2>3. /\ 1 .. answered[r] \subseteq Of(r, toClient) \cup Given(g)
        /\ Given(g) \cup Of(r, toClient) \subseteq 1 .. answered[r]
        /\ Of(r, toClient) \cap Given(g) = {}
    BY <1>1, <1>2, <1>3, <1>11 DEF StreamInv, ToLocalInv
  <2>4. 1 .. n - 1 \subseteq Given(g) \cup Of(r, lateToClient')
    <3> SUFFICES ASSUME NEW k \in 1 .. n - 1, k \notin Given(g)
                 PROVE  k \in Of(r, lateToClient')
      OBVIOUS
    <3>1. n \in 1 .. answered[r] /\ answered[r] \in Nat /\ n \in 1 .. MaxData
      BY <1>1, <1>2, <1>11, <2>2, <2>3 DEF TypeOK
    <3>2. k \in 1 .. answered[r] /\ k < n /\ k \in 1 .. MaxData
      BY <3>1, TunnelAssumption
    <3>3. Msg("data", r, k) \in toClient
      BY <2>3, <3>2 DEF Of
    <3>4. Msg("data", r, k) \in SentBefore(m, toClient)
      BY <1>11, <3>2, <3>3, MsgFields DEF SentBefore
    <3> QED BY <1>3, <3>2, <3>4 DEF Of
  <2>5. InPlace(h, Of(r, lateToClient')) /\ Given(h) = Given(g) \cup {n}
    <3>1. n \in 1 .. MaxData /\ Fits(n, g, Of(r, lateToClient'))
      BY <1>2, <1>11, <2>2, <2>3, <2>4 DEF Fits
    <3>2. g \in Seq(1 .. MaxData)
      BY <2>1
    <3> HIDE DEF g, n
    <3> QED BY <1>9, <3>1, <3>2, InPlaceAppend
  <2> HIDE DEF h
  <2>6. ToLocalInv(r)'
    <3>1. /\ InPlace(gotLocal[r], Of(r, lateToClient))'
          /\ (Given(gotLocal[r]) \cup Of(r, toClient) \subseteq 1 .. answered[r])'
          /\ (Of(r, toClient) \cap Given(gotLocal[r]) = {})'
          /\ (1 .. answered[r] \subseteq Of(r, toClient) \cup Given(gotLocal[r]))'
      BY <1>3, <2>1, <2>2, <2>3, <2>5 DEF remote
    <3> QED BY <1>1, <1>2, <1>3, <3>1 DEF StreamInv, ToLocalInv, hostTbl, remote
  <2> QED BY <1>3, <1>6, <1>11, <2>1, <2>6
<1> QED BY <1>3, <1>5, <1>10, <1>11 DEF ClientReceive

LEMMA StreamClientUnblocks ==
  ASSUME TunnelInv, NEW r \in Streams, ClientUnblocks(r)
  PROVE  \A s \in Streams : StreamInv(s)'
<1>1. \A s \in Streams \ {r} : s \notin stuck
  BY DEF ClientUnblocks, TunnelInv, TypeOK
<1>2. /\ HandleDisconnect(r)
      /\ UNCHANGED <<localReader, written, localDeaf, hostTbl, remote, host, toHost,
                     toClient, got>>
  BY DEF ClientUnblocks
<1> QED BY <1>1, <1>2, StreamHandleDisconnect DEF got

LEMMA TunnelStep == TunnelInv /\ [Next]_vars => TunnelInv'
<1> SUFFICES ASSUME TunnelInv, [Next]_vars PROVE TunnelInv'
  OBVIOUS
<1>1. TypeOK'
  BY TypeStep DEF TunnelInv
<1>2. \A s \in Streams : StreamInv(s)'
  <2>1. CASE UNCHANGED vars
    <3>1. ASSUME NEW s \in Streams PROVE Same(s)
      BY <2>1 DEF Same, SameLife, SameToTarget, SameToLocal, vars, client, hostTbl, remote, got
    <3> QED BY <3>1, KeepStream DEF TunnelInv
  <2>2. ASSUME NEW r \in Streams, App(r) \/ Accept(r) PROVE \A s \in Streams : StreamInv(s)'
    BY <2>2, StreamApp, StreamAccept
  <2>3. ASSUME NEW r \in Streams, Reader(r) PROVE \A s \in Streams : StreamInv(s)'
    BY <2>3, StreamForwardLocalData, StreamForwardLocalEnd, StreamForwardTargetData,
       StreamForwardTargetEnd DEF Reader
  <2>4. ASSUME NEW r \in Streams, Lifecycle(r) PROVE \A s \in Streams : StreamInv(s)'
    BY <2>4, StreamStartDial, StreamDialFails, StreamDialOk, StreamWriteTarget, StreamEnd
       DEF Lifecycle
  <2>5. CASE Dispatch
    BY <2>5, StreamHostReceive DEF Dispatch
  <2>6. CASE Handle
    BY <2>6, StreamClientReceive, StreamClientUnblocks DEF Handle
  <2>7. CASE Stop \/ HostStops
    BY <2>7, StreamStop
  <2> QED BY <2>1, <2>2, <2>3, <2>4, <2>5, <2>6, <2>7 DEF Next
<1> QED BY <1>1, <1>2 DEF TunnelInv

-----------------------------------------------------------------------------
(***************************************************************************)
(* The theorems.  Nothing is assumed of the network but that it invents    *)
(* and repeats no message: the data channels are unordered.                *)
(***************************************************************************)

(* Whatever is queued, dropped with a connection, cut off by Stop or       *)
(* blocked on an application, no piece of data is written twice, and one   *)
(* is written out of its place only for what was overtaken in the network  *)
(* or discarded for want of a channel with room.                           *)
THEOREM ReorderedOnTheWay == Spec => []ReorderedOnlyOnTheWay
<1>1. TunnelInv => ReorderedOnlyOnTheWay
  BY DEF TunnelInv, StreamInv, ToTargetInv, ToLocalInv, ReorderedOnlyOnTheWay
<1> QED BY <1>1, StreamInit, TunnelStep, PTL DEF Spec

(* A target whose connection is closed for the client's disconnect lacks   *)
(* nothing of what the local application wrote but what was overtaken in   *)
(* the network or discarded.                                               *)
THEOREM CleanEnds == Spec => []CleanEndLosesOnlyOvertaken
<1>1. TunnelInv => CleanEndLosesOnlyOvertaken
  BY DEF TunnelInv, StreamInv, ToTargetInv, CleanEndLosesOnlyOvertaken
<1> QED BY <1>1, StreamInit, TunnelStep, PTL DEF Spec

(* The client's proxy closes the connection of a local application that    *)
(* keeps its end open only when the host is done with the stream, and only *)
(* what was overtaken is then missing of what the target said.             *)
THEOREM LocalsCut == Spec => LocalCutOnlyByOvertaking
<1> DEFINE Allowed ==
      \A r \in Streams : (local[r] = "open" /\ local'[r] = "closed") =>
        /\ HostIsDone(r)
        /\ 1 .. answered[r] \subseteq
             Given(gotLocal[r]) \cup Of(r, lateToClient')
<1>1. TunnelInv /\ [Next]_vars => [Allowed]_vars
  <2> SUFFICES ASSUME TunnelInv, Next, NEW r \in Streams,
                      local[r] = "open", local'[r] = "closed"
               PROVE  /\ HostIsDone(r)
                      /\ 1 .. answered[r] \subseteq
                           Given(gotLocal[r]) \cup Of(r, lateToClient')
    OBVIOUS
  <2>1. TypeOK /\ StreamInv(r)
    BY DEF TunnelInv
  <2>2. PICK m \in toClient : ClientReceive(m)
    <3>1. CASE Dispatch
      BY <3>1 DEF Dispatch, HostReceive, client
    <3>2. ASSUME NEW s \in Streams, App(s) PROVE FALSE
      <4>1. CASE LocalApp(s)
        BY <2>1, <4>1 DEF LocalApp, TypeOK
      <4>2. CASE LocalStopsReading(s) \/ TargetApp(s) \/ TargetStopsReading(s)
        BY <4>2 DEF LocalStopsReading, TargetApp, TargetStopsReading, client
      <4> QED BY <3>2, <4>1, <4>2 DEF App
    <3>3. ASSUME NEW s \in Streams, Accept(s) PROVE FALSE
      BY <2>1, <3>3 DEF Accept, TypeOK
    <3>4. ASSUME NEW s \in Streams, Reader(s) PROVE FALSE
      BY <3>4 DEF Reader, ForwardLocalData, ForwardLocalEnd, ForwardTargetData,
         ForwardTargetEnd, client
    <3>5. ASSUME NEW s \in Streams, Lifecycle(s) PROVE FALSE
      BY <3>5 DEF Lifecycle, StartDial, DialFails, DialOk, WriteTarget, WriteUnblocks,
         EndOfRequest, client
    <3>6. CASE Stop \/ HostStops
      BY <3>6 DEF Stop, HostStops, client
    <3>7. ASSUME NEW s \in Streams, ClientUnblocks(s) PROVE FALSE
      BY <2>1, <3>7 DEF ClientUnblocks, HandleDisconnect, Broken, TypeOK
    <3> QED BY <3>1, <3>2, <3>3, <3>4, <3>5, <3>6, <3>7 DEF Next, Handle
  <2>3. /\ m \in Message /\ m.request = r /\ r \in localActive /\ stuck = {}
        /\ m.type \in {"disconnect", "error"}
        /\ lateToClient' = lateToClient \cup SentBefore(m, toClient)
    BY <2>1, <2>2 DEF ClientReceive, HandleDisconnect, Broken, TypeOK
  <2>4. m = Msg(m.type, r, 0)
    BY <2>3, MessageFields
  <2>5. CASE m.type = "disconnect"
    <3>1. targetReader[r] = "over"
      BY <2>1, <2>2, <2>4, <2>5 DEF StreamInv, ToLocalInv, Disconnect
    <3>2. target[r] \in {"half", "gone"} \/ closedBy[r] \in {"write", "Stop"}
      <4>1. target[r] \in Sockets /\ closedBy[r] \in {"nobody", "disconnect", "write", "Stop"}
        BY <2>1 DEF TypeOK
      <4>2. target[r] \notin {"open", "none"}
        BY <2>1, <3>1 DEF StreamInv, LifeInv
      <4>3. target[r] = "closed" => closedBy[r] \notin {"nobody", "disconnect"}
        BY <2>1 DEF StreamInv, LifeInv, ToTargetInv
      <4> QED BY <4>1, <4>2, <4>3 DEF Sockets
    <3>3. Of(r, toClient) \subseteq Of(r, lateToClient')
      <4> SUFFICES ASSUME NEW n \in Of(r, toClient) PROVE n \in Of(r, lateToClient')
        OBVIOUS
      <4>1. n \in 1 .. MaxData /\ Msg("data", r, n) \in toClient
        BY DEF Of
      <4>2. Msg("data", r, n) \in SentBefore(m, toClient)
        BY <2>3, <2>5, <4>1, MsgFields DEF SentBefore
      <4> QED BY <2>3, <4>1, <4>2 DEF Of
    <3>4. 1 .. answered[r] \subseteq Of(r, toClient) \cup Given(gotLocal[r])
      BY <2>1, <2>3 DEF StreamInv, ToLocalInv
    <3> QED BY <3>1, <3>2, <3>3, <3>4 DEF HostIsDone
  <2>6. CASE m.type = "error"
    <3>1. life[r] = "over" /\ target[r] = "none" /\ answered[r] = 0
      BY <2>1, <2>2, <2>4, <2>6 DEF StreamInv, ToLocalInv, LifeInv
    <3>2. 1 .. answered[r] = {}
      BY <3>1
    <3> QED BY <3>1, <3>2 DEF HostIsDone
  <2> QED BY <2>3, <2>5, <2>6
<1> QED BY <1>1, StreamInit, TunnelStep, PTL DEF Spec, LocalCutOnlyByOvertaking
=============================================================================
