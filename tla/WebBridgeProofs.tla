-------------------------- MODULE WebBridgeProofs --------------------------
(***************************************************************************)
(* Proofs about WebBridge, for any fetches, sockets and messages: its      *)
(* types, that a socket reports its end once, and that a socket nothing    *)
(* was sent on misses nothing.                                             *)
(***************************************************************************)
EXTENDS WebBridge, SequenceTheorems, TLAPS

-----------------------------------------------------------------------------
(* Types.  That what is heard is a message needs the numbers of the pushes *)
(* on their way; that the page has channels while the link is up and that  *)
(* a pending call is kept under its id will be needed later.               *)
PushesNumbered    == \A e \in toPage : e.kind = "push" => e.data \in 1 .. MaxData
PendingNamed      == \A i \in Ids : pending[i] # None => pending[i].id = i
LinkNeedsChannels == link = "up" => channels

TypeInv == TypeOK /\ PushesNumbered /\ PendingNamed /\ LinkNeedsChannels

LEMMA Numbers ==
  0 \in 0 .. MaxData /\ \A n \in 0 .. MaxData : n < MaxData => n + 1 \in 1 .. MaxData
BY WebAssumption

LEMMA CallType ==
  ASSUME NEW op \in {"fetch", "connect", "data", "close"}, NEW i \in Ids, NEW n \in 0 .. MaxData
  PROVE  Call(op, i, n) \in Calls /\ Call(op, i, n).id = i /\ Call(op, i, n).op = op
BY DEF Call, Calls

LEMMA EventType ==
  ASSUME NEW kind \in {"response", "accept", "reject", "push", "bye"},
         NEW i \in Ids, NEW n \in 0 .. MaxData
  PROVE  /\ Event(kind, i, n) \in Events
         /\ Event(kind, i, n).kind = kind /\ Event(kind, i, n).id = i
         /\ Event(kind, i, n).data = n
BY DEF Event, Events

LEMMA SentIs ==
  ASSUME NEW M, NEW m
  PROVE  Sent(M, m) \subseteq M \cup {m} /\ M \subseteq Sent(M, m)
BY DEF Sent

LEMMA TypeInit == Init => TypeInv
<1> SUFFICES ASSUME Init PROVE TypeInv
  OBVIOUS
<1>1. timers \in Seq(Calls)
  BY EmptySeq DEF Init
<1>2. /\ sends \in [Sockets -> 0 .. MaxData] /\ pushed \in [Sockets -> 0 .. MaxData]
      /\ closes \in [Sockets -> Nat]
  BY Numbers DEF Init
<1> QED BY <1>1, <1>2 DEF Init, TypeInv, TypeOK, PushesNumbered, PendingNamed, LinkNeedsChannels

(* What a request, or its refusal, does to the page's tables. *)
LEMMA RequestTypes ==
  ASSUME TypeInv, NEW c \in Calls, ProxyRequest(c) \/ Rejected
  PROVE  /\ pending' \in [Ids -> Calls \cup {None}]
         /\ timers' \in Seq(Calls)
         /\ toHost' \subseteq Calls
         /\ \A i \in Ids : pending'[i] # None => pending'[i].id = i
<1>1. CASE ProxyRequest(c)
  <2>1. pending' = [pending EXCEPT ![c.id] = c] /\ pending \in [Ids -> Calls \cup {None}]
    BY <1>1 DEF ProxyRequest, TypeInv, TypeOK
  <2>2. timers' \in Seq(Calls)
    BY <1>1, AppendProperties DEF ProxyRequest, TypeInv, TypeOK
  <2>3. toHost' \subseteq Calls
    BY <1>1 DEF ProxyRequest, TypeInv, TypeOK, Sent
  <2>4. \A i \in Ids : pending'[i] # None => pending'[i].id = i
    BY <2>1 DEF TypeInv, PendingNamed
  <2> QED BY <2>1, <2>2, <2>3, <2>4
<1>2. CASE Rejected
  BY <1>2 DEF Rejected, TypeInv, TypeOK, PendingNamed
<1> QED BY <1>1, <1>2

LEMMA ClosedTypes ==
  ASSUME TypeInv, NEW s, Closed(s)
  PROVE  /\ socket' \in [Sockets -> {"none", "connecting", "open", "closing", "closed"}]
         /\ closes' \in [Sockets -> Nat]
<1>1. closes \in [Sockets -> Nat] /\ closes' = [closes EXCEPT ![s] = @ + 1]
  BY DEF TypeInv, TypeOK, Closed
<1>2. \A t \in Sockets : closes'[t] = IF t = s THEN closes[t] + 1 ELSE closes[t]
  BY <1>1
<1>3. \A t \in Sockets : closes[t] \in Nat /\ closes'[t] \in Nat
  BY <1>1, <1>2
<1>4. closes' = [t \in Sockets |-> closes'[t]]
  BY <1>1
<1>5. closes' \in [Sockets -> Nat]
  BY <1>3, <1>4
<1> QED BY <1>5 DEF TypeInv, TypeOK, Closed

(* Settling a call. *)
LEMMA SettleTypes ==
  ASSUME TypeInv, NEW c, NEW kind, Resolve(c, kind) \/ Reject(c)
  PROVE  /\ request' \in [Requests -> {"idle", "waiting", "answered", "failed"}]
         /\ socket' \in [Sockets -> {"none", "connecting", "open", "closing", "closed"}]
         /\ awaiting' \subseteq Sockets
         /\ closes' \in [Sockets -> Nat]
<1>1. CASE Resolve(c, kind)
  <2>1. request' \in [Requests -> {"idle", "waiting", "answered", "failed"}]
    BY <1>1 DEF Resolve, TypeInv, TypeOK
  <2>2. awaiting' \subseteq Sockets
    BY <1>1 DEF Resolve, TypeInv, TypeOK, sockets
  <2>3. /\ socket' \in [Sockets -> {"none", "connecting", "open", "closing", "closed"}]
        /\ closes' \in [Sockets -> Nat]
    BY <1>1, ClosedTypes DEF Resolve, TypeInv, TypeOK, sockets
  <2> QED BY <2>1, <2>2, <2>3
<1>2. CASE Reject(c)
  <2>1. request' \in [Requests -> {"idle", "waiting", "answered", "failed"}]
    BY <1>2 DEF Reject, TypeInv, TypeOK
  <2>2. awaiting' \subseteq Sockets
    BY <1>2 DEF Reject, TypeInv, TypeOK, sockets
  <2>3. /\ socket' \in [Sockets -> {"none", "connecting", "open", "closing", "closed"}]
        /\ closes' \in [Sockets -> Nat]
    BY <1>2, ClosedTypes DEF Reject, TypeInv, TypeOK, sockets
  <2> QED BY <2>1, <2>2, <2>3
<1> QED BY <1>1, <1>2

LEMMA TypeFetch ==
  ASSUME TypeInv, NEW r \in Requests, Fetch(r)
  PROVE  TypeInv'
<1>1. Call("fetch", r, 0) \in Calls
  BY CallType, Numbers DEF Ids
<1>2. /\ pending' \in [Ids -> Calls \cup {None}]
      /\ timers' \in Seq(Calls)
      /\ toHost' \subseteq Calls
      /\ \A i \in Ids : pending'[i] # None => pending'[i].id = i
  BY <1>1, RequestTypes DEF Fetch
<1>3. request' \in [Requests -> {"idle", "waiting", "answered", "failed"}]
  BY DEF Fetch, TypeInv, TypeOK
<1> QED BY <1>2, <1>3 DEF Fetch, TypeInv, TypeOK, PushesNumbered, PendingNamed,
           LinkNeedsChannels, sockets, host

LEMMA TypeOpenSocket ==
  ASSUME TypeInv, NEW s \in Sockets, OpenSocket(s)
  PROVE  TypeInv'
<1>1. Call("connect", s, 0) \in Calls
  BY CallType, Numbers DEF Ids
<1>2. /\ pending' \in [Ids -> Calls \cup {None}]
      /\ timers' \in Seq(Calls)
      /\ toHost' \subseteq Calls
      /\ \A i \in Ids : pending'[i] # None => pending'[i].id = i
  BY <1>1, RequestTypes DEF OpenSocket
<1>3. /\ socket' \in [Sockets -> {"none", "connecting", "open", "closing", "closed"}]
      /\ closes' \in [Sockets -> Nat]
      /\ awaiting' \subseteq Sockets
  BY ClosedTypes DEF OpenSocket, TypeInv, TypeOK
<1> QED BY <1>2, <1>3 DEF OpenSocket, TypeInv, TypeOK, PushesNumbered, PendingNamed,
           LinkNeedsChannels, host

LEMMA TypeSendData ==
  ASSUME TypeInv, NEW s \in Sockets, SendData(s)
  PROVE  TypeInv'
<1>1. sends[s] + 1 \in 1 .. MaxData
  BY Numbers DEF SendData, TypeInv, TypeOK
<1>2. Call("data", s, sends[s] + 1) \in Calls
  BY <1>1, CallType DEF Ids
<1>3. /\ pending' \in [Ids -> Calls \cup {None}]
      /\ timers' \in Seq(Calls)
      /\ toHost' \subseteq Calls
      /\ \A i \in Ids : pending'[i] # None => pending'[i].id = i
  BY <1>2, RequestTypes DEF SendData
<1>4. sends' \in [Sockets -> 0 .. MaxData]
  BY <1>1 DEF SendData, TypeInv, TypeOK
<1> QED BY <1>3, <1>4 DEF SendData, TypeInv, TypeOK, PushesNumbered, PendingNamed,
           LinkNeedsChannels, sockets, host

LEMMA TypeCloseSocket ==
  ASSUME TypeInv, NEW s \in Sockets, CloseSocket(s)
  PROVE  TypeInv'
<1>1. Call("close", s, 0) \in Calls
  BY CallType, Numbers DEF Ids
<1>2. /\ pending' \in [Ids -> Calls \cup {None}]
      /\ timers' \in Seq(Calls)
      /\ toHost' \subseteq Calls
      /\ \A i \in Ids : pending'[i] # None => pending'[i].id = i
  BY <1>1, RequestTypes DEF CloseSocket
<1>3. /\ socket' \in [Sockets -> {"none", "connecting", "open", "closing", "closed"}]
      /\ closes' \in [Sockets -> Nat]
  BY ClosedTypes DEF CloseSocket, TypeInv, TypeOK
<1> QED BY <1>2, <1>3 DEF CloseSocket, TypeInv, TypeOK, PushesNumbered, PendingNamed,
           LinkNeedsChannels, host

LEMMA TypeTimerFires ==
  ASSUME TypeInv, TimerFires
  PROVE  TypeInv'
<1>1. timers' \in Seq(Calls) /\ Head(timers) \in Calls
  BY HeadTailProperties DEF TimerFires, TypeInv, TypeOK
<1>2. /\ request' \in [Requests -> {"idle", "waiting", "answered", "failed"}]
      /\ socket' \in [Sockets -> {"none", "connecting", "open", "closing", "closed"}]
      /\ awaiting' \subseteq Sockets
      /\ closes' \in [Sockets -> Nat]
  <2>1. CASE Reject(Head(timers))
    BY <2>1, SettleTypes
  <2>2. CASE UNCHANGED <<request, sockets>>
    BY <2>2 DEF TypeInv, TypeOK, sockets
  <2> QED BY <2>1, <2>2 DEF TimerFires
<1>3. /\ pending' \in [Ids -> Calls \cup {None}]
      /\ \A i \in Ids : pending'[i] # None => pending'[i].id = i
  BY <1>1 DEF TimerFires, TypeInv, TypeOK, PendingNamed
<1> QED BY <1>1, <1>2, <1>3 DEF TimerFires, TypeInv, TypeOK, PushesNumbered, PendingNamed,
           LinkNeedsChannels, host, net

LEMMA TypePageReceive ==
  ASSUME TypeInv, NEW e \in toPage, PageReceive(e)
  PROVE  TypeInv'
<1>1. toPage' \subseteq toPage /\ e \in Events
  BY DEF PageReceive, TypeInv, TypeOK
<1>2. /\ request' \in [Requests -> {"idle", "waiting", "answered", "failed"}]
      /\ socket' \in [Sockets -> {"none", "connecting", "open", "closing", "closed"}]
      /\ awaiting' \subseteq Sockets
      /\ closes' \in [Sockets -> Nat]
  <2>1. CASE Resolve(pending[e.id], e.kind)
    BY <2>1, SettleTypes
  <2>2. CASE Dispatch(e) /\ UNCHANGED request
    BY <2>2, ClosedTypes DEF Dispatch, TypeInv, TypeOK, sockets
  <2> QED BY <2>1, <2>2 DEF PageReceive
<1>3. heard' \in [Sockets -> SUBSET (1 .. MaxData)]
  <2>1. CASE UNCHANGED heard
    BY <2>1 DEF TypeInv, TypeOK
  <2>2. CASE e.kind = "push" /\ heard' = [heard EXCEPT ![e.id] = @ \cup {e.data}]
    BY <2>2 DEF TypeInv, TypeOK, PushesNumbered
  <2> QED BY <2>1, <2>2 DEF PageReceive, Dispatch
<1>4. /\ pending' \in [Ids -> Calls \cup {None}]
      /\ \A i \in Ids : pending'[i] # None => pending'[i].id = i
  BY DEF PageReceive, TypeInv, TypeOK, PendingNamed
<1> QED BY <1>1, <1>2, <1>3, <1>4 DEF PageReceive, TypeInv, TypeOK, PushesNumbered,
           PendingNamed, LinkNeedsChannels, host

LEMMA TypeDisconnect ==
  ASSUME TypeInv, Disconnect
  PROVE  TypeInv'
<1>1. request' \in [Requests -> {"idle", "waiting", "answered", "failed"}]
  BY DEF Disconnect, TypeInv, TypeOK
<1>2. socket' \in [Sockets -> {"none", "connecting", "open", "closing", "closed"}]
  BY DEF Disconnect, TypeInv, TypeOK
<1>3. closes' \in [Sockets -> Nat]
  BY DEF Disconnect, TypeInv, TypeOK
<1>4. awaiting' \subseteq Sockets /\ pending' \in [Ids -> Calls \cup {None}]
  BY DEF Disconnect, TypeInv, TypeOK
<1> QED BY <1>1, <1>2, <1>3, <1>4 DEF Disconnect, TypeInv, TypeOK, PushesNumbered,
           PendingNamed, LinkNeedsChannels, host

(* The host's steps leave the page alone; what they send is an event of    *)
(* the id they serve.                                                      *)
LEMMA TypeHostSends ==
  ASSUME TypeInv,
         NEW kind \in {"response", "accept", "reject", "push", "bye"},
         NEW i \in Ids, NEW n \in 0 .. MaxData,
         kind = "push" => n \in 1 .. MaxData,
         toPage' = Sent(toPage, Event(kind, i, n)) \/ UNCHANGED toPage
  PROVE  toPage' \subseteq Events /\ PushesNumbered'
<1>1. Event(kind, i, n) \in Events /\ Event(kind, i, n).kind = kind /\ Event(kind, i, n).data = n
  BY EventType
<1>2. toPage' \subseteq toPage \cup {Event(kind, i, n)}
  BY SentIs
<1> QED BY <1>1, <1>2 DEF TypeInv, TypeOK, PushesNumbered

LEMMA TypeForwards ==
  ASSUME TypeInv, NEW r \in Requests, HostForwards(r)
  PROVE  TypeInv'
<1>1. toPage' \subseteq Events /\ PushesNumbered'
  BY TypeHostSends, Numbers DEF HostForwards, HandleRequest, Respond, Ids
<1>2. forwarding' \subseteq Requests /\ toHost' \subseteq Calls
  BY DEF HostForwards, HandleRequest, Respond, TypeInv, TypeOK
<1>3. UNCHANGED <<page, conn, wsConns, pushed, serving, link>>
  BY DEF HostForwards, HandleRequest, Respond
<1> QED BY <1>1, <1>2, <1>3 DEF TypeInv, TypeOK, PendingNamed, LinkNeedsChannels, page, sockets

LEMMA TypeHandles ==
  ASSUME TypeInv, NEW s \in Sockets, HostHandles(s) \/ TargetCloses(s)
  PROVE  TypeInv'
<1>1. toPage' \subseteq Events /\ PushesNumbered'
  BY TypeHostSends, Numbers
     DEF HostHandles, HandleConnect, DialFails, DialOk, ReaderEnds, HandleData, HandleClose,
         TargetCloses, host, net, Ids
<1>2. conn' \in [Sockets -> {"none", "dialing", "open", "closed", "over"}]
  BY DEF HostHandles, HandleConnect, DialFails, DialOk, ReaderEnds, HandleData, HandleClose,
         TargetCloses, host, TypeInv, TypeOK
<1>3. wsConns' \subseteq Sockets /\ toHost' \subseteq Calls
  BY DEF HostHandles, HandleConnect, DialFails, DialOk, ReaderEnds, HandleData, HandleClose,
         TargetCloses, host, net, TypeInv, TypeOK
<1>4. UNCHANGED <<page, forwarding, pushed, serving, link>>
  BY DEF HostHandles, HandleConnect, DialFails, DialOk, ReaderEnds, HandleData, HandleClose,
         TargetCloses, host, net
<1> QED BY <1>1, <1>2, <1>3, <1>4 DEF TypeInv, TypeOK, PendingNamed, LinkNeedsChannels,
           page, sockets

LEMMA TypeReadMessage ==
  ASSUME TypeInv, NEW s \in Sockets, ReadMessage(s)
  PROVE  TypeInv'
<1>1. pushed[s] + 1 \in 1 .. MaxData
  BY Numbers DEF ReadMessage, TypeInv, TypeOK
<1>2. toPage' \subseteq Events /\ PushesNumbered'
  BY <1>1, TypeHostSends DEF ReadMessage, Ids
<1>3. pushed' \in [Sockets -> 0 .. MaxData]
  BY <1>1 DEF ReadMessage, TypeInv, TypeOK
<1> QED BY <1>2, <1>3 DEF ReadMessage, TypeInv, TypeOK, PendingNamed, LinkNeedsChannels,
           page, sockets

LEMMA TypeWritesCollide ==
  ASSUME TypeInv, NEW s \in Sockets, WritesCollide(s)
  PROVE  TypeInv'
<1>1. conn' \in [Sockets -> {"none", "dialing", "open", "closed", "over"}]
  BY DEF WritesCollide
<1> QED BY <1>1 DEF TypeInv, TypeOK, WritesCollide, PushesNumbered, PendingNamed,
                    LinkNeedsChannels, page, sockets

LEMMA TypeStep == TypeInv /\ [Next]_vars => TypeInv'
<1> SUFFICES ASSUME TypeInv, [Next]_vars PROVE TypeInv'
  OBVIOUS
<1> USE DEF PushesNumbered, PendingNamed, LinkNeedsChannels
<1>1. CASE UNCHANGED vars
  BY <1>1 DEF TypeInv, TypeOK, vars, page, sockets, host, net
<1>2. ASSUME NEW r \in Requests, Fetch(r) \/ HostForwards(r) PROVE TypeInv'
  BY <1>2, TypeFetch, TypeForwards
<1>3. ASSUME NEW s \in Sockets, SocketAction(s) \/ HostHandles(s) PROVE TypeInv'
  BY <1>3, TypeOpenSocket, TypeSendData, TypeCloseSocket, TypeReadMessage, TypeHandles,
     TypeWritesCollide DEF SocketAction
<1>4. CASE TimerFires
  BY <1>4, TypeTimerFires
<1>5. ASSUME NEW e \in toPage, PageReceive(e) PROVE TypeInv'
  BY <1>5, TypePageReceive
<1>6. CASE LinkFails
  BY <1>6 DEF TypeInv, TypeOK, LinkFails, page, sockets, host
<1>7. CASE ChannelsClose
  BY <1>7 DEF TypeInv, TypeOK, ChannelsClose, sockets, host, net
<1>8. CASE Disconnect
  BY <1>8, TypeDisconnect
<1>9. CASE Stop
  <2>1. conn' \in [Sockets -> {"none", "dialing", "open", "closed", "over"}]
    BY <1>9 DEF TypeInv, TypeOK, Stop
  <2> QED BY <1>9, <2>1 DEF TypeInv, TypeOK, Stop, page, sockets, net
<1> QED BY <1>1, <1>2, <1>3, <1>4, <1>5, <1>6, <1>7, <1>8, <1>9 DEF Next

(* The page's table of calls and its sockets, the host's goroutines and    *)
(* connections, and what travels between them keep their types.            *)
THEOREM WebTypes == Spec => []TypeOK
<1>1. TypeInv => TypeOK
  BY DEF TypeInv
<1> QED BY <1>1, TypeInit, TypeStep, PTL DEF Spec

-----------------------------------------------------------------------------
(***************************************************************************)
(* The invariant behind the two other theorems, socket by socket.          *)
(*                                                                         *)
(* At the page, while it has channels: a closed socket waits for nothing,  *)
(* a connecting one for its connect and nobody else for that, and an open  *)
(* one nothing was sent on for nothing at all, which is why no push is     *)
(* taken for an answer.  A timer still to come is that of a connect or of  *)
(* a send or close that has happened.                                      *)
(*                                                                         *)
(* At the host: a socket is dialed once, after the page asked; before the  *)
(* dial has ended nothing is said of it, and it ends in one way.           *)
(*                                                                         *)
(* Between them: everything a target said is heard or on its way, and of a *)
(* connection that is over so is the word that it is.                      *)
(***************************************************************************)
PageOf(s) ==
  /\ closes[s] = IF socket[s] = "closed" THEN 1 ELSE 0
  /\ socket[s] = "closed" => pending[s] = None
  /\ socket[s] = "connecting" <=> Waits(s, "connect")
  /\ socket[s] = "connecting" => s \in awaiting
  /\ socket[s] = "open" /\ sends[s] = 0 => pending[s] = None
  /\ sends[s] > 0 => socket[s] \notin {"none", "connecting"}

TimerOf(c) ==
  c.id \in Sockets =>
    \/ c.op = "connect"
    \/ c.op = "data" /\ sends[c.id] > 0
    \/ c.op = "close" /\ socket[c.id] \in {"closing", "closed"}
TimersKnown == \A k \in 1 .. Len(timers) : TimerOf(timers[k])

PageInv == channels => TimersKnown /\ \A s \in Sockets : PageOf(s)

HostOf(s) ==
  /\ Call("connect", s, 0) \in toHost => conn[s] = "none" /\ socket[s] # "none"
  /\ socket[s] = "none" => conn[s] = "none"
  /\ s \in wsConns => conn[s] \in {"open", "closed"}
  /\ conn[s] \in {"none", "dialing"} =>
       pushed[s] = 0 /\ socket[s] # "open" /\ \A e \in toPage : e.id # s
  /\ Event("reject", s, 0) \in toPage =>
       socket[s] # "open" /\ \A e \in toPage : e.id = s => e.kind # "accept"

QuietOf(s) ==
  (link = "up" /\ socket[s] \in {"none", "connecting", "open"} /\ sends[s] = 0) =>
    /\ Delivered(s) = 1 .. pushed[s]
    /\ conn[s] = "over" =>
         Event("bye", s, 0) \in toPage \/ Event("reject", s, 0) \in toPage

BridgeInv ==
  /\ PageInv
  /\ \A s \in Sockets : HostOf(s)
  /\ \A s \in Sockets : QuietOf(s)

WebInv == TypeInv /\ BridgeInv

LEMMA BridgeInit == Init => BridgeInv
<1> SUFFICES ASSUME Init PROVE BridgeInv
  OBVIOUS
<1>1. TimersKnown
  BY DEF Init, TimersKnown
<1>2. \A s \in Sockets : PageOf(s)
  BY DEF Init, PageOf, Waits, Ids
<1>3. \A s \in Sockets : HostOf(s)
  BY DEF Init, HostOf
<1>4. \A s \in Sockets : QuietOf(s)
  BY DEF Init, QuietOf, Delivered
<1> QED BY <1>1, <1>2, <1>3, <1>4 DEF BridgeInv, PageInv

(* A step that does not touch a socket keeps what holds of it. *)
PageSame(s) ==
  /\ pending'[s] = pending[s] /\ socket'[s] = socket[s] /\ closes'[s] = closes[s]
  /\ s \in awaiting' <=> s \in awaiting
  /\ sends'[s] = sends[s]

HostSame(s) ==
  /\ socket'[s] = socket[s] /\ sends'[s] = sends[s] /\ heard'[s] = heard[s]
  /\ conn'[s] = conn[s] /\ pushed'[s] = pushed[s]
  /\ s \in wsConns' => s \in wsConns
  /\ \A e \in Events : e.id = s => (e \in toPage' <=> e \in toPage)
  /\ Call("connect", s, 0) \in toHost' => Call("connect", s, 0) \in toHost
  /\ link' = "up" => link = "up"

LEMMA PageKept ==
  ASSUME NEW s \in Sockets, PageOf(s), PageSame(s)
  PROVE  PageOf(s)'
BY DEF PageOf, PageSame, Waits

LEMMA HostKept ==
  ASSUME TypeInv, TypeInv', NEW s \in Sockets, HostOf(s), QuietOf(s), HostSame(s)
  PROVE  HostOf(s)' /\ QuietOf(s)'
<1>1. \A kind \in {"accept", "reject", "bye"} :
        Event(kind, s, 0) \in Events /\ Event(kind, s, 0).id = s
  BY EventType, Numbers DEF Ids
<1>2. \A n \in 1 .. MaxData : Event("push", s, n) \in Events /\ Event("push", s, n).id = s
  BY EventType, WebAssumption DEF Ids
<1>3. toPage \subseteq Events /\ toPage' \subseteq Events
  BY DEF TypeInv, TypeOK
<1>4. HostOf(s)'
  BY <1>1, <1>3 DEF HostOf, HostSame
<1>5. Delivered(s)' = Delivered(s)
  BY <1>2 DEF Delivered, HostSame
<1>6. QuietOf(s)'
  BY <1>1, <1>5 DEF QuietOf, HostSame
<1> QED BY <1>4, <1>6

(* Timers: what they tell stays true as sockets close and messages go out. *)
Forward ==
  \A s \in Sockets :
    /\ sends[s] > 0 => sends'[s] > 0
    /\ socket[s] \in {"closing", "closed"} => socket'[s] \in {"closing", "closed"}

LEMMA TimersSame ==
  ASSUME TimersKnown, UNCHANGED timers, Forward
  PROVE  TimersKnown'
BY DEF TimersKnown, TimerOf, Forward

LEMMA TimersAppend ==
  ASSUME TypeInv, TimersKnown, NEW c \in Calls, timers' = Append(timers, c),
         TimerOf(c)', Forward
  PROVE  TimersKnown'
<1>1. timers \in Seq(Calls)
  BY DEF TypeInv, TypeOK
<1>2. Len(timers') = Len(timers) + 1 /\ timers'[Len(timers) + 1] = c
  BY <1>1, AppendProperties
<1>3. \A k \in 1 .. Len(timers) : timers'[k] = timers[k]
  BY <1>1, AppendProperties
<1>4. \A k \in 1 .. Len(timers') : k \in 1 .. Len(timers) \/ k = Len(timers) + 1
  BY <1>1, <1>2, LenProperties
<1>5. ASSUME NEW d, TimerOf(d) PROVE TimerOf(d)'
  BY <1>5 DEF TimerOf, Forward
<1>6. \A k \in 1 .. Len(timers') : \E d : d = timers'[k] /\ TimerOf(d)'
  BY <1>2, <1>3, <1>4, <1>5 DEF TimersKnown
<1> QED BY <1>6 DEF TimersKnown, TimerOf

LEMMA TimersTail ==
  ASSUME TypeInv, TimersKnown, timers # << >>, timers' = Tail(timers), Forward
  PROVE  TimersKnown'
<1>1. timers \in Seq(Calls)
  BY DEF TypeInv, TypeOK
<1>2. /\ Len(timers') = Len(timers) - 1
      /\ \A k \in 1 .. Len(timers') : timers'[k] = timers[k + 1]
  BY <1>1, HeadTailProperties
<1>3. \A k \in 1 .. Len(timers') : k + 1 \in 1 .. Len(timers)
  BY <1>1, <1>2, LenProperties
<1> QED BY <1>2, <1>3 DEF TimersKnown, TimerOf, Forward

LEMMA HeadKnown ==
  ASSUME TypeInv, TimersKnown, timers # << >>
  PROVE  Head(timers) \in Calls /\ TimerOf(Head(timers))
<1>1. timers \in Seq(Calls) /\ 1 \in 1 .. Len(timers) /\ Head(timers) = timers[1]
  BY EmptySeq DEF TypeInv, TypeOK
<1>2. Head(timers) \in Calls
  BY <1>1, HeadTailProperties
<1> QED BY <1>1, <1>2 DEF TimersKnown

-----------------------------------------------------------------------------
(* The host's steps: the page is as it was, and so are other sockets. *)
LEMMA PageAlone ==
  ASSUME WebInv, UNCHANGED page
  PROVE  PageInv'
BY DEF WebInv, BridgeInv, PageInv, TimersKnown, TimerOf, PageOf, Waits, page, sockets

(* A step that sends an event of s, or none, leaves the host's half of     *)
(* other sockets alone.                                                    *)
LEMMA OthersAlone ==
  ASSUME WebInv, TypeInv', NEW i \in Ids, UNCHANGED page,
         NEW kind \in {"response", "accept", "reject", "push", "bye"}, NEW n \in 0 .. MaxData,
         toPage' = Sent(toPage, Event(kind, i, n)) \/ UNCHANGED toPage,
         toHost' \subseteq toHost, UNCHANGED link,
         \A t \in Sockets \ {i} : conn'[t] = conn[t] /\ pushed'[t] = pushed[t],
         wsConns' \subseteq wsConns \cup {i}
  PROVE  \A t \in Sockets \ {i} : HostOf(t)' /\ QuietOf(t)'
<1> TAKE t \in Sockets \ {i}
<1>1. Event(kind, i, n).id = i
  BY EventType
<1>2. \A e \in Events : e.id = t => (e \in toPage' <=> e \in toPage)
  BY <1>1 DEF Sent
<1>3. HostSame(t)
  BY <1>2 DEF HostSame, page, sockets
<1> QED BY <1>3, HostKept DEF WebInv, BridgeInv

LEMMA BridgeForwards ==
  ASSUME WebInv, TypeInv', NEW r \in Requests, HostForwards(r)
  PROVE  BridgeInv'
<1>1. PageInv'
  BY PageAlone DEF HostForwards, HandleRequest, Respond
<1>2. \A t \in Sockets \ {r} : HostOf(t)' /\ QuietOf(t)'
  BY OthersAlone, Numbers DEF HostForwards, HandleRequest, Respond, Ids
<1>3. r \notin Sockets
  BY WebAssumption
<1> QED BY <1>1, <1>2, <1>3 DEF BridgeInv

(* What the host does for s, in terms of s alone. *)
LEMMA BridgeHandles ==
  ASSUME WebInv, TypeInv', NEW s \in Sockets,
         HostHandles(s) \/ TargetCloses(s) \/ ReadMessage(s)
  PROVE  BridgeInv'
<1>0. UNCHANGED page
  BY DEF HostHandles, HandleConnect, DialFails, DialOk, ReaderEnds, HandleData, HandleClose,
         TargetCloses, ReadMessage, host
<1>1. PageInv'
  BY <1>0, PageAlone
<1>a. s \in Ids /\ UNCHANGED <<link, socket, sends, heard>>
  BY <1>0 DEF HostHandles, HandleConnect, DialFails, DialOk, ReaderEnds, HandleData,
         HandleClose, TargetCloses, ReadMessage, page, sockets, net, Ids
<1>b. HostOf(s) /\ QuietOf(s)
  BY DEF WebInv, BridgeInv
<1>c. /\ conn \in [Sockets -> {"none", "dialing", "open", "closed", "over"}]
      /\ pushed \in [Sockets -> 0 .. MaxData] /\ pushed[s] \in 0 .. MaxData
  BY DEF WebInv, TypeInv, TypeOK
<1>2. \A t \in Sockets \ {s} : HostOf(t)' /\ QuietOf(t)'
  <2>1. \A t \in Sockets \ {s} : conn'[t] = conn[t] /\ pushed'[t] = pushed[t]
    BY <1>c DEF HostHandles, HandleConnect, DialFails, DialOk, ReaderEnds, HandleData,
           HandleClose, TargetCloses, ReadMessage, host
  <2>2. toHost' \subseteq toHost /\ wsConns' \subseteq wsConns \cup {s}
    BY DEF HostHandles, HandleConnect, DialFails, DialOk, ReaderEnds, HandleData,
           HandleClose, TargetCloses, ReadMessage, host, net
  <2>3. \/ UNCHANGED toPage
        \/ \E kind \in {"accept", "reject", "push", "bye"}, n \in 0 .. MaxData :
             toPage' = Sent(toPage, Event(kind, s, n))
    <3>1. CASE ReadMessage(s)
      <4>1. pushed[s] + 1 \in 0 .. MaxData
        BY <1>c, <3>1, Numbers DEF ReadMessage
      <4> QED BY <3>1, <4>1 DEF ReadMessage
    <3>2. CASE HostHandles(s) \/ TargetCloses(s)
      BY <3>2, Numbers DEF HostHandles, HandleConnect, DialFails, DialOk, ReaderEnds,
             HandleData, HandleClose, TargetCloses, net
    <3> QED BY <3>1, <3>2
  <2> QED BY <1>0, <1>a, <2>1, <2>2, <2>3, OthersAlone, Numbers
<1>3. HostOf(s)' /\ QuietOf(s)'
  <2>1. CASE HandleConnect(s)
    <3>1. /\ conn'[s] = "dialing" /\ conn[s] = "none" /\ socket[s] # "none"
          /\ Call("connect", s, 0) \notin toHost'
          /\ UNCHANGED <<toPage, pushed, wsConns>>
      BY <1>b, <1>c, <2>1 DEF HandleConnect, HostOf
    <3> QED BY <1>a, <1>b, <3>1 DEF HostOf, QuietOf, Delivered
  <2>2. CASE DialFails(s)
    <3>1. /\ conn'[s] = "over" /\ conn[s] = "dialing"
          /\ toPage' = Sent(toPage, Event("reject", s, 0))
          /\ UNCHANGED <<toHost, pushed, wsConns>>
      BY <1>c, <2>2 DEF DialFails
    <3>2. /\ pushed[s] = 0 /\ socket[s] \notin {"open", "none"} /\ \A e \in toPage : e.id # s
          /\ Call("connect", s, 0) \notin toHost
      BY <1>b, <3>1 DEF HostOf
    <3>3. /\ \A e \in toPage' : e.id = s => e.kind # "accept"
          /\ \A n \in 1 .. MaxData : Event("push", s, n) \in toPage' <=> Event("push", s, n) \in toPage
          /\ link = "up" => Event("reject", s, 0) \in toPage'
      <4>1. Event("reject", s, 0).kind # "accept"
        BY DEF Event
      <4>2. \A n \in 1 .. MaxData : Event("push", s, n) # Event("reject", s, 0)
        BY DEF Event
      <4> QED BY <3>1, <3>2, <4>1, <4>2 DEF Sent
    <3>4. Delivered(s)' = Delivered(s)
      BY <1>a, <3>3 DEF Delivered
    <3> QED BY <1>a, <1>b, <3>1, <3>2, <3>3, <3>4 DEF HostOf, QuietOf
  <2>3. CASE DialOk(s)
    <3>1. /\ conn'[s] = "open" /\ conn[s] = "dialing"
          /\ toPage' = Sent(toPage, Event("accept", s, 0))
          /\ UNCHANGED <<toHost, pushed>>
      BY <1>c, <2>3 DEF DialOk
    <3>2. /\ \A e \in toPage : e.id # s
          /\ Call("connect", s, 0) \notin toHost /\ socket[s] # "none"
      BY <1>b, <3>1 DEF HostOf
    <3>3. /\ Event("reject", s, 0) \notin toPage'
          /\ \A n \in 1 .. MaxData : Event("push", s, n) \in toPage' <=> Event("push", s, n) \in toPage
      <4>1. Event("accept", s, 0) # Event("reject", s, 0) /\ Event("reject", s, 0).id = s
        BY DEF Event
      <4>2. \A n \in 1 .. MaxData : Event("push", s, n) # Event("accept", s, 0)
        BY DEF Event
      <4> QED BY <3>1, <3>2, <4>1, <4>2 DEF Sent
    <3>4. Delivered(s)' = Delivered(s)
      BY <1>a, <3>3 DEF Delivered
    <3> QED BY <1>a, <1>b, <3>1, <3>2, <3>3, <3>4 DEF HostOf, QuietOf
  <2>4. CASE ReadMessage(s)
    <3>1. /\ conn[s] = "open" /\ pushed'[s] = pushed[s] + 1 /\ pushed[s] < MaxData
          /\ toPage' = Sent(toPage, Event("push", s, pushed[s] + 1))
          /\ UNCHANGED <<toHost, conn, wsConns>>
      BY <1>c, <2>4 DEF ReadMessage
    <3>2. /\ \A kind \in {"reject", "bye"} :
               Event(kind, s, 0) \in toPage' <=> Event(kind, s, 0) \in toPage
          /\ \A e \in toPage' : e \in toPage \/ e.kind # "accept"
      <4>1. /\ \A kind \in {"reject", "bye"} :
                 Event(kind, s, 0) # Event("push", s, pushed[s] + 1)
            /\ Event("push", s, pushed[s] + 1).kind # "accept"
        BY DEF Event
      <4> QED BY <3>1, <4>1 DEF Sent
    <3>3. HostOf(s)'
      BY <1>a, <1>b, <3>1, <3>2 DEF HostOf
    <3>4. link = "up" => Delivered(s)' = Delivered(s) \cup {pushed[s] + 1}
      <4>1. pushed[s] + 1 \in 1 .. MaxData
        BY <1>c, <3>1, Numbers
      <4>2. \A n \in 1 .. MaxData :
              Event("push", s, n) = Event("push", s, pushed[s] + 1) => n = pushed[s] + 1
        BY DEF Event
      <4> QED BY <1>a, <3>1, <4>1, <4>2 DEF Delivered, Sent
    <3>5. (1 .. pushed[s]) \cup {pushed[s] + 1} = 1 .. pushed[s] + 1
      BY <1>c, WebAssumption
    <3>6. QuietOf(s)'
      BY <1>a, <1>b, <3>1, <3>2, <3>4, <3>5 DEF QuietOf
    <3> QED BY <3>3, <3>6
  <2>5. CASE ReaderEnds(s)
    <3>1. /\ conn'[s] = "over" /\ conn[s] = "closed"
          /\ toPage' = Sent(toPage, Event("bye", s, 0)) /\ s \notin wsConns'
          /\ UNCHANGED <<toHost, pushed>>
      BY <1>c, <2>5 DEF ReaderEnds
    <3>2. /\ Event("reject", s, 0) \in toPage' <=> Event("reject", s, 0) \in toPage
          /\ \A e \in toPage' : e \in toPage \/ e.kind # "accept"
          /\ \A n \in 1 .. MaxData : Event("push", s, n) \in toPage' <=> Event("push", s, n) \in toPage
          /\ link = "up" => Event("bye", s, 0) \in toPage'
      <4>1. Event("reject", s, 0) # Event("bye", s, 0) /\ Event("bye", s, 0).kind # "accept"
        BY DEF Event
      <4>2. \A n \in 1 .. MaxData : Event("push", s, n) # Event("bye", s, 0)
        BY DEF Event
      <4> QED BY <3>1, <4>1, <4>2 DEF Sent
    <3>3. Delivered(s)' = Delivered(s)
      BY <1>a, <3>2 DEF Delivered
    <3> QED BY <1>a, <1>b, <3>1, <3>2, <3>3 DEF HostOf, QuietOf
  <2>6. CASE TargetCloses(s)
    <3>1. conn'[s] = "closed" /\ conn[s] = "open" /\ UNCHANGED <<toPage, toHost, pushed, wsConns>>
      BY <1>c, <2>6 DEF TargetCloses, net
    <3> QED BY <1>a, <1>b, <3>1 DEF HostOf, QuietOf, Delivered
  <2>7. CASE HandleData(s)
    <3>1. toHost' \subseteq toHost /\ UNCHANGED <<toPage, conn, pushed, wsConns>>
      BY <2>7 DEF HandleData, host
    <3> QED BY <1>a, <1>b, <3>1 DEF HostOf, QuietOf, Delivered
  <2>8. CASE HandleClose(s)
    <3>1. toHost' \subseteq toHost /\ UNCHANGED <<toPage, pushed>>
      BY <2>8 DEF HandleClose
    <3>2. \/ conn'[s] = conn[s] /\ UNCHANGED wsConns
          \/ conn[s] \in {"open", "closed"} /\ conn'[s] = "closed"
      BY <1>b, <1>c, <2>8 DEF HandleClose, HostOf
    <3> QED BY <1>a, <1>b, <3>1, <3>2 DEF HostOf, QuietOf, Delivered
  <2> QED BY <2>1, <2>2, <2>3, <2>4, <2>5, <2>6, <2>7, <2>8 DEF HostHandles
<1> QED BY <1>1, <1>2, <1>3 DEF BridgeInv

-----------------------------------------------------------------------------
(* The page's steps: other sockets are as they were. *)
LEMMA OtherSockets ==
  ASSUME WebInv, TypeInv', NEW i \in Ids, channels' => channels,
         \A t \in Sockets \ {i} : PageSame(t) /\ HostSame(t)
  PROVE  \A t \in Sockets \ {i} : (channels' => PageOf(t)') /\ HostOf(t)' /\ QuietOf(t)'
<1> TAKE t \in Sockets \ {i}
<1> QED BY PageKept, HostKept DEF WebInv, BridgeInv, PageInv

LEMMA BridgeTogether ==
  ASSUME NEW s \in Sockets,
         channels' => TimersKnown' /\ PageOf(s)',
         HostOf(s)' /\ QuietOf(s)',
         \A t \in Sockets \ {s} : (channels' => PageOf(t)') /\ HostOf(t)' /\ QuietOf(t)'
  PROVE  BridgeInv'
<1>1. \A t \in Sockets : (channels' => PageOf(t)') /\ HostOf(t)' /\ QuietOf(t)'
  OBVIOUS
<1> QED BY <1>1 DEF BridgeInv, PageInv

(* What a request of i leaves alone, sent or refused. *)
LEMMA RequestLeaves ==
  ASSUME TypeInv, NEW c \in Calls, ProxyRequest(c) \/ Rejected, NEW t \in Sockets, t # c.id
  PROVE  /\ pending'[t] = pending[t]
         /\ Call("connect", t, 0) \in toHost' => Call("connect", t, 0) \in toHost
<1>1. Call("connect", t, 0) # c
  BY DEF Call
<1>2. t \in Ids /\ pending \in [Ids -> Calls \cup {None}]
  BY DEF Ids, TypeInv, TypeOK
<1> QED BY <1>1, <1>2 DEF ProxyRequest, Rejected, Sent

LEMMA BridgeFetch ==
  ASSUME WebInv, TypeInv', NEW r \in Requests, Fetch(r)
  PROVE  BridgeInv'
<1> DEFINE c == Call("fetch", r, 0)
<1>1. r \in Ids /\ r \notin Sockets /\ c \in Calls /\ c.id = r /\ c.op = "fetch"
  BY CallType, Numbers, WebAssumption DEF Ids
<1>2. ProxyRequest(c) \/ Rejected
  BY DEF Fetch
<1>3. UNCHANGED <<sockets, sends, heard, channels, host, link, toPage>>
  BY DEF Fetch
<1> HIDE DEF c
<1>4. ASSUME NEW t \in Sockets \ {r} PROVE PageSame(t) /\ HostSame(t)
  <2>1. /\ pending'[t] = pending[t]
        /\ Call("connect", t, 0) \in toHost' => Call("connect", t, 0) \in toHost
    BY <1>1, <1>2, RequestLeaves DEF WebInv
  <2> QED BY <1>3, <2>1 DEF PageSame, HostSame, sockets, host
<1>5. channels' => TimersKnown'
  <2>1. Forward
    BY <1>3 DEF Forward, sockets
  <2>2. CASE ProxyRequest(c)
    BY <1>1, <1>3, <2>1, <2>2, TimersAppend
       DEF WebInv, BridgeInv, PageInv, ProxyRequest, TimerOf
  <2>3. CASE Rejected
    BY <1>3, <2>3 DEF Rejected
  <2> QED BY <1>2, <2>2, <2>3
<1>6. \A t \in Sockets \ {r} : (channels' => PageOf(t)') /\ HostOf(t)' /\ QuietOf(t)'
  BY <1>1, <1>3, <1>4, OtherSockets
<1> QED BY <1>1, <1>5, <1>6 DEF BridgeInv, PageInv

LEMMA BridgeOpenSocket ==
  ASSUME WebInv, TypeInv', NEW s \in Sockets, OpenSocket(s)
  PROVE  BridgeInv'
<1> DEFINE c == Call("connect", s, 0)
<1>1. s \in Ids /\ c \in Calls /\ c.id = s /\ c.op = "connect"
  BY CallType, Numbers DEF Ids
<1>2. ProxyRequest(c) \/ Rejected
  BY DEF OpenSocket
<1>3. /\ UNCHANGED <<request, sends, heard, channels, host, link, toPage>>
      /\ socket[s] = "none"
  BY DEF OpenSocket
<1>4. /\ socket \in [Sockets -> {"none", "connecting", "open", "closing", "closed"}]
      /\ closes \in [Sockets -> Nat]
      /\ pending \in [Ids -> Calls \cup {None}] /\ None \notin Calls
  BY WebAssumption DEF WebInv, TypeInv, TypeOK
<1>5. \A t \in Sockets \ {s} : (channels' => PageOf(t)') /\ HostOf(t)' /\ QuietOf(t)'
  <2>1. ASSUME NEW t \in Sockets \ {s} PROVE PageSame(t) /\ HostSame(t)
    <3>1. /\ pending'[t] = pending[t]
          /\ Call("connect", t, 0) \in toHost' => Call("connect", t, 0) \in toHost
      BY <1>1, <1>2, RequestLeaves DEF WebInv
    <3>2. socket'[t] = socket[t] /\ closes'[t] = closes[t] /\ (t \in awaiting' <=> t \in awaiting)
      BY <1>4 DEF OpenSocket, Closed
    <3> QED BY <1>3, <3>1, <3>2 DEF PageSame, HostSame, host
  <2> QED BY <1>1, <1>3, <2>1, OtherSockets
<1>6. HostOf(s) /\ QuietOf(s)
  BY DEF WebInv, BridgeInv
<1>7. Delivered(s)' = Delivered(s)
  BY <1>3 DEF Delivered
<1>8. CASE channels
  <2>1. /\ ProxyRequest(c) /\ socket'[s] = "connecting" /\ s \in awaiting' /\ UNCHANGED closes
        /\ socket' = [socket EXCEPT ![s] = "connecting"]
    BY <1>4, <1>8 DEF OpenSocket, Rejected
  <2>2. pending'[s] = c
    BY <1>1, <1>4, <2>1 DEF ProxyRequest
  <2>3. PageOf(s)'
    BY <1>1, <1>3, <1>4, <1>8, <2>1, <2>2 DEF WebInv, BridgeInv, PageInv, PageOf, Waits
  <2>4. TimersKnown'
    <3>1. Forward
      BY <1>3, <1>4, <2>1 DEF Forward
    <3>2. TimerOf(c)'
      BY <1>1 DEF TimerOf
    <3>3. timers' = Append(timers, c)
      BY <2>1 DEF ProxyRequest
    <3> QED BY <1>1, <1>8, <3>1, <3>2, <3>3, TimersAppend DEF WebInv, BridgeInv, PageInv
  <2>5. HostOf(s)' /\ QuietOf(s)'
    BY <1>3, <1>6, <1>7, <2>1 DEF HostOf, QuietOf, host
  <2> QED BY <1>5, <2>3, <2>4, <2>5, BridgeTogether
<1>9. CASE ~channels
  <2>1. socket'[s] = "closed" /\ UNCHANGED toHost
    BY <1>4, <1>9 DEF OpenSocket, ProxyRequest, Rejected, Closed
  <2>2. HostOf(s)' /\ QuietOf(s)'
    BY <1>3, <1>6, <2>1 DEF HostOf, QuietOf, host
  <2> QED BY <1>3, <1>5, <1>9, <2>2, BridgeTogether
<1> QED BY <1>8, <1>9

LEMMA BridgeSendData ==
  ASSUME WebInv, TypeInv', NEW s \in Sockets, SendData(s)
  PROVE  BridgeInv'
<1>c. PICK c : c = Call("data", s, sends[s] + 1)
  OBVIOUS
<1>0. sends \in [Sockets -> 0 .. MaxData] /\ sends[s] + 1 \in 1 .. MaxData
  BY Numbers DEF SendData, WebInv, TypeInv, TypeOK
<1>1. s \in Ids /\ c \in Calls /\ c.id = s /\ c.op = "data"
  BY <1>0, <1>c, CallType DEF Ids
<1>2. ProxyRequest(c) \/ Rejected
  BY <1>c DEF SendData
<1>3. /\ UNCHANGED <<request, sockets, heard, channels, host, link, toPage>>
      /\ socket[s] = "open"
  BY DEF SendData
<1>4. pending \in [Ids -> Calls \cup {None}] /\ None \notin Calls
  BY WebAssumption DEF WebInv, TypeInv, TypeOK
<1>5. sends'[s] > 0 /\ \A t \in Sockets \ {s} : sends'[t] = sends[t]
  BY <1>0, WebAssumption DEF SendData
<1>6. \A t \in Sockets \ {s} : (channels' => PageOf(t)') /\ HostOf(t)' /\ QuietOf(t)'
  <2>1. ASSUME NEW t \in Sockets \ {s} PROVE PageSame(t) /\ HostSame(t)
    <3>1. /\ pending'[t] = pending[t]
          /\ Call("connect", t, 0) \in toHost' => Call("connect", t, 0) \in toHost
      BY <1>1, <1>2, RequestLeaves DEF WebInv
    <3> QED BY <1>3, <1>5, <3>1 DEF PageSame, HostSame, host, sockets
  <2> QED BY <1>1, <1>3, <2>1, OtherSockets
<1>7. HostOf(s)' /\ QuietOf(s)'
  <2>1. Call("connect", s, 0) \in toHost' => Call("connect", s, 0) \in toHost
    <3>1. c # Call("connect", s, 0)
      BY <1>1 DEF Call
    <3> QED BY <1>2, <3>1 DEF ProxyRequest, Rejected, Sent
  <2>2. HostOf(s)
    BY DEF WebInv, BridgeInv
  <2> QED BY <1>3, <1>5, <2>1, <2>2 DEF HostOf, QuietOf, sockets, host
<1>8. ASSUME channels' PROVE TimersKnown' /\ PageOf(s)'
  <2>1. ProxyRequest(c) /\ channels
    BY <1>2, <1>3, <1>8 DEF Rejected
  <2>2. pending'[s] = c
    BY <1>1, <1>4, <2>1 DEF ProxyRequest
  <2>3. PageOf(s)'
    BY <1>1, <1>3, <1>4, <1>5, <2>1, <2>2
       DEF WebInv, BridgeInv, PageInv, PageOf, Waits, sockets
  <2>4. Forward
    BY <1>3, <1>5 DEF Forward, sockets
  <2>5. TimerOf(c)'
    BY <1>1, <1>5 DEF TimerOf
  <2>6. timers' = Append(timers, c)
    BY <2>1 DEF ProxyRequest
  <2>7. TimersKnown'
    BY <1>1, <2>1, <2>4, <2>5, <2>6, TimersAppend DEF WebInv, BridgeInv, PageInv
  <2> QED BY <2>3, <2>7
<1> QED BY <1>6, <1>7, <1>8, BridgeTogether

LEMMA BridgeCloseSocket ==
  ASSUME WebInv, TypeInv', NEW s \in Sockets, CloseSocket(s)
  PROVE  BridgeInv'
<1> DEFINE c == Call("close", s, 0)
<1>1. s \in Ids /\ c \in Calls /\ c.id = s /\ c.op = "close"
  BY CallType, Numbers DEF Ids
<1>2. ProxyRequest(c) \/ Rejected
  BY DEF CloseSocket
<1>3. /\ UNCHANGED <<request, awaiting, sends, heard, channels, host, link, toPage>>
      /\ socket[s] \in {"connecting", "open"}
  BY DEF CloseSocket
<1>4. /\ socket \in [Sockets -> {"none", "connecting", "open", "closing", "closed"}]
      /\ closes \in [Sockets -> Nat]
      /\ pending \in [Ids -> Calls \cup {None}] /\ None \notin Calls
  BY WebAssumption DEF WebInv, TypeInv, TypeOK
<1>5. /\ socket'[s] \in {"closing", "closed"}
      /\ \A t \in Sockets \ {s} : socket'[t] = socket[t] /\ closes'[t] = closes[t]
  BY <1>4 DEF CloseSocket, Closed
<1>6. \A t \in Sockets \ {s} : (channels' => PageOf(t)') /\ HostOf(t)' /\ QuietOf(t)'
  <2>1. ASSUME NEW t \in Sockets \ {s} PROVE PageSame(t) /\ HostSame(t)
    <3>1. /\ pending'[t] = pending[t]
          /\ Call("connect", t, 0) \in toHost' => Call("connect", t, 0) \in toHost
      BY <1>1, <1>2, RequestLeaves DEF WebInv
    <3> QED BY <1>3, <1>5, <3>1 DEF PageSame, HostSame, host
  <2> QED BY <1>1, <1>3, <2>1, OtherSockets
<1>7. HostOf(s)' /\ QuietOf(s)'
  <2>1. Call("connect", s, 0) \in toHost' => Call("connect", s, 0) \in toHost
    <3>1. c # Call("connect", s, 0)
      BY <1>1 DEF Call
    <3> QED BY <1>2, <3>1 DEF ProxyRequest, Rejected, Sent
  <2>2. HostOf(s)
    BY DEF WebInv, BridgeInv
  <2> QED BY <1>3, <1>5, <2>1, <2>2 DEF HostOf, QuietOf, host
<1>8. ASSUME channels' PROVE TimersKnown' /\ PageOf(s)'
  <2>1. ProxyRequest(c) /\ socket'[s] = "closing" /\ UNCHANGED closes /\ channels
    BY <1>3, <1>4, <1>8 DEF CloseSocket, Rejected
  <2>2. pending'[s] = c
    BY <1>1, <1>4, <2>1 DEF ProxyRequest
  <2>3. PageOf(s)'
    BY <1>1, <1>3, <1>4, <2>1, <2>2 DEF WebInv, BridgeInv, PageInv, PageOf, Waits
  <2>4. Forward
    BY <1>3, <1>5 DEF Forward
  <2>5. TimerOf(c)'
    BY <1>1, <1>5 DEF TimerOf
  <2>6. timers' = Append(timers, c)
    BY <2>1 DEF ProxyRequest
  <2>7. TimersKnown'
    BY <1>1, <2>1, <2>4, <2>5, <2>6, TimersAppend DEF WebInv, BridgeInv, PageInv
  <2> QED BY <2>3, <2>7
<1> QED BY <1>6, <1>7, <1>8, BridgeTogether

-----------------------------------------------------------------------------
(* The page is told something: an answer, an event, or that time is up. *)
LEMMA EventIs ==
  ASSUME NEW e \in Events
  PROVE  e = Event(e.kind, e.id, e.data)
BY DEF Event, Events

LEMMA BridgeTimerFires ==
  ASSUME WebInv, TypeInv', TimerFires
  PROVE  BridgeInv'
<1>c. PICK c : c = Head(timers)
  OBVIOUS
<1>1. /\ timers # << >> /\ timers' = Tail(timers)
      /\ UNCHANGED <<sends, heard, channels, host, net>>
  BY DEF TimerFires
<1>2. /\ c \in Calls /\ c.id \in Ids
      /\ channels => TimerOf(c)
  <2>1. c \in Calls
    BY <1>c, <1>1, HeadTailProperties DEF WebInv, TypeInv, TypeOK
  <2>2. c.id \in Ids
    BY <2>1 DEF Calls
  <2>3. ASSUME channels PROVE TimerOf(c)
    <3>1. TimerOf(Head(timers))
      BY <1>1, <2>3, HeadKnown DEF WebInv, BridgeInv, PageInv
    <3> QED BY <1>c, <3>1
  <2> QED BY <2>1, <2>2, <2>3
<1>3. /\ socket \in [Sockets -> {"none", "connecting", "open", "closing", "closed"}]
      /\ closes \in [Sockets -> Nat] /\ awaiting \subseteq Sockets
      /\ pending \in [Ids -> Calls \cup {None}]
  BY DEF WebInv, TypeInv, TypeOK
<1>4. CASE UNCHANGED <<pending, sockets>>
  <2>1. \A t \in Sockets : PageSame(t) /\ HostSame(t)
    BY <1>1, <1>4 DEF PageSame, HostSame, sockets, host, net
  <2>2. \A t \in Sockets : (channels' => PageOf(t)') /\ HostOf(t)' /\ QuietOf(t)'
    BY <1>1, <2>1, PageKept, HostKept DEF WebInv, BridgeInv, PageInv
  <2>3. channels' => TimersKnown'
    <3>1. Forward
      BY <1>1, <1>4 DEF Forward, sockets
    <3> QED BY <1>1, <3>1, TimersTail DEF WebInv, BridgeInv, PageInv
  <2> QED BY <2>2, <2>3 DEF BridgeInv, PageInv
<1>5. CASE /\ pending[c.id] # None
           /\ pending' = [pending EXCEPT ![c.id] = None]
           /\ Reject(c)
  <2>1. /\ \A t \in Sockets \ {c.id} :
             /\ pending'[t] = pending[t] /\ socket'[t] = socket[t] /\ closes'[t] = closes[t]
             /\ t \in awaiting' <=> t \in awaiting
        /\ pending'[c.id] = None
    BY <1>2, <1>3, <1>5 DEF Reject, Closed, sockets, Ids
  <2>2. \A t \in Sockets \ {c.id} : (channels' => PageOf(t)') /\ HostOf(t)' /\ QuietOf(t)'
    <3>1. \A t \in Sockets \ {c.id} : PageSame(t) /\ HostSame(t)
      BY <1>1, <2>1 DEF PageSame, HostSame, host, net
    <3> QED BY <1>1, <1>2, <3>1, OtherSockets
  <2>3. c.id \in Sockets => socket'[c.id] \in {socket[c.id], "closed"}
    BY <1>3, <1>5 DEF Reject, Closed, sockets
  <2>4. channels' => TimersKnown'
    <3>1. Forward
      BY <1>1, <2>1, <2>3 DEF Forward
    <3> QED BY <1>1, <3>1, TimersTail DEF WebInv, BridgeInv, PageInv
  <2>5. CASE c.id \notin Sockets
    BY <2>2, <2>4, <2>5 DEF BridgeInv, PageInv
  <2>6. CASE c.id \in Sockets
    <3>1. HostOf(c.id)'
      <4>1. HostOf(c.id)
        BY <2>6 DEF WebInv, BridgeInv
      <4> QED BY <1>1, <2>3, <2>6, <4>1 DEF HostOf, host, net
    <3>2. QuietOf(c.id)'
      <4>1. QuietOf(c.id) /\ Delivered(c.id)' = Delivered(c.id)
        BY <1>1, <2>6 DEF WebInv, BridgeInv, Delivered, net
      <4> QED BY <1>1, <2>3, <2>6, <4>1 DEF QuietOf, host, net
    <3>3. ASSUME channels' PROVE PageOf(c.id)'
      <4>1. /\ PageOf(c.id) /\ TimerOf(c)
            /\ socket[c.id] # "closed" /\ closes[c.id] = 0
        BY <1>1, <1>2, <1>5, <2>6, <3>3 DEF WebInv, BridgeInv, PageInv, PageOf
      <4>2. CASE Closed(c.id)
        <5>1. socket'[c.id] = "closed" /\ closes'[c.id] = 1
          BY <1>3, <2>6, <4>1, <4>2 DEF Closed
        <5> QED BY <1>1, <2>1, <4>1, <5>1 DEF PageOf, Waits
      <4>3. CASE ~Closed(c.id)
        <5>1. UNCHANGED <<socket, closes>> /\ socket[c.id] # "connecting"
          BY <1>5, <2>6, <4>1, <4>3 DEF Reject, sockets, TimerOf, PageOf
        <5> QED BY <1>1, <2>1, <4>1, <5>1 DEF PageOf, Waits
      <4> QED BY <4>2, <4>3
    <3> QED BY <2>2, <2>4, <2>6, <3>1, <3>2, <3>3, BridgeTogether
  <2> QED BY <2>5, <2>6
<1> QED BY <1>c, <1>4, <1>5 DEF TimerFires

LEMMA BridgePageReceive ==
  ASSUME WebInv, TypeInv', NEW e \in toPage, PageReceive(e)
  PROVE  BridgeInv'
<1>1. /\ toPage' = toPage \ {e}
      /\ UNCHANGED <<timers, sends, channels, host, link, toHost>>
  BY DEF PageReceive
<1>2. e \in Events /\ e.id \in Ids /\ e = Event(e.kind, e.id, e.data)
  BY EventIs DEF WebInv, TypeInv, TypeOK, Events
<1>3. /\ socket \in [Sockets -> {"none", "connecting", "open", "closing", "closed"}]
      /\ closes \in [Sockets -> Nat] /\ awaiting \subseteq Sockets
      /\ heard \in [Sockets -> SUBSET (1 .. MaxData)]
      /\ pending \in [Ids -> Calls \cup {None}]
      /\ pending[e.id] # None => pending[e.id].id = e.id
  BY <1>2 DEF WebInv, TypeInv, TypeOK, PendingNamed
<1>4. /\ \A t \in Sockets \ {e.id} :
           /\ pending'[t] = pending[t] /\ socket'[t] = socket[t] /\ closes'[t] = closes[t]
           /\ heard'[t] = heard[t]
           /\ t \in awaiting' <=> t \in awaiting
      /\ pending'[e.id] = None
  <2>1. CASE pending[e.id] # None
    BY <1>2, <1>3, <2>1 DEF PageReceive, Resolve, Closed, sockets, Ids
  <2>2. CASE pending[e.id] = None
    BY <1>2, <1>3, <2>2 DEF PageReceive, Dispatch, Closed, sockets
  <2> QED BY <2>1, <2>2
<1>5. \A t \in Sockets \ {e.id} : (channels' => PageOf(t)') /\ HostOf(t)' /\ QuietOf(t)'
  <2>1. \A t \in Sockets \ {e.id} : PageSame(t) /\ HostSame(t)
    BY <1>1, <1>4 DEF PageSame, HostSame, host
  <2> QED BY <1>1, <1>2, <2>1, OtherSockets
<1>6. CASE e.id \notin Sockets
  <2>1. Forward
    BY <1>1, <1>4, <1>6 DEF Forward
  <2>2. channels' => TimersKnown'
    BY <1>1, <2>1, TimersSame DEF WebInv, BridgeInv, PageInv
  <2> QED BY <1>5, <1>6, <2>2 DEF BridgeInv, PageInv
<1>7. CASE e.id \in Sockets
  <2>s. PICK s \in Sockets : s = e.id
    BY <1>7
  <2>1. HostOf(s) /\ QuietOf(s) /\ (channels => PageOf(s))
    BY DEF WebInv, BridgeInv, PageInv
  <2>2. /\ conn[s] \notin {"none", "dialing"} /\ socket[s] # "none"
        /\ Call("connect", s, 0) \notin toHost
    BY <2>s, <2>1 DEF HostOf
  <2>3. \/ socket'[s] = socket[s] /\ closes'[s] = closes[s]
        \/ socket'[s] = "closed" /\ closes'[s] = closes[s] + 1
        \/ socket'[s] = "open" /\ closes'[s] = closes[s]
           /\ e.kind = "accept" /\ Waits(s, "connect")
    <3>1. CASE pending[s] # None
      BY <1>3, <2>s, <3>1 DEF PageReceive, Resolve, Closed, sockets, Waits
    <3>2. CASE pending[s] = None
      BY <1>3, <2>s, <3>2 DEF PageReceive, Dispatch, Closed, sockets
    <3> QED BY <3>1, <3>2
  <2>4. HostOf(s)'
    <3>1. Event("reject", s, 0) \in toPage' => socket'[s] # "open"
      BY <1>1, <2>s, <2>1, <2>3 DEF HostOf
    <3> QED BY <1>1, <2>1, <2>2, <2>3, <3>1 DEF HostOf, host
  <2>5. ASSUME channels PROVE PageOf(s)' /\ Forward
    <3>1. PageOf(s)
      BY <2>1, <2>5
    <3>2. CASE pending[s] # None
      <4>1. socket[s] # "closed" /\ closes[s] = 0
        BY <3>1, <3>2 DEF PageOf
      <4>2. socket'[s] = socket[s] => socket[s] # "connecting"
        <5>1. CASE pending[s].op = "connect"
          BY <1>3, <2>s, <3>1, <3>2, <5>1 DEF PageReceive, Resolve, Closed, PageOf, Waits
        <5>2. CASE pending[s].op # "connect"
          BY <3>1, <5>2 DEF PageOf, Waits
        <5> QED BY <5>1, <5>2
      <4>3. PageOf(s)'
        BY <1>1, <1>4, <2>s, <2>3, <3>1, <4>1, <4>2 DEF PageOf, Waits
      <4>4. Forward
        BY <1>1, <1>4, <2>s, <2>3, <3>1 DEF Forward, PageOf
      <4> QED BY <4>3, <4>4
    <3>3. CASE pending[s] = None
      <4>1. \/ UNCHANGED sockets
            \/ socket[s] # "closed" /\ socket'[s] = "closed" /\ closes'[s] = closes[s] + 1
        BY <1>3, <2>s, <3>3 DEF PageReceive, Dispatch, Closed, Live
      <4>2. socket[s] # "connecting"
        BY <3>1, <3>3 DEF PageOf, Waits
      <4>3. PageOf(s)'
        BY <1>1, <1>4, <2>s, <3>1, <3>3, <4>1, <4>2 DEF PageOf, Waits, sockets
      <4>4. Forward
        BY <1>1, <1>4, <2>s, <4>1 DEF Forward, sockets
      <4> QED BY <4>3, <4>4
    <3> QED BY <3>2, <3>3
  <2>6. QuietOf(s)'
    <3> SUFFICES ASSUME link = "up", socket'[s] \in {"none", "connecting", "open"}, sends[s] = 0
                 PROVE  /\ Delivered(s)' = 1 .. pushed[s]
                        /\ conn[s] = "over" => \/ Event("bye", s, 0) \in toPage'
                                               \/ Event("reject", s, 0) \in toPage'
      BY <1>1 DEF QuietOf, host
    <3>1. PageOf(s)
      BY <2>1 DEF WebInv, TypeInv, LinkNeedsChannels
    <3>2. CASE pending[s] # None
      <4>1. socket[s] = "connecting" /\ socket'[s] = "open" /\ e.kind = "accept"
        <5>1. socket[s] # "open"
          BY <3>1, <3>2 DEF PageOf
        <5>2. socket'[s] = socket[s] => socket[s] # "connecting"
          <6>1. CASE pending[s].op = "connect"
            BY <1>3, <2>s, <3>1, <3>2, <6>1 DEF PageReceive, Resolve, Closed, PageOf, Waits
          <6>2. CASE pending[s].op # "connect"
            BY <3>1, <6>2 DEF PageOf, Waits
          <6> QED BY <6>1, <6>2
        <5> QED BY <2>2, <2>3, <3>1, <5>1, <5>2 DEF PageOf
      <4>2. UNCHANGED heard
        BY <2>s, <3>2 DEF PageReceive
      <4>3. /\ \A n \in 1 .. MaxData : Event("push", s, n) # e
            /\ Event("bye", s, 0) # e /\ Event("reject", s, 0) # e
        BY <4>1 DEF Event
      <4>4. Delivered(s)' = Delivered(s)
        BY <1>1, <4>2, <4>3 DEF Delivered
      <4> QED BY <1>1, <2>1, <4>1, <4>3, <4>4 DEF QuietOf
    <3>3. CASE pending[s] = None
      <4>1. socket'[s] = "open" /\ socket[s] = "open" /\ Dispatch(e)
        BY <2>s, <2>2, <2>3, <3>1, <3>3 DEF PageReceive, PageOf, Waits
      <4>2. e.kind # "bye" /\ e # Event("bye", s, 0)
        <5>1. e.kind # "bye"
          BY <1>3, <2>s, <4>1 DEF Dispatch, Closed, Live
        <5> QED BY <5>1 DEF Event
      <4>3. Event("reject", s, 0) \notin toPage
        BY <2>1, <4>1 DEF HostOf
      <4>4. Delivered(s)' = Delivered(s)
        <5>1. CASE e.kind = "push"
          <6>1. /\ heard'[s] = heard[s] \cup {e.data}
                /\ e.data \in 1 .. MaxData /\ e = Event("push", s, e.data)
            BY <1>2, <1>3, <2>s, <4>1, <5>1
               DEF Dispatch, Live, WebInv, TypeInv, PushesNumbered
          <6>2. \A n \in 1 .. MaxData : Event("push", s, n) = e <=> n = e.data
            BY <6>1 DEF Event
          <6> QED BY <1>1, <6>1, <6>2 DEF Delivered
        <5>2. CASE e.kind # "push"
          <6>1. UNCHANGED heard
            BY <4>1, <5>2 DEF Dispatch
          <6>2. \A n \in 1 .. MaxData : Event("push", s, n) # e
            BY <5>2 DEF Event
          <6> QED BY <1>1, <6>1, <6>2 DEF Delivered
        <5> QED BY <5>1, <5>2
      <4> QED BY <1>1, <2>1, <4>1, <4>2, <4>3, <4>4 DEF QuietOf
    <3> QED BY <3>2, <3>3
  <2>7. channels' => TimersKnown' /\ PageOf(s)'
    BY <1>1, <2>5, TimersSame DEF WebInv, BridgeInv, PageInv
  <2> QED BY <1>5, <2>s, <2>4, <2>6, <2>7, BridgeTogether
<1> QED BY <1>6, <1>7

-----------------------------------------------------------------------------
(* The link and the two ends of everything. *)
LEMMA BridgeLinkFails ==
  ASSUME WebInv, TypeInv', LinkFails
  PROVE  BridgeInv'
<1>1. link' = "down" /\ toHost' = {} /\ toPage' = {} /\ UNCHANGED <<page, host>>
  BY DEF LinkFails
<1>2. PageInv'
  BY <1>1, PageAlone
<1>3. \A s \in Sockets : HostOf(s)' /\ QuietOf(s)'
  BY <1>1 DEF WebInv, BridgeInv, HostOf, QuietOf, page, sockets, host
<1> QED BY <1>2, <1>3 DEF BridgeInv

LEMMA BridgeWritesCollide ==
  ASSUME WebInv, TypeInv', NEW s \in Sockets, WritesCollide(s)
  PROVE  BridgeInv'
<1>1. /\ link' = "down" /\ toHost' = {} /\ toPage' = {} /\ wsConns' = {}
      /\ UNCHANGED <<page, pushed>>
      /\ \A t \in Sockets : conn'[t] = IF conn[t] = "none" THEN "none" ELSE "over"
  BY DEF WritesCollide
<1>2. PageInv'
  BY <1>1, PageAlone
<1>3. \A t \in Sockets : HostOf(t)' /\ QuietOf(t)'
  BY <1>1 DEF WebInv, BridgeInv, HostOf, QuietOf, page, sockets
<1> QED BY <1>2, <1>3 DEF BridgeInv

LEMMA BridgeChannelsClose ==
  ASSUME WebInv, TypeInv', ChannelsClose
  PROVE  BridgeInv'
<1>1. /\ ~channels' /\ link' = "down"
      /\ UNCHANGED <<socket, toHost, toPage, conn, pushed, wsConns>>
  BY DEF ChannelsClose, sockets, host, net
<1>2. \A s \in Sockets : HostOf(s)' /\ QuietOf(s)'
  BY <1>1 DEF WebInv, BridgeInv, HostOf, QuietOf
<1> QED BY <1>1, <1>2 DEF BridgeInv, PageInv

LEMMA BridgeDisconnect ==
  ASSUME WebInv, TypeInv', Disconnect
  PROVE  BridgeInv'
<1>1. /\ ~channels' /\ link' = "down" /\ toHost' = {} /\ toPage' = {}
      /\ UNCHANGED <<conn, pushed, wsConns>>
  BY DEF Disconnect, host
<1>2. \A s \in Sockets : socket'[s] \in {socket[s], "closed"}
  BY DEF Disconnect
<1>3. \A s \in Sockets : HostOf(s)' /\ QuietOf(s)'
  BY <1>1, <1>2 DEF WebInv, BridgeInv, HostOf, QuietOf
<1> QED BY <1>1, <1>3 DEF BridgeInv, PageInv

LEMMA BridgeStop ==
  ASSUME WebInv, TypeInv', Stop
  PROVE  BridgeInv'
<1>1. UNCHANGED <<page, wsConns, pushed, net>>
  BY DEF Stop
<1>2. PageInv'
  BY <1>1, PageAlone
<1>3. \A s \in Sockets :
        \/ conn'[s] = conn[s]
        \/ s \in wsConns /\ conn'[s] = "closed"
  BY DEF Stop
<1>4. \A s \in Sockets : HostOf(s)' /\ QuietOf(s)'
  <2> TAKE s \in Sockets
  <2>1. HostOf(s) /\ QuietOf(s)
    BY DEF WebInv, BridgeInv
  <2>2. Delivered(s)' = Delivered(s)
    BY <1>1 DEF Delivered, page, net
  <2> QED BY <1>1, <1>3, <2>1, <2>2 DEF HostOf, QuietOf, page, sockets, net
<1> QED BY <1>2, <1>4 DEF BridgeInv

LEMMA BridgeStep == WebInv /\ [Next]_vars => WebInv'
<1> SUFFICES ASSUME WebInv, [Next]_vars PROVE WebInv'
  OBVIOUS
<1>1. TypeInv'
  BY TypeStep DEF WebInv
<1>2. CASE UNCHANGED vars
  <2>1. UNCHANGED page /\ UNCHANGED host /\ UNCHANGED net
    BY <1>2 DEF vars
  <2>2. PageInv'
    BY <2>1, PageAlone
  <2>3. \A s \in Sockets : HostOf(s)' /\ QuietOf(s)'
    BY <2>1 DEF WebInv, BridgeInv, HostOf, QuietOf, Delivered, page, sockets, host, net
  <2> QED BY <1>1, <2>2, <2>3 DEF WebInv, BridgeInv
<1>3. ASSUME NEW r \in Requests, Fetch(r) \/ HostForwards(r) PROVE BridgeInv'
  BY <1>1, <1>3, BridgeFetch, BridgeForwards
<1>4. ASSUME NEW s \in Sockets, SocketAction(s) \/ HostHandles(s) PROVE BridgeInv'
  BY <1>1, <1>4, BridgeOpenSocket, BridgeSendData, BridgeCloseSocket, BridgeHandles,
     BridgeWritesCollide DEF SocketAction
<1>5. CASE TimerFires
  BY <1>1, <1>5, BridgeTimerFires DEF WebInv
<1>6. ASSUME NEW e \in toPage, PageReceive(e) PROVE BridgeInv'
  BY <1>1, <1>6, BridgePageReceive
<1>7. CASE LinkFails \/ ChannelsClose \/ Disconnect \/ Stop
  BY <1>1, <1>7, BridgeLinkFails, BridgeChannelsClose, BridgeDisconnect, BridgeStop
     DEF WebInv
<1> QED BY <1>1, <1>2, <1>3, <1>4, <1>5, <1>6, <1>7 DEF Next, WebInv

LEMMA WebInvAlways == Spec => []WebInv
<1>1. Init => WebInv
  BY TypeInit, BridgeInit DEF WebInv
<1> QED BY <1>1, BridgeStep, PTL DEF Spec

(* However the answers, the host's WS_CLOSE, close() and the timeouts of   *)
(* any number of sockets race, onclose of each is called once, with its    *)
(* end.                                                                    *)
THEOREM EndIsReportedOnce == Spec => []OnCloseOnce
<1>1. WebInv => OnCloseOnce
  BY DEF WebInv, BridgeInv, PageInv, PageOf, OnCloseOnce
<1> QED BY <1>1, WebInvAlways, PTL

(* An open socket on which nothing was sent has heard, or will hear if the *)
(* link lasts, everything its target said and that it ended.               *)
THEOREM QuietSocketsMissNothing == Spec => []QuietSocketHearsAll
<1>1. WebInv => QuietSocketHearsAll
  <2> SUFFICES ASSUME WebInv, link = "up", NEW s \in Sockets, socket[s] = "open", sends[s] = 0
               PROVE  /\ Delivered(s) = 1 .. pushed[s]
                      /\ conn[s] = "over" => Event("bye", s, 0) \in toPage
    BY DEF QuietSocketHearsAll
  <2>1. HostOf(s) /\ QuietOf(s)
    BY DEF WebInv, BridgeInv
  <2> QED BY <2>1 DEF HostOf, QuietOf
<1> QED BY <1>1, WebInvAlways, PTL
=============================================================================
