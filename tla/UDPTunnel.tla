----------------------------- MODULE UDPTunnel -----------------------------
(***************************************************************************)
(* Datagrams through the tunnel: UDPProxy (internal/proxy/udp.go) at both  *)
(* ends and the messages between them.                                     *)
(*                                                                         *)
(* The client's proxy has one goroutine that reads the local socket and    *)
(* one for what comes back.  The host starts a goroutine for every message *)
(* (a message on its way and one whose goroutine has not begun are the     *)
(* same thing) and one that reads each connection to the target.  Two      *)
(* messages of a new address may both find no session and dial twice; the  *)
(* session is then that of the later, and both connections are read.       *)
(*                                                                         *)
(* A datagram is named by the application that sent it and its number, and *)
(* an answer of the target by the datagram it answers.  Datagrams fit into *)
(* one frame.  The channel keeps no order and may lose a frame, when its   *)
(* queue is full or it is closed.                                          *)
(***************************************************************************)
EXTENDS Naturals

CONSTANTS Apps,          \* local addresses that use the tunnel
          MaxDatagrams,  \* bound: datagrams they send
          MaxConns,      \* bound: connections the host can dial
  MaxStops       \* bound: proxies that are stopped, of the two

ASSUME UDPAssumption ==
  MaxDatagrams \in Nat /\ MaxConns \in Nat /\ MaxStops \in Nat

Conns == 1 .. MaxConns  \* in the order in which they are dialed
None  == 0

Datagrams == [app : Apps, n : 1 .. MaxDatagrams]
Messages  == [id : Nat, data : Datagrams]

VARIABLES
  \* the client's proxy
  requestIDCounter,
  sessionID, \* sessions: the request id of an address, 0 for none
  sent,      \* datagrams read from applications
  received,  \* answers written to each
  listening, \* FALSE once Stop was called
  \* the host's proxy
  looping,   \* does StartHost still take messages?
  serving,   \* FALSE once Stop was called
  handlers,  \* goroutines in forwardToTarget, after the lookup
  sessions,  \* the connections that sessions holds
  conn,      \* every connection there was
  requestID, \* whose
  reader,    \* readFromTarget of each connection
  replies,   \* what a connection has to read
  \* between them
  toHost, toClient,
  lost       \* history: answers the channel lost

client == <<requestIDCounter, sessionID, sent, received, listening>>
conns  == <<sessions, conn, requestID, reader, replies>>
host   == <<looping, serving, handlers, conns>>
net    == <<toHost, toClient, lost>>
vars   == <<client, host, net>>

TypeOK ==
  /\ requestIDCounter \in Nat
  /\ sessionID \in [Apps -> 0 .. requestIDCounter]
  /\ sent \in 0 .. MaxDatagrams
  /\ received \in [Apps -> SUBSET Datagrams]
  /\ listening \in BOOLEAN
  /\ looping \in BOOLEAN /\ serving \in BOOLEAN
  /\ handlers \subseteq [msg : Messages, conn : Conns \cup {None}]
  /\ sessions \subseteq {k \in Conns : conn[k] = "open"}
  /\ conn \in [Conns -> {"unused", "open", "closed"}]
  /\ requestID \in [Conns -> Nat]
  /\ reader \in [Conns -> {"none", "top", "reading", "ended", "failed"}]
  /\ replies \in [Conns -> SUBSET Datagrams]
  /\ toHost \subseteq Messages
  /\ toClient \subseteq Messages
  /\ lost \subseteq Datagrams

Init ==
  /\ requestIDCounter = 0
  /\ sessionID = [a \in Apps |-> 0]
  /\ sent = 0
  /\ received = [a \in Apps |-> {}]
  /\ listening = TRUE
  /\ looping = TRUE /\ serving = TRUE
  /\ handlers = {}
  /\ sessions = {}
  /\ conn = [k \in Conns |-> "unused"]
  /\ requestID = [k \in Conns |-> 0]
  /\ reader = [k \in Conns |-> "none"]
  /\ replies = [k \in Conns |-> {}]
  /\ toHost = {} /\ toClient = {}
  /\ lost = {}

(* The bound on stops. *)
MayStop ==
  (IF listening THEN 0 ELSE 1) + (IF serving THEN 0 ELSE 1) < MaxStops

-----------------------------------------------------------------------------
(* The client's proxy. *)

(* Fault (this definition and the others so marked are slips the code does *)
(* not make; the specification does not use them): the counter stands still.*)
SameSession(a) ==
  \/ sessionID[a] # 0 /\ UNCHANGED <<requestIDCounter, sessionID>>
  \/ /\ sessionID[a] = 0
     /\ requestIDCounter' = 1
     /\ sessionID' = [sessionID EXCEPT ![a] = 1]

(* The session of an address, which is made for its first datagram. *)
Session(a) ==
  \/ sessionID[a] # 0 /\ UNCHANGED <<requestIDCounter, sessionID>>
  \/ /\ sessionID[a] = 0
     /\ requestIDCounter' = requestIDCounter + 1
     /\ sessionID' = [sessionID EXCEPT ![a] = requestIDCounter + 1]

(* One iteration of StartClient. *)
ReadFromUDP(a) ==
  /\ listening
  /\ sent < MaxDatagrams
  /\ sent' = sent + 1
  /\ Session(a)
  /\ toHost' = toHost \cup
       {[id |-> sessionID'[a], data |-> [app |-> a, n |-> sent + 1]]}
  /\ UNCHANGED <<received, listening, host, toClient, lost>>

(* One iteration of handleClientMessages: to the session with the id of    *)
(* the message, if there is one and the socket is open.                    *)
ClientReceive(m) ==
  /\ m \in toClient
  /\ toClient' = toClient \ {m}
  /\ \/ \E a \in Apps :
          /\ listening /\ sessionID[a] = m.id
          /\ received' = [received EXCEPT ![a] = @ \cup {m.data}]
     \/ /\ ~(listening /\ \E a \in Apps : sessionID[a] = m.id)
        /\ UNCHANGED received
  /\ UNCHANGED <<requestIDCounter, sessionID, sent, listening, host, toHost, lost>>

StopClient ==
  /\ listening /\ MayStop
  /\ listening' = FALSE
  /\ sessionID' = [a \in Apps |-> 0]
  /\ UNCHANGED <<requestIDCounter, sent, received, host, net>>

Lose(m) ==
  /\ \/ /\ m \in toHost
        /\ toHost' = toHost \ {m}
        /\ UNCHANGED <<toClient, lost>>
     \/ /\ m \in toClient
        /\ toClient' = toClient \ {m}
        /\ lost' = lost \cup {m.data}
        /\ UNCHANGED toHost
  /\ UNCHANGED <<client, host>>

-----------------------------------------------------------------------------
(* The host's proxy. *)
Handler(m, k) == [msg |-> m, conn |-> k]

(* forwardToTarget, up to its lookup; None is a miss. *)
ForwardToTarget(m) ==
  /\ looping
  /\ m \in toHost
  /\ toHost' = toHost \ {m}
  /\ \/ \E k \in sessions :
          requestID[k] = m.id /\ handlers' = handlers \cup {Handler(m, k)}
     \/ /\ \A k \in sessions : requestID[k] # m.id
        /\ handlers' = handlers \cup {Handler(m, None)}
  /\ UNCHANGED <<client, looping, serving, conns, toClient, lost>>

(* Fault: only the first connection of an id is read. *)
DialTargetOneReader(h, k) ==
  /\ h \in handlers /\ h.conn = None
  /\ conn[k] = "unused" /\ \A j \in 1 .. k - 1 : conn[j] # "unused"
  /\ conn' = [conn EXCEPT ![k] = "open"]
  /\ requestID' = [requestID EXCEPT ![k] = h.msg.id]
  /\ sessions' = {j \in sessions : requestID[j] # h.msg.id} \cup {k}
  /\ reader' = [reader EXCEPT ![k] =
                  IF \E j \in sessions : requestID[j] = h.msg.id THEN "none" ELSE "top"]
  /\ handlers' = (handlers \ {h}) \cup {Handler(h.msg, k)}
  /\ UNCHANGED <<client, looping, serving, replies, net>>

(* Its dial, and the session it stores over any that came between. *)
DialTarget(h, k) ==
  /\ h \in handlers /\ h.conn = None
  /\ conn[k] = "unused" /\ \A j \in 1 .. k - 1 : conn[j] # "unused"
  /\ conn' = [conn EXCEPT ![k] = "open"]
  /\ requestID' = [requestID EXCEPT ![k] = h.msg.id]
  /\ sessions' = {j \in sessions : requestID[j] # h.msg.id} \cup {k}
  /\ reader' = [reader EXCEPT ![k] = "top"]
  /\ handlers' = (handlers \ {h}) \cup {Handler(h.msg, k)}
  /\ UNCHANGED <<client, looping, serving, replies, net>>

DialFails(h) ==
  /\ h \in handlers /\ h.conn = None
  /\ handlers' = handlers \ {h}
  /\ UNCHANGED <<client, looping, serving, conns, net>>

(* Its write.  The target may answer, and an answer may be lost on the     *)
(* way; to a closed connection nothing is written.                         *)
WriteToTarget(h) ==
  /\ h \in handlers /\ h.conn # None
  /\ handlers' = handlers \ {h}
  /\ \/ /\ conn[h.conn] = "open"
        /\ replies' = [replies EXCEPT ![h.conn] = @ \cup {h.msg.data}]
     \/ UNCHANGED replies
  /\ UNCHANGED <<client, looping, serving, sessions, conn, requestID, reader, net>>

(* The loop of readFromTarget: a look at done, a read, a message. *)
LookAtDone(k) ==
  /\ reader[k] = "top"
  /\ reader' = [reader EXCEPT ![k] = IF serving THEN "reading" ELSE "ended"]
  /\ UNCHANGED <<client, looping, serving, handlers, sessions, conn, requestID, replies, net>>

ReadReply(k, d) ==
  /\ reader[k] = "reading" /\ conn[k] = "open"
  /\ d \in replies[k]
  /\ replies' = [replies EXCEPT ![k] = @ \ {d}]
  /\ reader' = [reader EXCEPT ![k] = "top"]
  /\ toClient' = toClient \cup {[id |-> requestID[k], data |-> d]}
  /\ UNCHANGED <<client, looping, serving, handlers, sessions, conn, requestID, toHost, lost>>

(* The read on a connection that Stop closed. *)
ReadClosed(k) ==
  /\ reader[k] = "reading" /\ conn[k] = "closed"
  /\ reader' = [reader EXCEPT ![k] = "ended"]
  /\ UNCHANGED <<client, looping, serving, handlers, sessions, conn, requestID, replies, net>>

(* The read on an open connection fails: a target that was down refused a  *)
(* datagram.  The reader returns; the session stays, and what its handlers *)
(* still write is answered to nobody.                                      *)
ReadFails(k) ==
  /\ reader[k] = "reading" /\ conn[k] = "open"
  /\ reader' = [reader EXCEPT ![k] = "failed"]
  /\ UNCHANGED <<client, looping, serving, handlers, sessions, conn, requestID, replies, net>>

(* Fault: the sessions stay. *)
StopKeepsSessions ==
  /\ serving /\ MayStop
  /\ serving' = FALSE
  /\ conn' = [k \in Conns |-> IF k \in sessions THEN "closed" ELSE conn[k]]
  /\ UNCHANGED <<client, looping, handlers, sessions, requestID, reader, replies, net>>

(* What is not in the map when Stop ranges over it stays open: connections *)
(* another was stored over, and those that are stored afterwards.          *)
Stop ==
  /\ serving /\ MayStop
  /\ serving' = FALSE
  /\ conn' = [k \in Conns |-> IF k \in sessions THEN "closed" ELSE conn[k]]
  /\ sessions' = {}
  /\ UNCHANGED <<client, looping, handlers, requestID, reader, replies, net>>

(* StartHost notices, which its select may put off while messages come. *)
HostReturns ==
  /\ looping /\ ~serving
  /\ looping' = FALSE
  /\ UNCHANGED <<client, serving, handlers, conns, net>>

-----------------------------------------------------------------------------
HandlerStep(h) ==
  \/ \E k \in Conns : DialTarget(h, k)
  \/ WriteToTarget(h)

ReaderStep(k) ==
  \/ LookAtDone(k) \/ ReadClosed(k)
  \/ \E d \in replies[k] : ReadReply(k, d)

Proxies ==
  \/ \E m \in toClient : ClientReceive(m)
  \/ \E m \in toHost : ForwardToTarget(m)
  \/ \E h \in handlers : HandlerStep(h)
  \/ \E k \in Conns : ReaderStep(k)
  \/ HostReturns

Next ==
  \/ Proxies
  \/ \E a \in Apps : ReadFromUDP(a)
  \/ \E m \in toHost \cup toClient : Lose(m)
  \/ \E h \in handlers : DialFails(h)
  \/ \E k \in Conns : ReadFails(k)
  \/ StopClient \/ Stop

Spec == Init /\ [][Next]_vars

(* The goroutines of both proxies run and frames arrive or are lost.  No   *)
(* step of theirs is undone by another, so none starves.                   *)
FairSpec == Spec /\ WF_vars(Proxies)

-----------------------------------------------------------------------------
(***************************************************************************)
(* Properties.                                                             *)
(***************************************************************************)

(* An application gets only answers to datagrams it sent itself, although  *)
(* the answers travel under a number that the client's proxy gave out and  *)
(* the host's keyed its connections by, in two tables that goroutines      *)
(* change under each other.                                                *)
AnswersGoHome == \A a \in Apps : \A d \in received[a] : d.app = a

(* The target's answer waits on a connection whose reader a read error has *)
(* ended.                                                                  *)
Unread(d) == \E k \in Conns : reader[k] = "failed" /\ d \in replies[k]

(* Every answer is brought back to who asked, that on a connection that    *)
(* lost its session to another included, unless the channel loses it, a    *)
(* proxy stops or a read error ended the reader of the connection it is on.*)
AnswersComeBack ==
  \A d \in Datagrams :
     (\E k \in Conns : d \in replies[k])
        ~> (d \in received[d.app] \/ d \in lost \/ Unread(d) \/ ~serving \/ ~listening)
=============================================================================
