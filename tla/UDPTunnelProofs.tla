-------------------------- MODULE UDPTunnelProofs --------------------------
(***************************************************************************)
(* Proofs about UDPTunnel, for any applications and any bounds: its types  *)
(* and that answers reach only who asked.                                  *)
(***************************************************************************)
EXTENDS UDPTunnel, TLAPS

LEMMA NoneIsNoConn == None \notin Conns
BY UDPAssumption DEF None, Conns

LEMMA TypeInit == Init => TypeOK
BY UDPAssumption DEF Init, TypeOK

-----------------------------------------------------------------------------
(* Types, action by action. *)

LEMMA TypeSession ==
  ASSUME TypeOK, NEW a \in Apps, Session(a)
  PROVE  /\ requestIDCounter' \in Nat
         /\ sessionID' \in [Apps -> 0 .. requestIDCounter']
         /\ sessionID'[a] \in Nat
<1>1. CASE sessionID[a] # 0
  BY <1>1 DEF TypeOK, Session
<1>2. CASE sessionID[a] = 0
  <2>1. /\ requestIDCounter' = requestIDCounter + 1
        /\ sessionID' = [sessionID EXCEPT ![a] = requestIDCounter + 1]
    BY <1>2 DEF Session
  <2>2. requestIDCounter \in Nat /\ sessionID \in [Apps -> 0 .. requestIDCounter]
    BY DEF TypeOK
  <2>3. \A b \in Apps : sessionID'[b] \in 0 .. requestIDCounter + 1
    BY <2>1, <2>2
  <2> QED BY <2>1, <2>2, <2>3
<1> QED BY <1>1, <1>2

LEMMA TypeReadFromUDP ==
  ASSUME TypeOK, NEW a \in Apps, ReadFromUDP(a)
  PROVE  TypeOK'
<1>1. /\ requestIDCounter' \in Nat
      /\ sessionID' \in [Apps -> 0 .. requestIDCounter']
      /\ sessionID'[a] \in Nat
  BY TypeSession DEF ReadFromUDP
<1>2. sent' \in 0 .. MaxDatagrams /\ sent + 1 \in 1 .. MaxDatagrams
  BY UDPAssumption DEF TypeOK, ReadFromUDP
<1>3. toHost' \subseteq Messages
  <2>1. [app |-> a, n |-> sent + 1] \in Datagrams
    BY <1>2 DEF Datagrams
  <2> QED BY <1>1, <2>1 DEF TypeOK, ReadFromUDP, Messages
<1> QED BY <1>1, <1>2, <1>3 DEF TypeOK, ReadFromUDP, host, conns

LEMMA TypeClientReceive ==
  ASSUME TypeOK, NEW m \in toClient, ClientReceive(m)
  PROVE  TypeOK'
<1>1. m.data \in Datagrams
  BY DEF TypeOK, Messages
<1>2. received' \in [Apps -> SUBSET Datagrams]
  BY <1>1 DEF TypeOK, ClientReceive
<1> QED BY <1>2 DEF TypeOK, ClientReceive, host, conns

LEMMA TypeForwardToTarget ==
  ASSUME TypeOK, NEW m \in toHost, ForwardToTarget(m)
  PROVE  TypeOK'
<1>1. m \in Messages
  BY DEF TypeOK
<1>2. handlers' \subseteq [msg : Messages, conn : Conns \cup {None}]
  BY <1>1 DEF TypeOK, ForwardToTarget, Handler
<1> QED BY <1>2 DEF TypeOK, ForwardToTarget, client, conns

LEMMA TypeDialTarget ==
  ASSUME TypeOK, NEW h \in handlers, NEW k \in Conns, DialTarget(h, k)
  PROVE  TypeOK'
<1>1. h.msg \in Messages /\ h.msg.id \in Nat
  BY DEF TypeOK, Messages
<1>2. handlers' \subseteq [msg : Messages, conn : Conns \cup {None}]
  BY <1>1 DEF TypeOK, DialTarget, Handler
<1>3. conn' \in [Conns -> {"unused", "open", "closed"}]
  BY DEF TypeOK, DialTarget
<1>4. sessions' \subseteq {j \in Conns : conn'[j] = "open"}
  BY DEF TypeOK, DialTarget
<1>5. requestID' \in [Conns -> Nat]
  BY <1>1 DEF TypeOK, DialTarget
<1>6. reader' \in [Conns -> {"none", "top", "reading", "ended", "failed"}]
  BY DEF TypeOK, DialTarget
<1> QED BY <1>2, <1>3, <1>4, <1>5, <1>6 DEF TypeOK, DialTarget, client, net

LEMMA TypeWriteToTarget ==
  ASSUME TypeOK, NEW h \in handlers, WriteToTarget(h)
  PROVE  TypeOK'
<1>1. h.msg.data \in Datagrams
  BY DEF TypeOK, Messages
<1>2. replies' \in [Conns -> SUBSET Datagrams]
  BY <1>1 DEF TypeOK, WriteToTarget
<1> QED BY <1>2 DEF TypeOK, WriteToTarget, client, net

LEMMA TypeReadReply ==
  ASSUME TypeOK, NEW k \in Conns, NEW d \in replies[k], ReadReply(k, d)
  PROVE  TypeOK'
<1>1. d \in Datagrams /\ requestID[k] \in Nat
  BY DEF TypeOK
<1>2. toClient' \subseteq Messages
  BY <1>1 DEF TypeOK, ReadReply, Messages
<1>3. replies' \in [Conns -> SUBSET Datagrams]
  BY DEF TypeOK, ReadReply
<1>4. reader' \in [Conns -> {"none", "top", "reading", "ended", "failed"}]
  BY DEF TypeOK, ReadReply
<1> QED BY <1>2, <1>3, <1>4 DEF TypeOK, ReadReply, client

LEMMA TypeStop ==
  ASSUME TypeOK, Stop
  PROVE  TypeOK'
<1>1. conn' \in [Conns -> {"unused", "open", "closed"}]
  BY DEF TypeOK, Stop
<1> QED BY <1>1 DEF TypeOK, Stop, client, net

LEMMA TypeStep == TypeOK /\ [Next]_vars => TypeOK'
<1> SUFFICES ASSUME TypeOK, [Next]_vars PROVE TypeOK'
  OBVIOUS
<1>1. CASE UNCHANGED vars
  BY <1>1 DEF TypeOK, vars, client, host, conns, net
<1>2. ASSUME NEW m \in toClient, ClientReceive(m) PROVE TypeOK'
  BY <1>2, TypeClientReceive
<1>3. ASSUME NEW m \in toHost, ForwardToTarget(m) PROVE TypeOK'
  BY <1>3, TypeForwardToTarget
<1>4. ASSUME NEW h \in handlers, HandlerStep(h) PROVE TypeOK'
  BY <1>4, TypeDialTarget, TypeWriteToTarget DEF HandlerStep
<1>5. ASSUME NEW k \in Conns, ReaderStep(k) PROVE TypeOK'
  <2>1. CASE LookAtDone(k)
    BY <2>1 DEF TypeOK, LookAtDone, client, net
  <2>2. CASE ReadClosed(k)
    BY <2>2 DEF TypeOK, ReadClosed, client, net
  <2>3. ASSUME NEW d \in replies[k], ReadReply(k, d) PROVE TypeOK'
    BY <2>3, TypeReadReply
  <2> QED BY <1>5, <2>1, <2>2, <2>3 DEF ReaderStep
<1>6. CASE HostReturns
  BY <1>6 DEF TypeOK, HostReturns, client, conns, net
<1>7. ASSUME NEW a \in Apps, ReadFromUDP(a) PROVE TypeOK'
  BY <1>7, TypeReadFromUDP
<1>8. ASSUME NEW m \in toHost \cup toClient, Lose(m) PROVE TypeOK'
  BY <1>8 DEF TypeOK, Lose, Messages, client, host, conns
<1>9. ASSUME NEW h \in handlers, DialFails(h) PROVE TypeOK'
  BY <1>9 DEF TypeOK, DialFails, client, conns, net
<1>10. CASE StopClient
  <2>1. sessionID' \in [Apps -> 0 .. requestIDCounter']
    BY <1>10 DEF TypeOK, StopClient
  <2> QED BY <1>10, <2>1 DEF TypeOK, StopClient, host, conns, net
<1>11. CASE Stop
  BY <1>11, TypeStop
<1>12. ASSUME NEW k \in Conns, ReadFails(k) PROVE TypeOK'
  BY <1>12 DEF TypeOK, ReadFails, client, net
<1> QED BY <1>1, <1>2, <1>3, <1>4, <1>5, <1>6, <1>7, <1>8, <1>9, <1>10, <1>11, <1>12
        DEF Next, Proxies

(* UDPProxy's fields at both ends and its goroutines' locals keep their    *)
(* types; sessions holds open connections only.                            *)
THEOREM UDPTypes == Spec => []TypeOK
BY TypeInit, TypeStep, PTL DEF Spec

-----------------------------------------------------------------------------
(***************************************************************************)
(* While the client's proxy runs, the id beside a datagram is that of its  *)
(* application's session wherever the datagram is, and no two applications *)
(* share one; a handler writes to a connection of its message's id.  Once  *)
(* the proxy has stopped, nothing is received.                             *)
(***************************************************************************)
Owned(d, i) == i # 0 /\ sessionID[d.app] = i

OneOwner ==
  \A a, b \in Apps : (sessionID[a] # 0 /\ sessionID[a] = sessionID[b]) => a = b
MessagesOwned == \A m \in toHost \cup toClient : Owned(m.data, m.id)
HandlersOwned == \A h \in handlers : Owned(h.msg.data, h.msg.id)
RepliesOwned  == \A k \in Conns : \A d \in replies[k] : Owned(d, requestID[k])

Ownership ==
  listening => OneOwner /\ MessagesOwned /\ HandlersOwned /\ RepliesOwned

HandlersMatch ==
  \A h \in handlers : h.conn # None =>
     conn[h.conn] # "unused" /\ requestID[h.conn] = h.msg.id
UnusedIsQuiet == \A k \in Conns : conn[k] = "unused" => replies[k] = {}

HomeInv == TypeOK /\ Ownership /\ HandlersMatch /\ UnusedIsQuiet /\ AnswersGoHome

LEMMA HomeInit == Init => HomeInv
BY TypeInit DEF Init, HomeInv, Ownership, OneOwner, MessagesOwned, HandlersOwned,
   RepliesOwned, HandlersMatch, UnusedIsQuiet, AnswersGoHome

(* A session is made once and with a number of its own. *)
LEMMA SessionFacts ==
  ASSUME TypeOK, NEW a \in Apps, Session(a)
  PROVE  /\ sessionID'[a] # 0
         /\ \A b \in Apps : sessionID[b] # 0 => sessionID'[b] = sessionID[b]
         /\ OneOwner => OneOwner'
<1>1. CASE sessionID[a] # 0
  BY <1>1 DEF Session, OneOwner
<1>2. CASE sessionID[a] = 0
  <2>1. /\ sessionID' = [sessionID EXCEPT ![a] = requestIDCounter + 1]
        /\ requestIDCounter \in Nat
        /\ sessionID \in [Apps -> 0 .. requestIDCounter]
    BY <1>2 DEF Session, TypeOK
  <2>2. \A b \in Apps : sessionID[b] <= requestIDCounter /\ sessionID[b] \in Nat
    BY <2>1
  <2>3. \A b \in Apps : sessionID'[b] = IF b = a THEN requestIDCounter + 1 ELSE sessionID[b]
    BY <2>1
  <2> QED BY <1>2, <2>1, <2>2, <2>3 DEF OneOwner
<1> QED BY <1>1, <1>2

LEMMA HomeReadFromUDP ==
  ASSUME HomeInv, NEW a \in Apps, ReadFromUDP(a)
  PROVE  HomeInv'
<1>1. TypeOK' /\ TypeOK /\ Session(a) /\ listening
  BY TypeReadFromUDP DEF HomeInv, ReadFromUDP
<1>2. /\ sessionID'[a] # 0
      /\ \A b \in Apps : sessionID[b] # 0 => sessionID'[b] = sessionID[b]
      /\ OneOwner'
  BY <1>1, SessionFacts DEF HomeInv, Ownership
<1>3. \A d \in Datagrams : \A i : Owned(d, i) => Owned(d, i)'
  BY <1>2 DEF Owned, Datagrams
<1>4. MessagesOwned'
  <2>1. \A m \in toHost \cup toClient : m.data \in Datagrams
    BY <1>1 DEF TypeOK, Messages
  <2>2. \A m \in toHost \cup toClient : Owned(m.data, m.id)'
    BY <1>1, <1>3, <2>1 DEF HomeInv, Ownership, MessagesOwned
  <2>3. ASSUME NEW m \in toHost' \cup toClient', m \notin toHost \cup toClient
        PROVE  sessionID'[m.data.app] = m.id /\ m.id # 0
    <3>1. m = [id |-> sessionID'[a], data |-> [app |-> a, n |-> sent + 1]]
      BY <2>3 DEF ReadFromUDP
    <3> QED BY <1>2, <3>1
  <2>4. \A m \in toHost' \cup toClient' : sessionID'[m.data.app] = m.id /\ m.id # 0
    BY <2>2, <2>3 DEF Owned
  <2> QED BY <2>4 DEF MessagesOwned, Owned
<1>5. HandlersOwned'
  <2>1. \A h \in handlers : h.msg.data \in Datagrams
    BY <1>1 DEF TypeOK, Messages
  <2>2. handlers' = handlers
    BY DEF ReadFromUDP, host
  <2> QED BY <1>1, <1>3, <2>1, <2>2 DEF HomeInv, Ownership, HandlersOwned
<1>6. RepliesOwned'
  <2>1. \A k \in Conns : \A d \in replies[k] : d \in Datagrams
    BY <1>1 DEF TypeOK
  <2>2. replies' = replies /\ requestID' = requestID
    BY DEF ReadFromUDP, host, conns
  <2> QED BY <1>1, <1>3, <2>1, <2>2 DEF HomeInv, Ownership, RepliesOwned
<1>7. HandlersMatch' /\ UnusedIsQuiet' /\ AnswersGoHome'
  BY DEF HomeInv, ReadFromUDP, HandlersMatch, UnusedIsQuiet, AnswersGoHome, host, conns
<1> QED BY <1>1, <1>2, <1>4, <1>5, <1>6, <1>7 DEF HomeInv, Ownership

LEMMA HomeClientReceive ==
  ASSUME HomeInv, NEW m \in toClient, ClientReceive(m)
  PROVE  HomeInv'
<1>1. TypeOK' /\ TypeOK /\ m \in Messages
  BY TypeClientReceive DEF HomeInv, TypeOK
<1>2. AnswersGoHome'
  <2>1. ASSUME NEW a \in Apps, listening, sessionID[a] = m.id,
               received' = [received EXCEPT ![a] = @ \cup {m.data}]
        PROVE  AnswersGoHome'
    <3>1. m.data.app \in Apps
      BY <1>1 DEF Messages, Datagrams
    <3>2. m.data.app = a
      BY <2>1, <3>1 DEF HomeInv, Ownership, OneOwner, MessagesOwned, Owned
    <3> QED BY <1>1, <2>1, <3>2 DEF HomeInv, AnswersGoHome, TypeOK
  <2>2. CASE UNCHANGED received
    BY <2>2 DEF HomeInv, AnswersGoHome
  <2> QED BY <2>1, <2>2 DEF ClientReceive
<1>3. Ownership'
  BY DEF HomeInv, ClientReceive, Ownership, OneOwner, MessagesOwned, HandlersOwned,
         RepliesOwned, Owned, host, conns
<1>4. HandlersMatch' /\ UnusedIsQuiet'
  BY DEF HomeInv, ClientReceive, HandlersMatch, UnusedIsQuiet, host, conns
<1> QED BY <1>1, <1>2, <1>3, <1>4 DEF HomeInv

LEMMA HomeForwardToTarget ==
  ASSUME HomeInv, NEW m \in toHost, ForwardToTarget(m)
  PROVE  HomeInv'
<1>1. TypeOK'
  BY TypeForwardToTarget DEF HomeInv
<1>2. PICK k \in sessions \cup {None} :
        /\ handlers' = handlers \cup {Handler(m, k)}
        /\ k # None => k \in sessions /\ requestID[k] = m.id
  BY DEF ForwardToTarget
<1>3. sessions \subseteq {j \in Conns : conn[j] = "open"}
  BY DEF HomeInv, TypeOK
<1>4. HandlersMatch'
  BY <1>2, <1>3 DEF HomeInv, ForwardToTarget, HandlersMatch, Handler, conns
<1>5. Ownership'
  BY <1>2 DEF HomeInv, ForwardToTarget, Ownership, OneOwner, MessagesOwned, HandlersOwned,
              RepliesOwned, Owned, Handler, client, conns
<1>6. UnusedIsQuiet' /\ AnswersGoHome'
  BY DEF HomeInv, ForwardToTarget, UnusedIsQuiet, AnswersGoHome, client, conns
<1> QED BY <1>1, <1>4, <1>5, <1>6 DEF HomeInv

LEMMA HomeDialTarget ==
  ASSUME HomeInv, NEW h \in handlers, NEW k \in Conns, DialTarget(h, k)
  PROVE  HomeInv'
<1>1. TypeOK' /\ TypeOK
  BY TypeDialTarget DEF HomeInv
<1>2. /\ conn[k] = "unused" /\ replies[k] = {}
      /\ conn' = [conn EXCEPT ![k] = "open"]
      /\ requestID' = [requestID EXCEPT ![k] = h.msg.id]
      /\ handlers' = (handlers \ {h}) \cup {Handler(h.msg, k)}
      /\ UNCHANGED <<client, replies, toHost, toClient>>
  BY DEF HomeInv, UnusedIsQuiet, DialTarget, net
<1>3. conn \in [Conns -> {"unused", "open", "closed"}] /\ requestID \in [Conns -> Nat]
  BY <1>1 DEF TypeOK
<1>4. \A j \in Conns : j # k => conn'[j] = conn[j] /\ requestID'[j] = requestID[j]
  BY <1>2, <1>3
<1>5. conn'[k] = "open" /\ requestID'[k] = h.msg.id
  BY <1>2, <1>3
<1>6. HandlersMatch'
  <2>1. \A g \in handlers : g.conn \in Conns \cup {None}
    BY <1>1 DEF TypeOK
  <2>2. \A g \in handlers : g.conn # None => g.conn # k
    BY <1>2 DEF HomeInv, HandlersMatch
  <2>3. \A g \in handlers : g.conn # None =>
          conn'[g.conn] # "unused" /\ requestID'[g.conn] = g.msg.id
    BY <1>4, <2>1, <2>2 DEF HomeInv, HandlersMatch
  <2> QED BY <1>2, <1>5, <2>3 DEF HandlersMatch, Handler
<1>7. Ownership'
  <2>1. OneOwner' = OneOwner /\ MessagesOwned' = MessagesOwned /\ listening' = listening
    BY <1>2 DEF OneOwner, MessagesOwned, Owned, client
  <2>2. HandlersOwned => HandlersOwned'
    BY <1>2 DEF HandlersOwned, Owned, Handler, client
  <2>3. RepliesOwned => RepliesOwned'
    BY <1>2, <1>4 DEF RepliesOwned, Owned, client
  <2> QED BY <2>1, <2>2, <2>3 DEF HomeInv, Ownership
<1>8. UnusedIsQuiet'
  BY <1>2, <1>4 DEF HomeInv, UnusedIsQuiet
<1>9. AnswersGoHome'
  BY <1>2 DEF HomeInv, AnswersGoHome, client
<1> QED BY <1>1, <1>6, <1>7, <1>8, <1>9 DEF HomeInv

LEMMA HomeWriteToTarget ==
  ASSUME HomeInv, NEW h \in handlers, WriteToTarget(h)
  PROVE  HomeInv'
<1>1. TypeOK' /\ TypeOK
  BY TypeWriteToTarget DEF HomeInv
<1>2. h.conn \in Conns /\ conn[h.conn] # "unused" /\ requestID[h.conn] = h.msg.id
  BY <1>1 DEF WriteToTarget, HomeInv, HandlersMatch, TypeOK
<1>3. \A k \in Conns : replies'[k] \subseteq
        IF k = h.conn THEN replies[k] \cup {h.msg.data} ELSE replies[k]
  BY <1>1 DEF WriteToTarget, TypeOK
<1>4. Ownership'
  <2>1. OneOwner' = OneOwner /\ MessagesOwned' = MessagesOwned /\ listening' = listening
    BY DEF WriteToTarget, OneOwner, MessagesOwned, Owned, client, net
  <2>2. HandlersOwned => HandlersOwned'
    BY DEF WriteToTarget, HandlersOwned, Owned, client
  <2>3. HandlersOwned /\ RepliesOwned => RepliesOwned'
    BY <1>2, <1>3 DEF WriteToTarget, HandlersOwned, RepliesOwned, Owned, client
  <2> QED BY <2>1, <2>2, <2>3 DEF HomeInv, Ownership
<1>5. HandlersMatch'
  BY DEF HomeInv, WriteToTarget, HandlersMatch
<1>6. UnusedIsQuiet'
  BY <1>2, <1>3 DEF HomeInv, WriteToTarget, UnusedIsQuiet
<1>7. AnswersGoHome'
  BY DEF HomeInv, WriteToTarget, AnswersGoHome, client
<1> QED BY <1>1, <1>4, <1>5, <1>6, <1>7 DEF HomeInv

LEMMA HomeReadReply ==
  ASSUME HomeInv, NEW k \in Conns, NEW d \in replies[k], ReadReply(k, d)
  PROVE  HomeInv'
<1>1. TypeOK' /\ TypeOK
  BY TypeReadReply DEF HomeInv
<1>2. \A j \in Conns : replies'[j] \subseteq replies[j]
  BY <1>1 DEF ReadReply, TypeOK
<1>3. Ownership'
  <2>1. OneOwner' = OneOwner /\ HandlersOwned' = HandlersOwned /\ listening' = listening
    BY DEF ReadReply, OneOwner, HandlersOwned, Owned, client
  <2>2. MessagesOwned /\ RepliesOwned => MessagesOwned'
    BY DEF ReadReply, MessagesOwned, RepliesOwned, Owned, client
  <2>3. RepliesOwned => RepliesOwned'
    BY <1>2 DEF ReadReply, RepliesOwned, Owned, client
  <2> QED BY <2>1, <2>2, <2>3 DEF HomeInv, Ownership
<1>4. HandlersMatch'
  BY DEF HomeInv, ReadReply, HandlersMatch
<1>5. UnusedIsQuiet' /\ AnswersGoHome'
  BY <1>2 DEF HomeInv, ReadReply, UnusedIsQuiet, AnswersGoHome, client
<1> QED BY <1>1, <1>3, <1>4, <1>5 DEF HomeInv

(* The steps that move no datagram. *)
LEMMA HomeStop ==
  ASSUME HomeInv, Stop
  PROVE  HomeInv'
<1>1. TypeOK' /\ TypeOK
  BY TypeStop DEF HomeInv
<1>2. \A k \in Conns : conn'[k] = "unused" <=> conn[k] = "unused"
  BY <1>1 DEF Stop, TypeOK
<1>3. HandlersMatch'
  BY <1>1, <1>2 DEF HomeInv, Stop, HandlersMatch, TypeOK
<1>4. UnusedIsQuiet'
  BY <1>2 DEF HomeInv, Stop, UnusedIsQuiet
<1>5. Ownership' /\ AnswersGoHome'
  BY DEF HomeInv, Stop, Ownership, OneOwner, MessagesOwned, HandlersOwned, RepliesOwned,
         Owned, AnswersGoHome, client, net
<1> QED BY <1>1, <1>3, <1>4, <1>5 DEF HomeInv

LEMMA HomeStep == HomeInv /\ [Next]_vars => HomeInv'
<1> SUFFICES ASSUME HomeInv, [Next]_vars PROVE HomeInv'
  OBVIOUS
<1> USE DEF Ownership, OneOwner, MessagesOwned, HandlersOwned, RepliesOwned, Owned,
            HandlersMatch, UnusedIsQuiet, AnswersGoHome
<1>0. TypeOK'
  BY TypeStep DEF HomeInv
<1>1. CASE UNCHANGED vars
  BY <1>0, <1>1 DEF HomeInv, vars, client, host, conns, net
<1>2. ASSUME NEW m \in toClient, ClientReceive(m) PROVE HomeInv'
  BY <1>2, HomeClientReceive
<1>3. ASSUME NEW m \in toHost, ForwardToTarget(m) PROVE HomeInv'
  BY <1>3, HomeForwardToTarget
<1>4. ASSUME NEW h \in handlers, HandlerStep(h) PROVE HomeInv'
  BY <1>4, HomeDialTarget, HomeWriteToTarget DEF HandlerStep
<1>5. ASSUME NEW k \in Conns, ReaderStep(k) PROVE HomeInv'
  <2>1. CASE LookAtDone(k) \/ ReadClosed(k)
    BY <1>0, <2>1 DEF HomeInv, LookAtDone, ReadClosed, client, net
  <2>2. ASSUME NEW d \in replies[k], ReadReply(k, d) PROVE HomeInv'
    BY <2>2, HomeReadReply
  <2> QED BY <1>5, <2>1, <2>2 DEF ReaderStep
<1>6. CASE HostReturns
  BY <1>0, <1>6 DEF HomeInv, HostReturns, client, conns, net
<1>7. ASSUME NEW a \in Apps, ReadFromUDP(a) PROVE HomeInv'
  BY <1>7, HomeReadFromUDP
<1>8. ASSUME NEW m \in toHost \cup toClient, Lose(m) PROVE HomeInv'
  BY <1>0, <1>8 DEF HomeInv, Lose, client, host, conns
<1>9. ASSUME NEW h \in handlers, DialFails(h) PROVE HomeInv'
  BY <1>0, <1>9 DEF HomeInv, DialFails, client, conns, net
<1>10. CASE StopClient
  BY <1>0, <1>10 DEF HomeInv, StopClient, host, conns, net
<1>11. CASE Stop
  BY <1>11, HomeStop
<1>12. ASSUME NEW k \in Conns, ReadFails(k) PROVE HomeInv'
  BY <1>0, <1>12 DEF HomeInv, ReadFails, client, net
<1> QED BY <1>1, <1>2, <1>3, <1>4, <1>5, <1>6, <1>7, <1>8, <1>9, <1>10, <1>11, <1>12
        DEF Next, Proxies

(* An application receives only answers to its own datagrams, however many *)
(* applications there are and however their datagrams, the dials of the    *)
(* host and the two stops interleave.                                      *)
THEOREM AnswersReachTheirSender == Spec => []AnswersGoHome
<1>1. HomeInv => AnswersGoHome
  BY DEF HomeInv
<1> QED BY <1>1, HomeInit, HomeStep, PTL DEF Spec
=============================================================================
