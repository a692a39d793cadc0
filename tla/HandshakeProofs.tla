-------------------------- MODULE HandshakeProofs ---------------------------
(***************************************************************************)
(* Proofs about Handshake for any number of clients and candidates,        *)
(* whatever fails.                                                         *)
(***************************************************************************)
EXTENDS Handshake, TLAPS

(* What is sent along the way tells how far the other side has got:        *)
(* nothing of a negotiation can be seen before the host has set its offer. *)
HostInOrder(c) ==
  /\ offering[c] = "peer" => c \in activePeers /\ c \notin activeProxies
  /\ offering[c] \in {"proxied", "local"} => c \in activePeers \cap activeProxies
  /\ Host(c) \in local => /\ offering[c] \in {"local", "over"}
                          /\ c \in activePeers \cap activeProxies
  /\ offering[c] = "local" => Host(c) \in local

QueuedOfferIsSet(c) ==
  \A i \in 1..Len(inbox[c]) : inbox[c][i] = "offer" => Host(c) \in local

OfferFirst(c) ==
  /\ QueuedOfferIsSet(c)
  /\ answering[c] = "read" => Host(c) \in local
  /\ Client(c) \in remote => Host(c) \in local
  /\ answering[c] \in {"remote", "local"} => Client(c) \in remote
  /\ answering[c] = "local" => Client(c) \in local

AnswerNext(c) ==
  /\ Client(c) \in local => Client(c) \in remote
  /\ <<c, "answer">> \in toHost => Client(c) \in local
  /\ Host(c) \in remote => Client(c) \in local

LinkLast(c) ==
  /\ link[c] = "up" => Host(c) \in local
  /\ joiner[c] = "serving" => Host(c) \in local

HandshakeInv ==
  /\ TypeOK
  /\ \A c \in Clients : HostInOrder(c) /\ OfferFirst(c) /\ AnswerNext(c) /\ LinkLast(c)

-----------------------------------------------------------------------------
LEMMA AreEnds == \A c \in Clients : Host(c) \in Ends /\ Client(c) \in Ends
  BY DEF Host, Client, Ends

LEMMA AreInboxTypes ==
  /\ {"session-created", "error", "offer"} \subseteq InboxTypes
  /\ Candidates \subseteq InboxTypes
  BY DEF InboxTypes

LEMMA EndsDiffer ==
  \A c, d \in Clients : /\ Host(c) # Client(d)
                        /\ Host(c) = Host(d) => c = d
                        /\ Client(c) = Client(d) => c = d
  BY DEF Host, Client

(* A write leaves a well-typed queue, to which it has appended or not.     *)
LEMMA WriteTypes ==
  ASSUME TypeOK, NEW c \in Clients, NEW m \in InboxTypes, ToClient(c, m)
  PROVE  inbox' \in [Clients -> Seq(InboxTypes)] /\ faulty' \subseteq Clients
<1>1. /\ inbox \in [Clients -> Seq(InboxTypes)]
      /\ faulty \subseteq Clients
  BY DEF TypeOK
<1>2. Append(inbox[c], m) \in Seq(InboxTypes)
  BY <1>1
<1> QED
  BY <1>1, <1>2 DEF ToClient, NoFault, Fault

LEMMA InitTypes == Init => TypeOK
  BY DEF Init, TypeOK

(* The state is well typed; every proxy of the host has a peer.            *)
LEMMA StepTypes == HandshakeInv /\ [Next]_vars => TypeOK'
<1> SUFFICES ASSUME TypeOK, \A c \in Clients : HostInOrder(c), [Next]_vars PROVE TypeOK'
  BY DEF HandshakeInv
<1> USE AreEnds DEF At, Fault, NoFault, host, tables, client, webrtc, ice, history, lost
<1>0. CASE UNCHANGED vars
  BY <1>0 DEF vars, TypeOK
<1>1. ASSUME NEW c \in Clients, EnterClient(c) PROVE TypeOK'
  <2>. inbox \in [Clients -> Seq(InboxTypes)]
    BY DEF TypeOK
  <2>. Append(inbox[c], "error") \in Seq(InboxTypes)
    BY AreInboxTypes
  <2>1. inbox' \in [Clients -> Seq(InboxTypes)]
    BY <1>1 DEF EnterClient
  <2>2. server' \in [Clients -> {"off", "entered", "notified", "done"}] /\ faulty' \subseteq Clients
    BY <1>1 DEF EnterClient, TypeOK
  <2> QED
    BY <1>1, <2>1, <2>2 DEF EnterClient, TypeOK
<1>2. ASSUME NEW c \in Clients, NotifyHost(c) PROVE TypeOK'
  BY <1>2 DEF NotifyHost, ToHost, TypeOK
<1>3. ASSUME NEW c \in Clients, Respond(c) PROVE TypeOK'
  BY <1>3, WriteTypes, AreInboxTypes DEF Respond, TypeOK
<1>4. ASSUME NEW c \in Clients, JoinReturns(c) \/ MakePeer(c) \/ HearOffers(c) \/ HearCandidates(c) \/ Serve(c) \/ Join(c)
      PROVE TypeOK'
  BY <1>4 DEF JoinReturns, MakePeer, HearOffers, HearCandidates, Serve, Join, TypeOK
<1>5. ASSUME NEW c \in Clients, ReadLoop(c) PROVE TypeOK'
  <2>1. Head(inbox[c]) \in InboxTypes /\ Tail(inbox[c]) \in Seq(InboxTypes)
    BY <1>5 DEF ReadLoop, TypeOK
  <2>2. inbox' \in [Clients -> Seq(InboxTypes)] /\ reply' \in [Clients -> InboxTypes \cup {None}]
    BY <1>5, <2>1 DEF ReadLoop, TypeOK
  <2>3. answering' \in [Clients -> {"none", "read", "remote", "local", "over"}]
    BY <1>5 DEF ReadLoop, TypeOK
  <2>4. heard' \subseteq Clients \X Candidates /\ deaf' \subseteq Clients /\ missed' \subseteq Ends \X Candidates
    BY <1>5 DEF ReadLoop, TypeOK
  <2> QED
    BY <1>5, <2>2, <2>3, <2>4 DEF ReadLoop, TypeOK
<1>6. ASSUME NEW c \in Clients, SetOffer(c) \/ CreateAnswer(c) PROVE TypeOK'
  <2>1. remote' \subseteq Ends /\ local' \subseteq Ends /\ faulty' \subseteq Clients
    BY <1>6 DEF SetOffer, CreateAnswer, TypeOK
  <2>2. answering' \in [Clients -> {"none", "read", "remote", "local", "over"}]
    BY <1>6 DEF SetOffer, CreateAnswer, TypeOK
  <2> QED
    BY <1>6, <2>1, <2>2 DEF SetOffer, CreateAnswer, TypeOK
<1>7. ASSUME NEW c \in Clients, SendAnswer(c) PROVE TypeOK'
  BY <1>7 DEF SendAnswer, ToHost, TypeOK
<1>8. ASSUME NEW c \in Clients, HostMakesPeer(c) PROVE TypeOK'
  <2>. offering \in [Clients -> {"none", "peer", "proxied", "local", "over"}]
    BY DEF TypeOK
  <2>1. offering' \in [Clients -> {"none", "peer", "proxied", "local", "over"}]
    BY <1>8 DEF HostMakesPeer
  <2>2. activePeers' \subseteq Clients /\ activeProxies' \subseteq activePeers' /\ faulty' \subseteq Clients
    BY <1>8 DEF HostMakesPeer, TypeOK
  <2> QED
    BY <1>8, <2>1, <2>2 DEF HostMakesPeer, TypeOK
<1>9. ASSUME NEW c \in Clients, HostStartsProxy(c) PROVE TypeOK'
  <2>1. offering' \in [Clients -> {"none", "peer", "proxied", "local", "over"}]
    BY <1>9 DEF HostStartsProxy, TypeOK
  <2>2. activePeers' \subseteq Clients /\ activeProxies' \subseteq activePeers' /\ faulty' \subseteq Clients
    BY <1>9 DEF HostStartsProxy, HostInOrder, TypeOK
  <2> QED
    BY <1>9, <2>1, <2>2 DEF HostStartsProxy, TypeOK
<1>10. ASSUME NEW c \in Clients, CreateOffer(c) PROVE TypeOK'
  <2>1. offering' \in [Clients -> {"none", "peer", "proxied", "local", "over"}]
    BY <1>10 DEF CreateOffer, TypeOK
  <2>2. local' \subseteq Ends /\ faulty' \subseteq Clients
    BY <1>10 DEF CreateOffer, TypeOK
  <2> QED
    BY <1>10, <2>1, <2>2 DEF CreateOffer, TypeOK
<1>11. ASSUME NEW c \in Clients, SendOffer(c) PROVE TypeOK'
  BY <1>11, WriteTypes, AreInboxTypes DEF SendOffer, TypeOK
<1>12. ASSUME NEW c \in Clients, HostTakesAnswer(c) PROVE TypeOK'
  BY <1>12 DEF HostTakesAnswer, TypeOK
<1>13. ASSUME NEW c \in Clients, NEW k \in Candidates, ClientAddsCandidate(c, k) \/ HostAddsCandidate(c, k)
       PROVE TypeOK'
  BY <1>13 DEF ClientAddsCandidate, HostAddsCandidate, AddICECandidate, TypeOK
<1>14. ASSUME NEW c \in Clients, NEW k \in Candidates, HostGathers(c, k) PROVE TypeOK'
  <2>1. k \in InboxTypes
    BY AreInboxTypes
  <2> QED
    BY <1>14, <2>1, WriteTypes DEF HostGathers, TypeOK
<1>15. ASSUME NEW c \in Clients, NEW k \in Candidates, ClientGathers(c, k) PROVE TypeOK'
  BY <1>15 DEF ClientGathers, ToHost, TypeOK
<1>16. ASSUME NEW c \in Clients, LinkUp(c) \/ LinkBreaks(c) PROVE TypeOK'
  BY <1>16 DEF LinkUp, LinkBreaks, TypeOK
<1>17. ASSUME NEW c \in Clients, Drop(c) PROVE TypeOK'
  BY <1>17 DEF Drop, TypeOK
<1>18. ASSUME NEW c \in Clients, HostMisses(c) PROVE TypeOK'
  BY <1>18 DEF HostMisses, TypeOK
<1>19. CASE HostListens
  BY <1>19 DEF HostListens, TypeOK
<1> QED
  BY <1>0, <1>1, <1>2, <1>3, <1>4, <1>5, <1>6, <1>7, <1>8, <1>9, <1>10, <1>11,
     <1>12, <1>13, <1>14, <1>15, <1>16, <1>17, <1>18, <1>19 DEF Next, Step

-----------------------------------------------------------------------------
LEMMA InitInOrder == Init => HandshakeInv
  BY InitTypes DEF Init, HandshakeInv, HostInOrder, OfferFirst, QueuedOfferIsSet, AnswerNext, LinkLast

(* What the steps of one client leave alone is in order as it was.         *)
LEMMA StepInOrder ==
  ASSUME HandshakeInv, TypeOK', [Next]_vars, NEW d \in Clients
  PROVE  HostInOrder(d)'
<1> USE DEF At, host, tables, client, webrtc, ice, history, lost
<1>0. CASE UNCHANGED vars
  BY <1>0 DEF vars, HandshakeInv, HostInOrder
<1>1. ASSUME NEW c \in Clients, HostMakesPeer(c) PROVE HostInOrder(d)'
  BY <1>1 DEF HostMakesPeer, HandshakeInv, HostInOrder, TypeOK
<1>2. ASSUME NEW c \in Clients, HostStartsProxy(c) PROVE HostInOrder(d)'
  BY <1>2 DEF HostStartsProxy, HandshakeInv, HostInOrder, TypeOK
<1>3. ASSUME NEW c \in Clients, CreateOffer(c) PROVE HostInOrder(d)'
  <2>1. HostInOrder(c) /\ HostInOrder(d) /\ offering \in [Clients -> {"none", "peer", "proxied", "local", "over"}]
    BY DEF HandshakeInv, TypeOK
  <2>2. offering[c] = "proxied" /\ UNCHANGED <<activePeers, activeProxies>>
    BY <1>3 DEF CreateOffer
  <2>3. CASE d = c
    <3>1. CASE offering' = [offering EXCEPT ![c] = "local"] /\ local' = local \cup {Host(c)}
      BY <2>1, <2>2, <2>3, <3>1 DEF HostInOrder
    <3>2. CASE offering' = [offering EXCEPT ![c] = "over"] /\ local' = local
      BY <2>1, <2>2, <2>3, <3>2 DEF HostInOrder
    <3> QED
      BY <1>3, <3>1, <3>2 DEF CreateOffer
  <2>4. CASE d # c
    <3>1. offering'[d] = offering[d] /\ (Host(d) \in local' <=> Host(d) \in local)
      BY <1>3, <2>1, <2>4, EndsDiffer DEF CreateOffer
    <3> QED
      BY <2>1, <2>2, <3>1 DEF HostInOrder
  <2> QED
    BY <2>3, <2>4
<1>4. ASSUME NEW c \in Clients, SendOffer(c) PROVE HostInOrder(d)'
  BY <1>4 DEF SendOffer, HandshakeInv, HostInOrder, TypeOK
<1>5. ASSUME NEW c \in Clients, CreateAnswer(c) PROVE HostInOrder(d)'
  BY <1>5, EndsDiffer DEF CreateAnswer, HandshakeInv, HostInOrder, TypeOK
<1>6. CASE UNCHANGED <<offering, activePeers, activeProxies, local>>
  BY <1>6 DEF HandshakeInv, HostInOrder
<1>7. ASSUME NEW c \in Clients, NEW k \in Candidates,
             ClientAddsCandidate(c, k) \/ HostAddsCandidate(c, k) \/ HostGathers(c, k) \/ ClientGathers(c, k)
      PROVE  UNCHANGED <<offering, activePeers, activeProxies, local>>
  BY <1>7 DEF ClientAddsCandidate, HostAddsCandidate, HostGathers, ClientGathers
<1>8. ASSUME NEW c \in Clients,
             EnterClient(c) \/ NotifyHost(c) \/ Respond(c) \/ JoinReturns(c) \/ MakePeer(c)
             \/ HearOffers(c) \/ HearCandidates(c) \/ Serve(c) \/ ReadLoop(c) \/ SetOffer(c)
             \/ SendAnswer(c) \/ HostTakesAnswer(c) \/ LinkUp(c) \/ Join(c) \/ Drop(c) \/ LinkBreaks(c)
             \/ HostMisses(c)
      PROVE  UNCHANGED <<offering, activePeers, activeProxies, local>>
  BY <1>8 DEF EnterClient, NotifyHost, Respond, JoinReturns, MakePeer, HearOffers, HearCandidates,
     Serve, ReadLoop, SetOffer, SendAnswer, HostTakesAnswer, LinkUp, Join, Drop, LinkBreaks, HostMisses
<1>9. CASE HostListens
  BY <1>6, <1>9 DEF HostListens
<1> QED
  BY <1>0, <1>1, <1>2, <1>3, <1>4, <1>5, <1>6, <1>7, <1>8, <1>9 DEF Next, Step

(* Descriptions are never unset.                                           *)
LEMMA DescriptionsStay ==
  ASSUME [Next]_vars
  PROVE  local \subseteq local' /\ remote \subseteq remote'
<1> USE DEF webrtc, ice
<1>0. CASE UNCHANGED vars
  BY <1>0 DEF vars
<1>1. ASSUME NEW c \in Clients, NEW k \in Candidates,
             ClientAddsCandidate(c, k) \/ HostAddsCandidate(c, k) \/ HostGathers(c, k) \/ ClientGathers(c, k)
      PROVE  UNCHANGED <<local, remote>>
  BY <1>1 DEF ClientAddsCandidate, HostAddsCandidate, HostGathers, ClientGathers
<1>2. ASSUME NEW c \in Clients,
             EnterClient(c) \/ NotifyHost(c) \/ Respond(c) \/ JoinReturns(c) \/ MakePeer(c)
             \/ HearOffers(c) \/ HearCandidates(c) \/ Serve(c) \/ ReadLoop(c)
             \/ SendAnswer(c) \/ LinkUp(c) \/ Join(c) \/ Drop(c) \/ LinkBreaks(c)
             \/ HostMisses(c) \/ HostMakesPeer(c) \/ HostStartsProxy(c) \/ SendOffer(c)
      PROVE  UNCHANGED <<local, remote>>
  BY <1>2 DEF EnterClient, NotifyHost, Respond, JoinReturns, MakePeer, HearOffers, HearCandidates,
     Serve, ReadLoop, SendAnswer, LinkUp, Join, Drop, LinkBreaks, HostMisses, HostMakesPeer,
     HostStartsProxy, SendOffer
<1>3. ASSUME NEW c \in Clients, SetOffer(c) \/ CreateAnswer(c) \/ CreateOffer(c) \/ HostTakesAnswer(c)
      PROVE  local \subseteq local' /\ remote \subseteq remote'
  BY <1>3 DEF SetOffer, CreateAnswer, CreateOffer, HostTakesAnswer
<1>4. CASE HostListens
  BY <1>4 DEF HostListens
<1> QED
  BY <1>0, <1>1, <1>2, <1>3, <1>4 DEF Next, Step

(* A queue that grows by an offer that is set, or by anything else, or     *)
(* loses its head, or is emptied, holds no offer that is not set.          *)
LEMMA QueueStep ==
  ASSUME inbox \in [Clients -> Seq(InboxTypes)], NEW c \in Clients, NEW d \in Clients,
         QueuedOfferIsSet(d), local \subseteq local',
         \/ UNCHANGED inbox
         \/ \E m \in InboxTypes : /\ inbox' = [inbox EXCEPT ![c] = Append(@, m)]
                                  /\ m = "offer" => Host(c) \in local
         \/ inbox[c] # <<>> /\ inbox' = [inbox EXCEPT ![c] = Tail(@)]
         \/ inbox' = [inbox EXCEPT ![c] = <<>>]
  PROVE  QueuedOfferIsSet(d)'
<1> SUFFICES ASSUME NEW i \in 1..Len(inbox'[d]), inbox'[d][i] = "offer"
             PROVE  Host(d) \in local
  BY DEF QueuedOfferIsSet
<1>0. CASE inbox'[d] = inbox[d]
  BY <1>0 DEF QueuedOfferIsSet
<1>1. ASSUME NEW m \in InboxTypes, inbox' = [inbox EXCEPT ![c] = Append(@, m)], d = c,
             m = "offer" => Host(c) \in local
      PROVE  Host(d) \in local
  <2>1. inbox[c] \in Seq(InboxTypes) /\ inbox'[c] = Append(inbox[c], m)
    BY <1>1
  <2>2. CASE i \in 1..Len(inbox[c])
    BY <2>1, <2>2, <1>1 DEF QueuedOfferIsSet
  <2>3. CASE i = Len(inbox[c]) + 1
    BY <2>1, <2>3, <1>1
  <2> QED
    BY <2>1, <2>2, <2>3, <1>1
<1>2. CASE d = c /\ inbox[c] # <<>> /\ inbox' = [inbox EXCEPT ![c] = Tail(@)]
  <2>1. inbox[c] \in Seq(InboxTypes) /\ inbox'[c] = Tail(inbox[c])
    BY <1>2
  <2>2. i + 1 \in 1..Len(inbox[c]) /\ inbox[c][i + 1] = "offer"
    BY <1>2, <2>1
  <2> QED
    BY <1>2, <2>2 DEF QueuedOfferIsSet
<1>3. CASE d = c /\ inbox' = [inbox EXCEPT ![c] = <<>>]
  BY <1>3
<1>4. d # c => inbox'[d] = inbox[d]
  OBVIOUS
<1> QED
  BY <1>0, <1>1, <1>2, <1>3, <1>4

(* An offer is on its way only after the host has set it.                  *)
LEMMA StepQueues ==
  ASSUME HandshakeInv, [Next]_vars, NEW d \in Clients
  PROVE  QueuedOfferIsSet(d)'
<1>1. /\ inbox \in [Clients -> Seq(InboxTypes)]
      /\ QueuedOfferIsSet(d)
      /\ local \subseteq local'
  BY DescriptionsStay DEF HandshakeInv, TypeOK, OfferFirst
<1> USE AreInboxTypes DEF client, NoFault, Fault
<1>2. ASSUME NEW c \in Clients, EnterClient(c) \/ Respond(c) PROVE QueuedOfferIsSet(d)'
  <2>1. UNCHANGED inbox \/ \E m \in InboxTypes \ {"offer"} : inbox' = [inbox EXCEPT ![c] = Append(@, m)]
    BY <1>2 DEF EnterClient, Respond, ToClient
  <2> QED
    BY <1>1, <2>1, QueueStep
<1>3. ASSUME NEW c \in Clients, SendOffer(c) PROVE QueuedOfferIsSet(d)'
  <2>1. Host(c) \in local
    BY <1>3 DEF SendOffer, At, HandshakeInv, HostInOrder
  <2>2. UNCHANGED inbox \/ inbox' = [inbox EXCEPT ![c] = Append(@, "offer")]
    BY <1>3 DEF SendOffer, ToClient
  <2> QED
    BY <1>1, <2>1, <2>2, QueueStep
<1>4. ASSUME NEW c \in Clients, NEW k \in Candidates, HostGathers(c, k) PROVE QueuedOfferIsSet(d)'
  <2>1. k \in InboxTypes /\ k # "offer"
    BY ClientsAssumption
  <2>2. UNCHANGED inbox \/ inbox' = [inbox EXCEPT ![c] = Append(@, k)]
    BY <1>4 DEF HostGathers, ToClient
  <2> QED
    BY <1>1, <2>1, <2>2, QueueStep
<1>5. ASSUME NEW c \in Clients, ReadLoop(c) \/ Drop(c) PROVE QueuedOfferIsSet(d)'
  <2>1. \/ inbox[c] # <<>> /\ inbox' = [inbox EXCEPT ![c] = Tail(@)]
        \/ inbox' = [inbox EXCEPT ![c] = <<>>]
    BY <1>5 DEF ReadLoop, Drop
  <2> QED
    BY <1>1, <2>1, QueueStep
<1>6. CASE UNCHANGED inbox
  BY <1>1, <1>6, QueueStep
<1>7. ASSUME NEW c \in Clients, NEW k \in Candidates,
             ClientAddsCandidate(c, k) \/ HostAddsCandidate(c, k) \/ ClientGathers(c, k)
      PROVE  UNCHANGED inbox
  BY <1>7 DEF ClientAddsCandidate, HostAddsCandidate, ClientGathers
<1>8. ASSUME NEW c \in Clients,
             NotifyHost(c) \/ JoinReturns(c) \/ MakePeer(c) \/ HearOffers(c) \/ HearCandidates(c)
             \/ Serve(c) \/ SetOffer(c) \/ CreateAnswer(c) \/ SendAnswer(c) \/ LinkUp(c) \/ Join(c)
             \/ LinkBreaks(c) \/ HostMakesPeer(c) \/ HostStartsProxy(c) \/ CreateOffer(c) \/ HostTakesAnswer(c)
             \/ HostMisses(c)
      PROVE  UNCHANGED inbox
  BY <1>8 DEF NotifyHost, JoinReturns, MakePeer, HearOffers, HearCandidates, Serve, SetOffer, CreateAnswer,
     SendAnswer, LinkUp, Join, LinkBreaks, HostMakesPeer, HostStartsProxy, CreateOffer, HostTakesAnswer,
     HostMisses
<1>9. CASE UNCHANGED vars \/ HostListens
  BY <1>6, <1>9 DEF vars, HostListens
<1> QED
  BY <1>2, <1>3, <1>4, <1>5, <1>6, <1>7, <1>8, <1>9 DEF Next, Step

(* The client has the offer only after it was set, and goes on in order.   *)
LEMMA StepOfferFirst ==
  ASSUME HandshakeInv, [Next]_vars, NEW d \in Clients
  PROVE  OfferFirst(d)'
<1>1. /\ OfferFirst(d)
      /\ answering \in [Clients -> {"none", "read", "remote", "local", "over"}]
      /\ local \subseteq local' /\ remote \subseteq remote'
      /\ QueuedOfferIsSet(d)'
  BY DescriptionsStay, StepQueues DEF HandshakeInv, TypeOK
<1> USE DEF At, client, webrtc, ice, OfferFirst
<1>2. ASSUME NEW c \in Clients, ReadLoop(c) PROVE OfferFirst(d)'
  <2>1. inbox[c] # <<>> /\ Head(inbox[c]) = "offer" => Host(c) \in local
    <3>1. inbox[c] \in Seq(InboxTypes) /\ QueuedOfferIsSet(c)
      BY DEF HandshakeInv, TypeOK
    <3> QED
      BY <3>1 DEF QueuedOfferIsSet
  <2>2. inbox[c] # <<>> /\ remote' = remote
    BY <1>2 DEF ReadLoop
  <2>3. \/ answering' = answering
        \/ Head(inbox[c]) = "offer" /\ answering' = [answering EXCEPT ![c] = "read"]
    BY <1>2 DEF ReadLoop
  <2>4. CASE answering' = answering
    BY <1>1, <2>2, <2>4
  <2>5. CASE Host(c) \in local /\ answering' = [answering EXCEPT ![c] = "read"]
    <3>1. CASE d = c
      BY <1>1, <2>2, <2>5, <3>1
    <3>2. CASE d # c
      BY <1>1, <2>2, <2>5, <3>2
    <3> QED
      BY <3>1, <3>2
  <2> QED
    BY <2>1, <2>2, <2>3, <2>4, <2>5
<1>3. ASSUME NEW c \in Clients, SetOffer(c) PROVE OfferFirst(d)'
  <2>1. /\ answering[c] = "read"
        /\ \/ answering' = [answering EXCEPT ![c] = "remote"] /\ remote' = remote \cup {Client(c)}
           \/ answering' = [answering EXCEPT ![c] = "over"] /\ remote' = remote
    BY <1>3 DEF SetOffer
  <2> QED
    BY <1>1, <2>1, EndsDiffer
<1>4. ASSUME NEW c \in Clients, CreateAnswer(c) PROVE OfferFirst(d)'
  <2>1. /\ answering[c] = "remote" /\ remote' = remote
        /\ \/ answering' = [answering EXCEPT ![c] = "local"] /\ local' = local \cup {Client(c)}
           \/ answering' = [answering EXCEPT ![c] = "over"]
    BY <1>4 DEF CreateAnswer
  <2> QED
    BY <1>1, <2>1
<1>5. ASSUME NEW c \in Clients, SendAnswer(c) PROVE OfferFirst(d)'
  <2>1. remote' = remote /\ answering' = [answering EXCEPT ![c] = "over"]
    BY <1>5 DEF SendAnswer
  <2> QED
    BY <1>1, <2>1
<1>6. ASSUME NEW c \in Clients, HostTakesAnswer(c) PROVE OfferFirst(d)'
  <2>1. answering' = answering /\ remote' \subseteq remote \cup {Host(c)}
    BY <1>6 DEF HostTakesAnswer
  <2> QED
    BY <1>1, <2>1, EndsDiffer
<1>7. CASE UNCHANGED <<answering, remote>>
  BY <1>1, <1>7
<1>8. ASSUME NEW c \in Clients, NEW k \in Candidates,
             ClientAddsCandidate(c, k) \/ HostAddsCandidate(c, k) \/ ClientGathers(c, k) \/ HostGathers(c, k)
      PROVE  UNCHANGED <<answering, remote>>
  BY <1>8 DEF ClientAddsCandidate, HostAddsCandidate, ClientGathers, HostGathers
<1>9. ASSUME NEW c \in Clients,
             EnterClient(c) \/ NotifyHost(c) \/ Respond(c) \/ JoinReturns(c) \/ MakePeer(c) \/ HearOffers(c)
             \/ HearCandidates(c) \/ Serve(c) \/ LinkUp(c) \/ Join(c) \/ LinkBreaks(c) \/ Drop(c)
             \/ HostMakesPeer(c) \/ HostStartsProxy(c) \/ CreateOffer(c) \/ SendOffer(c)
             \/ HostMisses(c)
      PROVE  UNCHANGED <<answering, remote>>
  BY <1>9 DEF EnterClient, NotifyHost, Respond, JoinReturns, MakePeer, HearOffers, HearCandidates, Serve,
     LinkUp, Join, LinkBreaks, Drop, HostMakesPeer, HostStartsProxy, CreateOffer, SendOffer, HostMisses
<1>10. CASE UNCHANGED vars \/ HostListens
  BY <1>7, <1>10 DEF vars, HostListens
<1> QED
  BY <1>2, <1>3, <1>4, <1>5, <1>6, <1>7, <1>8, <1>9, <1>10 DEF Next, Step

(* The host has the answer only after the client set it.                   *)
LEMMA StepAnswerNext ==
  ASSUME HandshakeInv, [Next]_vars, NEW d \in Clients
  PROVE  AnswerNext(d)'
<1>1. /\ AnswerNext(d)
      /\ local \subseteq local' /\ remote \subseteq remote'
  BY DescriptionsStay DEF HandshakeInv
<1> USE DEF At, host, tables, webrtc, ice, AnswerNext
<1>2. ASSUME NEW c \in Clients, CreateAnswer(c) PROVE AnswerNext(d)'
  <2>1. Client(c) \in remote /\ UNCHANGED <<remote, toHost>> /\ local' \subseteq local \cup {Client(c)}
    BY <1>2 DEF CreateAnswer, HandshakeInv, OfferFirst
  <2> QED
    BY <1>1, <2>1, EndsDiffer
<1>3. ASSUME NEW c \in Clients, CreateOffer(c) PROVE AnswerNext(d)'
  <2>1. UNCHANGED <<remote, toHost>> /\ local' \subseteq local \cup {Host(c)}
    BY <1>3 DEF CreateOffer
  <2> QED
    BY <1>1, <2>1, EndsDiffer
<1>4. ASSUME NEW c \in Clients, SetOffer(c) PROVE AnswerNext(d)'
  <2>1. UNCHANGED <<local, toHost>> /\ remote' \subseteq remote \cup {Client(c)}
    BY <1>4 DEF SetOffer
  <2> QED
    BY <1>1, <2>1, EndsDiffer
<1>5. ASSUME NEW c \in Clients, SendAnswer(c) PROVE AnswerNext(d)'
  <2>1. Client(c) \in local /\ UNCHANGED <<local, remote>> /\ toHost' \subseteq toHost \cup {<<c, "answer">>}
    BY <1>5 DEF SendAnswer, ToHost, HandshakeInv, OfferFirst
  <2> QED
    BY <1>1, <2>1
<1>6. ASSUME NEW c \in Clients, HostTakesAnswer(c) PROVE AnswerNext(d)'
  <2>1. Client(c) \in local /\ local' = local /\ toHost' \subseteq toHost /\ remote' \subseteq remote \cup {Host(c)}
    BY <1>6 DEF HostTakesAnswer, HandshakeInv
  <2> QED
    BY <1>1, <2>1, EndsDiffer
<1>7. ASSUME NEW c \in Clients, NEW m, m # "answer", UNCHANGED <<local, remote>>,
             toHost' \subseteq toHost \cup {<<c, m>>}
      PROVE  AnswerNext(d)'
  BY <1>1, <1>7
<1>8. ASSUME NEW c \in Clients, NotifyHost(c) PROVE AnswerNext(d)'
  <2>1. UNCHANGED <<local, remote>> /\ toHost' \subseteq toHost \cup {<<c, "peer-joined">>}
    BY <1>8 DEF NotifyHost, ToHost
  <2> QED
    BY <1>7, <2>1
<1>9. ASSUME NEW c \in Clients, NEW k \in Candidates, ClientGathers(c, k) PROVE AnswerNext(d)'
  <2>1. UNCHANGED <<local, remote>> /\ toHost' \subseteq toHost \cup {<<c, k>>}
    BY <1>9 DEF ClientGathers, ToHost
  <2>2. k # "answer"
    BY ClientsAssumption
  <2> QED
    BY <1>7, <2>1, <2>2
<1>10. CASE UNCHANGED <<local, remote>> /\ toHost' \subseteq toHost
  BY <1>1, <1>10
<1>11. ASSUME NEW c \in Clients, NEW k \in Candidates,
              ClientAddsCandidate(c, k) \/ HostAddsCandidate(c, k) \/ HostGathers(c, k)
       PROVE  UNCHANGED <<local, remote>> /\ toHost' \subseteq toHost
  BY <1>11 DEF ClientAddsCandidate, HostAddsCandidate, HostGathers
<1>12. ASSUME NEW c \in Clients,
             EnterClient(c) \/ Respond(c) \/ JoinReturns(c) \/ MakePeer(c) \/ HearOffers(c) \/ HearCandidates(c)
             \/ Serve(c) \/ ReadLoop(c) \/ LinkUp(c) \/ Join(c) \/ LinkBreaks(c) \/ Drop(c)
             \/ HostMisses(c) \/ HostMakesPeer(c) \/ HostStartsProxy(c) \/ SendOffer(c)
       PROVE  UNCHANGED <<local, remote>> /\ toHost' \subseteq toHost
  BY <1>12 DEF EnterClient, Respond, JoinReturns, MakePeer, HearOffers, HearCandidates, Serve, ReadLoop,
     LinkUp, Join, LinkBreaks, Drop, HostMisses, HostMakesPeer, HostStartsProxy, SendOffer
<1>13. CASE UNCHANGED vars \/ HostListens
  BY <1>10, <1>13 DEF vars, HostListens
<1> QED
  BY <1>2, <1>3, <1>4, <1>5, <1>6, <1>8, <1>9, <1>10, <1>11, <1>12, <1>13 DEF Next, Step

(* The link comes up, and the client forwards, after all of that.          *)
LEMMA StepLinkLast ==
  ASSUME HandshakeInv, [Next]_vars, NEW d \in Clients
  PROVE  LinkLast(d)'
<1>1. /\ LinkLast(d)
      /\ local \subseteq local'
      /\ link \in [Clients -> {"new", "up", "lost", "failed"}]
      /\ joiner \in [Clients -> {"off", "asked", "joined", "peer", "offers", "waiting", "serving", "failed"}]
  BY DescriptionsStay DEF HandshakeInv, TypeOK
<1> USE DEF At, client, webrtc, ice, LinkLast
<1>2. ASSUME NEW c \in Clients, Serve(c) PROVE LinkLast(d)'
  <2>1. Host(c) \in local /\ link' = link /\ joiner' = [joiner EXCEPT ![c] = "serving"]
    BY <1>2 DEF Serve, HandshakeInv
  <2> QED
    BY <1>1, <2>1
<1>3. ASSUME NEW c \in Clients, LinkUp(c) PROVE LinkLast(d)'
  <2>1. Host(c) \in local /\ joiner' = joiner /\ link' = [link EXCEPT ![c] = "up"]
    BY <1>3 DEF LinkUp, Negotiated
  <2> QED
    BY <1>1, <2>1
<1>4. ASSUME NEW c \in Clients, LinkBreaks(c) PROVE LinkLast(d)'
  BY <1>1, <1>4 DEF LinkBreaks
<1>5. ASSUME NEW c \in Clients, JoinReturns(c) \/ MakePeer(c) \/ HearOffers(c) \/ HearCandidates(c) \/ Join(c)
      PROVE  LinkLast(d)'
  <2>1. link' = link /\ \E to \in {"joined", "failed", "peer", "offers", "waiting", "asked"} :
          joiner' = [joiner EXCEPT ![c] = to]
    BY <1>5 DEF JoinReturns, MakePeer, HearOffers, HearCandidates, Join
  <2> QED
    BY <1>1, <2>1
<1>6. CASE UNCHANGED <<link, joiner>>
  BY <1>1, <1>6
<1>7. ASSUME NEW c \in Clients, NEW k \in Candidates,
             ClientAddsCandidate(c, k) \/ HostAddsCandidate(c, k) \/ ClientGathers(c, k) \/ HostGathers(c, k)
      PROVE  UNCHANGED <<link, joiner>>
  BY <1>7 DEF ClientAddsCandidate, HostAddsCandidate, ClientGathers, HostGathers
<1>8. ASSUME NEW c \in Clients,
             EnterClient(c) \/ NotifyHost(c) \/ Respond(c) \/ ReadLoop(c) \/ SetOffer(c) \/ CreateAnswer(c)
             \/ SendAnswer(c) \/ Drop(c) \/ HostMakesPeer(c) \/ HostStartsProxy(c) \/ CreateOffer(c)
             \/ SendOffer(c) \/ HostTakesAnswer(c) \/ HostMisses(c)
      PROVE  UNCHANGED <<link, joiner>>
  BY <1>8 DEF EnterClient, NotifyHost, Respond, ReadLoop, SetOffer, CreateAnswer, SendAnswer, Drop,
     HostMakesPeer, HostStartsProxy, CreateOffer, SendOffer, HostTakesAnswer, HostMisses
<1>9. CASE UNCHANGED vars \/ HostListens
  BY <1>6, <1>9 DEF vars, HostListens
<1> QED
  BY <1>2, <1>3, <1>4, <1>5, <1>6, <1>7, <1>8, <1>9 DEF Next, Step

-----------------------------------------------------------------------------
LEMMA HandshakeInvariant == Spec => []HandshakeInv
<1>1. HandshakeInv /\ [Next]_vars => HandshakeInv'
  BY StepTypes, StepInOrder, StepOfferFirst, StepAnswerNext, StepLinkLast DEF HandshakeInv
<1> QED
  BY InitInOrder, <1>1, PTL DEF Spec

(* The handshake's state is well typed: cmd/run.go never has a proxy       *)
(* without a peer.                                                         *)
THEOREM HandshakeTypes == Spec => []TypeOK
<1>1. HandshakeInv => TypeOK
  BY DEF HandshakeInv
<1> QED
  BY HandshakeInvariant, <1>1, PTL

(* The host never applies an answer to an offer it has not set, or one     *)
(* whose sender has not gone through the same offer.                       *)
THEOREM AnswersFindTheirOffer == Spec => []AnswerFindsOffer
<1>1. HandshakeInv => AnswerFindsOffer
  BY DEF HandshakeInv, AnswerFindsOffer, OfferFirst, AnswerNext
<1> QED
  BY HandshakeInvariant, <1>1, PTL

(* A join command that forwards is served: the host has a peer and a proxy *)
(* for it.                                                                 *)
THEOREM ServingClientsHaveProxies == Spec => []ServedByProxy
<1>1. HandshakeInv => ServedByProxy
  BY DEF HandshakeInv, ServedByProxy, HostInOrder, LinkLast
<1> QED
  BY HandshakeInvariant, <1>1, PTL
=============================================================================
