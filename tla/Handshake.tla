----------------------------- MODULE Handshake ------------------------------
(***************************************************************************)
(* How a client and the host of a tunnel connect: the join command         *)
(* (cmd/join.go), the handlers of the host command (cmd/run.go) and the    *)
(* signaling client both use (internal/signaling/client.go), with the      *)
(* server's handleJoin and relays between them.                            *)
(*                                                                         *)
(* A message is handled by a goroutine of its own (go handler(&msg)), so   *)
(* that one on its way to the host and one whose handler has not run yet   *)
(* are the same thing: a member of toHost.  A client reads its WebSocket   *)
(* in order.  At either end a message that is read before its handler is   *)
(* registered has none; the host prints its token before it registers its  *)
(* own, so that a client may be that early.                                *)
(*                                                                         *)
(* Client ids are fresh (GenerateToken), so no peer of the host is ever    *)
(* replaced.  The queue of host candidates is module SignalingServer's.    *)
(* The WebRTC library is external: it refuses a candidate that comes       *)
(* before the remote description, and an ICE link needs both descriptions  *)
(* and one candidate that either end has accepted.                         *)
(***************************************************************************)
EXTENDS Naturals, Sequences, FiniteSets

CONSTANTS Clients,
          Candidates,   \* what each end gathers
          Unlucky,      \* clients whose writes, calls, links and waits may fail
          None

ASSUME ClientsAssumption ==
  /\ Unlucky \subseteq Clients
  /\ None \notin {"session-created", "error", "offer"} \cup Candidates
  /\ Candidates \cap
       {"session-created", "error", "offer", "answer", "peer-joined"} = {}

VARIABLES
  server,         \* the step of handleJoin for each client
  inbox,          \* what was written to a client's WebSocket and not read
  toHost,         \* messages for the host, handled in any order
  reply,          \* the first message on the client's incoming channel
  joiner,         \* the step of the join command
  answering,      \* the step of the client's offer handler
  heard,          \* candidates whose handler at the client has not run
  offering,       \* the step of the host's PeerJoined handler
  activePeers, activeProxies,      \* the host's tables
  handlers,       \* whether the host has registered its handlers
  local, remote,  \* ends that have set their local and remote description
  gathered,       \* candidates whose OnICECandidate has run, by end
  accepted,       \* candidates that AddICECandidate took, by the end that did
  link,           \* the ICE and DTLS connection
  unheard,        \* history: clients whose join the host read without one
  deaf,           \* history: clients that read the offer without a handler
  missed,         \* history: candidates that came too early, by their sender
  faulty          \* history: clients that met a fault

client == <<inbox, reply, joiner, answering, heard>>
tables == <<activePeers, activeProxies, handlers>>
host   == <<toHost, offering, tables>>
ice    == <<gathered, accepted, link>>
webrtc == <<local, remote, ice>>
lost   == <<unheard, deaf, missed>>
history == <<lost, faulty>>
vars   == <<server, client, host, webrtc, history>>

Ends == {"host", "client"} \X Clients

Host(c) == <<"host", c>>
Client(c) == <<"client", c>>

InboxTypes == {"session-created", "error", "offer"} \cup Candidates

TypeOK ==
  /\ server \in [Clients -> {"off", "entered", "notified", "done"}]
  /\ inbox \in [Clients -> Seq(InboxTypes)]
  /\ toHost \subseteq Clients \X ({"peer-joined", "answer"} \cup Candidates)
  /\ reply \in [Clients -> InboxTypes \cup {None}]
  /\ joiner \in [Clients -> {"off", "asked", "joined", "peer", "offers",
                             "waiting", "serving", "failed"}]
  /\ answering \in [Clients -> {"none", "read", "remote", "local", "over"}]
  /\ heard \subseteq Clients \X Candidates
  /\ offering \in [Clients -> {"none", "peer", "proxied", "local", "over"}]
  /\ activePeers \subseteq Clients
  /\ activeProxies \subseteq activePeers
  /\ handlers \in {"none", "registered"}
  /\ local \subseteq Ends
  /\ remote \subseteq Ends
  /\ gathered \subseteq Ends \X Candidates
  /\ accepted \subseteq Ends \X Candidates
  /\ link \in [Clients -> {"new", "up", "lost", "failed"}]
  /\ unheard \subseteq Clients
  /\ deaf \subseteq Clients
  /\ missed \subseteq Ends \X Candidates
  /\ faulty \subseteq Clients

Init ==
  /\ server = [c \in Clients |-> "off"]
  /\ inbox = [c \in Clients |-> <<>>]
  /\ toHost = {}
  /\ reply = [c \in Clients |-> None]
  /\ joiner = [c \in Clients |-> "off"]
  /\ answering = [c \in Clients |-> "none"]
  /\ heard = {}
  /\ offering = [c \in Clients |-> "none"]
  /\ activePeers = {}
  /\ activeProxies = {}
  /\ handlers = "none"
  /\ local = {}
  /\ remote = {}
  /\ gathered = {}
  /\ accepted = {}
  /\ link = [c \in Clients |-> "new"]
  /\ unheard = {}
  /\ deaf = {}
  /\ missed = {}
  /\ faulty = {}

-----------------------------------------------------------------------------
At(f, c, from, to) == f[c] = from /\ f' = [f EXCEPT ![c] = to]

Fault(c) == c \in Unlucky /\ faulty' = faulty \cup {c}
NoFault == UNCHANGED faulty

(* A write to the client's or the host's WebSocket, which may fail.        *)
ToClient(c, m) ==
  \/ NoFault /\ inbox' = [inbox EXCEPT ![c] = Append(@, m)]
  \/ Fault(c) /\ UNCHANGED inbox

ToHost(c, m) ==
  \/ NoFault /\ toHost' = toHost \cup {<<c, m>>}
  \/ Fault(c) /\ UNCHANGED toHost

(* The WebSocket of a client breaks: what was not delivered is lost.       *)
Drop(c) ==
  /\ joiner[c] # "off"
  /\ inbox[c] # <<>>
  /\ Fault(c)
  /\ inbox' = [inbox EXCEPT ![c] = <<>>]
  /\ UNCHANGED <<server, reply, joiner, answering, heard, host, webrtc, lost>>

-----------------------------------------------------------------------------
(* The server's handleJoin: enter the client or refuse it, notify the      *)
(* host, answer the client.                                                *)
EnterClient(c) ==
  /\ joiner[c] = "asked"
  /\ \/ At(server, c, "off", "entered") /\ NoFault /\ UNCHANGED inbox
     \/ /\ At(server, c, "off", "done") /\ Fault(c)
        /\ inbox' = [inbox EXCEPT ![c] = Append(@, "error")]
  /\ UNCHANGED <<reply, joiner, answering, heard, host, webrtc, lost>>

NotifyHost(c) ==
  /\ At(server, c, "entered", "notified")
  /\ ToHost(c, "peer-joined")
  /\ UNCHANGED <<client, offering, tables, webrtc, lost>>

Respond(c) ==
  /\ At(server, c, "notified", "done")
  /\ ToClient(c, "session-created")
  /\ UNCHANGED <<reply, joiner, answering, heard, host, webrtc, lost>>

-----------------------------------------------------------------------------
(* The join command, in the order of its steps.                            *)
Join(c) ==
  /\ At(joiner, c, "off", "asked")
  /\ UNCHANGED <<server, inbox, reply, answering, heard, host, webrtc, history>>

(* JoinSession returns with the first message that came, whatever it is,   *)
(* or after ten seconds.                                                   *)
JoinReturns(c) ==
  /\ \/ /\ reply[c] # None
        /\ At(joiner, c, "asked",
              IF reply[c] = "session-created" THEN "joined" ELSE "failed")
        /\ NoFault
     \/ At(joiner, c, "asked", "failed") /\ Fault(c)
  /\ UNCHANGED <<server, inbox, reply, answering, heard, host, webrtc, lost>>

MakePeer(c) ==
  /\ \/ At(joiner, c, "joined", "peer") /\ NoFault
     \/ At(joiner, c, "joined", "failed") /\ Fault(c)
  /\ UNCHANGED <<server, inbox, reply, answering, heard, host, webrtc, lost>>

(* OnMessage(offer), then OnMessage(candidate); then wait, without end, for *)
(* the peer to be connected.                                               *)
HearOffers(c) ==
  /\ At(joiner, c, "peer", "offers")
  /\ UNCHANGED <<server, inbox, reply, answering, heard, host, webrtc, history>>

HearCandidates(c) ==
  /\ At(joiner, c, "offers", "waiting")
  /\ UNCHANGED <<server, inbox, reply, answering, heard, host, webrtc, history>>

Serve(c) ==
  /\ link[c] = "up"
  /\ At(joiner, c, "waiting", "serving")
  /\ UNCHANGED <<server, inbox, reply, answering, heard, host, webrtc, history>>

-----------------------------------------------------------------------------
(* The signaling client's readLoop: start the handler if there is one, and *)
(* push the message to incoming, of which JoinSession takes the first.     *)
OfferHandler(c) == joiner[c] \in {"offers", "waiting", "serving"}
CandidateHandler(c) == joiner[c] \in {"waiting", "serving"}

ReadLoop(c) ==
  /\ inbox[c] # <<>>
  /\ LET m == Head(inbox[c]) IN
       /\ inbox' = [inbox EXCEPT ![c] = Tail(@)]
       /\ reply' = [reply EXCEPT ![c] = IF @ = None THEN m ELSE @]
       /\ \/ m = "offer" /\ OfferHandler(c) /\ At(answering, c, "none", "read")
             /\ UNCHANGED <<heard, lost>>
          \/ m \in Candidates /\ CandidateHandler(c)
             /\ heard' = heard \cup {<<c, m>>}
             /\ UNCHANGED <<answering, lost>>
          \/ m = "offer" /\ ~OfferHandler(c)
             /\ deaf' = deaf \cup {c}
             /\ UNCHANGED <<answering, heard, unheard, missed>>
          \/ m \in Candidates /\ ~CandidateHandler(c)
             /\ missed' = missed \cup {<<Host(c), m>>}
             /\ UNCHANGED <<answering, heard, unheard, deaf>>
          \/ m \in {"session-created", "error"}
             /\ UNCHANGED <<answering, heard, lost>>
  /\ UNCHANGED <<server, joiner, host, webrtc, faulty>>

(* The client's offer handler: SetRemoteDescription, CreateAnswer (which   *)
(* sets the local description, so that gathering starts), SendSDP.         *)
SetOffer(c) ==
  /\ \/ /\ At(answering, c, "read", "remote") /\ NoFault
        /\ remote' = remote \cup {Client(c)}
     \/ At(answering, c, "read", "over") /\ Fault(c) /\ UNCHANGED remote
  /\ UNCHANGED <<server, inbox, reply, joiner, heard, host, local, ice, lost>>

CreateAnswer(c) ==
  /\ \/ /\ At(answering, c, "remote", "local") /\ NoFault
        /\ local' = local \cup {Client(c)}
     \/ At(answering, c, "remote", "over") /\ Fault(c) /\ UNCHANGED local
  /\ UNCHANGED <<server, inbox, reply, joiner, heard, host, remote, ice, lost>>

(* Fault: the answer is made and not sent. *)
KeepAnswer(c) ==
  /\ At(answering, c, "local", "over")
  /\ UNCHANGED <<server, inbox, reply, joiner, heard, host, webrtc, history>>

SendAnswer(c) ==
  /\ At(answering, c, "local", "over")
  /\ ToHost(c, "answer")
  /\ UNCHANGED <<server, inbox, reply, joiner, heard, offering, tables, webrtc,
                 lost>>

(* AddICECandidate at an end: refused, and forgotten, before the end has   *)
(* its remote description.                                                 *)
AddICECandidate(to, from, k) ==
  IF to \in remote
  THEN accepted' = accepted \cup {<<to, k>>} /\ UNCHANGED missed
  ELSE missed' = missed \cup {<<from, k>>} /\ UNCHANGED accepted

ClientAddsCandidate(c, k) ==
  /\ <<c, k>> \in heard
  /\ heard' = heard \ {<<c, k>>}
  /\ AddICECandidate(Client(c), Host(c), k)
  /\ UNCHANGED <<server, inbox, reply, joiner, answering, host, local, remote,
                 gathered, link, unheard, deaf, faulty>>

-----------------------------------------------------------------------------
(* The run command prints the token, then registers the handlers for       *)
(* answers, candidates and, last, joins: a client whose join was heard     *)
(* finds them all.  A join that the host reads earlier is lost.            *)
HostListens ==
  /\ handlers = "none"
  /\ handlers' = "registered"
  /\ UNCHANGED <<server, client, toHost, offering, activePeers, activeProxies,
                 webrtc, history>>

HostMisses(c) ==
  /\ <<c, "peer-joined">> \in toHost
  /\ handlers = "none"
  /\ toHost' = toHost \ {<<c, "peer-joined">>}
  /\ unheard' = unheard \cup {c}
  /\ UNCHANGED <<server, client, offering, tables, webrtc, deaf, missed, faulty>>

(* The host's PeerJoined handler: forget what it has for this client id,   *)
(* NewPeer; CreateDataChannels and the proxy; CreateOffer; SendSDP.        *)
HostMakesPeer(c) ==
  /\ <<c, "peer-joined">> \in toHost
  /\ handlers = "registered"
  /\ toHost' = toHost \ {<<c, "peer-joined">>}
  /\ activeProxies' = activeProxies \ {c}
  /\ \/ /\ At(offering, c, "none", "peer") /\ NoFault
        /\ activePeers' = activePeers \cup {c}
     \/ /\ At(offering, c, "none", "over") /\ Fault(c)
        /\ activePeers' = activePeers \ {c}
  /\ UNCHANGED <<server, client, handlers, webrtc, lost>>

(* Faults: a proxy that stays when there are no data channels, one that is *)
(* not entered in the table, an offer that is not set locally.             *)
StartProxyFirst(c) ==
  /\ activeProxies' = activeProxies \cup {c}
  /\ \/ At(offering, c, "peer", "proxied") /\ NoFault /\ UNCHANGED activePeers
     \/ /\ At(offering, c, "peer", "over") /\ Fault(c)
        /\ activePeers' = activePeers \ {c}
  /\ UNCHANGED <<server, client, toHost, handlers, webrtc, lost>>

StartProxyOnly(c) ==
  /\ At(offering, c, "peer", "proxied")
  /\ UNCHANGED <<server, client, toHost, tables, webrtc, history>>

OfferWithoutLocal(c) ==
  /\ At(offering, c, "proxied", "local")
  /\ UNCHANGED <<server, client, toHost, tables, webrtc, history>>

HostStartsProxy(c) ==
  /\ \/ /\ At(offering, c, "peer", "proxied") /\ NoFault
        /\ activeProxies' = activeProxies \cup {c}
        /\ UNCHANGED activePeers
     \/ /\ At(offering, c, "peer", "over") /\ Fault(c)
        /\ activePeers' = activePeers \ {c}
        /\ UNCHANGED activeProxies
  /\ UNCHANGED <<server, client, toHost, handlers, webrtc, lost>>

CreateOffer(c) ==
  /\ \/ /\ At(offering, c, "proxied", "local") /\ NoFault
        /\ local' = local \cup {Host(c)}
     \/ At(offering, c, "proxied", "over") /\ Fault(c) /\ UNCHANGED local
  /\ UNCHANGED <<server, client, toHost, tables, remote, ice, lost>>

SendOffer(c) ==
  /\ At(offering, c, "local", "over")
  /\ ToClient(c, "offer")
  /\ UNCHANGED <<server, reply, joiner, answering, heard, toHost, tables,
                 webrtc, lost>>

(* The host's answer and candidate handlers look the peer up by client id. *)
HostTakesAnswer(c) ==
  /\ <<c, "answer">> \in toHost
  /\ toHost' = toHost \ {<<c, "answer">>}
  /\ remote' = IF c \in activePeers THEN remote \cup {Host(c)} ELSE remote
  /\ UNCHANGED <<server, client, offering, tables, local, ice, history>>

HostAddsCandidate(c, k) ==
  /\ <<c, k>> \in toHost
  /\ toHost' = toHost \ {<<c, k>>}
  /\ IF c \in activePeers
     THEN AddICECandidate(Host(c), Client(c), k)
     ELSE UNCHANGED <<accepted, missed>>
  /\ UNCHANGED <<server, client, offering, tables, local, remote, gathered,
                 link, unheard, deaf, faulty>>

-----------------------------------------------------------------------------
(* WebRTC: OnICECandidate runs for each candidate once the local           *)
(* description is set, beside the handler that set it.                     *)
HostGathers(c, k) ==
  /\ Host(c) \in local
  /\ <<Host(c), k>> \notin gathered
  /\ gathered' = gathered \cup {<<Host(c), k>>}
  /\ ToClient(c, k)
  /\ UNCHANGED <<server, reply, joiner, answering, heard, host, local, remote,
                 accepted, link, lost>>

ClientGathers(c, k) ==
  /\ Client(c) \in local
  /\ <<Client(c), k>> \notin gathered
  /\ gathered' = gathered \cup {<<Client(c), k>>}
  /\ ToHost(c, k)
  /\ UNCHANGED <<server, client, offering, tables, local, remote, accepted,
                 link, lost>>

Negotiated(c) ==
  /\ {Host(c), Client(c)} \subseteq local \cap remote
  /\ \E e \in {Host(c), Client(c)}, k \in Candidates : <<e, k>> \in accepted

LinkUp(c) ==
  /\ Negotiated(c)
  /\ link[c] \in {"new", "lost"}
  /\ link' = [link EXCEPT ![c] = "up"]
  /\ UNCHANGED <<server, client, host, local, remote, gathered, accepted,
                 history>>

LinkBreaks(c) ==
  /\ \/ link[c] = "up" /\ link' = [link EXCEPT ![c] = "lost"]
     \/ link[c] \in {"new", "lost"} /\ {Host(c), Client(c)} \subseteq remote
        /\ link' = [link EXCEPT ![c] = "failed"]
  /\ Fault(c)
  /\ UNCHANGED <<server, client, host, local, remote, gathered, accepted, lost>>

-----------------------------------------------------------------------------
(* What a goroutine, or the library, does by itself.                       *)
Step(c) ==
  \/ EnterClient(c) \/ NotifyHost(c) \/ Respond(c)
  \/ JoinReturns(c) \/ MakePeer(c) \/ HearOffers(c) \/ HearCandidates(c) \/ Serve(c)
  \/ ReadLoop(c) \/ SetOffer(c) \/ CreateAnswer(c) \/ SendAnswer(c)
  \/ HostMisses(c) \/ HostMakesPeer(c) \/ HostStartsProxy(c) \/ CreateOffer(c)
  \/ SendOffer(c) \/ HostTakesAnswer(c)
  \/ \E k \in Candidates :
       \/ ClientAddsCandidate(c, k) \/ HostAddsCandidate(c, k)
       \/ HostGathers(c, k) \/ ClientGathers(c, k)

Next ==
  \/ HostListens
  \/ \E c \in Clients :
        Step(c) \/ LinkUp(c) \/ Join(c) \/ Drop(c) \/ LinkBreaks(c)

Spec == Init /\ [][Next]_vars

(* Runnable goroutines run; a negotiated link comes up unless it breaks.   *)
(* Step(c) cannot go round in a circle, so that one condition does for all *)
(* of a client's goroutines.                                               *)
FairSpec ==
  /\ Spec
  /\ WF_vars(HostListens)
  /\ \A c \in Clients : WF_vars(Step(c)) /\ WF_vars(LinkUp(c))

-----------------------------------------------------------------------------
(* An answer finds an end that waits for one: the host applies it when it  *)
(* has set its own offer, which is the one the client answered             *)
(* (SetRemoteDescription refuses an answer in any other state).            *)
AnswerFindsOffer ==
  \A c \in Clients :
    Host(c) \in remote => /\ Host(c) \in local
                          /\ {Client(c)} \subseteq local \cap remote

(* When the join command starts to forward connections, the host has the   *)
(* peer they come from and a proxy that takes them (run.go:305-318 starts  *)
(* it before the offer is made).                                           *)
ServedByProxy ==
  \A c \in Clients :
    joiner[c] = "serving" => c \in activePeers \cap activeProxies

(* Every join ends: the command serves or reports an error, unless a fault *)
(* met it, the host read its join or it read the offer before the handler  *)
(* was there, or both ends were sent their candidates too early.           *)
JoinMissed(c) == c \in unheard
OfferMissed(c) == c \in deaf
CandidatesMissed(c) == {Host(c), Client(c)} \X Candidates \subseteq missed

JoinEnds ==
  \A c \in Clients :
    joiner[c] = "asked" ~>
      \/ joiner[c] \in {"serving", "failed"}
      \/ c \in faulty
      \/ JoinMissed(c) \/ OfferMissed(c) \/ CandidatesMissed(c)

(* docs/architecture.md:59-79: a client that joins is sent the offer,      *)
(* answers it and is connected.  The code does not keep this (see README). *)
JoinServes ==
  \A c \in Clients : joiner[c] = "asked" ~> joiner[c] = "serving"
=============================================================================
