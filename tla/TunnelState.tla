---------------------------- MODULE TunnelState ----------------------------
(***************************************************************************)
(* What the dashboard shows of a tunnel: the state and the statistics that *)
(* ConnectionManager (internal/state/connection.go) keeps for a session,   *)
(* written by the connection callbacks of the peers of `btunnel run`       *)
(* (cmd/run.go, internal/webrtc/peer.go) and by its statistics loop, and   *)
(* copied once a second by DashboardModel (internal/ui/dashboard.go).      *)
(* `btunnel join` sets the state as run does with one client; its own      *)
(* statistics loop, which ends with the first loss, is not modelled.       *)
(*                                                                         *)
(* The WebRTC library is external.  Two changes of one link are seconds    *)
(* apart, so the callbacks of one peer are taken to run in their order, as *)
(* the handler's assignment to isConnected expects; those of different     *)
(* peers run at the same time.  Links that recover report it, like the     *)
(* first connection.                                                       *)
(***************************************************************************)
EXTENDS Naturals, Sequences

CONSTANTS Clients,   \* clients that join the tunnel
          MaxEvents  \* bound: connects and losses of one link

ASSUME TunnelStateAssumption == MaxEvents \in Nat

VARIABLES
  tunnel,      \* TunnelInfo.State; "none" before AddTunnel
  stats,       \* TunnelInfo.Stats: the peers that were added up
  activePeers, \* run: clients with a peer
  up,          \* library: is the link of a client up?
  events,      \* library: how often it changed
  queue,       \* library: changes whose callback has not begun
  isConnected, \* Peer.isConnected
  callback,    \* the callback of a peer
  seen, due,   \* its Range over activePeers: visited, there at its start
  sampling,    \* the statistics loop
  sampled,     \* its Range: visited
  counted,     \* and those found connected
  dashboard    \* the dashboard's copy

library  == <<up, events, queue>>
ranges   == <<callback, seen, due>>
sample   == <<sampling, sampled, counted>>
vars     == <<tunnel, stats, activePeers, library, isConnected, ranges, sample, dashboard>>

States == {"none", "connecting", "connected", "disconnected"}

TypeOK ==
  /\ tunnel \in States
  /\ stats \subseteq Clients
  /\ activePeers \subseteq Clients
  /\ up \in [Clients -> BOOLEAN]
  /\ events \in [Clients -> 0 .. MaxEvents]
  /\ queue \in [Clients -> Seq(BOOLEAN)]
  /\ isConnected \in [Clients -> BOOLEAN]
  /\ callback \in [Clients -> {"idle", "raise", "range"}]
  /\ seen \in [Clients -> SUBSET Clients]
  /\ due \in [Clients -> SUBSET activePeers]
  /\ sampling \in BOOLEAN
  /\ sampled \subseteq activePeers
  /\ counted \subseteq sampled
  /\ dashboard \in [state : States, stats : SUBSET Clients]

Init ==
  /\ tunnel = "none"
  /\ stats = {}
  /\ activePeers = {}
  /\ up = [c \in Clients |-> FALSE]
  /\ events = [c \in Clients |-> 0]
  /\ queue = [c \in Clients |-> << >>]
  /\ isConnected = [c \in Clients |-> FALSE]
  /\ callback = [c \in Clients |-> "idle"]
  /\ seen = [c \in Clients |-> {}]
  /\ due = [c \in Clients |-> {}]
  /\ sampling = FALSE
  /\ sampled = {} /\ counted = {}
  /\ dashboard = [state |-> "none", stats |-> {}]

-----------------------------------------------------------------------------
(* A session was created; from now on clients may join it. *)
AddTunnel ==
  /\ tunnel = "none"
  /\ tunnel' = "connecting"
  /\ UNCHANGED <<stats, activePeers, library, isConnected, ranges, sample, dashboard>>

PeerJoined(c) ==
  /\ tunnel # "none"
  /\ c \notin activePeers
  /\ activePeers' = activePeers \cup {c}
  /\ UNCHANGED <<tunnel, stats, library, isConnected, ranges, sample, dashboard>>

(* The link of a client comes up, or is lost. *)
LinkChanges(c) ==
  /\ c \in activePeers
  /\ events[c] < MaxEvents
  /\ events' = [events EXCEPT ![c] = @ + 1]
  /\ up' = [up EXCEPT ![c] = ~@]
  /\ queue' = [queue EXCEPT ![c] = Append(@, ~up[c])]
  /\ UNCHANGED <<tunnel, stats, activePeers, isConnected, ranges, sample, dashboard>>

-----------------------------------------------------------------------------
(* SetState does nothing for a session it does not know. *)
SetState(s) == tunnel' = IF tunnel = "none" THEN tunnel ELSE s

(* Fault (this definition and the others so marked are slips the code does *)
(* not make; the specification does not use them): isConnected only ever   *)
(* becomes TRUE.                                                           *)
CallbackLatches(c) ==
  /\ callback[c] = "idle" /\ queue[c] # << >>
  /\ queue' = [queue EXCEPT ![c] = Tail(@)]
  /\ isConnected' = [isConnected EXCEPT ![c] = @ \/ Head(queue[c])]
  /\ callback' = [callback EXCEPT ![c] = IF Head(queue[c]) THEN "raise" ELSE "range"]
  /\ seen' = [seen EXCEPT ![c] = {}]
  /\ due' = [due EXCEPT ![c] = activePeers]
  /\ UNCHANGED <<tunnel, stats, activePeers, up, events, sample, dashboard>>

(* The callback of a peer, up to the end of its critical section. *)
Callback(c) ==
  /\ callback[c] = "idle" /\ queue[c] # << >>
  /\ queue' = [queue EXCEPT ![c] = Tail(@)]
  /\ isConnected' = [isConnected EXCEPT ![c] = Head(queue[c])]
  /\ callback' = [callback EXCEPT ![c] = IF Head(queue[c]) THEN "raise" ELSE "range"]
  /\ seen' = [seen EXCEPT ![c] = {}]
  /\ due' = [due EXCEPT ![c] = activePeers]
  /\ UNCHANGED <<tunnel, stats, activePeers, up, events, sample, dashboard>>

Raise(c) ==
  /\ callback[c] = "raise"
  /\ SetState("connected")
  /\ callback' = [callback EXCEPT ![c] = "idle"]
  /\ UNCHANGED <<stats, activePeers, library, isConnected, seen, due, sample, dashboard>>

(* One step of Range: a connected peer ends it, and the callback.  Peers   *)
(* stored since it began may be visited or not.                            *)
Visit(c, d) ==
  /\ callback[c] = "range"
  /\ d \in activePeers \ seen[c]
  /\ seen' = [seen EXCEPT ![c] = @ \cup {d}]
  /\ callback' = [callback EXCEPT ![c] = IF isConnected[d] THEN "idle" ELSE "range"]
  /\ UNCHANGED <<tunnel, stats, activePeers, library, isConnected, due, sample, dashboard>>

(* Fault: the state is left alone. *)
LowerNothing(c) ==
  /\ callback[c] = "range" /\ due[c] \subseteq seen[c]
  /\ callback' = [callback EXCEPT ![c] = "idle"]
  /\ UNCHANGED <<tunnel, stats, activePeers, library, isConnected, seen, due, sample, dashboard>>

(* No visited peer was connected. *)
Lower(c) ==
  /\ callback[c] = "range" /\ due[c] \subseteq seen[c]
  /\ SetState("disconnected")
  /\ callback' = [callback EXCEPT ![c] = "idle"]
  /\ UNCHANGED <<stats, activePeers, library, isConnected, seen, due, sample, dashboard>>

-----------------------------------------------------------------------------
(* Fault: the sums of the last round are kept. *)
StartSampleKeeps ==
  /\ tunnel # "none" /\ ~sampling
  /\ sampling' = TRUE
  /\ sampled' = {}
  /\ UNCHANGED <<tunnel, stats, activePeers, library, isConnected, ranges,
                 counted, dashboard>>

(* The statistics loop: every second, a Range that adds up the peers it    *)
(* finds connected, then UpdateStats.                                      *)
StartSample ==
  /\ tunnel # "none" /\ ~sampling
  /\ sampling' = TRUE
  /\ sampled' = {} /\ counted' = {}
  /\ UNCHANGED <<tunnel, stats, activePeers, library, isConnected, ranges, dashboard>>

Sample(d) ==
  /\ sampling
  /\ d \in activePeers \ sampled
  /\ sampled' = sampled \cup {d}
  /\ counted' = counted \cup (IF isConnected[d] THEN {d} ELSE {})
  /\ UNCHANGED <<tunnel, stats, activePeers, library, isConnected, ranges,
                 sampling, dashboard>>

(* Fault: what was counted is added to what was there. *)
UpdateStatsAdds ==
  /\ sampling /\ sampled = activePeers
  /\ stats' = stats \cup counted
  /\ sampling' = FALSE
  /\ UNCHANGED <<tunnel, activePeers, library, isConnected, ranges,
                 sampled, counted, dashboard>>

UpdateStats ==
  /\ sampling /\ sampled = activePeers
  /\ stats' = counted
  /\ sampling' = FALSE
  /\ UNCHANGED <<tunnel, activePeers, library, isConnected, ranges,
                 sampled, counted, dashboard>>

GetAllTunnels == [state |-> tunnel, stats |-> stats]

(* The dashboard's tick, when there is something new. *)
DashboardTick ==
  /\ dashboard' = GetAllTunnels
  /\ dashboard' # dashboard
  /\ UNCHANGED <<tunnel, stats, activePeers, library, isConnected, ranges, sample>>

-----------------------------------------------------------------------------
CallbackStep(c) ==
  \/ Callback(c) \/ Raise(c) \/ Lower(c)
  \/ \E d \in activePeers : Visit(c, d)

SampleStep ==
  \/ StartSample \/ UpdateStats
  \/ \E d \in activePeers : Sample(d)

Next ==
  \/ AddTunnel
  \/ \E c \in Clients : PeerJoined(c) \/ LinkChanges(c) \/ CallbackStep(c)
  \/ SampleStep
  \/ DashboardTick

Spec == Init /\ [][Next]_vars

(* The goroutines of the callbacks, of the statistics and of the dashboard *)
(* run; links do what they like.                                           *)
FairSpec ==
  /\ Spec
  /\ \A c \in Clients : WF_vars(CallbackStep(c))
  /\ WF_vars(SampleStep)
  /\ WF_vars(DashboardTick)

-----------------------------------------------------------------------------
(***************************************************************************)
(* Properties.                                                             *)
(***************************************************************************)
AtRest == \A c \in Clients : callback[c] = "idle" /\ queue[c] = << >>

(* When the callbacks are through, a tunnel that counts as connected has a *)
(* link that is up, in whatever order they raised, looked and lowered.     *)
(* The converse does not hold: a client may come up between another's last *)
(* look and its SetState.                                                  *)
ShownConnectedIsBacked ==
  (AtRest /\ tunnel = "connected") => \E c \in Clients : up[c]

(* So a dashboard does not go on showing "connected" when every client is  *)
(* gone for good.                                                          *)
OutageIsShown ==
  (<>[](\A c \in Clients : ~up[c])) => <>[](dashboard.state # "connected")

(* The statistics, unlike the state, always catch up with the links.       *)
StatsCatchUp ==
  \A U \in SUBSET Clients :
     (<>[]({c \in Clients : up[c]} = U)) => <>[](tunnel = "none" \/ dashboard.stats = U)
=============================================================================
