------------------------- MODULE TunnelStateProofs -------------------------
(***************************************************************************)
(* Proofs about TunnelState, for any clients: its types, and that a tunnel *)
(* left alone is shown connected only if a link is up.                     *)
(***************************************************************************)
EXTENDS TunnelState, SequenceTheorems, TLAPS

LEMMA TypeInit == Init => TypeOK
<1> SUFFICES ASSUME Init PROVE TypeOK
  OBVIOUS
<1>1. queue \in [Clients -> Seq(BOOLEAN)]
  <2>1. << >> \in Seq(BOOLEAN)
    OBVIOUS
  <2> QED BY <2>1 DEF Init
<1>2. events \in [Clients -> 0 .. MaxEvents]
  BY TunnelStateAssumption DEF Init
<1>3. dashboard \in [state : States, stats : SUBSET Clients]
  BY DEF Init, States
<1> QED BY <1>1, <1>2, <1>3 DEF Init, TypeOK, States

LEMMA TailIsBooleans ==
  ASSUME NEW s \in Seq(BOOLEAN), s # << >>
  PROVE  Head(s) \in BOOLEAN /\ Tail(s) \in Seq(BOOLEAN)
OBVIOUS

LEMMA SetStateTypes ==
  ASSUME TypeOK, NEW s \in States, SetState(s)
  PROVE  tunnel' \in States
BY DEF TypeOK, SetState

LEMMA TypePeerJoined ==
  ASSUME TypeOK, NEW c \in Clients, PeerJoined(c)
  PROVE  TypeOK'
<1>1. activePeers' \subseteq Clients /\ activePeers \subseteq activePeers'
  BY DEF TypeOK, PeerJoined
<1>2. due' \in [Clients -> SUBSET activePeers'] /\ sampled' \subseteq activePeers'
  BY <1>1 DEF TypeOK, PeerJoined, ranges, sample
<1> QED BY <1>1, <1>2 DEF TypeOK, PeerJoined, library, ranges, sample

LEMMA TypeLinkChanges ==
  ASSUME TypeOK, NEW c \in Clients, LinkChanges(c)
  PROVE  TypeOK'
<1>1. up' \in [Clients -> BOOLEAN]
  BY DEF TypeOK, LinkChanges
<1>2. events' \in [Clients -> 0 .. MaxEvents]
  BY TunnelStateAssumption DEF TypeOK, LinkChanges
<1>3. queue' \in [Clients -> Seq(BOOLEAN)]
  <2>1. queue[c] \in Seq(BOOLEAN) /\ (~up[c]) \in BOOLEAN
    BY DEF TypeOK
  <2>2. Append(queue[c], ~up[c]) \in Seq(BOOLEAN)
    BY <2>1
  <2> QED BY <2>2 DEF TypeOK, LinkChanges
<1> QED BY <1>1, <1>2, <1>3 DEF TypeOK, LinkChanges, ranges, sample

LEMMA TypeCallback ==
  ASSUME TypeOK, NEW c \in Clients, Callback(c)
  PROVE  TypeOK'
<1>1. Head(queue[c]) \in BOOLEAN /\ Tail(queue[c]) \in Seq(BOOLEAN)
  BY TailIsBooleans DEF TypeOK, Callback
<1>2. queue' \in [Clients -> Seq(BOOLEAN)]
  BY <1>1 DEF TypeOK, Callback
<1>3. isConnected' \in [Clients -> BOOLEAN]
  BY <1>1 DEF TypeOK, Callback
<1>4. callback' \in [Clients -> {"idle", "raise", "range"}]
  BY DEF TypeOK, Callback
<1>5. seen' \in [Clients -> SUBSET Clients] /\ due' \in [Clients -> SUBSET activePeers']
  BY DEF TypeOK, Callback
<1> QED BY <1>2, <1>3, <1>4, <1>5 DEF TypeOK, Callback, sample

LEMMA TypeCallbackRest ==
  ASSUME TypeOK, NEW c \in Clients,
         Raise(c) \/ Lower(c) \/ \E d \in activePeers : Visit(c, d)
  PROVE  TypeOK'
<1>1. callback' \in [Clients -> {"idle", "raise", "range"}]
  BY DEF TypeOK, Raise, Lower, Visit
<1>2. seen' \in [Clients -> SUBSET Clients]
  BY DEF TypeOK, Raise, Lower, Visit
<1>3. tunnel' \in States
  <2>1. CASE Raise(c) \/ Lower(c)
    BY <2>1, SetStateTypes DEF Raise, Lower, States
  <2>2. CASE \E d \in activePeers : Visit(c, d)
    BY <2>2 DEF TypeOK, Visit
  <2> QED BY <2>1, <2>2
<1>4. UNCHANGED <<stats, activePeers, library, isConnected, due, sample, dashboard>>
  BY DEF Raise, Lower, Visit
<1> QED BY <1>1, <1>2, <1>3, <1>4 DEF TypeOK, library, sample

LEMMA TypeSampleStep ==
  ASSUME TypeOK, SampleStep
  PROVE  TypeOK'
<1>1. CASE StartSample
  BY <1>1 DEF TypeOK, StartSample, library, ranges
<1>2. ASSUME NEW d \in activePeers, Sample(d) PROVE TypeOK'
  <2>1. sampled' \subseteq activePeers' /\ counted' \subseteq sampled'
    BY <1>2 DEF TypeOK, Sample
  <2> QED BY <1>2, <2>1 DEF TypeOK, Sample, library, ranges
<1>3. CASE UpdateStats
  BY <1>3 DEF TypeOK, UpdateStats, library, ranges
<1> QED BY <1>1, <1>2, <1>3 DEF SampleStep

LEMMA TypeStep == TypeOK /\ [Next]_vars => TypeOK'
<1> SUFFICES ASSUME TypeOK, [Next]_vars PROVE TypeOK'
  OBVIOUS
<1>1. CASE UNCHANGED vars
  BY <1>1 DEF TypeOK, vars, library, ranges, sample
<1>2. CASE AddTunnel
  BY <1>2 DEF TypeOK, AddTunnel, States, library, ranges, sample
<1>3. ASSUME NEW c \in Clients, PeerJoined(c) \/ LinkChanges(c) \/ CallbackStep(c)
      PROVE  TypeOK'
  BY <1>3, TypePeerJoined, TypeLinkChanges, TypeCallback, TypeCallbackRest DEF CallbackStep
<1>4. CASE SampleStep
  BY <1>4, TypeSampleStep
<1>5. CASE DashboardTick
  <2>1. dashboard' \in [state : States, stats : SUBSET Clients]
    BY <1>5 DEF TypeOK, DashboardTick, GetAllTunnels
  <2> QED BY <1>5, <2>1 DEF TypeOK, DashboardTick, library, ranges, sample
<1> QED BY <1>1, <1>2, <1>3, <1>4, <1>5 DEF Next

(* The tunnel's entry, the peers, the callbacks and the two loops keep     *)
(* their types: a Range visits peers only, statistics come from visits.    *)
THEOREM TunnelTypes == Spec => []TypeOK
BY TypeInit, TypeStep, PTL DEF Spec

-----------------------------------------------------------------------------
(***************************************************************************)
(* What the library told last is what will be in isConnected; a callback   *)
(* that raises does so for a connected peer; and a connected tunnel has a  *)
(* connected peer or a callback that is still looking for one.             *)
(***************************************************************************)
Told(c) ==
  IF queue[c] = << >> THEN isConnected[c] ELSE queue[c][Len(queue[c])]

TellsTruth   == \A c \in Clients : Told(c) = up[c]
RaisesForOne == \A c \in Clients : callback[c] = "raise" => isConnected[c]
Backed ==
  tunnel = "connected" => \E c \in Clients : isConnected[c] \/ callback[c] = "range"

BackedInv == TypeOK /\ TellsTruth /\ RaisesForOne /\ Backed

LEMMA BackedInit == Init => BackedInv
BY TypeInit DEF Init, BackedInv, TellsTruth, Told, RaisesForOne, Backed

LEMMA LastOfAppend ==
  ASSUME NEW s \in Seq(BOOLEAN), NEW b \in BOOLEAN
  PROVE  /\ Append(s, b) # << >>
         /\ Append(s, b)[Len(Append(s, b))] = b
OBVIOUS

LEMMA LastOfTail ==
  ASSUME NEW s \in Seq(BOOLEAN), s # << >>
  PROVE  IF Tail(s) = << >> THEN Head(s) = s[Len(s)]
         ELSE Tail(s)[Len(Tail(s))] = s[Len(s)]
<1>1. Len(s) \in Nat /\ Len(s) >= 1 /\ Head(s) = s[1]
  OBVIOUS
<1>2. CASE Len(s) = 1
  <2>1. Tail(s) \in Seq(BOOLEAN) /\ Len(Tail(s)) = 0
    BY <1>2
  <2>2. Tail(s) = << >>
    BY <2>1, EmptySeq
  <2> QED BY <1>1, <1>2, <2>2
<1>3. CASE Len(s) > 1
  <2>1. Len(Tail(s)) = Len(s) - 1 /\ Tail(s) # << >>
    BY <1>3
  <2>2. Tail(s)[Len(s) - 1] = s[Len(s)]
    BY <1>3
  <2> QED BY <2>1, <2>2
<1> QED BY <1>1, <1>2, <1>3

(* Only the library and the callbacks touch what is told. *)
LEMMA TruthKept ==
  ASSUME TellsTruth, UNCHANGED <<up, queue, isConnected>>
  PROVE  TellsTruth'
BY DEF TellsTruth, Told

LEMMA BackedLinkChanges ==
  ASSUME BackedInv, NEW c \in Clients, LinkChanges(c)
  PROVE  BackedInv'
<1>1. TypeOK /\ TypeOK'
  BY TypeLinkChanges DEF BackedInv
<1>2. queue[c] \in Seq(BOOLEAN) /\ (~up[c]) \in BOOLEAN
  BY <1>1 DEF TypeOK
<1>3. Told(c)' = up'[c]
  <2>1. queue'[c] = Append(queue[c], ~up[c]) /\ up'[c] = ~up[c]
    BY <1>1 DEF LinkChanges, TypeOK
  <2>2. queue'[c] # << >> /\ queue'[c][Len(queue'[c])] = ~up[c]
    BY <1>2, <2>1, LastOfAppend
  <2> QED BY <2>1, <2>2 DEF Told
<1>4. \A d \in Clients : d # c => Told(d)' = Told(d) /\ up'[d] = up[d]
  BY <1>1 DEF LinkChanges, Told, TypeOK
<1>5. TellsTruth'
  BY <1>3, <1>4 DEF BackedInv, TellsTruth
<1> QED BY <1>1, <1>5 DEF BackedInv, LinkChanges, RaisesForOne, Backed, ranges

LEMMA BackedCallback ==
  ASSUME BackedInv, NEW c \in Clients, Callback(c)
  PROVE  BackedInv'
<1>1. TypeOK /\ TypeOK'
  BY TypeCallback DEF BackedInv
<1>2. queue[c] \in Seq(BOOLEAN) /\ queue[c] # << >>
  BY <1>1 DEF TypeOK, Callback
<1>3. /\ queue'[c] = Tail(queue[c])
      /\ isConnected'[c] = Head(queue[c])
      /\ callback'[c] = IF Head(queue[c]) THEN "raise" ELSE "range"
  BY <1>1 DEF TypeOK, Callback
<1>4. \A d \in Clients : d # c =>
        queue'[d] = queue[d] /\ isConnected'[d] = isConnected[d] /\ callback'[d] = callback[d]
  BY <1>1 DEF TypeOK, Callback
<1>5. TellsTruth'
  <2>1. Told(c)' = Told(c)
    BY <1>2, <1>3, LastOfTail DEF Told
  <2>2. \A d \in Clients : Told(d)' = Told(d)
    BY <1>4, <2>1 DEF Told
  <2> QED BY <2>2 DEF BackedInv, Callback, TellsTruth
<1>6. RaisesForOne'
  BY <1>3, <1>4 DEF BackedInv, RaisesForOne
<1>7. Backed'
  <2>1. isConnected'[c] \/ callback'[c] = "range"
    BY <1>3
  <2> QED BY <2>1 DEF Backed
<1> QED BY <1>1, <1>5, <1>6, <1>7 DEF BackedInv

LEMMA BackedRaise ==
  ASSUME BackedInv, NEW c \in Clients, Raise(c)
  PROVE  BackedInv'
<1>1. TypeOK'
  BY TypeCallbackRest DEF BackedInv
<1>2. TellsTruth'
  BY TruthKept DEF BackedInv, Raise, library
<1>3. isConnected'[c]
  BY DEF BackedInv, Raise, RaisesForOne
<1>4. RaisesForOne'
  BY DEF BackedInv, Raise, RaisesForOne, TypeOK
<1> QED BY <1>1, <1>2, <1>3, <1>4 DEF BackedInv, Backed

LEMMA BackedVisit ==
  ASSUME BackedInv, NEW c \in Clients, NEW d \in activePeers, Visit(c, d)
  PROVE  BackedInv'
<1>1. TypeOK' /\ d \in Clients
  BY TypeCallbackRest DEF BackedInv, TypeOK
<1>2. TellsTruth'
  BY TruthKept DEF BackedInv, Visit, library
<1>3. RaisesForOne'
  BY DEF BackedInv, Visit, RaisesForOne, TypeOK
<1>4. Backed'
  <2>1. CASE isConnected[d]
    BY <1>1, <2>1 DEF Visit, Backed
  <2>2. CASE ~isConnected[d]
    <3>1. callback'[c] = "range"
      BY <2>2 DEF BackedInv, TypeOK, Visit
    <3> QED BY <3>1 DEF Backed
  <2> QED BY <2>1, <2>2
<1> QED BY <1>1, <1>2, <1>3, <1>4 DEF BackedInv

LEMMA BackedLower ==
  ASSUME BackedInv, NEW c \in Clients, Lower(c)
  PROVE  BackedInv'
<1>1. TypeOK'
  BY TypeCallbackRest DEF BackedInv
<1>2. TellsTruth'
  BY TruthKept DEF BackedInv, Lower, library
<1>3. RaisesForOne'
  BY DEF BackedInv, Lower, RaisesForOne, TypeOK
<1>4. tunnel' # "connected"
  BY DEF Lower, SetState
<1> QED BY <1>1, <1>2, <1>3, <1>4 DEF BackedInv, Backed

LEMMA BackedStep == BackedInv /\ [Next]_vars => BackedInv'
<1> SUFFICES ASSUME BackedInv, [Next]_vars PROVE BackedInv'
  OBVIOUS
<1>0. TypeOK' /\ (UNCHANGED <<up, queue, isConnected>> => TellsTruth')
  BY TypeStep, TruthKept DEF BackedInv
<1>1. CASE UNCHANGED vars \/ DashboardTick \/ SampleStep
  <2>1. UNCHANGED <<tunnel, up, queue, isConnected, callback>>
    BY <1>1 DEF vars, library, ranges, DashboardTick, SampleStep, StartSample, Sample, UpdateStats
  <2> QED BY <1>0, <2>1 DEF BackedInv, RaisesForOne, Backed
<1>2. CASE AddTunnel
  BY <1>0, <1>2 DEF BackedInv, AddTunnel, RaisesForOne, Backed, library, ranges
<1>3. ASSUME NEW c \in Clients, PeerJoined(c) PROVE BackedInv'
  BY <1>0, <1>3 DEF BackedInv, PeerJoined, RaisesForOne, Backed, library, ranges
<1>4. ASSUME NEW c \in Clients, LinkChanges(c) PROVE BackedInv'
  BY <1>4, BackedLinkChanges
<1>5. ASSUME NEW c \in Clients, CallbackStep(c) PROVE BackedInv'
  BY <1>5, BackedCallback, BackedRaise, BackedLower, BackedVisit DEF CallbackStep
<1> QED BY <1>1, <1>2, <1>3, <1>4, <1>5 DEF Next

(* Whatever the order in which the callbacks of any number of peers run,   *)
(* raise, look at one another and lower: once they are through, a tunnel   *)
(* that counts as connected has a link that is up.                         *)
THEOREM ConnectedTunnelHasALink == Spec => []ShownConnectedIsBacked
<1>1. BackedInv => ShownConnectedIsBacked
  <2> SUFFICES ASSUME BackedInv, AtRest, tunnel = "connected"
               PROVE  \E c \in Clients : up[c]
    BY DEF ShownConnectedIsBacked
  <2>1. PICK c \in Clients : isConnected[c] \/ callback[c] = "range"
    BY DEF BackedInv, Backed
  <2>2. isConnected[c] /\ queue[c] = << >>
    BY <2>1 DEF AtRest
  <2> QED BY <2>2 DEF BackedInv, TellsTruth, Told
<1> QED BY <1>1, BackedInit, BackedStep, PTL DEF Spec
=============================================================================
