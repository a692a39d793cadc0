------------------------- MODULE DataChannelProofs -------------------------
(***************************************************************************)
(* Proofs about DataChannel, for any messages and any capacity of the      *)
(* queue: its types, and, where no two messages share a request id, that   *)
(* no chunk is lost track of and that the channel implements               *)
(* MessageChannel.                                                         *)
(***************************************************************************)
EXTENDS DataChannel, SequenceTheorems, FiniteSetTheorems, TLAPS

-----------------------------------------------------------------------------
(***************************************************************************)
(* Queues, as the sets of what is in them.                                 *)
(***************************************************************************)
Elems(q) == {q[i] : i \in DOMAIN q}

LEMMA EmptyElems == Elems(<< >>) = {}
BY DEF Elems

LEMMA SeqElems ==
  ASSUME NEW S, NEW q \in Seq(S)
  PROVE  Elems(q) \subseteq S
BY ElementOfSeq, LenProperties DEF Elems

LEMMA AppendElems ==
  ASSUME NEW S, NEW q \in Seq(S), NEW e \in S
  PROVE  /\ Append(q, e) \in Seq(S)
         /\ Len(Append(q, e)) = Len(q) + 1
         /\ DOMAIN Append(q, e) = DOMAIN q \cup {Len(q) + 1}
         /\ Len(q) + 1 \notin DOMAIN q
         /\ \A i \in DOMAIN q : Append(q, e)[i] = q[i]
         /\ Append(q, e)[Len(q) + 1] = e
         /\ Elems(Append(q, e)) = Elems(q) \cup {e}
<1> DEFINE a == Append(q, e)
<1>1. /\ a \in Seq(S) /\ Len(a) = Len(q) + 1
      /\ \A i \in 1 .. Len(q) : a[i] = q[i]
      /\ a[Len(q) + 1] = e
  BY AppendProperties
<1>2. Len(q) \in Nat /\ DOMAIN q = 1 .. Len(q) /\ DOMAIN a = 1 .. Len(q) + 1
  BY <1>1, LenProperties
<1>3. DOMAIN a = DOMAIN q \cup {Len(q) + 1} /\ Len(q) + 1 \notin DOMAIN q
  BY <1>2
<1>4. \A i \in DOMAIN q : a[i] = q[i]
  BY <1>1, <1>2
<1>5. Elems(a) = Elems(q) \cup {e}
  <2> HIDE DEF a
  <2> QED BY <1>1, <1>3, <1>4 DEF Elems
<1> QED BY <1>1, <1>3, <1>4, <1>5

LEMMA TailElems ==
  ASSUME NEW S, NEW q \in Seq(S), q # << >>
  PROVE  /\ Head(q) \in S /\ Head(q) \in Elems(q) /\ Head(q) = q[1]
         /\ 1 \in DOMAIN q
         /\ Tail(q) \in Seq(S)
         /\ Len(Tail(q)) <= Len(q)
         /\ \A i \in DOMAIN Tail(q) :
              /\ i \in Nat \ {0}
              /\ i + 1 \in DOMAIN q
              /\ Tail(q)[i] = q[i + 1]
         /\ Elems(q) = {Head(q)} \cup Elems(Tail(q))
<1> DEFINE t == Tail(q)
<1>1. /\ Head(q) \in S /\ t \in Seq(S) /\ Len(t) = Len(q) - 1
      /\ \A i \in 1 .. Len(t) : t[i] = q[i + 1]
  BY HeadTailProperties
<1>2. /\ Len(q) \in Nat \ {0} /\ DOMAIN q = 1 .. Len(q)
      /\ DOMAIN t = 1 .. Len(q) - 1
  BY <1>1, LenProperties, EmptySeq
<1>3. Head(q) = q[1]
  OBVIOUS
<1>4. \A i \in DOMAIN t : i \in Nat \ {0} /\ i + 1 \in DOMAIN q /\ t[i] = q[i + 1]
  BY <1>1, <1>2
<1>5. \A i \in DOMAIN q : q[i] \in {Head(q)} \cup Elems(t)
  <2> SUFFICES ASSUME NEW i \in DOMAIN q PROVE q[i] \in {Head(q)} \cup Elems(t)
    OBVIOUS
  <2>1. CASE i = 1
    BY <2>1, <1>3
  <2>2. CASE i # 1
    <3>1. i - 1 \in DOMAIN t /\ i \in Nat
      BY <2>2, <1>2
    <3>2. t[i - 1] = q[i]
      BY <3>1, <1>4
    <3> QED BY <3>1, <3>2 DEF Elems
  <2> QED BY <2>1, <2>2
<1>6. {Head(q)} \cup Elems(t) \subseteq Elems(q)
  BY <1>2, <1>3, <1>4 DEF Elems
<1>7. Elems(q) \subseteq {Head(q)} \cup Elems(t)
  BY <1>5 DEF Elems
<1>8. Elems(q) = {Head(q)} \cup Elems(t) /\ Head(q) \in Elems(q)
  BY <1>6, <1>7
<1>9. 1 \in DOMAIN q /\ Len(t) <= Len(q)
  BY <1>1, <1>2
<1> QED BY <1>1, <1>3, <1>4, <1>8, <1>9

-----------------------------------------------------------------------------
(***************************************************************************)
(* Chunks.                                                                 *)
(***************************************************************************)
LEMMA ChunkCount ==
  ASSUME NEW m \in Messages
  PROVE  /\ TotalChunks(m) \in Nat \ {0}
         /\ 0 \in Chunks(m)
         /\ Chunks(m) \subseteq Nat
<1>1. Size[m] \in Nat \ {0} /\ MaxPayload \in Nat \ {0}
  BY MessagesAssumption
<1>2. \A s, p \in Nat \ {0} : (s + p - 1) \div p \in Nat \ {0}
  OBVIOUS
<1>3. TotalChunks(m) \in Nat \ {0}
  BY <1>1, <1>2 DEF TotalChunks
<1> QED BY <1>3 DEF Chunks

LEMMA FrameFields ==
  ASSUME NEW m \in Messages, NEW i \in Chunks(m)
  PROVE  /\ Frame(m, i) \in Frames
         /\ Frame(m, i).id = IdOf[m]
         /\ Frame(m, i).index = i
         /\ Frame(m, i).total = TotalChunks(m)
         /\ Frame(m, i).payload = Payload(m, i)
         /\ Payload(m, i) \in Payloads
         /\ Payload(m, i).msg = m
         /\ IdOf[m] \in Ids /\ IdOf[m] # 0
         /\ Frame(m, i) # Ping
<1>1. IdOf[m] \in Nat \ {0}
  BY MessagesAssumption
<1>2. Frame(m, i) \in Frames /\ Payload(m, i) \in Payloads /\ IdOf[m] \in Ids
  BY DEF Frames, Payloads, Ids
<1>3. Frame(m, i).id = IdOf[m] /\ Frame(m, i).payload = Payload(m, i)
      /\ Frame(m, i).index = i /\ Frame(m, i).total = TotalChunks(m)
  BY DEF Frame
<1>4. Payload(m, i).msg = m
  BY DEF Payload
<1> QED BY <1>1, <1>2, <1>3, <1>4 DEF Ping

LEMMA FrameCases ==
  ASSUME NEW f \in Frames, f # Ping
  PROVE  \E m \in Messages : \E i \in Chunks(m) : f = Frame(m, i)
BY DEF Frames

LEMMA PingFields == Ping \in Frames /\ Ping.id = 0
BY DEF Frames, Ping

-----------------------------------------------------------------------------
(***************************************************************************)
(* Types.  The buffers and the messages are records over partial functions *)
(* of payloads, which also makes delivered a sequence.                     *)
(***************************************************************************)
Parts   == UNION {[I -> Payloads] : I \in SUBSET Nat}
Buffers == [total : Nat, received : Parts]
Wholes  == [id : Ids, data : Parts]

TypeInv ==
  /\ open \in BOOLEAN
  /\ DOMAIN next = Messages
  /\ \A m \in Messages : next[m] \in 0 .. TotalChunks(m)
  /\ failed \subseteq Messages
  /\ net \subseteq Frames
  /\ incoming \in Seq(Frames)
  /\ Len(incoming) <= QueueCap
  /\ receiver \in {"up", "closed", "panicked"}
  /\ DOMAIN reassembly = Ids
  /\ \A r \in Ids : reassembly[r] = None \/ reassembly[r] \in Buffers
  /\ pending = None \/ pending \in Wholes
  /\ delivered \in Seq(Wholes)
  /\ lost \subseteq Messages

LEMMA TypeInvOK == TypeInv => TypeOK
<1>1. ASSUME NEW b \in Buffers PROVE IsBuffer(b)
  BY DEF Buffers, Parts, IsBuffer
<1>2. ASSUME NEW d \in Wholes PROVE IsMessage(d)
  BY DEF Wholes, Parts, IsMessage
<1>3. TypeInv => \A i \in DOMAIN delivered : delivered[i] \in Wholes
  BY ElementOfSeq, LenProperties DEF TypeInv
<1> QED BY <1>1, <1>2, <1>3 DEF TypeInv, TypeOK

LEMMA TypeInit == Init => TypeInv
<1> SUFFICES ASSUME Init PROVE TypeInv
  OBVIOUS
<1>1. \A m \in Messages : next[m] \in 0 .. TotalChunks(m)
  BY ChunkCount DEF Init
<1>2. << >> \in Seq(Frames) /\ << >> \in Seq(Wholes) /\ Len(<< >>) = 0
  BY EmptySeq
<1>3. \A r \in Ids : reassembly[r] = None
  BY DEF Init
<1> QED BY <1>1, <1>2, <1>3, MessagesAssumption DEF Init, TypeInv

LEMMA MessageOfType == ASSUME NEW f PROVE MessageOf(f) \subseteq Messages
BY DEF MessageOf

LEMMA TypeSend ==
  ASSUME TypeInv, NEW m \in Messages, SendChunk(m)
  PROVE  TypeInv'
<1>1. next[m] \in Chunks(m) /\ Frame(m, next[m]) \in Frames
  BY FrameFields DEF SendChunk
<1>2. next[m] + 1 \in 0 .. TotalChunks(m)
  BY <1>1, ChunkCount DEF Chunks
<1>3. CASE open
  <2>1. /\ net' = net \cup {Frame(m, next[m])}
        /\ next' = [next EXCEPT ![m] = @ + 1]
        /\ UNCHANGED <<failed, lost>>
    BY <1>3 DEF SendChunk
  <2>2. /\ DOMAIN next' = Messages
        /\ \A n \in Messages : next'[n] \in 0 .. TotalChunks(n)
    BY <2>1, <1>2 DEF TypeInv
  <2> QED BY <2>1, <2>2, <1>1 DEF TypeInv, SendChunk, reassembler
<1>4. CASE ~open
  BY <1>4 DEF TypeInv, SendChunk, reassembler
<1> QED BY <1>3, <1>4

LEMMA TypeArrive ==
  ASSUME TypeInv, NEW f \in net, Arrive(f)
  PROVE  TypeInv'
<1>1. f \in Frames
  BY DEF TypeInv
<1>2. CASE Len(incoming) < QueueCap
  <2>1. incoming' = Append(incoming, f) /\ lost' = lost /\ net' = net \ {f}
    BY <1>2 DEF Arrive
  <2>2. incoming' \in Seq(Frames) /\ Len(incoming') = Len(incoming) + 1
    BY <2>1, <1>1, AppendElems DEF TypeInv
  <2>3. Len(incoming') <= QueueCap
    BY <2>2, <1>2, MessagesAssumption, LenProperties DEF TypeInv
  <2> QED BY <2>1, <2>2, <2>3 DEF TypeInv, Arrive, sender, reassembler
<1>3. CASE ~(Len(incoming) < QueueCap)
  BY <1>3, MessageOfType DEF TypeInv, Arrive, sender, reassembler
<1> QED BY <1>2, <1>3

(* What a chunk adds to its buffer, and what is made of a full one. *)
LEMMA PutType ==
  ASSUME NEW received \in Parts, NEW i \in Nat, NEW p \in Payloads
  PROVE  /\ Put(received, i, p) \in Parts
         /\ DOMAIN Put(received, i, p) = DOMAIN received \cup {i}
         /\ \A t : Assemble(Put(received, i, p), t) \in Parts
<1>1. PICK I \in SUBSET Nat : received \in [I -> Payloads]
  BY DEF Parts
<1> DEFINE q == Put(received, i, p)
<1>2. q \in [I \cup {i} -> Payloads]
  BY <1>1 DEF Put
<1>3. ASSUME NEW t PROVE Assemble(q, t) \in Parts
  <2> DEFINE J == {j \in DOMAIN q : j < t}
  <2>1. J \in SUBSET Nat
    BY <1>2
  <2>2. \A j \in J : q[j] \in Payloads
    BY <1>2
  <2>3. Assemble(q, t) \in [J -> Payloads]
    <3> HIDE DEF q
    <3> QED BY <2>2 DEF Assemble
  <2> QED BY <2>1, <2>3 DEF Parts
<1>4. q \in Parts
  BY <1>2 DEF Parts
<1> QED BY <1>1, <1>2, <1>3, <1>4

LEMMA EmptyPart == << >> \in Parts /\ DOMAIN << >> = {}
<1>1. << >> \in [{} -> Payloads]
  OBVIOUS
<1> QED BY <1>1 DEF Parts

LEMMA TypeProcess ==
  ASSUME TypeInv, ProcessIncoming
  PROVE  TypeInv'
<1> DEFINE f == Head(incoming)
<1>1. /\ f \in Frames
      /\ Tail(incoming) \in Seq(Frames) /\ Len(Tail(incoming)) <= Len(incoming)
  BY TailElems DEF TypeInv, ProcessIncoming
<1>2. /\ incoming' = Tail(incoming)
      /\ UNCHANGED <<open, next, failed, net, receiver, delivered, lost>>
  BY DEF ProcessIncoming, sender
<1>3. incoming' \in Seq(Frames) /\ Len(incoming') <= QueueCap
  BY <1>1, <1>2, MessagesAssumption, LenProperties DEF TypeInv
<1>4. SUFFICES /\ DOMAIN reassembly' = Ids
               /\ \A r \in Ids : reassembly'[r] = None \/ reassembly'[r] \in Buffers
               /\ pending' = None \/ pending' \in Wholes
  BY <1>2, <1>3 DEF TypeInv
<1>5. CASE f.id = 0
  BY <1>5 DEF ProcessIncoming, TypeInv, ProcessChunk
<1>6. CASE f.id # 0
  <2>1. PICK m \in Messages : \E i \in Chunks(m) : f = Frame(m, i)
    BY <1>1, <1>6, FrameCases, PingFields
  <2>2. /\ f.id \in Ids /\ f.index \in Nat /\ f.total \in Nat
        /\ f.payload \in Payloads
    BY <2>1, FrameFields, ChunkCount
  <2>3. CASE f.total = 1
    <3>1. /\ pending' = [id |-> f.id, data |-> [j \in {0} |-> f.payload]]
          /\ reassembly' = reassembly
      BY <1>6, <2>3 DEF ProcessIncoming
    <3>2. [j \in {0} |-> f.payload] \in Parts
      <4>1. [j \in {0} |-> f.payload] \in [{0} -> Payloads]
        BY <2>2
      <4>2. {0} \in SUBSET Nat
        OBVIOUS
      <4> HIDE DEF f
      <4> QED BY <4>1, <4>2 DEF Parts
    <3> QED BY <3>1, <3>2, <2>2 DEF Wholes, TypeInv
  <2>4. CASE f.total # 1
    <3> DEFINE b == BufferFor(f)
               received == Put(b.received, f.index, f.payload)
    <3>1. ProcessChunk(f)
      BY <1>6, <2>4 DEF ProcessIncoming
    <3>2. b \in Buffers
      <4>1. CASE reassembly[f.id] = None
        BY <4>1, <2>2, EmptyPart DEF BufferFor, Buffers
      <4>2. CASE reassembly[f.id] # None
        BY <4>2, <2>2 DEF BufferFor, TypeInv
      <4> QED BY <4>1, <4>2
    <3>3. b.total \in Nat /\ b.received \in Parts
      BY <3>2 DEF Buffers
    <3>4. received \in Parts /\ Assemble(received, b.total) \in Parts
      BY <3>3, <2>2, PutType
    <3>5. [total |-> b.total, received |-> received] \in Buffers
      BY <3>3, <3>4 DEF Buffers
    <3>6. [id |-> f.id, data |-> Assemble(received, b.total)] \in Wholes
      BY <3>4, <2>2 DEF Wholes
    <3>7. /\ \/ reassembly' = [reassembly EXCEPT ![f.id] = None]
             \/ reassembly' = [reassembly EXCEPT ![f.id] =
                   [total |-> b.total, received |-> received]]
          /\ \/ pending' = [id |-> f.id, data |-> Assemble(received, b.total)]
             \/ pending' = pending
      BY <3>1 DEF ProcessChunk
    <3> HIDE DEF f, b, received
    <3> QED BY <3>5, <3>6, <3>7, <2>2 DEF TypeInv
  <2> QED BY <2>3, <2>4
<1> QED BY <1>5, <1>6

LEMMA TypeDeliver ==
  ASSUME TypeInv, Deliver
  PROVE  TypeInv'
<1>1. delivered' \in Seq(Wholes)
  BY AppendElems DEF TypeInv, Deliver
<1> QED BY <1>1 DEF TypeInv, Deliver, sender

LEMMA TypeStep == TypeInv /\ [Next]_vars => TypeInv'
<1> SUFFICES ASSUME TypeInv, [Next]_vars PROVE TypeInv'
  OBVIOUS
<1>1. CASE \E m \in Messages : SendChunk(m)
  BY <1>1, TypeSend
<1>2. CASE Heartbeat
  BY <1>2, PingFields DEF TypeInv, Heartbeat, sender, reassembler
<1>3. CASE Disconnect
  BY <1>3 DEF TypeInv, Disconnect, sender, reassembler
<1>4. CASE \E f \in net : LoseFrame(f)
  BY <1>4, MessageOfType DEF TypeInv, LoseFrame, sender, reassembler
<1>5. CASE \E f \in net : Arrive(f)
  BY <1>5, TypeArrive
<1>6. CASE \E f \in net : ArriveClosed(f)
  BY <1>6 DEF TypeInv, ArriveClosed, sender, reassembler
<1>7. CASE Close
  BY <1>7 DEF TypeInv, Close, sender, reassembler
<1>8. CASE ProcessIncoming
  BY <1>8, TypeProcess
<1>9. CASE Deliver
  BY <1>9, TypeDeliver
<1>10. CASE UNCHANGED vars
  BY <1>10 DEF TypeInv, vars, sender, reassembler
<1> QED BY <1>1, <1>2, <1>3, <1>4, <1>5, <1>6, <1>7, <1>8, <1>9, <1>10 DEF Next

(* The types of the channel, whatever the request ids are: the queue stays *)
(* within its capacity, and what ProcessIncoming holds and hands over is   *)
(* made of payloads that were sent (datachannel.go, ProcessIncoming).      *)
THEOREM ChannelTypes == Spec => []TypeOK
<1>1. Spec => []TypeInv
  BY TypeInit, TypeStep, PTL DEF Spec
<1> QED BY <1>1, TypeInvOK, PTL

-----------------------------------------------------------------------------
(***************************************************************************)
(* Where the chunks of a message are.                                      *)
(***************************************************************************)
Part(m, I)   == [i \in I |-> Payload(m, i)]
Buffer(m, I) == [total |-> TotalChunks(m), received |-> Part(m, I)]
Whole(m)     == [id |-> IdOf[m], data |-> Part(m, Chunks(m))]

NetOf(m)   == {i \in Chunks(m) : Frame(m, i) \in net}
QueueOf(m) == {i \in Chunks(m) : Frame(m, i) \in Elems(incoming)}
Got(m)     == IF reassembly[IdOf[m]] = None THEN {}
              ELSE DOMAIN reassembly[IdOf[m]].received

OnItsWay(m)    == NetOf(m) \cup QueueOf(m) \cup Got(m)
IsPending(m)   == pending = Whole(m)
IsDelivered(m) == Whole(m) \in Elems(delivered)
Complete(m)    == IsPending(m) \/ IsDelivered(m)
Sent(m)        == {i \in Chunks(m) : i < next[m]}

(* The buffer of m holds some chunks of m, and not all of them. *)
BufferInv(m) ==
  \/ reassembly[IdOf[m]] = None
  \/ \E I \in SUBSET Chunks(m) :
        I # {} /\ I # Chunks(m) /\ reassembly[IdOf[m]] = Buffer(m, I)

(* A chunk is on its way only once it is sent, and in one place; of a      *)
(* complete message none is, and it is held once.                          *)
PlaceInv(m) ==
  /\ OnItsWay(m) \subseteq Sent(m)
  /\ NetOf(m) \cap QueueOf(m) = {}
  /\ (NetOf(m) \cup QueueOf(m)) \cap Got(m) = {}
  /\ Complete(m) => next[m] = TotalChunks(m) /\ OnItsWay(m) = {}
  /\ ~(IsPending(m) /\ IsDelivered(m))

(* Of a message that lost no chunk all that were sent are on their way     *)
(* until it is complete; one that lost a chunk never is, because that      *)
(* chunk was sent and is nowhere, or was never sent and never will be.     *)
LossInv(m) ==
  /\ m \notin lost /\ ~Complete(m) => Sent(m) \subseteq OnItsWay(m)
  /\ m \in lost => /\ ~Complete(m)
                   /\ \E i \in Chunks(m) : /\ i < next[m] \/ m \in failed
                                           /\ i \notin OnItsWay(m)

MessageInv(m) == BufferInv(m) /\ PlaceInv(m) /\ LossInv(m)

(* Every element of S is at most once in the queue q. *)
Once(q, S) == \A k, l \in DOMAIN q : q[k] = q[l] /\ q[k] \in S => k = l

(* What is handed over is a whole message. *)
OutputInv ==
  /\ pending = None \/ \E m \in Messages : IsPending(m)
  /\ \A d \in Elems(delivered) : \E m \in Messages : d = Whole(m)

ChannelInv ==
  /\ TypeInv
  /\ OutputInv
  /\ Once(incoming, Frames \ {Ping})
  /\ Once(delivered, Wholes)
  /\ \A m \in Messages : MessageInv(m)

DistinctIds == \A m, n \in Messages : IdOf[m] = IdOf[n] => m = n

LEMMA FrameInjective ==
  ASSUME NEW m \in Messages, NEW i \in Chunks(m),
         NEW n \in Messages, NEW j \in Chunks(n), Frame(m, i) = Frame(n, j)
  PROVE  m = n /\ i = j
BY FrameFields

LEMMA WholeFields ==
  ASSUME NEW m \in Messages
  PROVE  /\ Whole(m) \in Wholes
         /\ Whole(m) # None
         /\ Whole(m).id = IdOf[m]
         /\ Whole(m).data = Part(m, Chunks(m))
         /\ DOMAIN Whole(m).data = Chunks(m)
         /\ \A i \in Chunks(m) : Whole(m).data[i] = Payload(m, i)
<1>1. Part(m, Chunks(m)) \in [Chunks(m) -> Payloads]
  BY FrameFields DEF Part
<1>2. Part(m, Chunks(m)) \in Parts
  BY <1>1, ChunkCount DEF Parts
<1>3. Whole(m) # None
  BY NoneAssumption DEF Whole, Part
<1>4. IdOf[m] \in Ids
  BY DEF Ids
<1> QED BY <1>1, <1>2, <1>3, <1>4 DEF Whole, Wholes, Part

LEMMA WholeInjective ==
  ASSUME NEW m \in Messages, NEW n \in Messages, Whole(m) = Whole(n)
  PROVE  m = n
<1>1. Whole(m).data[0] = Payload(m, 0) /\ Whole(n).data[0] = Payload(n, 0)
  BY WholeFields, ChunkCount
<1> QED BY <1>1, FrameFields, ChunkCount

LEMMA BufferFields ==
  ASSUME NEW m \in Messages, NEW I \in SUBSET Chunks(m)
  PROVE  /\ Buffer(m, I) # None
         /\ Buffer(m, I).total = TotalChunks(m)
         /\ Buffer(m, I).received = Part(m, I)
         /\ DOMAIN Part(m, I) = I
         /\ \A i \in I : Part(m, I)[i] = Payload(m, i)
<1>1. Buffer(m, I) # None
  BY NoneAssumption DEF Buffer, Part
<1> QED BY <1>1 DEF Buffer, Part

(* The buffer of a message holds exactly what Got says. *)
LEMMA BufferGot ==
  ASSUME NEW m \in Messages, BufferInv(m)
  PROVE  /\ Got(m) \subseteq Chunks(m) /\ Got(m) # Chunks(m)
         /\ reassembly[IdOf[m]] # None =>
              Got(m) # {} /\ reassembly[IdOf[m]] = Buffer(m, Got(m))
<1>1. CASE reassembly[IdOf[m]] = None
  BY <1>1, ChunkCount DEF Got
<1>2. CASE reassembly[IdOf[m]] # None
  <2>1. PICK I \in SUBSET Chunks(m) :
          I # {} /\ I # Chunks(m) /\ reassembly[IdOf[m]] = Buffer(m, I)
    BY <1>2 DEF BufferInv
  <2>2. Got(m) = I
    BY <1>2, <2>1, BufferFields DEF Got
  <2> QED BY <2>1, <2>2
<1> QED BY <1>1, <1>2

LEMMA ChannelInit == Init => ChannelInv
<1> SUFFICES ASSUME Init PROVE ChannelInv
  OBVIOUS
<1>1. TypeInv
  BY TypeInit
<1>2. /\ net = {} /\ incoming = << >> /\ delivered = << >>
      /\ pending = None /\ lost = {}
  BY DEF Init
<1>3. Elems(incoming) = {} /\ Elems(delivered) = {}
  BY <1>2, EmptyElems
<1>4. OutputInv
  BY <1>2, <1>3 DEF OutputInv
<1>5. Once(incoming, Frames \ {Ping}) /\ Once(delivered, Wholes)
  BY <1>2 DEF Once
<1>6. ASSUME NEW m \in Messages PROVE MessageInv(m)
  <2>1. next[m] = 0 /\ reassembly[IdOf[m]] = None
    BY FrameFields, ChunkCount DEF Init
  <2>2. OnItsWay(m) = {} /\ NetOf(m) = {} /\ QueueOf(m) = {} /\ Got(m) = {}
    BY <1>2, <1>3, <2>1 DEF OnItsWay, NetOf, QueueOf, Got
  <2>3. ~IsPending(m) /\ ~IsDelivered(m)
    BY <1>2, <1>3, WholeFields DEF IsPending, IsDelivered
  <2>4. Sent(m) = {}
    BY <2>1, ChunkCount DEF Sent
  <2> QED BY <1>2, <2>1, <2>2, <2>3, <2>4
          DEF MessageInv, BufferInv, PlaceInv, LossInv, Complete
<1> QED BY <1>1, <1>4, <1>5, <1>6 DEF ChannelInv

-----------------------------------------------------------------------------
(* A step that leaves all that concerns a message alone.                   *)
LEMMA KeepMessage ==
  ASSUME NEW m \in Messages, MessageInv(m),
         next'[m] = next[m],
         m \in failed' <=> m \in failed,
         m \in lost' <=> m \in lost,
         NetOf(m)' = NetOf(m), QueueOf(m)' = QueueOf(m),
         reassembly'[IdOf[m]] = reassembly[IdOf[m]],
         IsPending(m)' <=> IsPending(m),
         IsDelivered(m)' <=> IsDelivered(m)
  PROVE  MessageInv(m)'
<1>1. Got(m)' = Got(m)
  BY DEF Got
<1>2. OnItsWay(m)' = OnItsWay(m) /\ Sent(m)' = Sent(m)
  BY <1>1 DEF OnItsWay, Sent
<1>3. Complete(m)' <=> Complete(m)
  BY DEF Complete
<1>4. BufferInv(m)'
  BY DEF MessageInv, BufferInv
<1>5. PlaceInv(m)'
  BY <1>1, <1>2, <1>3 DEF MessageInv, PlaceInv
<1>6. LossInv(m)'
  BY <1>2, <1>3 DEF MessageInv, LossInv
<1> QED BY <1>4, <1>5, <1>6 DEF MessageInv

(* Steps that touch neither the queue nor what is made of it.              *)
LEMMA KeepReceived ==
  ASSUME ChannelInv, UNCHANGED <<incoming, reassembly, pending, delivered>>
  PROVE  /\ OutputInv'
         /\ Once(incoming, Frames \ {Ping})'
         /\ Once(delivered, Wholes)'
         /\ \A m \in Messages :
              /\ QueueOf(m)' = QueueOf(m) /\ Got(m)' = Got(m)
              /\ reassembly'[IdOf[m]] = reassembly[IdOf[m]]
              /\ IsPending(m)' <=> IsPending(m)
              /\ IsDelivered(m)' <=> IsDelivered(m)
BY DEF ChannelInv, OutputInv, Once, QueueOf, Got, IsPending, IsDelivered

LEMMA SendInv ==
  ASSUME ChannelInv, NEW m \in Messages, SendChunk(m)
  PROVE  ChannelInv'
<1> DEFINE c == next[m]
<1>1. TypeInv'
  BY TypeSend DEF ChannelInv
<1>2. /\ m \notin failed /\ c \in Chunks(m)
      /\ UNCHANGED <<incoming, reassembly, pending, delivered>>
  BY DEF SendChunk, reassembler
<1>3. SUFFICES ASSUME NEW n \in Messages PROVE MessageInv(n)'
  BY <1>1, <1>2, KeepReceived DEF ChannelInv
<1>4. MessageInv(n) /\ DOMAIN next = Messages
  BY DEF ChannelInv, TypeInv
<1>5. /\ QueueOf(n)' = QueueOf(n) /\ Got(n)' = Got(n)
      /\ reassembly'[IdOf[n]] = reassembly[IdOf[n]]
      /\ IsPending(n)' <=> IsPending(n)
      /\ IsDelivered(n)' <=> IsDelivered(n)
  BY <1>2, KeepReceived
<1>6. CASE open
  <2>1. /\ net' = net \cup {Frame(m, c)}
        /\ next' = [next EXCEPT ![m] = @ + 1]
        /\ UNCHANGED <<failed, lost>>
    BY <1>6 DEF SendChunk
  <2>2. CASE n # m
    <3>1. NetOf(n)' = NetOf(n)
      BY <2>1, <2>2, <1>2, FrameInjective DEF NetOf
    <3>2. next'[n] = next[n]
      BY <2>1, <2>2, <1>4
    <3> QED BY <2>1, <3>1, <3>2, <1>4, <1>5, KeepMessage
  <2>3. CASE n = m
    <3>1. NetOf(m)' = NetOf(m) \cup {c}
      BY <2>1, <1>2, FrameInjective DEF NetOf
    <3>2. next'[m] = c + 1 /\ c \in Nat /\ c < TotalChunks(m)
      BY <2>1, <1>2, <1>4, ChunkCount DEF Chunks
    <3>3. Sent(m)' = Sent(m) \cup {c} /\ c \notin Sent(m)
      BY <3>2, <1>2, ChunkCount DEF Sent
    <3>4. OnItsWay(m)' = OnItsWay(m) \cup {c}
      BY <2>3, <3>1, <1>5 DEF OnItsWay
    <3>5. c \notin OnItsWay(m) /\ ~Complete(m) /\ ~Complete(m)'
      BY <2>3, <1>4, <1>5, <3>2, <3>3 DEF MessageInv, PlaceInv, Complete
    <3>6. BufferInv(m)'
      BY <2>3, <1>4, <1>5 DEF MessageInv, BufferInv
    <3>7. PlaceInv(m)'
      BY <2>3, <1>4, <1>5, <3>1, <3>3, <3>4, <3>5
      DEF MessageInv, PlaceInv, OnItsWay, Complete
    <3>8. LossInv(m)'
      <4>1. m \notin lost' => Sent(m)' \subseteq OnItsWay(m)'
        BY <2>1, <2>3, <1>4, <3>3, <3>4, <3>5 DEF MessageInv, LossInv
      <4>2. ASSUME m \in lost'
            PROVE  \E i \in Chunks(m) : i < next'[m] /\ i \notin OnItsWay(m)'
        <5>1. PICK i \in Chunks(m) : i < next[m] /\ i \notin OnItsWay(m)
          BY <2>1, <2>3, <4>2, <1>2, <1>4 DEF MessageInv, LossInv
        <5>2. i # c /\ i < next'[m]
          BY <5>1, <3>2, ChunkCount
        <5> QED BY <5>1, <5>2, <3>4
      <4> QED BY <4>1, <4>2, <3>5 DEF LossInv
    <3> QED BY <2>3, <3>6, <3>7, <3>8 DEF MessageInv
  <2> QED BY <2>2, <2>3
<1>7. CASE ~open
  <2>1. /\ failed' = failed \cup {m} /\ lost' = lost \cup {m}
        /\ net' = net /\ next' = next
    BY <1>7 DEF SendChunk
  <2>2. NetOf(n)' = NetOf(n) /\ next'[n] = next[n]
    BY <2>1 DEF NetOf
  <2>3. CASE n # m
    BY <2>1, <2>2, <2>3, <1>4, <1>5, KeepMessage
  <2>4. CASE n = m
    <3>1. OnItsWay(m)' = OnItsWay(m) /\ Sent(m)' = Sent(m)
      BY <2>1, <2>2, <2>4, <1>5 DEF OnItsWay, Sent
    <3>2. c \notin OnItsWay(m) /\ ~Complete(m) /\ ~Complete(m)'
      <4>1. c \notin Sent(m) /\ c # TotalChunks(m)
        BY <1>2, ChunkCount DEF Sent, Chunks
      <4> QED BY <2>4, <1>4, <1>5, <4>1 DEF MessageInv, PlaceInv, Complete
    <3>3. BufferInv(m)'
      BY <2>4, <1>4, <1>5 DEF MessageInv, BufferInv
    <3>4. PlaceInv(m)'
      BY <2>2, <2>4, <1>4, <1>5, <3>1, <3>2 DEF MessageInv, PlaceInv, Complete
    <3>5. LossInv(m)'
      BY <2>1, <1>2, <3>1, <3>2 DEF LossInv
    <3> QED BY <2>4, <3>3, <3>4, <3>5 DEF MessageInv
  <2> QED BY <2>3, <2>4
<1> QED BY <1>6, <1>7 DEF SendChunk

(* A frame that leaves the network for nowhere.                            *)
LEMMA DropInv ==
  ASSUME ChannelInv, TypeInv', NEW f \in net,
         net' = net \ {f}, lost' = lost \cup MessageOf(f),
         UNCHANGED <<next, failed, incoming, reassembly, pending, delivered>>
  PROVE  ChannelInv'
<1>1. SUFFICES ASSUME NEW n \in Messages PROVE MessageInv(n)'
  BY KeepReceived DEF ChannelInv
<1>2. MessageInv(n) /\ f \in Frames
  BY DEF ChannelInv, TypeInv
<1>3. /\ QueueOf(n)' = QueueOf(n) /\ Got(n)' = Got(n)
      /\ reassembly'[IdOf[n]] = reassembly[IdOf[n]]
      /\ IsPending(n)' <=> IsPending(n)
      /\ IsDelivered(n)' <=> IsDelivered(n)
      /\ next'[n] = next[n]
  BY KeepReceived
<1>4. CASE f = Ping
  <2>1. NetOf(n)' = NetOf(n)
    BY <1>4, FrameFields DEF NetOf
  <2>2. lost' = lost
    BY <1>4 DEF MessageOf
  <2> QED BY <2>1, <2>2, <1>2, <1>3, KeepMessage
<1>5. CASE f # Ping
  <2>1. PICK m \in Messages : \E i \in Chunks(m) : f = Frame(m, i)
    BY <1>2, <1>5, FrameCases
  <2>2. PICK i \in Chunks(m) : f = Frame(m, i)
    BY <2>1
  <2>3. lost' = lost \cup {m}
    BY <1>5, <2>2, FrameFields DEF MessageOf
  <2>4. CASE n # m
    <3>1. NetOf(n)' = NetOf(n)
      BY <2>2, <2>4, FrameInjective DEF NetOf
    <3> QED BY <3>1, <2>3, <2>4, <1>2, <1>3, KeepMessage
  <2>5. CASE n = m
    <3>1. NetOf(m)' = NetOf(m) \ {i} /\ i \in NetOf(m)
      BY <2>2, FrameInjective DEF NetOf
    <3>2. i \in Sent(m) /\ ~Complete(m) /\ ~Complete(m)'
      BY <2>5, <1>2, <1>3, <3>1 DEF MessageInv, PlaceInv, OnItsWay, Complete
    <3>3. OnItsWay(m)' = OnItsWay(m) \ {i}
      BY <2>5, <1>2, <1>3, <3>1 DEF MessageInv, PlaceInv, OnItsWay
    <3>4. BufferInv(m)'
      BY <2>5, <1>2, <1>3 DEF MessageInv, BufferInv
    <3>5. Sent(m)' = Sent(m)
      BY DEF Sent
    <3>6. PlaceInv(m)'
      BY <2>5, <1>2, <1>3, <3>1, <3>2, <3>3, <3>5
      DEF MessageInv, PlaceInv, Complete
    <3>7. LossInv(m)'
      BY <2>3, <3>2, <3>3, <3>5 DEF LossInv, Sent
    <3> QED BY <2>5, <3>4, <3>6, <3>7 DEF MessageInv
  <2> QED BY <2>4, <2>5
<1> QED BY <1>4, <1>5

LEMMA AppendOnce ==
  ASSUME NEW T, NEW q \in Seq(T), NEW S, Once(q, S), NEW e \in T,
         e \in S => e \notin Elems(q)
  PROVE  Once(Append(q, e), S)
<1> DEFINE a == Append(q, e)
<1>1. /\ DOMAIN a = DOMAIN q \cup {Len(q) + 1}
      /\ \A i \in DOMAIN q : a[i] = q[i]
      /\ a[Len(q) + 1] = e
  BY AppendElems
<1>2. \A i \in DOMAIN q : q[i] \in Elems(q)
  BY DEF Elems
<1> HIDE DEF a
<1> QED BY <1>1, <1>2 DEF Once

LEMMA TailOnce ==
  ASSUME NEW T, NEW q \in Seq(T), NEW S, Once(q, S), q # << >>
  PROVE  /\ Once(Tail(q), S)
         /\ Head(q) \in S => Head(q) \notin Elems(Tail(q))
<1> DEFINE t == Tail(q)
<1>1. /\ Head(q) = q[1] /\ 1 \in DOMAIN q
      /\ \A i \in DOMAIN t :
           i \in Nat \ {0} /\ i + 1 \in DOMAIN q /\ t[i] = q[i + 1]
  BY TailElems
<1> HIDE DEF t
<1>2. Once(t, S)
  <2> SUFFICES ASSUME NEW k \in DOMAIN t, NEW l \in DOMAIN t,
                      t[k] = t[l], t[k] \in S
               PROVE  k = l
    BY DEF Once
  <2>1. k + 1 = l + 1
    BY <1>1 DEF Once
  <2> QED BY <2>1, <1>1
<1>3. Head(q) \in S => Head(q) \notin Elems(t)
  <2> SUFFICES ASSUME Head(q) \in S, NEW i \in DOMAIN t, t[i] = Head(q)
               PROVE  FALSE
    BY DEF Elems
  <2>1. i + 1 = 1
    BY <1>1 DEF Once
  <2> QED BY <2>1, <1>1
<1> QED BY <1>2, <1>3 DEF t

LEMMA ArriveInv ==
  ASSUME ChannelInv, NEW f \in net, Arrive(f)
  PROVE  ChannelInv'
<1>1. TypeInv' /\ f \in Frames /\ incoming \in Seq(Frames)
  BY TypeArrive DEF ChannelInv, TypeInv
<1>2. /\ net' = net \ {f}
      /\ UNCHANGED <<next, failed, reassembly, pending, delivered>>
  BY DEF Arrive, sender, reassembler
<1>3. CASE ~(Len(incoming) < QueueCap)
  BY <1>1, <1>2, <1>3, DropInv DEF Arrive
<1>4. CASE Len(incoming) < QueueCap
  <2>1. incoming' = Append(incoming, f) /\ lost' = lost
    BY <1>4 DEF Arrive
  <2>2. Elems(incoming') = Elems(incoming) \cup {f}
    BY <1>1, <2>1, AppendElems
  <2>3. f # Ping => f \notin Elems(incoming)
    <3> SUFFICES ASSUME f # Ping PROVE f \notin Elems(incoming)
      OBVIOUS
    <3>1. PICK m \in Messages : \E i \in Chunks(m) : f = Frame(m, i)
      BY <1>1, FrameCases
    <3>2. PICK i \in Chunks(m) : f = Frame(m, i)
      BY <3>1
    <3>3. i \in NetOf(m) /\ NetOf(m) \cap QueueOf(m) = {}
      BY <3>2 DEF NetOf, ChannelInv, MessageInv, PlaceInv
    <3> QED BY <3>2, <3>3 DEF QueueOf
  <2>4. Once(incoming', Frames \ {Ping})
    BY <1>1, <2>1, <2>3, AppendOnce DEF ChannelInv
  <2>5. OutputInv' /\ Once(delivered, Wholes)'
    BY <1>2 DEF ChannelInv, OutputInv, Once, IsPending
  <2>6. SUFFICES ASSUME NEW n \in Messages PROVE MessageInv(n)'
    BY <1>1, <2>4, <2>5 DEF ChannelInv
  <2>7. MessageInv(n)
    BY DEF ChannelInv
  <2>8. /\ Got(n)' = Got(n) /\ reassembly'[IdOf[n]] = reassembly[IdOf[n]]
        /\ IsPending(n)' <=> IsPending(n)
        /\ IsDelivered(n)' <=> IsDelivered(n)
        /\ Sent(n)' = Sent(n)
    BY <1>2 DEF Got, IsPending, IsDelivered, Sent
  <2>9. CASE \A i \in Chunks(n) : f # Frame(n, i)
    <3>1. NetOf(n)' = NetOf(n) /\ QueueOf(n)' = QueueOf(n)
      BY <1>2, <2>2, <2>9 DEF NetOf, QueueOf
    <3> QED BY <3>1, <1>2, <2>1, <2>7, <2>8, KeepMessage
  <2>10. ASSUME NEW i \in Chunks(n), f = Frame(n, i) PROVE MessageInv(n)'
    <3>1. NetOf(n)' = NetOf(n) \ {i} /\ i \in NetOf(n)
      BY <1>2, <2>10, FrameInjective DEF NetOf
    <3>2. QueueOf(n)' = QueueOf(n) \cup {i}
      BY <2>2, <2>10, FrameInjective DEF QueueOf
    <3>3. OnItsWay(n)' = OnItsWay(n)
      BY <2>8, <3>1, <3>2 DEF OnItsWay
    <3>4. BufferInv(n)'
      BY <1>2, <2>7 DEF MessageInv, BufferInv
    <3>5. PlaceInv(n)'
      BY <1>2, <2>7, <2>8, <3>1, <3>2, <3>3 DEF MessageInv, PlaceInv, Complete
    <3>6. LossInv(n)'
      BY <1>2, <2>1, <2>7, <2>8, <3>3 DEF MessageInv, LossInv, Complete
    <3> QED BY <3>4, <3>5, <3>6 DEF MessageInv
  <2> QED BY <2>9, <2>10
<1> QED BY <1>3, <1>4

LEMMA DeliverInv ==
  ASSUME ChannelInv, Deliver
  PROVE  ChannelInv'
<1>1. TypeInv' /\ delivered \in Seq(Wholes) /\ pending \in Wholes
  BY TypeDeliver DEF ChannelInv, TypeInv, Deliver
<1>2. /\ pending # None /\ delivered' = Append(delivered, pending) /\ pending' = None
      /\ UNCHANGED <<next, failed, net, incoming, reassembly, lost>>
  BY DEF Deliver, sender
<1>3. PICK m \in Messages : pending = Whole(m)
  BY <1>2 DEF ChannelInv, OutputInv, IsPending
<1>4. Elems(delivered') = Elems(delivered) \cup {Whole(m)}
  BY <1>1, <1>2, <1>3, AppendElems
<1>5. OutputInv'
  BY <1>2, <1>4 DEF OutputInv, ChannelInv
<1>6. Whole(m) \notin Elems(delivered)
  BY <1>3 DEF ChannelInv, MessageInv, PlaceInv, IsPending, IsDelivered
<1>7. Once(delivered', Wholes)
  BY <1>1, <1>2, <1>3, <1>6, AppendOnce DEF ChannelInv
<1>8. Once(incoming, Frames \ {Ping})'
  BY <1>2 DEF ChannelInv, Once
<1>9. ASSUME NEW n \in Messages PROVE MessageInv(n)'
  <2>1. MessageInv(n)
    BY DEF ChannelInv
  <2>2. /\ NetOf(n)' = NetOf(n) /\ QueueOf(n)' = QueueOf(n) /\ Got(n)' = Got(n)
        /\ OnItsWay(n)' = OnItsWay(n) /\ Sent(n)' = Sent(n)
    BY <1>2 DEF OnItsWay, NetOf, QueueOf, Got, Sent
  <2>3. ~IsPending(n)'
    BY <1>2, WholeFields DEF IsPending
  <2>4. IsDelivered(n)' <=> Complete(n)
    BY <1>3, <1>4, WholeInjective DEF IsPending, IsDelivered, Complete
  <2>5. Complete(n)' <=> Complete(n)
    BY <2>3, <2>4 DEF Complete
  <2>6. BufferInv(n)'
    BY <1>2, <2>1 DEF MessageInv, BufferInv
  <2>7. PlaceInv(n)'
    BY <1>2, <2>1, <2>2, <2>3, <2>5 DEF MessageInv, PlaceInv
  <2>8. LossInv(n)'
    BY <1>2, <2>1, <2>2, <2>5 DEF MessageInv, LossInv
  <2> QED BY <2>6, <2>7, <2>8 DEF MessageInv
<1> QED BY <1>1, <1>5, <1>7, <1>8, <1>9 DEF ChannelInv

-----------------------------------------------------------------------------
(***************************************************************************)
(* What ProcessIncoming makes of a chunk.                                  *)
(***************************************************************************)

(* A buffer is full when it holds every chunk.                             *)
LEMMA FullPart ==
  ASSUME NEW m \in Messages, NEW I \in SUBSET Chunks(m)
  PROVE  Cardinality(I) = TotalChunks(m) <=> I = Chunks(m)
<1>1. TotalChunks(m) \in Nat \ {0}
  BY ChunkCount
<1>2. IsFiniteSet(Chunks(m)) /\ Cardinality(Chunks(m)) = TotalChunks(m)
  BY <1>1, FS_Interval DEF Chunks
<1>3. Cardinality(I) = Cardinality(Chunks(m)) => I = Chunks(m)
  BY <1>2, FS_Subset
<1> QED BY <1>2, <1>3

LEMMA PutPart ==
  ASSUME NEW m \in Messages, NEW I \in SUBSET Chunks(m), NEW i \in Chunks(m)
  PROVE  Put(Part(m, I), i, Payload(m, i)) = Part(m, I \cup {i})
<1>1. DOMAIN Part(m, I) = I
  BY DEF Part
<1>2. \A j \in I : Part(m, I)[j] = Payload(m, j)
  BY DEF Part
<1> QED BY <1>1, <1>2 DEF Put, Part

LEMMA AssembleWhole ==
  ASSUME NEW m \in Messages
  PROVE  Assemble(Part(m, Chunks(m)), TotalChunks(m)) = Part(m, Chunks(m))
<1> DEFINE p == Part(m, Chunks(m))
<1>1. DOMAIN p = Chunks(m) /\ \A j \in Chunks(m) : p[j] = Payload(m, j)
  BY DEF Part
<1>2. {j \in DOMAIN p : j < TotalChunks(m)} = Chunks(m)
  BY <1>1, ChunkCount DEF Chunks
<1>3. Assemble(p, TotalChunks(m)) = [j \in Chunks(m) |-> Payload(m, j)]
  <2> HIDE DEF p
  <2> QED BY <1>1, <1>2 DEF Assemble
<1> QED BY <1>3 DEF Part

LEMMA EmptyBuffer ==
  ASSUME NEW m \in Messages
  PROVE  [total |-> TotalChunks(m), received |-> << >>] = Buffer(m, {})
<1>1. << >> = [j \in {} |-> Payload(m, j)]
  OBVIOUS
<1> QED BY <1>1 DEF Buffer, Part

LEMMA BufferForMessage ==
  ASSUME NEW m \in Messages, BufferInv(m), NEW i \in Chunks(m)
  PROVE  BufferFor(Frame(m, i)) = Buffer(m, Got(m))
<1>1. CASE reassembly[IdOf[m]] = None
  <2>1. Got(m) = {}
    BY <1>1 DEF Got
  <2> QED BY <1>1, <2>1, EmptyBuffer, FrameFields DEF BufferFor
<1>2. CASE reassembly[IdOf[m]] # None
  BY <1>2, BufferGot, FrameFields DEF BufferFor
<1> QED BY <1>1, <1>2

(* A chunk of a message of one chunk is the whole of it.  Another is put   *)
(* in the buffer of its message, or completes it.                          *)
LEMMA ProcessMessage ==
  ASSUME ChannelInv, ProcessIncoming,
         NEW m \in Messages, NEW i \in Chunks(m), Head(incoming) = Frame(m, i)
  PROVE  /\ \A r \in Ids : r # IdOf[m] => reassembly'[r] = reassembly[r]
         /\ \/ /\ Got(m) \cup {i} = Chunks(m)
               /\ pending' = Whole(m)
               /\ reassembly'[IdOf[m]] = None
            \/ /\ Got(m) \cup {i} # Chunks(m)
               /\ pending' = pending
               /\ reassembly'[IdOf[m]] = Buffer(m, Got(m) \cup {i})
<1> DEFINE f == Head(incoming)
           I == Got(m) \cup {i}
<1>1. /\ f.id = IdOf[m] /\ f.id # 0 /\ f.index = i
      /\ f.total = TotalChunks(m) /\ f.payload = Payload(m, i)
  BY FrameFields
<1>2. BufferInv(m) /\ IdOf[m] \in Ids /\ DOMAIN reassembly = Ids
  BY FrameFields DEF ChannelInv, MessageInv, TypeInv
<1>3. CASE f.total = 1
  <2>1. Chunks(m) = {0} /\ i = 0
    BY <1>1, <1>3 DEF Chunks
  <2>2. Got(m) = {} /\ I = Chunks(m)
    BY <1>2, <2>1, BufferGot
  <2>3. reassembly[IdOf[m]] = None
    BY <1>2, <2>2, BufferGot
  <2>4. /\ pending' = [id |-> f.id, data |-> [j \in {0} |-> f.payload]]
        /\ reassembly' = reassembly
    BY <1>1, <1>3 DEF ProcessIncoming
  <2>5. [j \in {0} |-> Payload(m, 0)] = [j \in {0} |-> Payload(m, j)]
    OBVIOUS
  <2>6. pending' = Whole(m)
    BY <1>1, <2>1, <2>4, <2>5 DEF Whole, Part
  <2> QED BY <2>2, <2>3, <2>4, <2>6
<1>4. CASE f.total # 1
  <2>1. ProcessChunk(f)
    BY <1>1, <1>4 DEF ProcessIncoming
  <2>2. BufferFor(f) = Buffer(m, Got(m)) /\ Got(m) \subseteq Chunks(m)
    BY <1>2, BufferForMessage, BufferGot
  <2>3. /\ BufferFor(f).total = TotalChunks(m)
        /\ Put(BufferFor(f).received, f.index, f.payload) = Part(m, I)
    BY <1>1, <2>2, BufferFields, PutPart
  <2>4. I \in SUBSET Chunks(m) /\ DOMAIN Part(m, I) = I
    BY <2>2, BufferFields
  <2>5. Cardinality(I) = TotalChunks(m) <=> I = Chunks(m)
    BY <2>4, FullPart
  <2>6. CASE I = Chunks(m)
    <3>1. /\ pending' = [id |-> f.id, data |-> Assemble(Part(m, I), TotalChunks(m))]
          /\ reassembly' = [reassembly EXCEPT ![f.id] = None]
      BY <2>1, <2>3, <2>4, <2>5, <2>6 DEF ProcessChunk
    <3>2. pending' = Whole(m)
      BY <1>1, <2>6, <3>1, AssembleWhole DEF Whole
    <3> QED BY <1>1, <1>2, <2>6, <3>1, <3>2
  <2>7. CASE I # Chunks(m)
    <3>1. /\ pending' = pending
          /\ reassembly' = [reassembly EXCEPT ![f.id] =
                [total |-> TotalChunks(m), received |-> Part(m, I)]]
      BY <2>1, <2>3, <2>4, <2>5, <2>7 DEF ProcessChunk
    <3> QED BY <1>1, <1>2, <2>7, <3>1 DEF Buffer
  <2> QED BY <2>6, <2>7
<1> QED BY <1>3, <1>4

LEMMA ProcessInv ==
  ASSUME DistinctIds, ChannelInv, ProcessIncoming
  PROVE  ChannelInv'
<1> DEFINE f == Head(incoming)
<1>1. TypeInv' /\ incoming \in Seq(Frames) /\ f \in Frames
  BY TypeProcess, TailElems DEF ChannelInv, TypeInv, ProcessIncoming
<1>2. /\ incoming # << >> /\ incoming' = Tail(incoming) /\ pending = None
      /\ UNCHANGED <<next, failed, net, delivered, lost>>
  BY DEF ProcessIncoming, sender
<1>3. /\ Once(incoming', Frames \ {Ping})
      /\ f # Ping => f \notin Elems(incoming')
      /\ Elems(incoming) = {f} \cup Elems(incoming')
  BY <1>1, <1>2, TailOnce, TailElems DEF ChannelInv
<1>4. Once(delivered, Wholes)'
  BY <1>2 DEF ChannelInv, Once
<1>5. \A n \in Messages : /\ NetOf(n)' = NetOf(n)
                          /\ IsDelivered(n)' <=> IsDelivered(n)
                          /\ ~IsPending(n)
                          /\ Sent(n)' = Sent(n)
                          /\ IdOf[n] \in Ids
  BY <1>2, WholeFields DEF NetOf, IsDelivered, IsPending, Sent, Ids
<1>6. CASE f = Ping
  <2>1. reassembly' = reassembly /\ pending' = pending
    BY <1>6, PingFields DEF ProcessIncoming, ProcessChunk
  <2>2. OutputInv'
    BY <1>2, <2>1 DEF ChannelInv, OutputInv
  <2>3. ASSUME NEW n \in Messages PROVE MessageInv(n)'
    <3>1. QueueOf(n)' = QueueOf(n)
      BY <1>3, <1>6, FrameFields DEF QueueOf
    <3>2. IsPending(n)' <=> IsPending(n)
      BY <2>1 DEF IsPending
    <3>3. MessageInv(n)
      BY DEF ChannelInv
    <3> QED BY <1>2, <1>5, <2>1, <3>1, <3>2, <3>3, KeepMessage
  <2> QED BY <1>1, <1>3, <1>4, <2>2, <2>3 DEF ChannelInv
<1>7. CASE f # Ping
  <2>1. PICK m \in Messages : \E i \in Chunks(m) : f = Frame(m, i)
    BY <1>1, <1>7, FrameCases
  <2>2. PICK i \in Chunks(m) : f = Frame(m, i)
    BY <2>1
  <2> DEFINE I == Got(m) \cup {i}
  <2>3. /\ \A r \in Ids : r # IdOf[m] => reassembly'[r] = reassembly[r]
        /\ \/ I = Chunks(m) /\ pending' = Whole(m) /\ reassembly'[IdOf[m]] = None
           \/ /\ I # Chunks(m) /\ pending' = pending
              /\ reassembly'[IdOf[m]] = Buffer(m, I)
    BY <2>2, ProcessMessage
  <2>4. OutputInv'
    BY <1>2, <2>3 DEF ChannelInv, OutputInv, IsPending
  <2>5. ASSUME NEW n \in Messages, n # m PROVE MessageInv(n)'
    <3>1. QueueOf(n)' = QueueOf(n)
      BY <1>3, <2>2, <2>5, FrameInjective DEF QueueOf
    <3>2. IdOf[n] # IdOf[m]
      BY <2>5 DEF DistinctIds
    <3>3. IsPending(n)' <=> IsPending(n)
      BY <1>2, <1>5, <2>3, <2>5, WholeInjective DEF IsPending
    <3>4. MessageInv(n) /\ reassembly'[IdOf[n]] = reassembly[IdOf[n]]
      BY <1>5, <2>3, <3>2 DEF ChannelInv
    <3> QED BY <1>2, <1>5, <3>1, <3>3, <3>4, KeepMessage
  <2>6. MessageInv(m)'
    <3>1. MessageInv(m)
      BY DEF ChannelInv
    <3>2. QueueOf(m)' = QueueOf(m) \ {i} /\ i \in QueueOf(m)
      BY <1>3, <1>7, <2>2, FrameInjective DEF QueueOf
    <3>3. i \in Sent(m) /\ ~Complete(m) /\ ~IsDelivered(m)'
          /\ i \notin NetOf(m) /\ i \notin Got(m)
      BY <1>5, <3>1, <3>2 DEF MessageInv, PlaceInv, OnItsWay, Complete
    <3>4. Got(m) \subseteq Chunks(m) /\ Got(m) \subseteq Sent(m)
      BY <3>1, BufferGot DEF MessageInv, PlaceInv, OnItsWay
    <3>5. CASE /\ I = Chunks(m) /\ pending' = Whole(m)
               /\ reassembly'[IdOf[m]] = None
      <4>1. Got(m)' = {}
        BY <3>5 DEF Got
      <4>2. Chunks(m) \subseteq Sent(m)
        BY <3>3, <3>4, <3>5
      <4>3. next[m] = TotalChunks(m)
        <5>1. TotalChunks(m) - 1 \in Sent(m) /\ TotalChunks(m) \in Nat \ {0}
          BY <4>2, ChunkCount DEF Chunks
        <5>2. next[m] \in 0 .. TotalChunks(m)
          BY DEF ChannelInv, TypeInv
        <5> QED BY <5>1, <5>2 DEF Sent
      <4>4. OnItsWay(m)' = {}
        <5>1. NetOf(m) \subseteq I /\ QueueOf(m) \subseteq I
          BY <3>5 DEF NetOf, QueueOf
        <5>2. NetOf(m) = {} /\ QueueOf(m) \ {i} = {}
          BY <5>1, <3>1, <3>3 DEF MessageInv, PlaceInv
        <5> QED BY <1>5, <3>2, <4>1, <5>2 DEF OnItsWay
      <4>5. m \notin lost
        BY <3>1, <3>2, <3>5 DEF MessageInv, LossInv, OnItsWay
      <4>6. BufferInv(m)'
        BY <3>5 DEF BufferInv
      <4>7. PlaceInv(m)'
        BY <1>2, <3>3, <4>3, <4>4 DEF PlaceInv, OnItsWay
      <4>8. LossInv(m)'
        BY <1>2, <3>5, <4>5 DEF LossInv, Complete, IsPending
      <4> QED BY <4>6, <4>7, <4>8 DEF MessageInv
    <3>6. CASE /\ I # Chunks(m) /\ pending' = pending
               /\ reassembly'[IdOf[m]] = Buffer(m, I)
      <4>1. Got(m)' = I
        BY <3>4, <3>6, BufferFields DEF Got
      <4>2. OnItsWay(m)' = OnItsWay(m)
        BY <1>5, <3>2, <4>1 DEF OnItsWay
      <4>3. ~Complete(m)'
        BY <1>5, <3>3, <3>6 DEF Complete, IsPending
      <4>4. BufferInv(m)'
        BY <3>4, <3>6 DEF BufferInv
      <4>5. PlaceInv(m)'
        BY <1>5, <3>1, <3>2, <3>3, <4>1, <4>2, <4>3
        DEF MessageInv, PlaceInv, Complete
      <4>6. LossInv(m)'
        BY <1>2, <1>5, <3>1, <3>3, <4>2, <4>3 DEF MessageInv, LossInv
      <4> QED BY <4>4, <4>5, <4>6 DEF MessageInv
    <3> QED BY <2>3, <3>5, <3>6
  <2> QED BY <1>1, <1>3, <1>4, <2>4, <2>5, <2>6 DEF ChannelInv
<1> QED BY <1>6, <1>7

LEMMA ChannelStep == DistinctIds /\ ChannelInv /\ [Next]_vars => ChannelInv'
<1> SUFFICES ASSUME DistinctIds, ChannelInv, [Next]_vars PROVE ChannelInv'
  OBVIOUS
<1>1. TypeInv'
  BY TypeStep DEF ChannelInv
<1>2. ASSUME UNCHANGED <<next, failed, incoming, reassembly, pending, delivered, lost>>,
             \A n \in Messages : NetOf(n)' = NetOf(n)
      PROVE  ChannelInv'
  <2> SUFFICES ASSUME NEW n \in Messages PROVE MessageInv(n)'
    BY <1>1, <1>2, KeepReceived DEF ChannelInv
  <2>1. MessageInv(n)
    BY DEF ChannelInv
  <2> QED BY <1>2, <2>1, KeepReceived, KeepMessage
<1>3. net' = net => \A n \in Messages : NetOf(n)' = NetOf(n)
  BY DEF NetOf
<1>4. CASE \E m \in Messages : SendChunk(m)
  BY <1>4, SendInv
<1>5. CASE Heartbeat
  <2>1. \A n \in Messages : NetOf(n)' = NetOf(n)
    BY <1>5, FrameFields DEF NetOf, Heartbeat
  <2> QED BY <1>2, <1>5, <2>1 DEF Heartbeat, sender, reassembler
<1>6. CASE Disconnect
  BY <1>2, <1>3, <1>6 DEF Disconnect, sender, reassembler
<1>7. CASE \E f \in net : LoseFrame(f)
  BY <1>1, <1>7, DropInv DEF LoseFrame, sender, reassembler
<1>8. CASE \E f \in net : Arrive(f)
  BY <1>8, ArriveInv
<1>9. CASE \E f \in net : ArriveClosed(f)
  BY <1>2, <1>3, <1>9 DEF ArriveClosed, sender, reassembler
<1>10. CASE Close
  BY <1>2, <1>3, <1>10 DEF Close, sender, reassembler
<1>11. CASE ProcessIncoming
  BY <1>11, ProcessInv
<1>12. CASE Deliver
  BY <1>12, DeliverInv
<1>13. CASE UNCHANGED vars
  BY <1>2, <1>3, <1>13 DEF vars, sender, reassembler
<1> QED BY <1>4, <1>5, <1>6, <1>7, <1>8, <1>9, <1>10, <1>11, <1>12, <1>13 DEF Next

LEMMA PayloadInjective ==
  ASSUME NEW m \in Messages, NEW i \in Chunks(m),
         NEW n \in Messages, NEW j \in Chunks(n), Payload(m, i) = Payload(n, j)
  PROVE  m = n /\ i = j
<1>1. m = n
  BY FrameFields
<1>2. i * MaxPayload = j * MaxPayload
  BY DEF Payload
<1>3. i \in Nat /\ j \in Nat /\ MaxPayload \in Nat \ {0}
  BY ChunkCount, MessagesAssumption
<1>4. \A a, b \in Nat, p \in Nat \ {0} : a * p = b * p => a = b
  OBVIOUS
<1> QED BY <1>1, <1>2, <1>3, <1>4

(* How often a queue holds what it holds at most once.                     *)
LEMMA OnceCount ==
  ASSUME NEW q, NEW S, Once(q, S), NEW e \in S
  PROVE  Cardinality({n \in DOMAIN q : q[n] = e}) =
           IF e \in Elems(q) THEN 1 ELSE 0
<1> DEFINE T == {n \in DOMAIN q : q[n] = e}
<1>1. CASE e \in Elems(q)
  <2>1. PICK n \in DOMAIN q : q[n] = e
    BY <1>1 DEF Elems
  <2>2. T = {n}
    BY <2>1 DEF Once
  <2> QED BY <1>1, <2>2, FS_Singleton
<1>2. CASE e \notin Elems(q)
  <2>1. T = {}
    BY <1>2 DEF Elems
  <2> QED BY <1>2, <2>1, FS_EmptySet
<1> QED BY <1>1, <1>2

LEMMA CountCopies ==
  ASSUME ChannelInv, NEW m \in Messages, NEW i \in Chunks(m)
  PROVE  Copies(m, i) = (IF i \in NetOf(m) THEN 1 ELSE 0)
                      + (IF i \in QueueOf(m) THEN 1 ELSE 0)
                      + (IF i \in Got(m) THEN 1 ELSE 0)
                      + (IF IsPending(m) THEN 1 ELSE 0)
                      + (IF IsDelivered(m) THEN 1 ELSE 0)
<1> DEFINE p == Payload(m, i)
<1>1. Cardinality({f \in net : f # Ping /\ f.payload = p}) =
        IF i \in NetOf(m) THEN 1 ELSE 0
  <2> DEFINE F == {f \in net : f # Ping /\ f.payload = p}
  <2>1. ASSUME NEW f \in F PROVE f = Frame(m, i)
    <3>1. f \in Frames
      BY DEF ChannelInv, TypeInv
    <3>2. PICK n \in Messages : \E j \in Chunks(n) : f = Frame(n, j)
      BY <3>1, FrameCases
    <3>3. PICK j \in Chunks(n) : f = Frame(n, j)
      BY <3>2
    <3> QED BY <3>3, FrameFields, PayloadInjective
  <2>2. Frame(m, i) \in net <=> Frame(m, i) \in F
    BY FrameFields
  <2>3. CASE i \in NetOf(m)
    <3>1. F = {Frame(m, i)}
      BY <2>1, <2>2, <2>3 DEF NetOf
    <3> QED BY <2>3, <3>1, FS_Singleton
  <2>4. CASE i \notin NetOf(m)
    <3>1. F = {}
      BY <2>1, <2>2, <2>4 DEF NetOf
    <3> QED BY <2>4, <3>1, FS_EmptySet
  <2> QED BY <2>3, <2>4
<1>2. Cardinality({n \in DOMAIN incoming : incoming[n] = Frame(m, i)}) =
        IF i \in QueueOf(m) THEN 1 ELSE 0
  <2>1. Once(incoming, Frames \ {Ping}) /\ Frame(m, i) \in Frames \ {Ping}
    BY FrameFields DEF ChannelInv
  <2>2. Cardinality({n \in DOMAIN incoming : incoming[n] = Frame(m, i)}) =
          IF Frame(m, i) \in Elems(incoming) THEN 1 ELSE 0
    BY <2>1, OnceCount
  <2> QED BY <2>2 DEF QueueOf
<1>3. Cardinality({r \in Ids : reassembly[r] # None /\
         \E j \in DOMAIN reassembly[r].received :
            reassembly[r].received[j] = p}) = IF i \in Got(m) THEN 1 ELSE 0
  <2> DEFINE R == {r \in Ids : reassembly[r] # None /\
                     \E j \in DOMAIN reassembly[r].received :
                        reassembly[r].received[j] = p}
  <2>1. ASSUME NEW n \in Messages
        PROVE  IdOf[n] \in R <=> n = m /\ i \in Got(m)
    <3>1. BufferInv(n)
      BY DEF ChannelInv, MessageInv
    <3>2. CASE reassembly[IdOf[n]] = None
      BY <3>2 DEF Got
    <3>3. CASE reassembly[IdOf[n]] # None
      <4> DEFINE c == reassembly[IdOf[n]].received
      <4>1. /\ DOMAIN c = Got(n) /\ Got(n) \subseteq Chunks(n)
            /\ \A j \in Got(n) : c[j] = Payload(n, j)
        BY <3>1, <3>3, BufferGot, BufferFields
      <4>2. (\E j \in DOMAIN c : c[j] = p) <=> n = m /\ i \in Got(m)
        <5> HIDE DEF c
        <5>1. ASSUME NEW j \in DOMAIN c, c[j] = p PROVE n = m /\ i \in Got(m)
          BY <4>1, <5>1, PayloadInjective
        <5>2. ASSUME n = m, i \in Got(m) PROVE i \in DOMAIN c /\ c[i] = p
          BY <4>1, <5>2
        <5> QED BY <5>1, <5>2
      <4>3. IdOf[n] \in Ids
        BY FrameFields DEF Ids
      <4> QED BY <3>3, <4>2, <4>3
    <3> QED BY <3>2, <3>3
  <2>2. \A r \in R : \E n \in Messages : r = IdOf[n]
    BY DEF Ids
  <2> HIDE DEF R
  <2>3. CASE i \in Got(m)
    <3>1. R = {IdOf[m]}
      BY <2>1, <2>2, <2>3
    <3> QED BY <2>3, <3>1, FS_Singleton DEF R
  <2>4. CASE i \notin Got(m)
    <3>1. R = {}
      BY <2>1, <2>2, <2>4
    <3> QED BY <2>4, <3>1, FS_EmptySet DEF R
  <2> QED BY <2>3, <2>4
<1>4. ASSUME NEW n \in Messages
      PROVE  (\E j \in DOMAIN Whole(n).data : Whole(n).data[j] = p) <=> n = m
  <2>1. ASSUME NEW j \in DOMAIN Whole(n).data, Whole(n).data[j] = p PROVE n = m
    BY <2>1, WholeFields, PayloadInjective
  <2>2. i \in DOMAIN Whole(m).data /\ Whole(m).data[i] = p
    BY WholeFields
  <2> QED BY <2>1, <2>2
<1>5. pending # None /\ (\E j \in DOMAIN pending.data : pending.data[j] = p)
        <=> IsPending(m)
  <2>1. CASE pending = None
    BY <2>1, WholeFields DEF IsPending
  <2>2. CASE pending # None
    <3>1. PICK n \in Messages : pending = Whole(n)
      BY <2>2 DEF ChannelInv, OutputInv, IsPending
    <3>2. IsPending(m) <=> n = m
      BY <3>1, WholeInjective DEF IsPending
    <3> QED BY <2>2, <3>1, <3>2, <1>4
  <2> QED BY <2>1, <2>2
<1>6. Cardinality({n \in DOMAIN delivered : \E j \in DOMAIN delivered[n].data :
         delivered[n].data[j] = p}) = IF IsDelivered(m) THEN 1 ELSE 0
  <2>1. ASSUME NEW n \in DOMAIN delivered
        PROVE  (\E j \in DOMAIN delivered[n].data : delivered[n].data[j] = p)
                 <=> delivered[n] = Whole(m)
    <3>1. delivered[n] \in Elems(delivered)
      BY DEF Elems
    <3>2. PICK k \in Messages : delivered[n] = Whole(k)
      BY <3>1 DEF ChannelInv, OutputInv
    <3> QED BY <3>2, <1>4, WholeInjective
  <2>2. {n \in DOMAIN delivered : \E j \in DOMAIN delivered[n].data :
           delivered[n].data[j] = p} = {n \in DOMAIN delivered : delivered[n] = Whole(m)}
    BY <2>1
  <2>3. Cardinality({n \in DOMAIN delivered : delivered[n] = Whole(m)}) =
          IF Whole(m) \in Elems(delivered) THEN 1 ELSE 0
    BY WholeFields, OnceCount DEF ChannelInv
  <2> QED BY <2>2, <2>3 DEF IsDelivered
<1> QED BY <1>1, <1>2, <1>3, <1>5, <1>6 DEF Copies

LEMMA InvConserves == ChannelInv => ChunksConserved
<1> SUFFICES ASSUME ChannelInv, NEW m \in Messages \ lost, NEW i \in Chunks(m)
             PROVE  Copies(m, i) = IF i < next[m] THEN 1 ELSE 0
  BY DEF ChunksConserved
<1>1. PlaceInv(m) /\ LossInv(m) /\ m \notin lost
  BY DEF ChannelInv, MessageInv
<1>2. CASE i < next[m]
  <2>1. CASE Complete(m)
    <3>1. i \notin NetOf(m) /\ i \notin QueueOf(m) /\ i \notin Got(m)
      BY <1>1, <2>1 DEF PlaceInv, OnItsWay
    <3>2. (IsPending(m) \/ IsDelivered(m)) /\ ~(IsPending(m) /\ IsDelivered(m))
      BY <1>1, <2>1 DEF PlaceInv, Complete
    <3>3. CASE IsPending(m)
      BY <1>2, <3>1, <3>2, <3>3, CountCopies
    <3>4. CASE IsDelivered(m)
      BY <1>2, <3>1, <3>2, <3>4, CountCopies
    <3> QED BY <3>2, <3>3, <3>4
  <2>2. CASE ~Complete(m)
    <3>1. i \in NetOf(m) \cup QueueOf(m) \cup Got(m)
      BY <1>1, <1>2, <2>2 DEF LossInv, Sent, OnItsWay
    <3>2. ~IsPending(m) /\ ~IsDelivered(m)
      BY <2>2 DEF Complete
    <3>3. CASE i \in NetOf(m)
      BY <1>1, <1>2, <3>2, <3>3, CountCopies DEF PlaceInv
    <3>4. CASE i \in QueueOf(m)
      BY <1>1, <1>2, <3>2, <3>4, CountCopies DEF PlaceInv
    <3>5. CASE i \in Got(m)
      BY <1>1, <1>2, <3>2, <3>5, CountCopies DEF PlaceInv
    <3> QED BY <3>1, <3>3, <3>4, <3>5
  <2> QED BY <2>1, <2>2
<1>3. CASE ~(i < next[m])
  <2>1. i \notin NetOf(m) /\ i \notin QueueOf(m) /\ i \notin Got(m)
    BY <1>1, <1>3 DEF PlaceInv, OnItsWay, Sent
  <2>2. ~Complete(m)
    <3>1. i # TotalChunks(m) /\ i < TotalChunks(m) /\ i \in Nat
      BY ChunkCount DEF Chunks
    <3> QED BY <1>1, <1>3, <3>1 DEF PlaceInv
  <2> QED BY <1>3, <2>1, <2>2, CountCopies DEF Complete
<1> QED BY <1>2, <1>3

LEMMA AlwaysChannelInv ==
  ASSUME DistinctIds
  PROVE  Spec => []ChannelInv
<1>1. ChannelInv /\ [Next]_vars => ChannelInv'
  BY ChannelStep
<1> QED BY <1>1, ChannelInit, PTL DEF Spec

(* No chunk is lost track of: until its message is handed over, a chunk    *)
(* that SendMessage has sent is in exactly one of the network, the queue   *)
(* of Peer.OnMessage and the reassembly buffer, unless its message lost a  *)
(* chunk (datachannel.go, SendMessage and ProcessIncoming).                *)
THEOREM ChunksAreConserved ==
  ASSUME DistinctIds
  PROVE  Spec => []ChunksConserved
BY AlwaysChannelInv, InvConserves, PTL

-----------------------------------------------------------------------------
(***************************************************************************)
(* What is handed over, byte by byte.                                      *)
(***************************************************************************)
LEMMA Division ==
  ASSUME NEW s \in Nat \ {0}, NEW p \in Nat \ {0}, NEW b \in 0 .. s - 1
  PROVE  /\ b \div p \in 0 .. ((s + p - 1) \div p) - 1
         /\ (b \div p) * p <= b
         /\ b < (b \div p + 1) * p
<1> DEFINE d == b \div p
           t == (s + p - 1) \div p
<1>1. d \in Nat /\ d * p <= b /\ b < (d + 1) * p
  OBVIOUS
<1>2. t \in Nat /\ s + p - 1 < (t + 1) * p
  OBVIOUS
<1>3. d * p < t * p
  <2>1. (t + 1) * p = t * p + p
    BY <1>2
  <2> HIDE DEF d, t
  <2>2. d * p \in Nat /\ t * p \in Nat
    BY <1>1, <1>2
  <2> QED BY <1>1, <1>2, <2>1, <2>2
<1>4. \A x, y \in Nat : x * p < y * p => x < y
  OBVIOUS
<1>5. d < t
  <2> HIDE DEF d, t
  <2> QED BY <1>1, <1>2, <1>3, <1>4
<1> QED BY <1>1, <1>2, <1>5

LEMMA WholeIsWhole ==
  ASSUME NEW m \in Messages
  PROVE  IsWhole(Whole(m), m)
<1>1. /\ Whole(m).id = IdOf[m] /\ DOMAIN Whole(m).data = Chunks(m)
      /\ \A i \in Chunks(m) : Whole(m).data[i] = Payload(m, i)
  BY WholeFields
<1>2. /\ Size[m] \in Nat \ {0} /\ MaxPayload \in Nat \ {0}
      /\ Chunks(m) \subseteq Nat
  BY MessagesAssumption, ChunkCount
<1>3. ASSUME NEW i \in Chunks(m)
      PROVE  /\ Payload(m, i).msg = m
             /\ Payload(m, i).from = i * MaxPayload
             /\ Payload(m, i).to \in Nat
             /\ Payload(m, i).to <= Size[m]
             /\ Payload(m, i).to <= (i + 1) * MaxPayload
             /\ \A b \in Nat : b < Size[m] /\ b < (i + 1) * MaxPayload
                                 => b < Payload(m, i).to
  <2>1. (i + 1) * MaxPayload \in Nat
    BY <1>2
  <2> QED BY <1>2, <2>1 DEF Payload
<1>4. ASSUME NEW b \in 0 .. Size[m] - 1
      PROVE  \E i \in Chunks(m) : Payload(m, i).from <= b /\ b < Payload(m, i).to
  <2> DEFINE i == b \div MaxPayload
  <2>1. i \in Chunks(m) /\ i * MaxPayload <= b /\ b < (i + 1) * MaxPayload
    BY <1>2, Division DEF Chunks, TotalChunks
  <2>2. b \in Nat /\ b < Size[m]
    BY <1>2
  <2> HIDE DEF i
  <2> QED BY <1>3, <2>1, <2>2
<1>5. ASSUME NEW i \in Chunks(m), NEW j \in Chunks(m), i < j
      PROVE  Payload(m, i).to <= Payload(m, j).from
  <2>1. (i + 1) * MaxPayload <= j * MaxPayload
    <3>1. \A x, y \in Nat, p \in Nat \ {0} : x <= y => x * p <= y * p
      OBVIOUS
    <3> QED BY <1>2, <1>5, <3>1
  <2>2. (i + 1) * MaxPayload \in Nat /\ j * MaxPayload \in Nat
    BY <1>2
  <2> QED BY <1>3, <2>1, <2>2
<1> DEFINE d == Whole(m)
<1> HIDE DEF d
<1>6. IsWhole(d, m)
  BY <1>1, <1>3, <1>4, <1>5 DEF IsWhole, d
<1> QED BY <1>6 DEF d

(* Whatever the order of arrival, the concurrent SendMessages, the drops   *)
(* and the sends that failed half-way, what ProcessIncoming hands over is  *)
(* every byte of one message, once and in order: as long as no two         *)
(* messages share a request id.                                            *)
THEOREM OnlyWholeMessages ==
  ASSUME DistinctIds
  PROVE  Spec => []WholeMessages
<1>1. ASSUME ChannelInv, NEW n \in DOMAIN delivered
      PROVE  \E m \in Messages : IsWhole(delivered[n], m)
  <2>1. delivered[n] \in Elems(delivered)
    BY DEF Elems
  <2> QED BY <1>1, <2>1, WholeIsWhole DEF ChannelInv, OutputInv
<1>2. ChannelInv => WholeMessages
  BY <1>1 DEF WholeMessages
<1> QED BY <1>2, AlwaysChannelInv, PTL

-----------------------------------------------------------------------------
(***************************************************************************)
(* The refinement of MessageChannel.                                       *)
(***************************************************************************)
HandedOver == [n \in DOMAIN delivered |-> SourceOf(delivered[n])]

LEMMA SourceOfWhole ==
  ASSUME NEW m \in Messages
  PROVE  SourceOf(Whole(m)) = m
<1> DEFINE i == CHOOSE j \in DOMAIN Whole(m).data : TRUE
<1>1. i \in Chunks(m)
  BY WholeFields, ChunkCount
<1>2. Whole(m).data[i].msg = m
  BY <1>1, WholeFields, FrameFields
<1> QED BY <1>2 DEF SourceOf

(* What the abstract channel has handed over is what is delivered here.    *)
LEMMA HandedMessages ==
  ASSUME ChannelInv, NEW m \in Messages
  PROVE  m \in Abstract!Handed <=> IsDelivered(m)
<1>1. ASSUME NEW n \in DOMAIN delivered
      PROVE  SourceOf(delivered[n]) = m <=> delivered[n] = Whole(m)
  <2>1. delivered[n] \in Elems(delivered)
    BY DEF Elems
  <2>2. PICK k \in Messages : delivered[n] = Whole(k)
    BY <2>1 DEF ChannelInv, OutputInv
  <2> QED BY <2>2, SourceOfWhole, WholeInjective
<1> QED BY <1>1 DEF Abstract!Handed, IsDelivered, Elems

LEMMA AbstractInit == Init => Abstract!Init
<1> SUFFICES ASSUME Init PROVE Abstract!Init
  OBVIOUS
<1>1. Accepted = {}
  BY DEF Init, Accepted
<1>2. HandedOver = << >>
  BY DEF Init, HandedOver
<1> QED BY <1>1, <1>2 DEF Abstract!Init, HandedOver

LEMMA AbstractStutter ==
  ASSUME UNCHANGED <<next, delivered, lost>>
  PROVE  UNCHANGED Abstract!vars
BY DEF Abstract!vars, Accepted

(* A message that loses a chunk is lost, if it was accepted.               *)
LEMMA AbstractLose ==
  ASSUME ChannelInv, NEW m \in Messages, ~IsDelivered(m),
         lost' = lost \cup {m}, UNCHANGED <<next, delivered>>
  PROVE  Abstract!Lose(m) \/ UNCHANGED Abstract!vars
<1>1. Accepted' = Accepted
  BY DEF Accepted
<1>2. HandedOver' = HandedOver
  BY DEF HandedOver
<1>3. CASE m \in Accepted
  <2>1. m \notin Abstract!Handed
    BY HandedMessages
  <2>2. (lost \cap Accepted)' = (lost \cap Accepted) \cup {m}
    BY <1>1, <1>3
  <2> QED BY <1>1, <1>2, <1>3, <2>1, <2>2 DEF Abstract!Lose, HandedOver
<1>4. CASE m \notin Accepted
  <2>1. (lost \cap Accepted)' = lost \cap Accepted
    BY <1>1, <1>4
  <2> QED BY <1>1, <1>2, <2>1 DEF Abstract!vars, HandedOver
<1> QED BY <1>3, <1>4

LEMMA AbstractSend ==
  ASSUME ChannelInv, NEW m \in Messages, SendChunk(m)
  PROVE  Abstract!Accept(m) \/ Abstract!Lose(m) \/ UNCHANGED Abstract!vars
<1>1. /\ m \notin failed /\ next[m] \in Chunks(m) /\ delivered' = delivered
      /\ DOMAIN next = Messages /\ PlaceInv(m) /\ LossInv(m)
  BY DEF SendChunk, reassembler, ChannelInv, TypeInv, MessageInv
<1>2. next[m] \in Nat /\ next[m] # TotalChunks(m)
  BY <1>1, ChunkCount DEF Chunks
<1>3. CASE open
  <2>1. next' = [next EXCEPT ![m] = @ + 1] /\ lost' = lost
    BY <1>3 DEF SendChunk
  <2>2. next'[m] = next[m] + 1 /\ \A n \in Messages : n # m => next'[n] = next[n]
    BY <1>1, <2>1
  <2>3. Accepted' = Accepted \cup {m}
    BY <1>2, <2>2 DEF Accepted
  <2>4. HandedOver' = HandedOver
    BY <1>1 DEF HandedOver
  <2>5. CASE next[m] = 0
    <3>1. m \notin Accepted
      BY <2>5 DEF Accepted
    <3>2. m \notin lost
      BY <1>1, <2>5, ChunkCount DEF LossInv
    <3>3. (lost \cap Accepted)' = lost \cap Accepted
      BY <2>1, <2>3, <3>2
    <3> QED BY <2>3, <2>4, <3>1, <3>3 DEF Abstract!Accept, HandedOver
  <2>6. CASE next[m] # 0
    <3>1. Accepted' = Accepted
      BY <1>2, <2>3, <2>6 DEF Accepted
    <3> QED BY <2>1, <2>4, <3>1 DEF Abstract!vars, HandedOver
  <2> QED BY <2>5, <2>6
<1>4. CASE ~open
  <2>1. lost' = lost \cup {m} /\ next' = next
    BY <1>4 DEF SendChunk
  <2>2. ~IsDelivered(m)
    BY <1>1, <1>2 DEF PlaceInv, Complete
  <2> QED BY <1>1, <2>1, <2>2, AbstractLose
<1> QED BY <1>3, <1>4

LEMMA AbstractDrop ==
  ASSUME ChannelInv, NEW f \in net,
         lost' = lost \cup MessageOf(f), UNCHANGED <<next, delivered>>
  PROVE  Abstract!Next \/ UNCHANGED Abstract!vars
<1>1. CASE f = Ping
  <2>1. lost' = lost
    BY <1>1 DEF MessageOf
  <2> QED BY <2>1, AbstractStutter
<1>2. CASE f # Ping
  <2>1. f \in Frames
    BY DEF ChannelInv, TypeInv
  <2>2. PICK m \in Messages : \E i \in Chunks(m) : f = Frame(m, i)
    BY <1>2, <2>1, FrameCases
  <2>3. PICK i \in Chunks(m) : f = Frame(m, i)
    BY <2>2
  <2>4. lost' = lost \cup {m}
    BY <1>2, <2>3, FrameFields DEF MessageOf
  <2>5. ~IsDelivered(m)
    BY <2>3 DEF ChannelInv, MessageInv, PlaceInv, OnItsWay, NetOf, Complete
  <2>6. Abstract!Lose(m) \/ UNCHANGED Abstract!vars
    BY <2>4, <2>5, AbstractLose
  <2> QED BY <2>6 DEF Abstract!Next
<1> QED BY <1>1, <1>2

(* What is put on output was accepted, was not handed over before and is   *)
(* not lost.                                                               *)
LEMMA AbstractDeliver ==
  ASSUME ChannelInv, Deliver
  PROVE  Abstract!Next
<1>1. /\ pending # None /\ delivered' = Append(delivered, pending)
      /\ UNCHANGED <<next, lost>>
      /\ delivered \in Seq(Wholes)
  BY DEF Deliver, sender, ChannelInv, TypeInv
<1>2. PICK m \in Messages : pending = Whole(m)
  BY <1>1 DEF ChannelInv, OutputInv, IsPending
<1>3. IsPending(m) /\ PlaceInv(m) /\ LossInv(m)
  BY <1>2 DEF ChannelInv, MessageInv, IsPending
<1>4. m \in Accepted
  BY <1>3, ChunkCount DEF PlaceInv, Complete, Accepted
<1>5. m \notin Abstract!Handed
  BY <1>3, HandedMessages DEF PlaceInv
<1>6. m \notin lost
  BY <1>3 DEF LossInv, Complete
<1>7. Accepted' = Accepted
  BY <1>1 DEF Accepted
<1>8. HandedOver' = Append(HandedOver, m)
  <2> DEFINE a == Append(delivered, pending)
             h == HandedOver
  <2>1. /\ DOMAIN a = 1 .. Len(delivered) + 1 /\ Len(delivered) \in Nat
        /\ \A i \in 1 .. Len(delivered) : a[i] = delivered[i]
        /\ a[Len(delivered) + 1] = Whole(m)
        /\ DOMAIN delivered = 1 .. Len(delivered)
    BY <1>1, <1>2, WholeFields, AppendElems, AppendProperties, LenProperties
  <2>2. HandedOver' = [n \in DOMAIN a |-> SourceOf(a[n])]
    BY <1>1 DEF HandedOver
  <2>3. /\ h = [n \in 1 .. Len(delivered) |-> SourceOf(delivered[n])]
        /\ h \in Seq({SourceOf(delivered[n]) : n \in DOMAIN delivered})
    BY <2>1 DEF HandedOver
  <2>4. Len(h) = Len(delivered)
    BY <2>1, <2>3
  <2>5. Append(h, m) = [n \in 1 .. Len(h) + 1 |-> IF n = Len(h) + 1 THEN m ELSE h[n]]
    BY <2>3
  <2>6. \A n \in 1 .. Len(delivered) + 1 :
          SourceOf(a[n]) = IF n = Len(h) + 1 THEN m ELSE h[n]
    BY <2>1, <2>3, <2>4, SourceOfWhole
  <2> HIDE DEF a, h
  <2>7. [n \in DOMAIN a |-> SourceOf(a[n])] = Append(h, m)
    BY <2>1, <2>4, <2>5, <2>6
  <2> QED BY <2>2, <2>7 DEF h
<1>9. (lost \cap Accepted)' = lost \cap Accepted
  BY <1>1, <1>7
<1>10. Abstract!HandOver(m)
  BY <1>4, <1>5, <1>6, <1>7, <1>8, <1>9 DEF Abstract!HandOver, HandedOver
<1> QED BY <1>10 DEF Abstract!Next

LEMMA AbstractStep ==
  ChannelInv /\ [Next]_vars => Abstract!Next \/ UNCHANGED Abstract!vars
<1> SUFFICES ASSUME ChannelInv, [Next]_vars
             PROVE  Abstract!Next \/ UNCHANGED Abstract!vars
  OBVIOUS
<1>1. CASE \E m \in Messages : SendChunk(m)
  BY <1>1, AbstractSend DEF Abstract!Next
<1>2. CASE Heartbeat
  BY <1>2, AbstractStutter DEF Heartbeat, sender, reassembler
<1>3. CASE Disconnect
  BY <1>3, AbstractStutter DEF Disconnect, sender, reassembler
<1>4. CASE \E f \in net : LoseFrame(f)
  BY <1>4, AbstractDrop DEF LoseFrame, sender, reassembler
<1>5. CASE \E f \in net : Arrive(f)
  <2>1. PICK f \in net : Arrive(f)
    BY <1>5
  <2>2. CASE Len(incoming) < QueueCap
    BY <2>1, <2>2, AbstractStutter DEF Arrive, sender, reassembler
  <2>3. CASE ~(Len(incoming) < QueueCap)
    BY <2>1, <2>3, AbstractDrop DEF Arrive, sender, reassembler
  <2> QED BY <2>2, <2>3
<1>6. CASE \E f \in net : ArriveClosed(f)
  BY <1>6, AbstractStutter DEF ArriveClosed, sender, reassembler
<1>7. CASE Close
  BY <1>7, AbstractStutter DEF Close, sender, reassembler
<1>8. CASE ProcessIncoming
  BY <1>8, AbstractStutter DEF ProcessIncoming, sender
<1>9. CASE Deliver
  BY <1>9, AbstractDeliver
<1>10. CASE UNCHANGED vars
  BY <1>10, AbstractStutter DEF vars, sender, reassembler
<1> QED BY <1>1, <1>2, <1>3, <1>4, <1>5, <1>6, <1>7, <1>8, <1>9, <1>10 DEF Next

(* One direction of a tunnel keeps the promise of MessageChannel: a        *)
(* message is handed over whole and at most once, in any order, or it is   *)
(* lost and never handed over (datachannel.go, SendMessage and             *)
(* ProcessIncoming; peer.go, OnMessage).                                   *)
THEOREM ChannelImplementsMessageChannel ==
  ASSUME DistinctIds
  PROVE  Spec => ImplementsMessageChannel
<1>1. ChannelInv /\ [Next]_vars => [Abstract!Next]_(Abstract!vars)
  BY AbstractStep
<1> QED BY <1>1, AlwaysChannelInv, AbstractInit, PTL
        DEF Spec, ImplementsMessageChannel, Abstract!Spec
=============================================================================
