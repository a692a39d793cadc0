---------------------------- MODULE DataChannel ----------------------------
(***************************************************************************)
(* One direction of a tunnel: DataChannelManager of the sending peer       *)
(* (internal/webrtc/datachannel.go), the unordered data channel, and Peer  *)
(* (peer.go) and ProcessIncoming of the receiving one.                     *)
(*                                                                         *)
(* Every call of SendMessage runs in some goroutine of a proxy, so calls   *)
(* interleave chunk by chunk.  The channels of a peer open and close       *)
(* together (they share one SCTP association); while open they lose        *)
(* nothing but keep no order: frames in flight are a set.  A payload is    *)
(* the range of bytes of its message that it holds.                        *)
(***************************************************************************)
EXTENDS Naturals, Sequences, FiniteSets

CONSTANTS Messages,    \* calls of SendMessage, each with
          Size,        \*   the length of its data, and
          IdOf,        \*   its requestID
          MaxPayload,  \* MaxChunkSize - HeaderSize
          QueueCap,    \* capacity of Peer.incomingMessages
          None

ASSUME MessagesAssumption ==
  /\ MaxPayload \in Nat \ {0}
  /\ QueueCap \in Nat \ {0}
  /\ Size \in [Messages -> Nat \ {0}]
  /\ IdOf \in [Messages -> Nat \ {0}]

VARIABLES open,        \* the data channels are open
          next,        \* the chunk SendMessage sends next, per message
          failed,      \* messages whose SendMessage returned an error
          net,         \* frames in flight
          incoming,    \* Peer.incomingMessages
          receiver,    \* the receiving Peer: "up", "closed" or "panicked"
          reassembly,  \* requestID -> reassemblyBuffer
          pending,     \* what ProcessIncoming is putting on output
          delivered,   \* history: everything put on output, in order
          lost         \* history: messages a chunk of which is gone

sender      == <<next, failed>>
reassembler == <<reassembly, pending, delivered>>
vars        == <<open, sender, net, incoming, receiver, reassembler, lost>>

-----------------------------------------------------------------------------
TotalChunks(m) == (Size[m] + MaxPayload - 1) \div MaxPayload

Chunks(m) == 0 .. TotalChunks(m) - 1

Payload(m, i) ==
  LET end == (i + 1) * MaxPayload
  IN  [msg |-> m, from |-> i * MaxPayload,
       to |-> IF end > Size[m] THEN Size[m] ELSE end]

Frame(m, i) ==
  [id |-> IdOf[m], index |-> i, total |-> TotalChunks(m), payload |-> Payload(m, i)]

(* The heartbeat has the request id 0. *)
Ping == [id |-> 0, index |-> 0, total |-> 1, payload |-> None]

(* None stands for no buffer and no message, and is neither of them,       *)
(* whatever chunks I of m they hold.                                       *)
ASSUME NoneAssumption ==
  \A m \in Messages : \A I \in SUBSET Chunks(m) :
     LET data == [i \in I |-> Payload(m, i)]
     IN  /\ None # [total |-> TotalChunks(m), received |-> data]
         /\ None # [id |-> IdOf[m], data |-> data]

Frames   == {Ping} \cup UNION {{Frame(m, i) : i \in Chunks(m)} : m \in Messages}
Payloads == UNION {{Payload(m, i) : i \in Chunks(m)} : m \in Messages}
Ids      == {IdOf[m] : m \in Messages}

MessageOf(f) == {m \in Messages : f # Ping /\ f.payload.msg = m}

IsBuffer(b) ==
  /\ DOMAIN b = {"total", "received"}
  /\ b.total \in Nat
  /\ DOMAIN b.received \subseteq Nat
  /\ \A i \in DOMAIN b.received : b.received[i] \in Payloads

IsMessage(d) ==
  /\ DOMAIN d = {"id", "data"}
  /\ d.id \in Ids
  /\ DOMAIN d.data \subseteq Nat
  /\ \A i \in DOMAIN d.data : d.data[i] \in Payloads

TypeOK ==
  /\ open \in BOOLEAN
  /\ DOMAIN next = Messages
  /\ \A m \in Messages : next[m] \in 0 .. TotalChunks(m)
  /\ failed \subseteq Messages
  /\ net \subseteq Frames
  /\ incoming \in Seq(Frames) /\ Len(incoming) <= QueueCap
  /\ receiver \in {"up", "closed", "panicked"}
  /\ DOMAIN reassembly = Ids
  /\ \A r \in Ids : reassembly[r] = None \/ IsBuffer(reassembly[r])
  /\ pending = None \/ IsMessage(pending)
  /\ \A i \in DOMAIN delivered : IsMessage(delivered[i])
  /\ lost \subseteq Messages

Init ==
  /\ open = TRUE
  /\ next = [m \in Messages |-> 0]
  /\ failed = {}
  /\ net = {}
  /\ incoming = << >>
  /\ receiver = "up"
  /\ reassembly = [r \in Ids |-> None]
  /\ pending = None
  /\ delivered = << >>
  /\ lost = {}

-----------------------------------------------------------------------------
(* SendMessage: chunk by chunk, until Peer.Send finds no open channel. *)
SendChunk(m) ==
  /\ m \notin failed
  /\ next[m] \in Chunks(m)
  /\ \/ /\ open
        /\ net' = net \cup {Frame(m, next[m])}
        /\ next' = [next EXCEPT ![m] = @ + 1]
        /\ UNCHANGED <<failed, lost>>
     \/ /\ ~open
        /\ failed' = failed \cup {m}
        /\ lost' = lost \cup {m}
        /\ UNCHANGED <<net, next>>
  /\ UNCHANGED <<open, incoming, receiver, reassembler>>

Heartbeat ==
  /\ open
  /\ net' = net \cup {Ping}
  /\ UNCHANGED <<open, sender, incoming, receiver, reassembler, lost>>

(* The connection fails or is closed; frames in flight may be lost. *)
Disconnect ==
  /\ open
  /\ open' = FALSE
  /\ UNCHANGED <<sender, net, incoming, receiver, reassembler, lost>>

LoseFrame(f) ==
  /\ ~open
  /\ f \in net
  /\ net' = net \ {f}
  /\ lost' = lost \cup MessageOf(f)
  /\ UNCHANGED <<open, sender, incoming, receiver, reassembler>>

-----------------------------------------------------------------------------
(* Fault: the queue grows. *)
ArriveUnbounded(f) ==
  /\ receiver = "up"
  /\ f \in net
  /\ net' = net \ {f}
  /\ incoming' = Append(incoming, f)
  /\ UNCHANGED <<open, sender, receiver, reassembler, lost>>

(* dc.OnMessage: a full queue drops the frame. *)
Arrive(f) ==
  /\ receiver = "up"
  /\ f \in net
  /\ net' = net \ {f}
  /\ IF Len(incoming) < QueueCap
     THEN incoming' = Append(incoming, f) /\ UNCHANGED lost
     ELSE lost' = lost \cup MessageOf(f) /\ UNCHANGED incoming
  /\ UNCHANGED <<open, sender, receiver, reassembler>>

(* Peer.Close closes incomingMessages; the loop drains what is in it.  The *)
(* sender notices later (Disconnect).                                      *)
Close ==
  /\ receiver = "up"
  /\ receiver' = "closed"
  /\ UNCHANGED <<open, sender, net, incoming, reassembler, lost>>

(* A frame that arrives after that is sent on a closed Go channel: the     *)
(* process panics.                                                         *)
ArriveClosed(f) ==
  /\ receiver = "closed"
  /\ f \in net
  /\ receiver' = "panicked"
  /\ UNCHANGED <<open, sender, net, incoming, reassembler, lost>>

(***************************************************************************)
(* ProcessIncoming, one frame per iteration.  The data of a message is the *)
(* concatenation, in index order, of the chunks received below its total.  *)
(***************************************************************************)
Put(received, i, p) ==
  [j \in DOMAIN received \cup {i} |-> IF j = i THEN p ELSE received[j]]

BufferFor(f) ==
  IF reassembly[f.id] = None THEN [total |-> f.total, received |-> << >>]
                             ELSE reassembly[f.id]

Assemble(received, total) ==
  [i \in {j \in DOMAIN received : j < total} |-> received[i]]

(* Faults: the buffer is not deleted; the last chunk is taken for the end  *)
(* of the message.                                                         *)
KeepBuffer(f) ==
  LET b == BufferFor(f)
      received == Put(b.received, f.index, f.payload)
  IN  /\ reassembly' = [reassembly EXCEPT ![f.id] =
           [total |-> b.total, received |-> received]]
      /\ pending' = IF Cardinality(DOMAIN received) = b.total
                    THEN [id |-> f.id, data |-> Assemble(received, b.total)]
                    ELSE pending

EndAtLastChunk(f) ==
  LET b == BufferFor(f)
      received == Put(b.received, f.index, f.payload)
  IN  IF f.index = b.total - 1
      THEN /\ pending' = [id |-> f.id, data |-> Assemble(received, b.total)]
           /\ reassembly' = [reassembly EXCEPT ![f.id] = None]
      ELSE /\ reassembly' = [reassembly EXCEPT ![f.id] =
                [total |-> b.total, received |-> received]]
           /\ UNCHANGED pending

ProcessChunk(f) ==
  LET b == BufferFor(f)
      received == Put(b.received, f.index, f.payload)
  IN  IF Cardinality(DOMAIN received) = b.total
      THEN /\ pending' = [id |-> f.id, data |-> Assemble(received, b.total)]
           /\ reassembly' = [reassembly EXCEPT ![f.id] = None]
      ELSE /\ reassembly' = [reassembly EXCEPT ![f.id] =
                [total |-> b.total, received |-> received]]
           /\ UNCHANGED pending

ProcessIncoming ==
  /\ receiver # "panicked"
  /\ pending = None
  /\ incoming # << >>
  /\ LET f == Head(incoming)
     IN  \/ /\ f.id = 0
            /\ UNCHANGED <<reassembly, pending>>
         \/ /\ f.id # 0 /\ f.total = 1
            /\ pending' = [id |-> f.id, data |-> [i \in {0} |-> f.payload]]
            /\ UNCHANGED reassembly
         \/ /\ f.id # 0 /\ f.total # 1
            /\ ProcessChunk(f)
  /\ incoming' = Tail(incoming)
  /\ UNCHANGED <<open, sender, net, receiver, delivered, lost>>

(* Fault: a message the proxy has no room for is dropped. *)
DeliverOrDrop ==
  /\ receiver # "panicked"
  /\ pending # None
  /\ delivered' = Append(delivered, pending) \/ UNCHANGED delivered
  /\ pending' = None
  /\ UNCHANGED <<open, sender, net, incoming, receiver, reassembly, lost>>

(* output <- message; it blocks until the proxy has room for it. *)
Deliver ==
  /\ receiver # "panicked"
  /\ pending # None
  /\ delivered' = Append(delivered, pending)
  /\ pending' = None
  /\ UNCHANGED <<open, sender, net, incoming, receiver, reassembly, lost>>

-----------------------------------------------------------------------------
Next ==
  \/ \E m \in Messages : SendChunk(m)
  \/ Heartbeat
  \/ Disconnect
  \/ \E f \in net : LoseFrame(f) \/ Arrive(f) \/ ArriveClosed(f)
  \/ Close
  \/ ProcessIncoming
  \/ Deliver

Spec == Init /\ [][Next]_vars

(* SendMessage runs on, the network delivers what it does not lose, the    *)
(* loop reads, and the proxy that reads output keeps up.                   *)
FairSpec ==
  /\ Spec
  /\ \A m \in Messages : WF_vars(SendChunk(m))
  /\ \A f \in Frames : WF_vars(Arrive(f) \/ LoseFrame(f))
  /\ WF_vars(ProcessIncoming)
  /\ WF_vars(Deliver)

-----------------------------------------------------------------------------
(***************************************************************************)
(* Properties.                                                             *)
(***************************************************************************)

(* Every byte of m once, in order, and no byte of another message. *)
IsWhole(d, m) ==
  /\ d.id = IdOf[m]
  /\ \A i \in DOMAIN d.data : d.data[i].msg = m /\ d.data[i].to <= Size[m]
  /\ \A b \in 0 .. Size[m] - 1 :
       \E i \in DOMAIN d.data : d.data[i].from <= b /\ b < d.data[i].to
  /\ \A i, j \in DOMAIN d.data : i < j => d.data[i].to <= d.data[j].from

(* Whatever the order of arrival, the concurrent SendMessages, the drops   *)
(* and the sends that failed half-way, ProcessIncoming never hands over a  *)
(* message that nobody sent.                                               *)
WholeMessages ==
  \A n \in DOMAIN delivered : \E m \in Messages : IsWhole(delivered[n], m)

(* A chunk SendMessage has sent is in exactly one place until its message  *)
(* is handed over, and nowhere afterwards, unless its message lost one.    *)
Copies(m, i) ==
  Cardinality({f \in net : f # Ping /\ f.payload = Payload(m, i)})
  + Cardinality({n \in DOMAIN incoming : incoming[n] = Frame(m, i)})
  + Cardinality({r \in Ids : reassembly[r] # None /\
       \E j \in DOMAIN reassembly[r].received :
           reassembly[r].received[j] = Payload(m, i)})
  + (IF pending # None /\ (\E j \in DOMAIN pending.data :
           pending.data[j] = Payload(m, i)) THEN 1 ELSE 0)
  + Cardinality({n \in DOMAIN delivered : \E j \in DOMAIN delivered[n].data :
           delivered[n].data[j] = Payload(m, i)})

ChunksConserved ==
  \A m \in Messages \ lost : \A i \in Chunks(m) :
     Copies(m, i) = IF i < next[m] THEN 1 ELSE 0

(* The abstract channel: a message is accepted with its first chunk. *)
Accepted == {m \in Messages : next[m] > 0}
SourceOf(d) == d.data[CHOOSE i \in DOMAIN d.data : TRUE].msg

Abstract == INSTANCE MessageChannel WITH
  accepted <- Accepted,
  handed   <- [n \in DOMAIN delivered |-> SourceOf(delivered[n])],
  lost     <- lost \cap Accepted

(* A message lost in part is never handed over, and none is twice. *)
ImplementsMessageChannel == Abstract!Spec

(* A message sent through a connection that stays up arrives, unless the   *)
(* full queue dropped a chunk of it.                                       *)
SentArrives ==
  \A m \in Messages :
     (next[m] = TotalChunks(m)) ~>
        (receiver # "up" \/ m \in lost \/ \E n \in DOMAIN delivered :
            delivered[n].id = IdOf[m])
=============================================================================
