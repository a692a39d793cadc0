--------------------------- MODULE MessageChannel ---------------------------
(***************************************************************************)
(* What DataChannelManager promises the proxies that send through it: a    *)
(* message is handed over whole, at most once, and in any order; or it is  *)
(* lost, and then it is never handed over.                                 *)
(***************************************************************************)
EXTENDS Sequences

CONSTANT Messages

VARIABLES accepted,   \* messages the channel has begun to send
          handed,     \* messages handed to the receiver, in order
          lost        \* messages that will not be handed over

vars == <<accepted, handed, lost>>

Handed == {handed[i] : i \in DOMAIN handed}

Init ==
  /\ accepted = {}
  /\ handed = << >>
  /\ lost = {}

Accept(m) ==
  /\ m \notin accepted
  /\ accepted' = accepted \cup {m}
  /\ UNCHANGED <<handed, lost>>

HandOver(m) ==
  /\ m \in accepted
  /\ m \notin Handed \cup lost
  /\ handed' = Append(handed, m)
  /\ UNCHANGED <<accepted, lost>>

Lose(m) ==
  /\ m \in accepted
  /\ m \notin Handed
  /\ lost' = lost \cup {m}
  /\ UNCHANGED <<accepted, handed>>

Next == \E m \in Messages : Accept(m) \/ HandOver(m) \/ Lose(m)

Spec == Init /\ [][Next]_vars
=============================================================================
