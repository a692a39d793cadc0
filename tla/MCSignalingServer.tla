------------------------- MODULE MCSignalingServer -------------------------
(* Small instances of SignalingServer for TLC. *)
EXTENDS SignalingServer, TLC

(* Connections, tokens, client ids (and, with random ids, session ids) are *)
(* interchangeable; used only in runs that check no liveness property.     *)
Symmetry == Permutations(Conns) \cup Permutations(Tokens)
            \cup Permutations(SessionIds) \cup Permutations(ClientIds)
=============================================================================
