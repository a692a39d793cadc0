---------------------------- MODULE SessionStore ----------------------------
(***************************************************************************)
(* The session store behind the signaling server: store/memory.go and      *)
(* store/redis.go behind the Store interface.  Every exported method takes *)
(* the store's lock (memory) or is one Redis command or pipeline, so each  *)
(* is one action here; the signaling server composes them with its own     *)
(* state.                                                                  *)
(*                                                                         *)
(* A session object is identified by its token: crypto.GenerateToken never *)
(* repeats one, and CreateSession makes one object per token.  idOf[t] is  *)
(* the ID field of that object, which never changes.                       *)
(*                                                                         *)
(* GetSession, UpdateSession and MarkTokenUsed are never called by the     *)
(* signaling server and change nothing it reads; they are not actions.     *)
(***************************************************************************)
CONSTANTS Tokens,      \* the tokens crypto.GenerateToken may return
          SessionIds,  \* the session ids
          Backend,     \* "memory" (MemoryStore) or "redis" (RedisStore)
          None         \* absent from a map

ASSUME BackendAssumption == Backend \in {"memory", "redis"}
ASSUME StoreNoneAssumption == None \notin Tokens \cup SessionIds
ASSUME SessionIdsAssumption == SessionIds # {}

VARIABLES sessions,        \* session id -> the stored session (its token)
          tokenToSession,  \* token -> session id
          idOf,            \* the ID of the session object made for a token
          expired          \* tokens whose session is past its ExpiresAt

store == <<sessions, tokenToSession, idOf, expired>>

StoreTypeOK ==
  /\ sessions \in [SessionIds -> Tokens \cup {None}]
  /\ tokenToSession \in [Tokens -> SessionIds \cup {None}]
  /\ idOf \in [Tokens -> SessionIds \cup {None}]
  /\ expired \subseteq Tokens

StoreInit ==
  /\ sessions = [s \in SessionIds |-> None]
  /\ tokenToSession = [t \in Tokens |-> None]
  /\ idOf = [t \in Tokens |-> None]
  /\ expired = {}

(* Faults: alternatives to the definitions below that a slip in the code    *)
(* would give; the specification does not use them.  Here ids that repeat. *)
RepeatedIds == SessionIds

(***************************************************************************)
(* generateSessionID of memory.go cycles through a constant alphabet, so   *)
(* it returns the same id on every call; redisRandomHex reads crypto/rand. *)
(***************************************************************************)
NewSessionIds ==
  IF Backend = "memory"
  THEN {CHOOSE s \in SessionIds : TRUE}
  ELSE {s \in SessionIds : \A t \in Tokens : idOf[t] # s}

FreshTokens == {t \in Tokens : idOf[t] = None}

(* Fault: the session map is filled with ids. *)
CreateSwapped(t, s) ==
  /\ idOf' = [idOf EXCEPT ![t] = s]
  /\ sessions' = [sessions EXCEPT ![s] = s]
  /\ tokenToSession' = [tokenToSession EXCEPT ![t] = s]
  /\ UNCHANGED expired

CreateSession(t, s) ==
  /\ idOf' = [idOf EXCEPT ![t] = s]
  /\ sessions' = [sessions EXCEPT ![s] = t]
  /\ tokenToSession' = [tokenToSession EXCEPT ![t] = s]
  /\ UNCHANGED expired

(***************************************************************************)
(* GetSessionByToken: the token must map to an id, the id to a session,    *)
(* and that session must not be past its expiry.  The session returned is  *)
(* the one stored under the id now.                                        *)
(***************************************************************************)
Resolves(t) ==
  /\ tokenToSession[t] # None
  /\ sessions[tokenToSession[t]] # None
  /\ sessions[tokenToSession[t]] \notin expired

(***************************************************************************)
(* DeleteSession drops the token of the session stored under the id now.   *)
(* RedisStore first reads the session and gives up when it has expired or  *)
(* when Redis does not answer; the caller ignores the error.               *)
(***************************************************************************)
DeleteSession(s) ==
  \/ /\ sessions[s] # None
     /\ Backend = "redis" => sessions[s] \notin expired
     /\ tokenToSession' = [tokenToSession EXCEPT ![sessions[s]] = None]
     /\ sessions' = [sessions EXCEPT ![s] = None]
     /\ UNCHANGED <<idOf, expired>>
  \/ /\ sessions[s] = None \/ Backend = "redis"
     /\ UNCHANGED store

(* Time passes the ExpiresAt of the session made for t. *)
Expire(t) ==
  /\ idOf[t] # None
  /\ t \notin expired
  /\ expired' = expired \cup {t}
  /\ UNCHANGED <<sessions, tokenToSession, idOf>>

(* MemoryStore.cleanup: one tick removes every expired session. *)
Cleanup ==
  LET old == {s \in SessionIds : sessions[s] \in expired}
  IN  /\ Backend = "memory"
      /\ old # {}
      /\ tokenToSession' = [t \in Tokens |->
           IF \E s \in old : sessions[s] = t THEN None ELSE tokenToSession[t]]
      /\ sessions' = [s \in SessionIds |->
           IF s \in old THEN None ELSE sessions[s]]
      /\ UNCHANGED <<idOf, expired>>

(* Redis drops the two keys of an expired session, each when its own TTL   *)
(* ends (both were set with the same ttl, by two commands of a pipeline).  *)
EvictSessionKey(t) ==
  /\ Backend = "redis"
  /\ t \in expired
  /\ sessions[idOf[t]] = t
  /\ sessions' = [sessions EXCEPT ![idOf[t]] = None]
  /\ UNCHANGED <<tokenToSession, idOf, expired>>

EvictTokenKey(t) ==
  /\ Backend = "redis"
  /\ t \in expired
  /\ tokenToSession[t] # None
  /\ tokenToSession' = [tokenToSession EXCEPT ![t] = None]
  /\ UNCHANGED <<sessions, idOf, expired>>

TimePasses ==
  \/ \E t \in Tokens : Expire(t) \/ EvictSessionKey(t) \/ EvictTokenKey(t)
  \/ Cleanup

(* The process restarts: a MemoryStore is lost, Redis keeps its keys. *)
StoreRestart ==
  /\ UNCHANGED <<idOf, expired>>
  /\ IF Backend = "memory"
     THEN /\ sessions' = [s \in SessionIds |-> None]
          /\ tokenToSession' = [t \in Tokens |-> None]
     ELSE UNCHANGED <<sessions, tokenToSession>>

=============================================================================
