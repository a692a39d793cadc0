------------------------------ MODULE Reconnect ------------------------------
(***************************************************************************)
(* ReconnectManager (internal/state/reconnect.go): Start spawns a          *)
(* goroutine that tries to reconnect with exponential backoff, Stop        *)
(* cancels it for good.  Start and Stop are called by other goroutines at  *)
(* any time, so several loops can be alive; the mutex guards attempts and  *)
(* isActive, and each of its critical sections is one action.              *)
(*                                                                         *)
(* Durations are natural numbers of the config's unit.  onReconnect is     *)
(* set; what it does is its result.  The other callbacks touch none of     *)
(* this state except by calling Start or Stop, which are actions anyway.   *)
(***************************************************************************)
EXTENDS Naturals

CONSTANTS Loops,           \* goroutines Start may spawn (bounds the Starts)
          InitialDelay, MaxDelay, BackoffMultiple,
          MaxAttempts,     \* 0 means no limit
          StartAfterStop   \* may the program call Start after Stop?

ASSUME ConfigAssumption ==
  /\ InitialDelay \in Nat /\ MaxDelay \in Nat /\ InitialDelay <= MaxDelay
  /\ BackoffMultiple \in Nat \ {0}
  /\ MaxAttempts \in Nat
  /\ StartAfterStop \in BOOLEAN

VARIABLES attempts, isActive,   \* the manager's fields
          canceled,             \* its context is done
          pc,                   \* the next step of each loop
          attempt, delay,       \* a loop's locals
          tries                 \* history: calls of onReconnect by a loop

loop == <<pc, attempt, delay, tries>>
vars == <<attempts, isActive, canceled, loop>>

PCs == {"none", "top", "giveup", "wait", "try", "over"}

TypeOK ==
  /\ attempts \in Nat
  /\ isActive \in BOOLEAN
  /\ canceled \in BOOLEAN
  /\ pc \in [Loops -> PCs]
  /\ attempt \in [Loops -> Nat]
  /\ delay \in [Loops -> Nat]
  /\ tries \in [Loops -> Nat]

Init ==
  /\ attempts = 0
  /\ isActive = FALSE
  /\ canceled = FALSE
  /\ pc = [l \in Loops |-> "none"]
  /\ attempt = [l \in Loops |-> 0]
  /\ delay = [l \in Loops |-> InitialDelay]
  /\ tries = [l \in Loops |-> 0]

Goto(l, label) == pc' = [pc EXCEPT ![l] = label]

(* Faults, which the specification does not use: a counter that starts     *)
(* below zero, a Start that does not look at isActive.                     *)
StartBelowZero(l) ==
  /\ canceled => StartAfterStop
  /\ pc[l] = "none"
  /\ ~isActive
  /\ isActive' = TRUE
  /\ attempts' = 0 - 1
  /\ Goto(l, "top")
  /\ UNCHANGED <<canceled, attempt, delay, tries>>

StartAgain(l) ==
  /\ canceled => StartAfterStop
  /\ pc[l] = "none"
  /\ isActive' = TRUE
  /\ attempts' = 0
  /\ Goto(l, "top")
  /\ UNCHANGED <<canceled, attempt, delay, tries>>

(* A second Start while one is active returns early. *)
Start(l) ==
  /\ canceled => StartAfterStop
  /\ pc[l] = "none"
  /\ ~isActive
  /\ isActive' = TRUE
  /\ attempts' = 0
  /\ Goto(l, "top")
  /\ UNCHANGED <<canceled, attempt, delay, tries>>

Stop ==
  /\ isActive' = FALSE
  /\ canceled' = TRUE
  /\ UNCHANGED <<attempts, loop>>

(* The head of the loop; exceeding MaxAttempts is seen on the local copy. *)
ExceededEarly(n) == MaxAttempts > 0 /\ n >= MaxAttempts  \* fault

Exceeded(n) == MaxAttempts > 0 /\ n > MaxAttempts

LoopTop(l) ==
  /\ pc[l] = "top"
  /\ \/ /\ ~isActive
        /\ Goto(l, "over")
        /\ UNCHANGED <<attempts, attempt>>
     \/ /\ isActive
        /\ attempts' = attempts + 1
        /\ attempt' = [attempt EXCEPT ![l] = attempts + 1]
        /\ Goto(l, IF Exceeded(attempts + 1) THEN "giveup" ELSE "wait")
  /\ UNCHANGED <<isActive, canceled, delay, tries>>

(* Fault: giving up leaves isActive set. *)
GiveUpActive(l) ==
  /\ pc[l] = "giveup"
  /\ Goto(l, "over")
  /\ UNCHANGED <<attempts, isActive, canceled, attempt, delay, tries>>

GiveUp(l) ==
  /\ pc[l] = "giveup"
  /\ isActive' = FALSE
  /\ Goto(l, "over")
  /\ UNCHANGED <<attempts, canceled, attempt, delay, tries>>

(* The select: the context was cancelled (isActive stays as it is), or the *)
(* delay has passed first; with no delay both can be ready at once.        *)
WaitCanceled(l) ==
  /\ pc[l] = "wait"
  /\ canceled
  /\ Goto(l, "over")
  /\ UNCHANGED <<attempts, isActive, canceled, attempt, delay, tries>>

WaitOver(l) ==
  /\ pc[l] = "wait"
  /\ canceled => delay[l] = 0
  /\ Goto(l, "try")
  /\ tries' = [tries EXCEPT ![l] = @ + 1]
  /\ UNCHANGED <<attempts, isActive, canceled, attempt, delay>>

Succeed(l) ==
  /\ pc[l] = "try"
  /\ isActive' = FALSE
  /\ attempts' = 0
  /\ Goto(l, "over")
  /\ UNCHANGED <<canceled, attempt, delay, tries>>

NextDelay(d) ==
  IF d * BackoffMultiple > MaxDelay THEN MaxDelay ELSE d * BackoffMultiple

Fail(l) ==
  /\ pc[l] = "try"
  /\ delay' = [delay EXCEPT ![l] = NextDelay(@)]
  /\ Goto(l, "top")
  /\ UNCHANGED <<attempts, isActive, canceled, attempt, tries>>

Step(l) ==
  LoopTop(l) \/ GiveUp(l) \/ WaitCanceled(l) \/ WaitOver(l) \/ Succeed(l) \/ Fail(l)

Next == Stop \/ \E l \in Loops : Start(l) \/ Step(l)

Spec == Init /\ [][Next]_vars

FairSpec == Spec /\ \A l \in Loops : WF_vars(Step(l))

-----------------------------------------------------------------------------
Running(l) == pc[l] \in {"top", "giveup", "wait", "try"}

(* IsActive "returns whether a reconnection is currently in progress": an  *)
(* active manager has a loop that will try again or give up.               *)
ActiveHasLoop == isActive => \E l \in Loops : Running(l)

(* A Start in the middle of an episode, and one right after it ended,      *)
(* never leaves two loops reconnecting at once.                            *)
SingleFlight == \A l, m \in Loops : pc[l] = "try" /\ Running(m) => l = m

(* A loop gives up after exactly MaxAttempts tries, and never tries more.  *)
GivesUpAfterMaxAttempts ==
  \A l \in Loops :
     /\ pc[l] = "giveup" => tries[l] = MaxAttempts
     /\ MaxAttempts > 0 => tries[l] <= MaxAttempts

(* No wait exceeds MaxDelay. *)
DelayBounded == \A l \in Loops : delay[l] <= MaxDelay

(* An episode ends: success, giving up or Stop. *)
EpisodeEnds == isActive ~> ~isActive
=============================================================================
