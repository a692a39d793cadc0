-------------------------- MODULE ReconnectProofs --------------------------
(***************************************************************************)
(* Proofs about Reconnect, for any number of loops and any configuration:  *)
(* its types, and, when the program does not call Start after Stop, that   *)
(* IsActive tells the truth, that only one loop reconnects at a time and   *)
(* that it gives up after MaxAttempts tries.                               *)
(***************************************************************************)
EXTENDS Reconnect, TLAPS

(* The next delay is a delay, and never more than MaxDelay. *)
LEMMA NextDelayIsNat ==
  ASSUME NEW d \in Nat
  PROVE  NextDelay(d) \in Nat /\ NextDelay(d) <= MaxDelay
<1>1. d * BackoffMultiple \in Nat
  BY ConfigAssumption
<1> QED
  BY <1>1, ConfigAssumption DEF NextDelay

(* A new manager's fields are in their types. *)
LEMMA InitTypeOK == Init => TypeOK
<1> SUFFICES ASSUME Init PROVE TypeOK
  OBVIOUS
<1>1. attempts \in Nat /\ isActive \in BOOLEAN /\ canceled \in BOOLEAN
  BY DEF Init
<1>2. pc \in [Loops -> PCs]
  BY DEF Init, PCs
<1>3. attempt \in [Loops -> Nat] /\ tries \in [Loops -> Nat]
  BY DEF Init
<1>4. delay \in [Loops -> Nat]
  <2>1. InitialDelay \in Nat
    BY ConfigAssumption
  <2> QED
    BY <2>1 DEF Init
<1> QED
  BY <1>1, <1>2, <1>3, <1>4 DEF TypeOK

(* Every step of the manager keeps its fields and its loops' locals in     *)
(* their types.                                                            *)
LEMMA TypeOKInductive == TypeOK /\ [Next]_vars => TypeOK'
<1> SUFFICES ASSUME TypeOK, [Next]_vars PROVE TypeOK'
  OBVIOUS
<1> USE DEF TypeOK, PCs
<1>1. CASE Stop
  BY <1>1 DEF Stop, loop
<1>2. ASSUME NEW l \in Loops, Start(l) PROVE TypeOK'
  BY <1>2 DEF Start, Goto
<1>3. ASSUME NEW l \in Loops, LoopTop(l) PROVE TypeOK'
  BY <1>3 DEF LoopTop, Goto
<1>4. ASSUME NEW l \in Loops, GiveUp(l) PROVE TypeOK'
  BY <1>4 DEF GiveUp, Goto
<1>5. ASSUME NEW l \in Loops, WaitCanceled(l) PROVE TypeOK'
  BY <1>5 DEF WaitCanceled, Goto
<1>6. ASSUME NEW l \in Loops, WaitOver(l) PROVE TypeOK'
  BY <1>6 DEF WaitOver, Goto
<1>7. ASSUME NEW l \in Loops, Succeed(l) PROVE TypeOK'
  BY <1>7 DEF Succeed, Goto
<1>8. ASSUME NEW l \in Loops, Fail(l) PROVE TypeOK'
  <2>1. NextDelay(delay[l]) \in Nat
    BY NextDelayIsNat
  <2> QED
    BY <1>8, <2>1 DEF Fail, Goto
<1>9. CASE UNCHANGED vars
  BY <1>9 DEF vars, loop
<1> QED
  BY <1>1, <1>2, <1>3, <1>4, <1>5, <1>6, <1>7, <1>8, <1>9 DEF Next, Step

(* attempts, isActive and every loop's locals keep their types, whatever   *)
(* Starts, Stops and loops interleave.                                     *)
THEOREM ReconnectTypes == Spec => []TypeOK
<1> QED
  BY InitTypeOK, TypeOKInductive, PTL DEF Spec

-----------------------------------------------------------------------------
(***************************************************************************)
(* The invariant.  isActive belongs to the one loop that runs: it is set   *)
(* by the Start that spawns the loop, and whoever clears it is that loop   *)
(* on its way out, or Stop, after which nothing starts.                    *)
(***************************************************************************)
ActiveIsRunning ==
  /\ canceled => ~isActive
  /\ ActiveHasLoop
  /\ (~isActive /\ ~canceled) => \A l \in Loops : ~Running(l)
  /\ \A l, m \in Loops : Running(l) /\ Running(m) => l = m

(* attempts counts the tries of the loop that runs. *)
AttemptsAreTries ==
  \A l \in Loops :
     /\ pc[l] = "none" => tries[l] = 0
     /\ pc[l] \in {"top", "try"} => attempts = tries[l]
     /\ pc[l] \in {"wait", "giveup"} => attempts = tries[l] + 1
     /\ pc[l] = "wait" => ~Exceeded(attempts)
     /\ pc[l] = "giveup" => Exceeded(attempts)
     /\ MaxAttempts > 0 => tries[l] <= MaxAttempts

LoopInv == TypeOK /\ ActiveIsRunning /\ AttemptsAreTries

(* A step keeps isActive and the running loop together. *)
LEMMA ActiveIsRunningInductive ==
  ASSUME ~StartAfterStop, LoopInv, [Next]_vars
  PROVE  ActiveIsRunning'
<1> USE DEF LoopInv, TypeOK, PCs, ActiveIsRunning, ActiveHasLoop, Running
<1>1. CASE Stop
  BY <1>1 DEF Stop, loop
<1>2. ASSUME NEW l \in Loops, Start(l) PROVE ActiveIsRunning'
  BY <1>2 DEF Start, Goto
<1>3. ASSUME NEW l \in Loops, LoopTop(l) PROVE ActiveIsRunning'
  BY <1>3 DEF LoopTop, Goto
<1>4. ASSUME NEW l \in Loops, GiveUp(l) PROVE ActiveIsRunning'
  BY <1>4 DEF GiveUp, Goto
<1>5. ASSUME NEW l \in Loops, WaitCanceled(l) PROVE ActiveIsRunning'
  BY <1>5 DEF WaitCanceled, Goto
<1>6. ASSUME NEW l \in Loops, WaitOver(l) PROVE ActiveIsRunning'
  BY <1>6 DEF WaitOver, Goto
<1>7. ASSUME NEW l \in Loops, Succeed(l) PROVE ActiveIsRunning'
  BY <1>7 DEF Succeed, Goto
<1>8. ASSUME NEW l \in Loops, Fail(l) PROVE ActiveIsRunning'
  BY <1>8 DEF Fail, Goto
<1>9. CASE UNCHANGED vars
  BY <1>9 DEF vars, loop
<1> QED
  BY <1>1, <1>2, <1>3, <1>4, <1>5, <1>6, <1>7, <1>8, <1>9 DEF Next, Step

(* A step keeps the shared counter equal to the running loop's tries: only *)
(* that loop, and the Start that comes before it, write the counter.       *)
LEMMA AttemptsAreTriesInductive ==
  ASSUME ~StartAfterStop, LoopInv, [Next]_vars
  PROVE  AttemptsAreTries'
<1> USE ConfigAssumption
    DEF LoopInv, TypeOK, PCs, ActiveIsRunning, Running, AttemptsAreTries, Exceeded
<1>1. CASE Stop
  BY <1>1 DEF Stop, loop
<1>2. ASSUME NEW l \in Loops, Start(l) PROVE AttemptsAreTries'
  BY <1>2 DEF Start, Goto
<1>3. ASSUME NEW l \in Loops, LoopTop(l) PROVE AttemptsAreTries'
  BY <1>3 DEF LoopTop, Goto
<1>4. ASSUME NEW l \in Loops, GiveUp(l) PROVE AttemptsAreTries'
  BY <1>4 DEF GiveUp, Goto
<1>5. ASSUME NEW l \in Loops, WaitCanceled(l) PROVE AttemptsAreTries'
  BY <1>5 DEF WaitCanceled, Goto
<1>6. ASSUME NEW l \in Loops, WaitOver(l) PROVE AttemptsAreTries'
  BY <1>6 DEF WaitOver, Goto
<1>7. ASSUME NEW l \in Loops, Succeed(l) PROVE AttemptsAreTries'
  BY <1>7 DEF Succeed, Goto
<1>8. ASSUME NEW l \in Loops, Fail(l) PROVE AttemptsAreTries'
  BY <1>8 DEF Fail, Goto
<1>9. CASE UNCHANGED vars
  BY <1>9 DEF vars, loop
<1> QED
  BY <1>1, <1>2, <1>3, <1>4, <1>5, <1>6, <1>7, <1>8, <1>9 DEF Next, Step

(* The invariant holds of every behaviour without a Start after a Stop. *)
THEOREM LoopInvariant == ~StartAfterStop /\ Spec => []LoopInv
<1> SUFFICES ASSUME ~StartAfterStop PROVE Spec => []LoopInv
  OBVIOUS
<1>1. Init => LoopInv
  <2> SUFFICES ASSUME Init PROVE LoopInv
    OBVIOUS
  <2>1. ActiveIsRunning
    BY DEF Init, ActiveIsRunning, ActiveHasLoop, Running
  <2>2. AttemptsAreTries
    <3>1. MaxAttempts \in Nat
      BY ConfigAssumption
    <3> SUFFICES ASSUME NEW l \in Loops
                 PROVE  /\ pc[l] = "none" /\ tries[l] = 0
                        /\ MaxAttempts > 0 => tries[l] <= MaxAttempts
      BY Zenon DEF AttemptsAreTries
    <3>2. pc[l] = "none" /\ tries[l] = 0
      BY DEF Init
    <3> QED
      BY <3>1, <3>2
  <2> QED
    BY <2>1, <2>2, InitTypeOK DEF LoopInv
<1>2. LoopInv /\ [Next]_vars => LoopInv'
  BY TypeOKInductive, ActiveIsRunningInductive, AttemptsAreTriesInductive DEF LoopInv
<1> QED
  BY <1>1, <1>2, PTL DEF Spec

(* While IsActive is true some loop is on its way to another try or to     *)
(* giving up: the comment of IsActive, for a program that stops for good.  *)
THEOREM ActiveManagerReconnects == ~StartAfterStop /\ Spec => []ActiveHasLoop
<1>1. LoopInv => ActiveHasLoop
  BY DEF LoopInv, ActiveIsRunning
<1> QED
  BY <1>1, LoopInvariant, PTL

(* Two goroutines never reconnect at the same time. *)
THEOREM OneLoopAtATime == ~StartAfterStop /\ Spec => []SingleFlight
<1>1. LoopInv => SingleFlight
  BY DEF LoopInv, ActiveIsRunning, SingleFlight, Running
<1> QED
  BY <1>1, LoopInvariant, PTL

(* A loop that gives up has tried exactly MaxAttempts times.  *)
THEOREM GivesUpInTime == ~StartAfterStop /\ Spec => []GivesUpAfterMaxAttempts
<1>1. ASSUME LoopInv, NEW l \in Loops
      PROVE  /\ pc[l] = "giveup" => tries[l] = MaxAttempts
             /\ MaxAttempts > 0 => tries[l] <= MaxAttempts
  <2>1. tries[l] \in Nat /\ attempts \in Nat /\ MaxAttempts \in Nat
    BY <1>1, ConfigAssumption DEF LoopInv, TypeOK
  <2>2. MaxAttempts > 0 => tries[l] <= MaxAttempts
    BY <1>1 DEF LoopInv, AttemptsAreTries
  <2>3. pc[l] = "giveup" => attempts = tries[l] + 1 /\ Exceeded(attempts)
    BY <1>1 DEF LoopInv, AttemptsAreTries
  <2> QED
    BY <2>1, <2>2, <2>3 DEF Exceeded
<1>2. LoopInv => GivesUpAfterMaxAttempts
  BY <1>1 DEF GivesUpAfterMaxAttempts
<1> QED
  BY <1>2, LoopInvariant, PTL

(* No delay exceeds the configured maximum. *)
THEOREM DelaysAreBounded == Spec => []DelayBounded
<1>1. Init => DelayBounded
  BY ConfigAssumption DEF Init, DelayBounded
<1>2. TypeOK /\ DelayBounded /\ [Next]_vars => DelayBounded'
  <2> SUFFICES ASSUME TypeOK, DelayBounded, [Next]_vars PROVE DelayBounded'
    OBVIOUS
  <2>1. ASSUME NEW l \in Loops, Fail(l) PROVE DelayBounded'
    <3>1. NextDelay(delay[l]) <= MaxDelay
      BY NextDelayIsNat DEF TypeOK
    <3> QED
      BY <2>1, <3>1 DEF Fail, DelayBounded, TypeOK
  <2>2. CASE UNCHANGED delay
    BY <2>2 DEF DelayBounded
  <2> QED
    BY <2>1, <2>2 DEF Next, Step, Stop, Start, LoopTop, GiveUp, WaitCanceled,
       WaitOver, Succeed, loop, vars
<1> QED
  BY <1>1, <1>2, ReconnectTypes, PTL DEF Spec
=============================================================================
