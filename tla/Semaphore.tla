----------------------------- MODULE Semaphore ------------------------------
(***************************************************************************)
(* The futex semaphore (common/misc/semaphore.cc), at the grain of its     *)
(* critical sections and futex calls.  What the code does under _lock is   *)
(* one action, the calls of FUTEX_WAKE included: they are made under the   *)
(* lock.  FUTEX_WAIT is made without it and is an action of its own.       *)
(***************************************************************************)
EXTENDS Integers, FiniteSets

CONSTANTS
  Threads,
  InitCount,
  MaxCount       \* bound: nobody signals at this count

ASSUME SemaphoreAssumption ==
  /\ IsFiniteSet(Threads)
  /\ InitCount \in Nat /\ MaxCount \in Nat

VARIABLES
  count, numWaiting, futx,   \* _count, _numWaiting, _futx
  pc     \* idle: outside of wait; window: it has released the lock and not
         \* yet entered the kernel; asleep: in FUTEX_WAIT; retry: back from it

vars == <<count, numWaiting, futx, pc>>

At(p) == {t \in Threads : pc[t] = p}
Waiting == {t \in Threads : pc[t] # "idle"}

\* The variables of the class, and the threads that are counted as waiting.
TypeOK ==
  /\ count \in Nat
  /\ numWaiting = Cardinality(Waiting)
  /\ futx \in {0, 1}
  /\ pc \in [Threads -> {"idle", "window", "asleep", "retry"}]

Init ==
  /\ count = InitCount /\ numWaiting = 0 /\ futx = 0
  /\ pc = [t \in Threads |-> "idle"]

-----------------------------------------------------------------------------
(* Semaphore::wait *)

\* There is a unit: wait returns.
WaitAtOnce(t) ==
  /\ pc[t] = "idle" /\ count > 0
  /\ count' = count - 1
  /\ UNCHANGED <<numWaiting, futx, pc>>

\* There is none: the thread announces itself and releases the lock.
WaitEnter(t) ==
  /\ pc[t] = "idle" /\ count <= 0
  /\ numWaiting' = numWaiting + 1
  /\ futx' = 0
  /\ pc' = [pc EXCEPT ![t] = "window"]
  /\ UNCHANGED count

\* The kernel compares *_futx with 0 and puts the thread to sleep in one step.
AlwaysSleeps(t) ==   \* faulty: the value is not compared
  /\ pc[t] = "window"
  /\ pc' = [pc EXCEPT ![t] = "asleep"]
  /\ UNCHANGED <<count, numWaiting, futx>>
FutexWait(t) ==
  /\ pc[t] = "window"
  /\ pc' = [pc EXCEPT ![t] = IF futx = 0 THEN "asleep" ELSE "retry"]
  /\ UNCHANGED <<count, numWaiting, futx>>

\* FUTEX_WAIT is interrupted.
Interrupt(t) ==
  /\ pc[t] = "asleep"
  /\ pc' = [pc EXCEPT ![t] = "retry"]
  /\ UNCHANGED <<count, numWaiting, futx>>

\* Back from the kernel, with the lock: the loop tests the count again.
WaitAgain(t) ==
  /\ pc[t] = "retry"
  /\ \/ /\ count > 0
        /\ count' = count - 1
        /\ numWaiting' = numWaiting - 1
        /\ pc' = [pc EXCEPT ![t] = "idle"]
        /\ UNCHANGED futx
     \/ /\ count <= 0
        /\ futx' = 0
        /\ pc' = [pc EXCEPT ![t] = "window"]
        /\ UNCHANGED <<count, numWaiting>>

-----------------------------------------------------------------------------
(* Semaphore::signal and broadcast *)

\* FUTEX_WAKE wakes one of the threads that are asleep, if there are any.
NobodyWakes == UNCHANGED pc   \* faulty: FUTEX_WAKE is not called
WakeOne ==
  IF At("asleep") = {} THEN UNCHANGED pc
  ELSE \E t \in At("asleep") : pc' = [pc EXCEPT ![t] = "retry"]
WakeAll == pc' = [t \in Threads |-> IF pc[t] = "asleep" THEN "retry" ELSE pc[t]]

Raise == IF numWaiting > 0 THEN futx' = 1 ELSE UNCHANGED futx

signal ==
  /\ count < MaxCount
  /\ count' = count + 1
  /\ Raise
  /\ IF numWaiting > 0 THEN WakeOne ELSE UNCHANGED pc
  /\ UNCHANGED numWaiting

broadcast ==
  /\ count < MaxCount
  /\ count' = count + 1
  /\ Raise
  /\ IF numWaiting > 0 THEN WakeAll ELSE UNCHANGED pc
  /\ UNCHANGED numWaiting

-----------------------------------------------------------------------------
(* Specification *)

Step(t) == FutexWait(t) \/ WaitAgain(t)

Next == \/ signal \/ broadcast
        \/ \E t \in Threads :
             WaitAtOnce(t) \/ WaitEnter(t) \/ Step(t) \/ Interrupt(t)

Spec == Init /\ [][Next]_vars

\* A thread that is not asleep in the kernel goes on.
FairSpec == Spec /\ \A t \in Threads : WF_vars(Step(t))

-----------------------------------------------------------------------------
(* Properties *)

\* The threads that will test the count without being woken again.
Awake == At("retry") \cup (IF futx = 1 THEN At("window") ELSE {})

\* While somebody sleeps, every unit there is has a thread on its way to it:
\* a signal between the release of the lock (semaphore.cc:28) and the futex
\* call is not lost, whoever else comes and goes.
NoLostWakeup == At("asleep") # {} => count <= Cardinality(Awake)

\* A thread about to sleep would not sleep past a unit.
WindowIsSafe == (futx = 0 /\ At("window") # {}) => count = 0

\* The inductive invariant.
SemaphoreInv == TypeOK /\ WindowIsSafe /\ NoLostWakeup

Abstract == INSTANCE CountingSemaphore WITH waiting <- Waiting

\* The class is a counting semaphore, and some waiter is served while there
\* are units; the memory managers rely on no more than that.
ImplementsCounting == Abstract!FairSpec
=============================================================================
