-------------------------- MODULE Semaphore_proofs --------------------------
(***************************************************************************)
(* The futex semaphore loses no wake-up and is a counting semaphore, for   *)
(* every finite set of threads.                                            *)
(***************************************************************************)
EXTENDS Semaphore, FiniteSetTheorems, TLAPS

\* The sets of threads the invariant counts are finite.
LEMMA SetsFinite ==
  /\ IsFiniteSet(Waiting) /\ Cardinality(Waiting) \in Nat
  /\ IsFiniteSet(Awake) /\ Cardinality(Awake) \in Nat
  /\ IsFiniteSet(Waiting') /\ Cardinality(Waiting') \in Nat
  /\ IsFiniteSet(Awake') /\ Cardinality(Awake') \in Nat
<1>1. /\ Waiting \subseteq Threads /\ Awake \subseteq Threads
      /\ Waiting' \subseteq Threads /\ Awake' \subseteq Threads
  BY DEF Waiting, Awake, At
<1>2. QED
  BY <1>1, SemaphoreAssumption, FS_Subset, FS_CardinalityType

\* Initially nobody waits.
LEMMA InitInv == Init => SemaphoreInv
<1>1. Init => Waiting = {} /\ At("asleep") = {} /\ At("window") = {}
  BY DEF Init, Waiting, At
<1>2. QED
  BY <1>1, FS_EmptySet, SemaphoreAssumption
  DEF Init, SemaphoreInv, TypeOK, WindowIsSafe, NoLostWakeup

\* Every step keeps the count of the waiting threads.
LEMMA TypeStep == TypeOK /\ [Next]_vars => TypeOK'
<1> SUFFICES ASSUME TypeOK, [Next]_vars PROVE TypeOK'
  OBVIOUS
<1> USE SetsFinite
<1>same. ASSUME Waiting' = Waiting, numWaiting' = numWaiting
         PROVE  numWaiting' = Cardinality(Waiting')
  BY <1>same DEF TypeOK
<1>1. CASE signal
  <2>1. pc' \in [Threads -> {"idle", "window", "asleep", "retry"}] /\ Waiting' = Waiting
    BY <1>1 DEF signal, WakeOne, TypeOK, Waiting, At
  <2>2. QED
    BY <1>1, <2>1, <1>same DEF signal, Raise, TypeOK
<1>2. CASE broadcast
  <2>1. pc' \in [Threads -> {"idle", "window", "asleep", "retry"}] /\ Waiting' = Waiting
    BY <1>2 DEF broadcast, WakeAll, TypeOK, Waiting
  <2>2. QED
    BY <1>2, <2>1, <1>same DEF broadcast, Raise, TypeOK
<1>3. ASSUME NEW t \in Threads, WaitAtOnce(t) PROVE TypeOK'
  BY <1>3, <1>same DEF WaitAtOnce, TypeOK, Waiting
<1>4. ASSUME NEW t \in Threads, WaitEnter(t) PROVE TypeOK'
  <2>1. Waiting' = Waiting \cup {t} /\ t \notin Waiting
    BY <1>4 DEF WaitEnter, TypeOK, Waiting
  <2>2. Cardinality(Waiting') = Cardinality(Waiting) + 1
    BY <2>1, FS_AddElement
  <2>3. QED
    BY <1>4, <2>2 DEF WaitEnter, TypeOK
<1>5. ASSUME NEW t \in Threads, FutexWait(t) PROVE TypeOK'
  <2>1. Waiting' = Waiting
    BY <1>5 DEF FutexWait, TypeOK, Waiting
  <2>2. QED
    BY <1>5, <2>1, <1>same DEF FutexWait, TypeOK
<1>6. ASSUME NEW t \in Threads, WaitAgain(t) PROVE TypeOK'
  <2>1. CASE count > 0
    <3>1. Waiting' = Waiting \ {t} /\ t \in Waiting
      BY <1>6, <2>1 DEF WaitAgain, TypeOK, Waiting
    <3>2. Cardinality(Waiting') = Cardinality(Waiting) - 1
      BY <3>1, FS_RemoveElement
    <3>3. QED
      BY <1>6, <2>1, <3>2 DEF WaitAgain, TypeOK
  <2>2. CASE ~(count > 0)
    <3>1. Waiting' = Waiting
      BY <1>6, <2>2 DEF WaitAgain, TypeOK, Waiting
    <3>2. QED
      BY <1>6, <2>2, <3>1, <1>same DEF WaitAgain, TypeOK
  <2>3. QED
    BY <2>1, <2>2
<1>7. ASSUME NEW t \in Threads, Interrupt(t) PROVE TypeOK'
  <2>1. Waiting' = Waiting
    BY <1>7 DEF Interrupt, TypeOK, Waiting
  <2>2. QED
    BY <1>7, <2>1, <1>same DEF Interrupt, TypeOK
<1>8. CASE UNCHANGED vars
  BY <1>8, <1>same DEF vars, TypeOK, Waiting
<1>9. QED
  BY <1>1, <1>2, <1>3, <1>4, <1>5, <1>6, <1>7, <1>8 DEF Next, Step

\* A signal raises *_futx when a thread is about to sleep.
LEMMA WindowStep == SemaphoreInv /\ [Next]_vars => WindowIsSafe'
<1> SUFFICES ASSUME SemaphoreInv, [Next]_vars PROVE WindowIsSafe'
  OBVIOUS
<1> USE DEF SemaphoreInv, TypeOK, WindowIsSafe, At
<1>0. At("window") # {} => numWaiting > 0
  <2>1. At("window") \subseteq Waiting
    BY DEF Waiting
  <2>2. Waiting # {} => Cardinality(Waiting) # 0
    BY SetsFinite, FS_EmptySet
  <2>3. QED
    BY <2>1, <2>2, SetsFinite
<1>1. CASE signal
  BY <1>0, <1>1 DEF signal, Raise, WakeOne
<1>2. CASE broadcast
  BY <1>0, <1>2 DEF broadcast, Raise, WakeAll
<1>3. ASSUME NEW t \in Threads, WaitAtOnce(t) PROVE WindowIsSafe'
  BY <1>3 DEF WaitAtOnce
<1>4. ASSUME NEW t \in Threads, WaitEnter(t) PROVE WindowIsSafe'
  BY <1>4 DEF WaitEnter
<1>5. ASSUME NEW t \in Threads, FutexWait(t) PROVE WindowIsSafe'
  BY <1>5 DEF FutexWait
<1>6. ASSUME NEW t \in Threads, WaitAgain(t) PROVE WindowIsSafe'
  BY <1>6 DEF WaitAgain
<1>7. ASSUME NEW t \in Threads, Interrupt(t) PROVE WindowIsSafe'
  BY <1>7 DEF Interrupt
<1>8. CASE UNCHANGED vars
  BY <1>8 DEF vars
<1>9. QED
  BY <1>1, <1>2, <1>3, <1>4, <1>5, <1>6, <1>7, <1>8 DEF Next, Step

\* A unit that is put in while somebody sleeps wakes one more thread, and a
\* thread that goes to sleep leaves no unit behind.
LEMMA WakeupStep == SemaphoreInv /\ [Next]_vars => NoLostWakeup'
<1> SUFFICES ASSUME SemaphoreInv, [Next]_vars, At("asleep")' # {}
             PROVE  count' <= Cardinality(Awake')
  BY DEF NoLostWakeup
<1> USE DEF SemaphoreInv, TypeOK
<1>a. ASSUME Awake \subseteq Awake', count' = count, At("asleep") # {}
      PROVE  count' <= Cardinality(Awake')
  <2>1. Cardinality(Awake) <= Cardinality(Awake')
    BY <1>a, SetsFinite, FS_Subset
  <2>2. QED
    BY <1>a, <2>1, SetsFinite DEF NoLostWakeup
<1>b. ASSUME count' = 0
      PROVE  count' <= Cardinality(Awake')
  BY <1>b, SetsFinite
<1>1. CASE signal
  <2>1. At("asleep") # {}
    BY <1>1 DEF signal, WakeOne, At
  <2>2. numWaiting > 0
    <3>1. At("asleep") \subseteq Waiting
      BY DEF At, Waiting
    <3>2. QED
      BY <2>1, <3>1, SetsFinite, FS_EmptySet
  <2>3. PICK t \in At("asleep") : pc' = [pc EXCEPT ![t] = "retry"]
    BY <1>1, <2>1, <2>2 DEF signal, WakeOne
  <2>4. futx' = 1 /\ count' = count + 1
    BY <1>1, <2>2 DEF signal, Raise
  <2>5. Awake \cup {t} \subseteq Awake' /\ t \notin Awake
    BY <2>3, <2>4 DEF At, Awake
  <2>6. Cardinality(Awake \cup {t}) = Cardinality(Awake) + 1
    BY <2>5, SetsFinite, FS_AddElement
  <2>7. Cardinality(Awake \cup {t}) <= Cardinality(Awake')
    BY <2>5, SetsFinite, FS_Subset
  <2>8. QED
    BY <2>1, <2>4, <2>6, <2>7, SetsFinite DEF NoLostWakeup
<1>2. CASE broadcast
  <2>1. At("asleep") = {}
    <3>1. SUFFICES ASSUME At("asleep") # {} PROVE FALSE
      OBVIOUS
    <3>2. At("asleep") \subseteq Waiting
      BY DEF At, Waiting
    <3>3. numWaiting > 0
      BY <3>1, <3>2, SetsFinite, FS_EmptySet
    <3>4. QED
      BY <1>2, <3>3 DEF broadcast, WakeAll, At
  <2>2. QED
    BY <1>2, <2>1 DEF broadcast, WakeAll, At
<1>3. ASSUME NEW t \in Threads, WaitAtOnce(t)
      PROVE  count' <= Cardinality(Awake')
  <2>1. Awake' = Awake /\ At("asleep") # {} /\ count' = count - 1
    BY <1>3 DEF WaitAtOnce, Awake, At
  <2>2. QED
    BY <2>1, SetsFinite DEF NoLostWakeup
<1>4. ASSUME NEW t \in Threads, WaitEnter(t)
      PROVE  count' <= Cardinality(Awake')
  BY <1>4, <1>b DEF WaitEnter
<1>5. ASSUME NEW t \in Threads, FutexWait(t)
      PROVE  count' <= Cardinality(Awake')
  <2>1. CASE futx = 0
    BY <1>5, <2>1, <1>b DEF FutexWait, WindowIsSafe, At
  <2>2. CASE futx = 1
    BY <1>5, <2>2, <1>a DEF FutexWait, Awake, At
  <2>3. QED
    BY <2>1, <2>2
<1>6. ASSUME NEW t \in Threads, WaitAgain(t)
      PROVE  count' <= Cardinality(Awake')
  <2>1. CASE count > 0
    <3>1. Awake' = Awake \ {t} /\ t \in Awake /\ At("asleep") # {}
      BY <1>6, <2>1 DEF WaitAgain, Awake, At
    <3>2. Cardinality(Awake') = Cardinality(Awake) - 1
      BY <3>1, SetsFinite, FS_RemoveElement
    <3>3. QED
      BY <1>6, <2>1, <3>1, <3>2, SetsFinite DEF WaitAgain, NoLostWakeup
  <2>2. CASE ~(count > 0)
    BY <1>6, <2>2, <1>b DEF WaitAgain
  <2>3. QED
    BY <2>1, <2>2
<1>7. ASSUME NEW t \in Threads, Interrupt(t)
      PROVE  count' <= Cardinality(Awake')
  BY <1>7, <1>a DEF Interrupt, Awake, At
<1>8. CASE UNCHANGED vars
  BY <1>8, <1>a DEF vars, Awake, At
<1>9. QED
  BY <1>1, <1>2, <1>3, <1>4, <1>5, <1>6, <1>7, <1>8 DEF Next, Step

\* The invariant holds in every reachable state.
THEOREM SemaphoreInvariant == Spec => []SemaphoreInv
<1>1. SemaphoreInv /\ [Next]_vars => SemaphoreInv'
  BY TypeStep, WindowStep, WakeupStep DEF SemaphoreInv
<1>2. QED
  BY InitInv, <1>1, PTL DEF Spec

\* Semaphore::signal and broadcast lose no wake-up: while a thread sleeps in
\* FUTEX_WAIT, there are no more units than threads on their way to take one.
THEOREM WakeupsAreNotLost == Spec => []NoLostWakeup
<1>1. SemaphoreInv => NoLostWakeup
  BY DEF SemaphoreInv
<1>2. QED
  BY SemaphoreInvariant, <1>1, PTL

\* The class is a counting semaphore: its initial state is one of the abstract
\* specification, and each of its steps is an abstract step or changes nothing
\* there.
THEOREM CountsUnits == Spec => Abstract!Spec
<1>1. Init => Abstract!Init
  BY DEF Init, Abstract!Init, Waiting
<1>2. SemaphoreInv /\ [Next]_vars => [Abstract!Next]_(Abstract!vars)
  <2> SUFFICES ASSUME SemaphoreInv, [Next]_vars
               PROVE  [Abstract!Next]_(Abstract!vars)
    OBVIOUS
  <2> USE DEF SemaphoreInv, TypeOK, Abstract!Next, Abstract!vars
  <2>1. CASE signal
    BY <2>1 DEF signal, WakeOne, At, Waiting, Abstract!Put
  <2>2. CASE broadcast
    BY <2>2 DEF broadcast, WakeAll, Waiting, Abstract!Put
  <2>3. ASSUME NEW t \in Threads, WaitAtOnce(t) PROVE Abstract!TakeAtOnce
    BY <2>3 DEF WaitAtOnce, Waiting, Abstract!TakeAtOnce
  <2>4. ASSUME NEW t \in Threads, WaitEnter(t) PROVE Abstract!Queue(t)
    BY <2>4 DEF WaitEnter, Waiting, Abstract!Queue
  <2>5. ASSUME NEW t \in Threads, FutexWait(t) PROVE UNCHANGED Abstract!vars
    BY <2>5 DEF FutexWait, Waiting
  <2>6. ASSUME NEW t \in Threads, WaitAgain(t)
        PROVE  Abstract!Take(t) \/ UNCHANGED Abstract!vars
    BY <2>6 DEF WaitAgain, Waiting, Abstract!Take
  <2>7. ASSUME NEW t \in Threads, Interrupt(t) PROVE UNCHANGED Abstract!vars
    BY <2>7 DEF Interrupt, Waiting
  <2>8. CASE UNCHANGED vars
    BY <2>8 DEF vars, Waiting
  <2>9. QED
    BY <2>1, <2>2, <2>3, <2>4, <2>5, <2>6, <2>7, <2>8 DEF Next, Step
<1>3. QED
  BY SemaphoreInvariant, <1>1, <1>2, PTL DEF Spec, Abstract!Spec
=============================================================================
