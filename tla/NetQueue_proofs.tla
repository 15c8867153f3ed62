--------------------------- MODULE NetQueue_proofs --------------------------
(***************************************************************************)
(* With one receiver, the condition variable of a packet queue loses no    *)
(* wake-up, whatever the number of senders, kinds and packets.             *)
(***************************************************************************)
EXTENDS NetQueue, TLAPS

OneReceiver == \A q, r \in Receivers : q = r

\* What the proof needs of the types.
SomeTypes == /\ futx \in {0, 1}
             /\ want \in [Receivers -> SUBSET Kinds]
             /\ pc \in [Receivers -> PCs]
             /\ spc \in [Senders -> {"idle", "notify"}]

WakeupInv == SomeTypes /\ NoLostWakeup /\ WaitIsSafe

\* Every thread stays at one of its steps.
LEMMA TypesStep == SomeTypes /\ [Next]_vars => SomeTypes'
<1> SUFFICES ASSUME SomeTypes, [Next]_vars PROVE SomeTypes'
  OBVIOUS
<1> USE DEF SomeTypes, PCs
<1>1. ASSUME NEW r \in Receivers, netRecv(r) \/ Step(r) \/ Interrupt(r)
      PROVE  SomeTypes'
  <2>1. CASE netRecv(r)
    BY <2>1, NetQueueAssumption DEF netRecv
  <2>2. CASE Step(r)
    BY <2>2 DEF Step, Scan, Reset, ReleaseLock, FutexWait
  <2>3. CASE Interrupt(r)
    BY <2>3 DEF Interrupt
  <2>4. QED
    BY <1>1, <2>1, <2>2, <2>3
<1>2. ASSUME NEW s \in Senders, push(s) \/ broadcast(s)
      PROVE  SomeTypes'
  BY <1>2 DEF push, broadcast, WakeAll, SetFutx
<1>3. CASE UNCHANGED vars
  BY <1>3 DEF vars
<1>4. QED
  BY <1>1, <1>2, <1>3 DEF Next

\* A step of the only receiver: it tests the queue with the lock before it
\* waits, and sleeps only if m_futx is still 0.
LEMMA ReceiverStep ==
  ASSUME OneReceiver, WakeupInv, NEW r \in Receivers,
         netRecv(r) \/ Step(r) \/ Interrupt(r)
  PROVE  NoLostWakeup' /\ WaitIsSafe'
<1> USE DEF WakeupInv, SomeTypes, PCs, NoLostWakeup, WaitIsSafe, Pending,
            OneReceiver, Matching
<1>1. CASE netRecv(r)
  BY <1>1 DEF netRecv
<1>2. CASE Scan(r)
  BY <1>2 DEF Scan
<1>3. CASE Reset(r)
  BY <1>3 DEF Reset
<1>4. CASE ReleaseLock(r)
  BY <1>4 DEF ReleaseLock
<1>5. CASE FutexWait(r)
  BY <1>5 DEF FutexWait
<1>6. CASE Interrupt(r)
  BY <1>6 DEF Interrupt
<1>7. QED
  BY <1>1, <1>2, <1>3, <1>4, <1>5, <1>6 DEF Step

\* A step of a sender: while a packet that somebody waits for is in the queue,
\* either its broadcast is still to come or it has woken the receiver and set
\* m_futx.
LEMMA SenderStep ==
  ASSUME WakeupInv, NEW s \in Senders, push(s) \/ broadcast(s)
  PROVE  NoLostWakeup' /\ WaitIsSafe'
<1> USE DEF WakeupInv, SomeTypes, PCs, NoLostWakeup, WaitIsSafe
<1>1. CASE push(s)
  <2>1. Pending'
    BY <1>1 DEF push, Pending
  <2>2. \A r \in Receivers : pc'[r] \notin {"reset", "release"}
    BY <1>1 DEF push, Locked
  <2>3. QED
    BY <2>1, <2>2
<1>2. CASE broadcast(s)
  <2>1. futx' = 1 /\ UNCHANGED <<queue, want>>
    BY <1>2 DEF broadcast, SetFutx
  <2>2. \A r \in Receivers : /\ pc'[r] # "asleep"
                             /\ pc'[r] \in {"reset", "release"} => pc'[r] = pc[r]
    BY <1>2 DEF broadcast, WakeAll
  <2>3. \A r \in Receivers : Matching(r)' = Matching(r)
    BY <2>1 DEF Matching
  <2>4. QED
    BY <2>1, <2>2, <2>3
<1>3. QED
  BY <1>1, <1>2

\* With one receiver, Network::netRecv and SmNode::recv never sleep past a
\* packet they wait for, unless its broadcast is still to come.
THEOREM OneReceiverWakes == OneReceiver => (Spec => []NoLostWakeup)
<1> SUFFICES ASSUME OneReceiver PROVE Spec => []NoLostWakeup
  OBVIOUS
<1>1. Init => WakeupInv
  BY DEF Init, WakeupInv, SomeTypes, PCs, NoLostWakeup, WaitIsSafe
<1>2. WakeupInv /\ [Next]_vars => WakeupInv'
  <2> SUFFICES ASSUME WakeupInv, [Next]_vars PROVE WakeupInv'
    OBVIOUS
  <2>1. SomeTypes'
    BY TypesStep DEF WakeupInv
  <2>2. NoLostWakeup' /\ WaitIsSafe'
    <3>1. CASE UNCHANGED vars
      BY <3>1 DEF WakeupInv, vars, NoLostWakeup, WaitIsSafe, Pending, Matching
    <3>2. QED
      BY <3>1, ReceiverStep, SenderStep DEF Next
  <2>3. QED
    BY <2>1, <2>2 DEF WakeupInv
<1>3. WakeupInv => NoLostWakeup
  BY DEF WakeupInv
<1>4. QED
  BY <1>1, <1>2, <1>3, PTL DEF Spec
=============================================================================
