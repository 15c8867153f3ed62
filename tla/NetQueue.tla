------------------------------ MODULE NetQueue ------------------------------
(***************************************************************************)
(* The packet queue of a tile: threads that block in Network::netRecv      *)
(* until a packet that matches arrives, threads that put packets in        *)
(* (Network::netPullFromTransport), and the futex condition variable       *)
(* between them (common/misc/cond.cc) at the grain of its steps.  A node   *)
(* of the shared-memory transport (SmTransport::SmNode) is the same queue  *)
(* with many senders and one receiver that takes any packet.               *)
(***************************************************************************)
EXTENDS Naturals, Sequences, FiniteSets

CONSTANTS
  Senders, Receivers,
  Kinds,         \* what a match tells apart: the type and sender of a packet
  Matches,       \* the sets of kinds a receiver may ask for
  MaxSent        \* bound: the packets each sender puts in

ASSUME NetQueueAssumption ==
  /\ Matches \subseteq SUBSET Kinds
  /\ MaxSent \in Nat

VARIABLES
  queue,     \* _netQueue, m_queue
  futx,      \* m_futx of the condition variable
  want,      \* the match a receiver waits for
  pc,        \* where a receiver is (see below)
  spc,       \* idle, or notify: a sender that has yet to broadcast
  sent,      \* how many packets each sender has put in
  got        \* the number of the last packet of each sender and kind received

vars == <<queue, futx, want, pc, spc, sent, got>>

\* A receiver is idle, about to take the lock and scan the queue, in
\* ConditionVariable::wait with the lock (reset, release) or without it
\* (futex), or asleep in FUTEX_WAIT.
PCs == {"idle", "scan", "reset", "release", "futex", "asleep"}

Packet == [src : Senders, kind : Kinds, n : Nat]

\* The queue holds packets of the senders, and each thread is at one of the
\* steps of its function.
TypeOK ==
  /\ queue \in Seq(Packet)
  /\ futx \in {0, 1}
  /\ want \in [Receivers -> SUBSET Kinds]
  /\ pc \in [Receivers -> PCs]
  /\ spc \in [Senders -> {"idle", "notify"}]
  /\ sent \in [Senders -> 0..MaxSent]
  /\ got \in [Senders \X Kinds -> 0..MaxSent]

Init ==
  /\ queue = <<>> /\ futx = 0
  /\ want = [r \in Receivers |-> {}]
  /\ pc = [r \in Receivers |-> "idle"]
  /\ spc = [s \in Senders |-> "idle"]
  /\ sent = [s \in Senders |-> 0]
  /\ got = [p \in Senders \X Kinds |-> 0]

\* _netQueueLock is taken.
Locked == \E r \in Receivers : pc[r] \in {"reset", "release"}

Matching(r) == {i \in 1..Len(queue) : queue[i].kind \in want[r]}
Without(q, i) == SubSeq(q, 1, i - 1) \o SubSeq(q, i + 1, Len(q))

-----------------------------------------------------------------------------
(* Receivers *)

netRecv(r) ==
  /\ pc[r] = "idle"
  /\ \E m \in Matches : want' = [want EXCEPT ![r] = m]
  /\ pc' = [pc EXCEPT ![r] = "scan"]
  /\ UNCHANGED <<queue, futx, spc, sent, got>>

\* With the lock, the receiver takes the first packet that matches and
\* returns, or calls wait.
FirstMatch(r, i) == i \in Matching(r) /\ \A j \in Matching(r) : i <= j
Scan(r) ==
  /\ pc[r] = "scan" /\ ~Locked
  /\ \/ \E i \in 1..Len(queue) :
          /\ FirstMatch(r, i)
          /\ queue' = Without(queue, i)
          /\ got' = [got EXCEPT ![<<queue[i].src, queue[i].kind>>] = queue[i].n]
          /\ pc' = [pc EXCEPT ![r] = "idle"]
     \/ /\ Matching(r) = {}
        /\ pc' = [pc EXCEPT ![r] = "reset"]
        /\ UNCHANGED <<queue, got>>
  /\ UNCHANGED <<futx, want, spc, sent>>

\* ConditionVariable::wait: m_futx = 0, lock.release(), FUTEX_WAIT.
Reset(r) ==
  /\ pc[r] = "reset"
  /\ futx' = 0
  /\ pc' = [pc EXCEPT ![r] = "release"]
  /\ UNCHANGED <<queue, want, spc, sent, got>>

ReleaseLock(r) ==
  /\ pc[r] = "release"
  /\ pc' = [pc EXCEPT ![r] = "futex"]
  /\ UNCHANGED <<queue, futx, want, spc, sent, got>>

AlwaysSleeps(r) ==   \* faulty: the value is not compared
  /\ pc[r] = "futex"
  /\ pc' = [pc EXCEPT ![r] = "asleep"]
  /\ UNCHANGED <<queue, futx, want, spc, sent, got>>
FutexWait(r) ==
  /\ pc[r] = "futex"
  /\ pc' = [pc EXCEPT ![r] = IF futx = 0 THEN "asleep" ELSE "scan"]
  /\ UNCHANGED <<queue, futx, want, spc, sent, got>>

\* FUTEX_WAIT is interrupted.
Interrupt(r) ==
  /\ pc[r] = "asleep"
  /\ pc' = [pc EXCEPT ![r] = "scan"]
  /\ UNCHANGED <<queue, futx, want, spc, sent, got>>

-----------------------------------------------------------------------------
(* Senders *)

PushBack(p) == Append(queue, p)
push(s) ==
  /\ spc[s] = "idle" /\ ~Locked
  /\ sent[s] < MaxSent
  /\ sent' = [sent EXCEPT ![s] = @ + 1]
  /\ \E k \in Kinds :
       queue' = PushBack([src |-> s, kind |-> k, n |-> sent[s] + 1])
  /\ spc' = [spc EXCEPT ![s] = "notify"]
  /\ UNCHANGED <<futx, want, pc, got>>

\* ConditionVariable::broadcast, without the lock of the queue.
NobodyWakes == UNCHANGED pc   \* faulty: FUTEX_WAKE is not called
WakeAll == pc' = [r \in Receivers |-> IF pc[r] = "asleep" THEN "scan" ELSE pc[r]]
SetFutx == futx' = 1
broadcast(s) ==
  /\ spc[s] = "notify"
  /\ SetFutx
  /\ WakeAll
  /\ spc' = [spc EXCEPT ![s] = "idle"]
  /\ UNCHANGED <<queue, want, sent, got>>

-----------------------------------------------------------------------------
(* Specification *)

Step(r) == Scan(r) \/ Reset(r) \/ ReleaseLock(r) \/ FutexWait(r)

Next == \/ \E r \in Receivers : netRecv(r) \/ Step(r) \/ Interrupt(r)
        \/ \E s \in Senders : push(s) \/ broadcast(s)

Spec == Init /\ [][Next]_vars

\* A thread that is not asleep in the kernel goes on.
Fairness == /\ \A r \in Receivers : WF_vars(Step(r))
            /\ \A s \in Senders : WF_vars(broadcast(s))
FairSpec == Spec /\ Fairness

-----------------------------------------------------------------------------
(* Properties *)

Pending == \E s \in Senders : spc[s] = "notify"

\* A receiver does not sleep past a packet that it waits for, unless the
\* broadcast for it is still to come: netRecv goes "to sleep until a packet
\* arrives" (network.cc:421).
NoLostWakeup ==
  \A r \in Receivers : pc[r] = "asleep" /\ Matching(r) # {} => Pending

\* Nor is it on its way to do so, and with the lock nothing can arrive.
\* This makes NoLostWakeup inductive for one receiver.
WaitIsSafe ==
  \A r \in Receivers :
    /\ pc[r] \in {"reset", "release"} => Matching(r) = {}
    /\ pc[r] = "futex" /\ futx = 0 /\ Matching(r) # {} => Pending

\* A packet is not received before an older one of the same sender and kind:
\* what is still in the queue is newer.
NotOvertaken ==
  \A i \in 1..Len(queue) : queue[i].n > got[<<queue[i].src, queue[i].kind>>]

\* A receiver gets its packet once it is in the queue, the oldest first.
Received ==
  /\ [](TypeOK /\ NotOvertaken)
  /\ \A r \in Receivers :
       (pc[r] # "idle" /\ Matching(r) # {}) ~> (pc[r] = "idle")
=============================================================================
