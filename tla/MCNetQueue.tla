------------------------------ MODULE MCNetQueue -----------------------------
(* The two ways to wait for a packet, for TLC: a thread that blocks in      *)
(* netRecv, and cores that wait in it for the release of the barrier.  The  *)
(* models share no state and each behaviour moves one of them.              *)
EXTENDS NetQueue, TLC

CONSTANTS c1, c2, None, Interval, MaxStep, MaxTime
VARIABLES moves, clk, nextSync, at, pkt, reply, status, next, local, acquired, behind
barrierVars == <<clk, nextSync, at, pkt, reply, status, next, local, acquired, behind>>

\* One core runs at double the frequency of the other.
Cores == {c1, c2}
L == INSTANCE LaxBarrier WITH
       Ops <- {"block", "unlock", "condWait", "barrier", "exit"}, Joins <- TRUE,
       Unit <- 1, Freq <- c1 :> 2 @@ c2 :> 1, pc <- at

ASSUME L!Parameters

Queue == moves = "queue" /\ UNCHANGED <<moves, barrierVars>>
Barrier == moves = "barrier" /\ UNCHANGED <<moves, vars>>
all == <<moves, vars, barrierVars>>

Start == Init /\ L!Init /\ moves \in {"queue", "barrier"}
Move == \/ Queue /\ Next
        \/ Barrier /\ L!Next
\* The fairness of NetQueue and of LaxBarrier, for the one that moves.
Fair == /\ \A r \in Receivers : WF_all(Queue /\ Step(r))
        /\ \A s \in Senders : WF_all(Queue /\ broadcast(s))
        /\ \A c \in Cores :
             /\ WF_all(Barrier /\ L!Handle(c))
             /\ WF_all(Barrier /\ (L!Released(c) \/ L!Return(c)))
             /\ SF_all(Barrier /\ L!Advance(c))
BothSpec == Start /\ [][Move]_all /\ Fair

\* The clocks of cores that execute stay together: LaxBarrier.
BoundedSkew == L!BoundedSkew
\* A core that waits at the barrier is released: LaxBarrier.
WaitersReleased == L!WaitersReleased
==============================================================================
