------------------------- MODULE CountingSemaphore --------------------------
(***************************************************************************)
(* What a semaphore promises: units are put in and taken out, a thread     *)
(* takes one or waits until there is one, and while there are both units   *)
(* and waiters some waiter gets a unit.                                    *)
(***************************************************************************)
EXTENDS Integers, FiniteSets

CONSTANTS Threads, InitCount

VARIABLES count, waiting
vars == <<count, waiting>>

Init == count = InitCount /\ waiting = {}

Put == count' = count + 1 /\ UNCHANGED waiting
TakeAtOnce == count > 0 /\ count' = count - 1 /\ UNCHANGED waiting
Queue(t) == t \notin waiting /\ waiting' = waiting \cup {t} /\ UNCHANGED count
Take(t) == /\ t \in waiting /\ count > 0
           /\ count' = count - 1 /\ waiting' = waiting \ {t}

Next == Put \/ TakeAtOnce \/ \E t \in Threads : Queue(t) \/ Take(t)

Spec == Init /\ [][Next]_vars
FairSpec == Spec /\ WF_vars(\E t \in Threads : Take(t))
=============================================================================
