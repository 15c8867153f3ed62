----------------------------- MODULE LaxBarrier -----------------------------
(***************************************************************************)
(* The lax barrier: threads stop when their clock passes a multiple of the *)
(* quantum until every thread that runs has passed it                      *)
(* (clock_skew_minimization_schemes/lax_barrier_sync_client.cc and         *)
(* _server.cc).  The server looks at the thread manager for who runs; what *)
(* the application does at the synchronization server and the thread       *)
(* manager is kept to its effect there: a thread stalls, resumes others,   *)
(* or exits.  Cores run one thread each, from the start: spawning is not   *)
(* modelled.                                                               *)
(***************************************************************************)
EXTENDS Clocks, FiniteSets, FiniteSetsExt

CONSTANTS
  Ops,           \* what the application does
  Joins,         \* whether it may wait for a thread to exit
  Interval,      \* the quantum, m_barrier_interval
  MaxStep,       \* the cycles of the longest instruction
  MaxTime,       \* bound: a thread exits at this clock
  None

AllOps == {"block", "unlock", "condWait", "barrier", "exit"}

\* What the bound on the skew needs of the parameters.  The clock of a core is
\* a whole multiple of the global clock of 1 GHz (carbon_sim.cfg sets 1):
\* otherwise sync_client.cc rounds the cycles that a reply makes the core skip
\* up, and the core goes past the time of the reply.
Parameters ==
  /\ IsFiniteSet(Cores) /\ Ops \subseteq AllOps
  /\ Interval \in Nat \ {0} /\ MaxStep \in Nat \ {0} /\ MaxTime \in Nat
  /\ \A c \in Cores : Freq[c] % Unit = 0
  /\ None \notin [op : AllOps \cup {"sync"}, time : Nat]
  /\ None \notin [kind : {"release", "reply"}, time : Nat]

VARIABLES
  clk,        \* the clock of each core
  nextSync,   \* m_next_sync_time of its client
  pc,         \* run, sync: waits for the release, call: waits for a reply, done
  pkt,        \* the request on its way to the master control process
  reply,      \* the reply on its way back
  status,     \* the state of the thread in the thread manager
  next,       \* m_next_barrier_time
  local, acquired,  \* m_local_clock_list, m_barrier_acquire_list
  behind      \* history: the threads the barrier has gone past, see Stop

clientVars == <<clk, nextSync, pc>>
barrierVars == <<next, local, acquired, behind>>
vars == <<clientVars, pkt, reply, status, barrierVars>>

Now(c) == ToGlobal(c, clk[c])
Release == [kind |-> "release", time |-> 0]
Response(time) == [kind |-> "reply", time |-> time]

\* Every clock, message and list has the type the code gives it.
TypeOK ==
  /\ clk \in [Cores -> Nat]
  /\ nextSync \in [Cores -> Nat]
  /\ pc \in [Cores -> {"run", "sync", "call", "done"}]
  /\ pkt \in [Cores -> {None} \cup [op : AllOps \cup {"sync"}, time : Nat]]
  /\ reply \in [Cores -> {None} \cup [kind : {"release", "reply"}, time : Nat]]
  /\ status \in [Cores -> {"RUNNING", "STALLED", "IDLE"}]
  /\ next \in Nat /\ next % Interval = 0
  /\ local \in [Cores -> Nat]
  /\ acquired \in [Cores -> BOOLEAN]
  /\ behind \subseteq Cores

Init ==
  /\ clk = [c \in Cores |-> 0]
  /\ nextSync = [c \in Cores |-> Interval]
  /\ pc = [c \in Cores |-> "run"]
  /\ pkt = [c \in Cores |-> None]
  /\ reply = [c \in Cores |-> None]
  /\ status = [c \in Cores |-> "RUNNING"]
  /\ next = Interval
  /\ local = [c \in Cores |-> 0]
  /\ acquired = [c \in Cores |-> FALSE]
  /\ behind = {}

-----------------------------------------------------------------------------
(* Clients *)

Send(c, op) == pkt' = [pkt EXCEPT ![c] = [op |-> op, time |-> Now(c)]]

\* Before each instruction the thread calls synchronize.
Compute(c) ==
  /\ pc[c] = "run" /\ clk[c] < MaxTime
  /\ Now(c) < nextSync[c]
  /\ \E n \in 1..MaxStep : clk' = [clk EXCEPT ![c] = @ + n]
  /\ UNCHANGED <<nextSync, pc, pkt, reply, status, barrierVars>>

synchronize(c) ==
  /\ pc[c] = "run" /\ Now(c) >= nextSync[c]
  /\ Send(c, "sync")
  /\ pc' = [pc EXCEPT ![c] = "sync"]
  /\ UNCHANGED <<clk, nextSync, reply, status, barrierVars>>

NextSync(now) == (now \div Interval) * Interval + Interval
Released(c) ==
  /\ pc[c] = "sync" /\ reply[c] = Release
  /\ reply' = [reply EXCEPT ![c] = None]
  /\ nextSync' = [nextSync EXCEPT ![c] = NextSync(Now(c))]
  /\ pc' = [pc EXCEPT ![c] = "run"]
  /\ UNCHANGED <<clk, pkt, status, barrierVars>>

\* The application calls the synchronization server or the thread manager.
Call(c) ==
  /\ pc[c] = "run"
  /\ \E op \in Ops :
       /\ Send(c, op)
       /\ pc' = [pc EXCEPT ![c] = IF op = "exit" THEN "done" ELSE "call"]
  /\ UNCHANGED <<clk, nextSync, reply, status, barrierVars>>
Exit(c) ==
  /\ pc[c] = "run" /\ clk[c] >= MaxTime
  /\ Send(c, "exit")
  /\ pc' = [pc EXCEPT ![c] = "done"]
  /\ UNCHANGED <<clk, nextSync, reply, status, barrierVars>>

Return(c) ==
  /\ pc[c] = "call" /\ reply[c] # None
  /\ clk' = [clk EXCEPT ![c] =
               IF reply[c].time > Now(c)
               THEN @ + ToCore(c, reply[c].time - Now(c)) ELSE @]
  /\ reply' = [reply EXCEPT ![c] = None]
  /\ pc' = [pc EXCEPT ![c] = "run"]
  /\ UNCHANGED <<nextSync, pkt, status, barrierVars>>

-----------------------------------------------------------------------------
(* LaxBarrierSyncServer *)

\* isBarrierReached, for the threads that run according to st.
AnyReached(st, loc) ==   \* faulty: the threads that run are not waited for
  \E c \in Cores : loc[c] >= next
isBarrierReached(st, loc) ==
  /\ \A c \in Cores : loc[c] < next => st[c] # "RUNNING"
  /\ \E c \in Cores : loc[c] >= next

\* barrierRelease advances the barrier, by one quantum at least, until some
\* thread that has acquired it can go on, and lets those threads go on.
OneQuantum(loc, acq) == next + Interval   \* faulty: it is advanced only once
Advanced(loc, acq) ==
  LET first == Min({loc[c] : c \in {d \in Cores : acq[d]}})
  IN  IF first < next THEN next + Interval
      ELSE next + Interval * ((first - next) \div Interval + 1)
Below(loc, acq, n) == {c \in Cores : acq[c] /\ loc[c] < n}
\* signal: the barrier time, and the threads that are released.
signal(st, loc, acq) ==
  IF isBarrierReached(st, loc)
  THEN LET n == Advanced(loc, acq)
       IN  [next |-> n, released |-> Below(loc, acq, n)]
  ELSE [next |-> next, released |-> {}]

\* The state after signal, which has released its threads, and the resumed
\* threads of a handler, which get the time of the call.
Answer(sig, resumed, time) ==
  reply' = [c \in Cores |-> IF c \in sig.released THEN Release
                            ELSE IF c \in resumed THEN Response(time)
                            ELSE reply[c]]
Barrier(sig, acq) ==
  /\ next' = sig.next
  /\ acquired' = [c \in Cores |-> acq[c] /\ c \notin sig.released]

Takes(c, op) == /\ pkt[c] # None /\ pkt[c].op = op
                /\ pkt' = [pkt EXCEPT ![c] = None]

barrierWait(c) ==
  LET time == pkt[c].time
      loc == [local EXCEPT ![c] = time]
      acq == [acquired EXCEPT ![c] = TRUE]
      sig == signal(status, loc, acq)
  IN
  /\ Takes(c, "sync")
  /\ IF time < next
     THEN /\ reply' = [reply EXCEPT ![c] = Release]
          /\ UNCHANGED barrierVars
     ELSE /\ local' = loc
          /\ Barrier(sig, acq)
          /\ Answer(sig, {}, 0)
          /\ behind' = behind \ {c}
  /\ UNCHANGED <<clientVars, status>>

-----------------------------------------------------------------------------
(* Thread manager and synchronization server *)

Stalled == {c \in Cores : status[c] = "STALLED"}
OneStalled == {{}} \cup {{d} : d \in Stalled}
Set(st, S, v) == [c \in Cores |-> IF c \in S THEN v ELSE st[c]]

\* Who c resumes runs at c's time: behind the barrier if c is, or if c's stop
\* has released the barrier first.
Left(c, resumed, past) == IF past \/ c \in behind THEN resumed ELSE {}

\* c stops (it stalls or exits), which calls signal; only then are the threads
\* in resumed taken for running again.
Stop(c, v, resumed, time) ==
  LET sig == signal(Set(status, {c}, v), local, acquired)
  IN
  /\ Barrier(sig, acquired)
  /\ Answer(sig, resumed, time)
  /\ behind' = (behind \ {c}) \cup Left(c, resumed, sig.released # {})
  /\ status' = Set(Set(status, {c}, v), resumed, "RUNNING")
  /\ UNCHANGED <<clientVars, local>>

\* mutexLock of a mutex that is taken, a join, the first ones at a barrier.
Block(c) == Takes(c, "block") /\ Stop(c, "STALLED", {}, 0)

\* condWait hands its mutex over.
CondWait(c) ==
  /\ Takes(c, "condWait")
  /\ \E S \in OneStalled : Stop(c, "STALLED", S, pkt[c].time)

\* The last thread at a SimBarrier stalls as well, and is resumed with the
\* others at the latest of their times.
BarrierLast(c) ==
  /\ Takes(c, "barrier")
  /\ \E S \in SUBSET Stalled :
       Stop(c, "STALLED", S \cup {c}, Max({Now(d) : d \in S \cup {c}}))

\* masterOnThreadExit wakes the thread that joins.
ThreadExit(c) ==
  /\ Takes(c, "exit")
  /\ \E S \in IF Joins THEN OneStalled ELSE {{}} :
       Stop(c, "IDLE", S, pkt[c].time)

\* mutexUnlock, condSignal: a thread is resumed and nobody stops.
Unlock(c) ==
  /\ Takes(c, "unlock")
  /\ \E S \in OneStalled :
       /\ status' = Set(status, S, "RUNNING")
       /\ reply' = [d \in Cores |-> IF d \in S \cup {c}
                                    THEN Response(pkt[c].time) ELSE reply[d]]
       /\ behind' = behind \cup Left(c, S, FALSE)
  /\ UNCHANGED <<clientVars, next, local, acquired>>

-----------------------------------------------------------------------------
(* Specification *)

Handle(c) == \/ barrierWait(c) \/ Block(c) \/ CondWait(c)
             \/ BarrierLast(c) \/ ThreadExit(c) \/ Unlock(c)
Advance(c) == Compute(c) \/ synchronize(c) \/ Exit(c)

Next == \E c \in Cores :
          Advance(c) \/ Released(c) \/ Call(c) \/ Return(c) \/ Handle(c)

Spec == Init /\ [][Next]_vars

\* The server handles its packets, clients receive their replies, and a thread
\* that runs executes instructions.
Fairness ==
  \A c \in Cores :
    /\ WF_vars(Handle(c))
    /\ WF_vars(Released(c) \/ Return(c))
    /\ SF_vars(Advance(c))
FairSpec == Spec /\ Fairness

-----------------------------------------------------------------------------
(* Properties *)

\* The threads that execute: neither stalled nor with a reply under way that
\* will move their clock.
Executing == {c \in Cores : status[c] = "RUNNING" /\ pc[c] # "done"
                            /\ ~(pc[c] = "call" /\ reply[c] # None)}

\* A thread that has acquired the barrier is running for the thread manager,
\* as the assertion in barrierRelease (lax_barrier_sync_server.cc:143) means
\* to say, is blocked in synchronize, and has neither message under way: its
\* release will be the only reply it gets.
WaitersRun ==
  \A c \in Cores : acquired[c] => /\ status[c] = "RUNNING" /\ pc[c] = "sync"
                                  /\ pkt[c] = None /\ reply[c] = None

\* A thread whose recorded clock is not below the barrier has acquired it: when
\* isBarrierReached says so, the loop of barrierRelease finds a thread to
\* resume and ends.
ReleaseEnds == \A c \in Cores : local[c] >= next => acquired[c]

\* No client runs to a later point than the barrier that the server has set.
ClientsAgree == \A c \in Cores : nextSync[c] <= next

\* What the scheme is for: the clocks of two threads that execute differ by
\* less than a quantum and the longest instruction.  The threads that lag
\* more are those that were resumed after signal had released the barrier
\* (stallThread, thread_manager.cc:767, called first by SimCond::wait and
\* SimBarrier::wait; masterOnThreadExit, thread_manager.cc:194).  It rests on
\* the three facts above.
BoundedSkew ==
  /\ TypeOK /\ WaitersRun /\ ReleaseEnds /\ ClientsAgree
  /\ \A c \in Executing, d \in Executing \ behind :
       Now(c) < Now(d) + Interval + Max({ToGlobal(e, MaxStep) : e \in Cores})

\* A thread that waits at the barrier is released, whatever the others do:
\* run, stall, resume each other or exit.
WaitersReleased == \A c \in Cores : (pc[c] = "sync") ~> (pc[c] = "run")
=============================================================================
