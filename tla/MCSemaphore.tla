---------------------------- MODULE MCSemaphore -----------------------------
(* Semaphore, and as M the protocol whose threads hand a tile over with     *)
(* two semaphores: two tiles that share one line.  They share no state, so  *)
(* a behaviour moves one of them.                                           *)
EXTENDS Semaphore
CONSTANTS t1, t2, a1, None

VARIABLES l1, l2, app, sim, lock, appSem, simSem, outst,
          chan, queue, way, repl, work, dram, latest, err
M == INSTANCE MSI WITH
  Tiles <- {t1, t2}, Addrs <- {a1}, InstrAddrs <- {}, DataAddrs <- {a1},
  Home <- [a \in {a1} |-> t1], Values <- {0, 1}, InitVal <- 0,
  L1Ways <- 1, L2Ways <- 1, DirWays <- 1, ReplacementPolicy <- "lru",
  DirectoryType <- "limited_no_broadcast", MaxHwSharers <- 1, MaxInFlight <- 8
tileVars == <<l1, l2, app, sim, lock, appSem, simSem, outst,
              chan, queue, way, repl, work, dram, latest, err>>

Start == Init /\ M!Init
Both == \/ M!Init /\ Next /\ UNCHANGED tileVars
        \/ Init /\ M!Next /\ UNCHANGED vars

\* The threads of the semaphore go on (Semaphore.FairSpec), and so do those of
\* the tiles (MSI.Fairness).
Moves(A) == Init /\ err = {} /\ A /\ UNCHANGED vars
BothSpec ==
  /\ Start /\ [][Both]_<<vars, tileVars>>
  /\ \A t \in Threads : WF_vars(M!Init /\ Step(t) /\ UNCHANGED tileVars)
  /\ \A t \in {t1, t2} :
       /\ WF_tileVars(Moves(M!AppResume(t)))
       /\ WF_tileVars(Moves(\E v \in {0, 1} : M!AppUnlock(t, v)))
       /\ WF_tileVars(Moves(M!ServeStep(t)))
       /\ SF_tileVars(Moves(M!SimResume(t)))
       /\ SF_tileVars(Moves(M!L2RecvFromL1(t)))
       /\ \A s \in {t1, t2} : SF_tileVars(Moves(M!RecvStep(s, t)))

\* Every access that misses is eventually completed: the hand-over between the
\* threads of a tile, the queues of the directory and the crossing of requests
\* with evictions leave no tile waiting.
AccessCompletes == M!AccessCompletes
=============================================================================
