------------------------------ MODULE Threads ------------------------------
(***************************************************************************)
(* The thread manager and the thread scheduler                             *)
(* (common/system/thread_manager.cc, thread_scheduler.cc,                  *)
(* round_robin_thread_scheduler.cc), with the part of the tile manager     *)
(* that maps threads to cores (tile_manager.cc), the local control         *)
(* process (lcp.cc) and the thread spawner (common/user/thread_support.cc).*)
(*                                                                         *)
(* A thread asks the master control process, which handles one packet at a *)
(* time: a handler is one action, on the record master, but for the yield, *)
(* which writes without the lock of the core and releases it on the way    *)
(* and is one action for every stretch between two locks.  Threads of one  *)
(* core share its network queue, its m_core_lock and its condition         *)
(* variable.  There is one host process, so that the scheduler of the      *)
(* master and the scheduler of the clients are one object.  Tile 0 runs    *)
(* the main thread, thread 0.                                              *)
(***************************************************************************)
EXTENDS Integers, Sequences, FiniteSets, FiniteSetsExt, SequencesExt

CONSTANTS
  N,          \* the application tiles are 0 to N - 1
  K,          \* max_threads_per_core
  MaxTid,     \* bound: how many threads are spawned
  MaxYields,  \* bound: how often the threads yield, all together
  Masks,      \* the affinity masks the application sets
  Parents,    \* the threads that spawn and join
  Targets,    \* the tiles they name; -1: any
  Mode        \* FULL or LITE

Tiles == 0..N-1
Idx == 0..K-1
Slots == Tiles \X Idx
Tids == 0..MaxTid
NoIdx == -1
NoTile == -1
None == <<-1, -1>>      \* INVALID_CORE_ID with INVALID_THREAD_ID
Unlocked == -1
Mcp == -2               \* the master as the holder of a lock

ASSUME ThreadsAssumption ==
  /\ N \in Nat \ {0} /\ K \in Nat \ {0} /\ MaxTid \in Nat /\ MaxYields \in Nat
  /\ Masks \subseteq SUBSET Tiles
  /\ Parents \subseteq Tids
  /\ Targets \subseteq Tiles \cup {NoTile}
  /\ Mode \in {"FULL", "LITE"}

VARIABLES
  master,    \* what the handlers of the master control process work on
  mcp,       \* the requests of each core on their way to it
  task,      \* where the master is in masterYieldThread, and for which slots
  pc,        \* where each thread is
  at,        \* the slot in the thread-local storage of each thread
  target,    \* the slot a yielding thread is to continue at
  got,       \* the reply a yielding thread has taken from the network
  lock,      \* the thread that holds m_core_lock of a tile; -1: free
  mapped,    \* m_initialized_threads
  spawning,  \* m_thread_spawn_list is locked for the thread at its head
  kids,      \* the thread ids spawnThread has returned to a thread
  joined,    \* history: the threads a join has returned for
  taken,     \* history: the threads with a reply in got, in the order of taking
  crossed,   \* history: a core has applied a reply after a later one
  yields     \* how often the threads have yielded

history == <<taken, crossed>>
clientVars == <<pc, at, target, got, kids, joined, history, yields>>
localVars == <<lock, mapped, spawning>>
vars == <<master, mcp, task, clientVars, localVars>>

-----------------------------------------------------------------------------
(* The state of the master: m_thread_state (status, waiter, tid, pid, and   *)
(* cell, the mask its cpu_set points to), m_last_stalled_thread,            *)
(* m_tid_to_core_map, m_waiter_queue, m_local_next_tidx, the replies on     *)
(* their way to each core, the threads that sleep on its condition          *)
(* variable, Core::m_core_state, what is on its way to the local control    *)
(* process, m_thread_spawn_list, and the assertions that have failed.       *)

Request(slot, tid, from) == [slot |-> slot, tid |-> tid, from |-> from]
Reply(type, slot, next, to, toNext) ==
  [type |-> type, slot |-> slot, next |-> next, to |-> to, toNext |-> toNext]
NoReply == Reply("none", None, 0, None, 0)
Task(step, slot, to) == [step |-> step, slot |-> slot, to |-> to]
NoTask == Task("idle", None, None)

ThreadManager ==
  [status |-> [s \in Slots |-> IF s = <<0, 0>> THEN "RUNNING" ELSE "IDLE"],
   waiter |-> [s \in Slots |-> None],
   tid    |-> [s \in Slots |-> IF s = <<0, 0>> THEN 0 ELSE -1],
   pid    |-> [s \in Slots |-> -1],
   cell   |-> [s \in Slots |-> s],
   mask   |-> [s \in Slots |-> {}],
   last   |-> [t \in Tiles |-> NoIdx],
   where  |-> [i \in Tids |-> IF i = 0 THEN <<0, 0>> ELSE None],
   count  |-> 0,
   core   |-> [t \in Tiles |-> IF t = 0 THEN "RUNNING" ELSE "IDLE"],
   lcp    |-> <<>>,
   list   |-> <<>>]

ThreadScheduler ==
  [queue  |-> [t \in Tiles |-> <<>>],
   next   |-> [t \in Tiles |-> NoIdx],
   inbox  |-> [t \in Tiles |-> <<>>],
   asleep |-> [t \in Tiles |-> {}],
   err    |-> {}]

Init ==
  /\ master = ThreadManager @@ ThreadScheduler
  /\ mcp = [t \in Tiles |-> <<>>]
  /\ task = NoTask
  /\ pc = [i \in Tids |-> IF i = 0 THEN "run" ELSE "none"]
  /\ at = [i \in Tids |-> IF i = 0 THEN <<0, 0>> ELSE None]
  /\ target = [i \in Tids |-> None]
  /\ got = [i \in Tids |-> NoReply]
  /\ lock = [t \in Tiles |-> Unlocked]
  /\ mapped = {<<0, 0>>}
  /\ spawning = FALSE
  /\ kids = [i \in Tids |-> {}]
  /\ joined = {}
  /\ taken = <<>> /\ crossed = FALSE
  /\ yields = 0

\* The first assertion that fails ends the simulator.
Check(m, ok, what) ==
  IF ok \/ m.err # {} THEN m ELSE [m EXCEPT !.err = {what}]

RunningOn(m, t) == {i \in Idx : m.status[<<t, i>>] = "RUNNING"}
isCoreRunning(m, t) == IF RunningOn(m, t) = {} THEN NoIdx ELSE Min(RunningOn(m, t))
OneRuns(m, t) == Check(m, Cardinality(RunningOn(m, t)) <= 1, "two running")
isCoreInitializing(m, t) == \E i \in Idx : m.status[<<t, i>>] = "INITIALIZING"
IdleOn(m, t) == {i \in Idx : m.status[<<t, i>>] = "IDLE"}
getIdleThread(m, t) == IF IdleOn(m, t) = {} THEN NoIdx ELSE Min(IdleOn(m, t))

send(m, t, reply) == [m EXCEPT !.inbox[t] = Append(@, reply)]
stallThread(m, s) == [m EXCEPT !.status[s] = "STALLED", !.last[s[1]] = s[2]]
resumeThread(m, s) ==
  [Check(m, m.status[s] # "RUNNING", "resume") EXCEPT !.status[s] = "RUNNING"]
resumeLast(m, t) == resumeThread(m, <<t, m.last[t]>>)

\* The lists: threads that wait for their core, and threads to be spawned.
enqueueThread(m, t, req) == [m EXCEPT !.queue[t] = Append(@, req)]
getNextThreadIdx(m, t) ==
  IF m.queue[t] = <<>> THEN NoIdx ELSE Head(m.queue[t]).slot[2]
insertThreadSpawnRequest(m, req) == [m EXCEPT !.list = Append(@, req)]
dequeueThreadSpawnReq(m) == [m EXCEPT !.list = Tail(@)]

\* m_tid_to_core_map, and the copy of a slot's state to another slot.
lookupThreadIndex(m, i) == m.where[i]
setThreadIndex(m, i, s) == [m EXCEPT !.where[i] = s]
setThreadState(m, d, s) ==
  [m EXCEPT !.status[d] = m.status[s], !.waiter[d] = m.waiter[s],
            !.tid[d] = m.tid[s], !.cell[d] = m.cell[s]]

\* The condition variable wakes the threads that sleep on it.
broadcast(m, t) == [m EXCEPT !.asleep[t] = {}]

-----------------------------------------------------------------------------
(* Starting a thread *)

\* The request at the head of the queue goes to the host process; in LITE
\* mode the master puts it on the spawn list itself, and answers.
masterStartThread(m, t) ==
  LET req == Head(m.queue[t])
      ok  == /\ m.queue[t] # <<>>
             /\ m.status[req.slot] = "INITIALIZING"
  IN  IF ~ok THEN Check(m, FALSE, "start")
      ELSE IF Mode = "FULL" THEN [m EXCEPT !.lcp = Append(@, req)]
      ELSE send(insertThreadSpawnRequest(m, req), req.from,
                Reply("SPAWN", req.slot, 0, None, 0))

\* What is at the head of the queue starts or resumes.
runHead(m, t, s) ==
  IF m.status[s] = "INITIALIZING" THEN masterStartThread(m, t)
  ELSE resumeThread(m, s)

StartOnIdle(m, t) == TRUE    \* faulty: a busy core is given a second thread
Startable(m, t) == isCoreRunning(m, t) = NoIdx /\ ~isCoreInitializing(m, t)
masterScheduleThread(m, req) ==
  LET t  == req.slot[1]
      ok == Check(OneRuns(m, t), m.status[req.slot] = "IDLE", "not idle")
      m1 == [enqueueThread(ok, t, req) EXCEPT !.status[req.slot] = "INITIALIZING"]
  IN  IF req.from # t /\ Startable(m, t) THEN masterStartThread(m1, t) ELSE m1

\* Threads are strided across the cores: for every thread index the first
\* idle slot after the requester is taken, and the last index wins.
Stride(m, from) ==
  LET Hits(j) == {i \in 1..N : /\ (from + i) % N # 0
                               /\ m.status[<<(from + i) % N, j>>] = "IDLE"}
      js == {j \in Idx : Hits(j) # {}}
  IN  IF js = {} THEN None
      ELSE <<(from + Min(Hits(Max(js)))) % N, Max(js)>>

getNewThreadId(m, s) ==
  setThreadIndex([m EXCEPT !.count = @ + 1, !.tid[s] = m.count + 1], m.count + 1, s)

masterSpawnThread(m, from, msg) ==
  LET m1   == stallThread(m, <<from, msg.idx>>)
      dest == IF msg.tile = NoTile THEN Stride(m1, from)
              ELSE <<msg.tile, getIdleThread(m1, msg.tile)>>
      m2   == getNewThreadId(m1, dest)
      m3   == masterScheduleThread(m2, Request(dest, m2.count, from))
      m4   == resumeLast(m3, from)
  IN  IF dest \notin Slots THEN Check(m1, FALSE, "no slot")
      ELSE send(m4, from, Reply("SPAWN", dest, 0, None, 0))

masterOnThreadStart(m, s) ==
  [Check(m, m.status[s] = "INITIALIZING", "start state") EXCEPT
     !.status[s] = "RUNNING"]

-----------------------------------------------------------------------------
(* Joining and leaving *)

wakeUpWaiter(m, s) ==
  IF m.waiter[s] = None THEN m
  ELSE send([resumeThread(m, m.waiter[s]) EXCEPT !.waiter[s] = None],
            m.waiter[s][1], Reply("JOIN", s, 0, None, 0))

JoinAtOnce(m, from, msg) ==   \* faulty: the join is answered at once
  LET s == lookupThreadIndex(m, msg.tid)
  IN  wakeUpWaiter(stallThread([m EXCEPT !.waiter[s] = <<from, msg.idx>>],
                               <<from, isCoreRunning(m, from)>>), s)
masterJoinThread(m, from, msg) ==
  LET s  == lookupThreadIndex(m, msg.tid)
      m1 == [Check(OneRuns(m, from), m.waiter[s] = None, "two joins") EXCEPT
               !.waiter[s] = <<from, msg.idx>>]
      m2 == stallThread(m1, <<from, isCoreRunning(m, from)>>)
  IN  IF isCoreRunning(m, from) = NoIdx THEN Check(m1, FALSE, "join stalls")
      ELSE IF m2.status[s] = "IDLE" THEN wakeUpWaiter(m2, s) ELSE m2

\* The thread that leaves is taken off the queue, and the next one goes on.
masterOnThreadExit(m, t, msg) ==
  LET s  == <<t, msg.idx>>
      m1 == wakeUpWaiter([m EXCEPT !.status[s] = "IDLE"], s)
      m2 == IF m1.queue[t] = <<>> THEN m1 ELSE [m1 EXCEPT !.queue[t] = Tail(@)]
      nxt == getNextThreadIdx(m2, t)
      m3 == IF nxt = NoIdx THEN m2 ELSE runHead(m2, t, <<t, nxt>>)
  IN  IF m.status[s] # "RUNNING" THEN Check(m, FALSE, "exit state")
      ELSE IF isCoreRunning(m1, t) # NoIdx THEN Check(m1, FALSE, "exit running")
      ELSE send(m3, t, Reply("EXIT", s, nxt, None, 0))

-----------------------------------------------------------------------------
(* Yielding and migrating *)

requeueThread(m, t) ==
  [m EXCEPT !.queue[t] = Append(Tail(@), Head(@))]

\* The thread at slot s moves to slot d, with its state; of the slot it
\* leaves only the status is reset.
masterMigrateThread(m, s, d) ==
  LET mine(r) == r.slot = s
      old == m.queue[s[1]]
      req == SelectSeq(old, mine)
      rest(r) == r.slot # s
      m1 == [m EXCEPT !.queue[s[1]] = SelectSeq(old, rest)]
      m2 == enqueueThread(m1, d[1], [req[1] EXCEPT !.slot = d])
      m3 == [setThreadState(setThreadIndex(m2, m.tid[s], d), d, s) EXCEPT
               !.status[s] = "IDLE"]
      m4 == [m3 EXCEPT !.next[d[1]] = d[2]]
  IN  IF m.status[s] = "RUNNING" \/ req = <<>> \/ m.status[d] # "IDLE"
      THEN Check(m, FALSE, "migrate")
      ELSE IF ~Startable(m2, d[1]) THEN m3
      ELSE IF m3.status[d] = "INITIALIZING" THEN masterStartThread(m4, d[1])
      ELSE [resumeThread(m4, d) EXCEPT !.core[d[1]] = "RUNNING"]

AffinityTile(m, s) ==
  LET mask == m.mask[m.cell[s]]
      free == {t \in mask : isCoreRunning(m, t) = NoIdx}
  IN  IF mask = {} \/ s[1] \in mask \/ free = {} THEN s[1] ELSE Min(free)

\* masterYieldThread, once it has the lock of the core: the thread goes to
\* the end of the queue, and the one at its head is next.
yieldStall(m, s) ==
  LET m1 == requeueThread(stallThread(m, s), s[1])
      ok == m.queue[s[1]] # <<>> /\ Head(m.queue[s[1]]).slot = s
  IN  IF ok THEN [m1 EXCEPT !.next[s[1]] = getNextThreadIdx(m1, s[1])]
      ELSE Check(m, FALSE, "yield")
YieldTo(m, s) ==
  LET dt == AffinityTile(m, s)
  IN  IF dt = s[1] THEN s ELSE <<dt, getIdleThread(m, dt)>>
\* Its end, with the lock again: who is next runs, and the thread is answered.
yieldResume(m, s, d) ==
  LET t  == s[1]
      m1 == IF m.queue[t] = <<>> THEN [m EXCEPT !.next[t] = NoIdx]
            ELSE IF m.next[t] = NoIdx THEN Check(m, FALSE, "no next thread")
            ELSE runHead(m, t, <<t, m.next[t]>>)
  IN  send(m1, t, Reply("YIELD", s, m1.next[t], d, m1.next[d[1]]))

\* CPU_OR_S into the mask the slot points to.
setThreadAffinity(m, s, set) == [m EXCEPT !.mask[m.cell[s]] = set]
masterSchedSetAffinity(m, msg) == 
  setThreadAffinity(m, lookupThreadIndex(m, msg.tid), msg.mask)
masterSchedGetAffinity(m, from, msg) ==
  send(m, from, Reply("AFFINITY", lookupThreadIndex(m, msg.tid), 0, None, 0))
masterSetPid(m, msg) == [m EXCEPT !.pid[msg.slot] = msg.pid]

-----------------------------------------------------------------------------
(* The master control process takes the first request of some core.  It     *)
(* waits while a thread holds m_core_lock of a tile the handler works on.   *)

Free(t) == lock[t] = Unlocked
Handle(t, op) == task = NoTask /\ mcp[t] # <<>> /\ Head(mcp[t]).op = op
Take(t) == mcp' = [mcp EXCEPT ![t] = Tail(@)]
Post(t, msg) == mcp' = [mcp EXCEPT ![t] = Append(@, msg)] /\ UNCHANGED task

HandleSpawn(t) ==
  /\ Handle(t, "SPAWN") /\ \A u \in Tiles : Free(u)
  /\ master' = masterSpawnThread(master, t, Head(mcp[t]))
  /\ Take(t) /\ UNCHANGED <<task, clientVars, localVars>>
HandleStart(t) ==
  /\ Handle(t, "START")
  /\ master' = masterOnThreadStart(master, <<t, Head(mcp[t]).idx>>)
  /\ Take(t) /\ UNCHANGED <<task, clientVars, localVars>>
HandleJoin(t) ==
  /\ Handle(t, "JOIN")
  /\ master' = masterJoinThread(master, t, Head(mcp[t]))
  /\ Take(t) /\ UNCHANGED <<task, clientVars, localVars>>
HandleExit(t) ==
  /\ Handle(t, "EXIT") /\ Free(t)
  /\ master' = masterOnThreadExit(master, t, Head(mcp[t]))
  /\ Take(t) /\ UNCHANGED <<task, clientVars, localVars>>
\* The first write to m_local_next_tidx is made without the lock.
HandleYield(t) ==
  LET s == <<t, Head(mcp[t]).idx>>
  IN  /\ Handle(t, "YIELD")
      /\ master' = [master EXCEPT !.next[t] = s[2]]
      /\ task' = Task("stall", s, s)
      /\ Take(t) /\ UNCHANGED <<clientVars, localVars>>
MasterStalls ==
  LET s == task.slot
      m == yieldStall(master, s)
      d == YieldTo(m, s)
      stays == d[1] = s[1]
  IN  /\ task.step = "stall" /\ Free(s[1])
      /\ master' = m
      /\ task' = Task(IF stays THEN "resume" ELSE "migrate", s, d)
      /\ lock' = IF stays THEN [lock EXCEPT ![s[1]] = Mcp] ELSE lock
      /\ UNCHANGED <<mcp, clientVars, mapped, spawning>>
MasterMigrates ==
  LET s == task.slot
      d == task.to
  IN  /\ task.step = "migrate"
      /\ IF d \in Slots
         THEN /\ Free(s[1]) /\ Free(d[1])
              /\ master' = masterMigrateThread(master, s, d)
         ELSE UNCHANGED master
      /\ task' = Task("resume", s, d)
      /\ UNCHANGED <<mcp, clientVars, localVars>>
MasterAnswers ==
  LET s == task.slot
      d == task.to
  IN  /\ task.step = "resume" /\ (d[1] # s[1] => Free(s[1]))
      /\ master' = yieldResume(master, s, d)
      /\ task' = NoTask
      /\ lock' = [lock EXCEPT ![s[1]] = Unlocked]
      /\ UNCHANGED <<mcp, clientVars, mapped, spawning>>
HandleSetAffinity(t) ==
  /\ Handle(t, "SETAFFINITY")
  /\ master' = masterSchedSetAffinity(master, Head(mcp[t]))
  /\ Take(t) /\ UNCHANGED <<task, clientVars, localVars>>
HandleGetAffinity(t) ==
  /\ Handle(t, "GETAFFINITY")
  /\ master' = masterSchedGetAffinity(master, t, Head(mcp[t]))
  /\ Take(t) /\ UNCHANGED <<task, clientVars, localVars>>
HandlePid(t) ==
  /\ Handle(t, "PID")
  /\ master' = masterSetPid(master, Head(mcp[t]))
  /\ Take(t) /\ UNCHANGED <<task, clientVars, localVars>>

-----------------------------------------------------------------------------
(* The local control process and the thread spawner *)

\* slaveSpawnThread: the request joins the list, which the spawner locks.
LcpSpawn ==
  /\ master.lcp # <<>> /\ ~spawning
  /\ master' = [insertThreadSpawnRequest(master, Head(master.lcp)) EXCEPT !.lcp = Tail(@)]
  /\ UNCHANGED <<mcp, task, clientVars, localVars>>

\* getThreadToSpawn: the lock is released by the spawned thread.
SpawnerTakes ==
  /\ master.list # <<>> /\ ~spawning
  /\ spawning' = TRUE
  /\ UNCHANGED <<master, mcp, task, clientVars, lock, mapped>>

\* The slots of the host process that have a thread.
initializeThread(s) == mapped' = mapped \cup {s}
terminateThread(s) == mapped' = mapped \ {s}

\* onThreadStart, and dequeueThreadSpawnReq.
onThreadStart ==
  LET req == Head(master.list)
      s   == req.slot
      m1  == Check(master, s \notin mapped, "mapped")
      ok  == s \in mapped \/ master.core[s[1]] \in {"IDLE", "STALLED"}
      m2  == Check(m1, ok, "core busy")
  IN  /\ spawning
      /\ spawning' = FALSE
      /\ master' = [dequeueThreadSpawnReq(m2) EXCEPT !.core[s[1]] = "RUNNING"]
      /\ initializeThread(s)
      /\ at' = [at EXCEPT ![req.tid] = s]
      /\ pc' = [pc EXCEPT ![req.tid] = "run"]
      /\ mcp' = [mcp EXCEPT ![s[1]] = @ \o
                   <<[op |-> "PID", slot |-> s, pid |-> req.tid],
                     [op |-> "START", idx |-> s[2]]>>]
      /\ UNCHANGED <<task, target, got, kids, joined, history, yields, lock>>

-----------------------------------------------------------------------------
(* Threads *)

Tile(i) == at[i][1]
Goto(i, where) == pc' = [pc EXCEPT ![i] = where]

\* netRecvType: the first packet of the type that reached the core.
Arrived(i, type) == \E k \in DOMAIN master.inbox[Tile(i)] :
                      master.inbox[Tile(i)][k].type = type
First(i, type) ==
  LET box == master.inbox[Tile(i)]
  IN  Min({k \in DOMAIN box : box[k].type = type})
Received(i, type) == master.inbox[Tile(i)][First(i, type)]
Without(i, type) == [master EXCEPT !.inbox[Tile(i)] = RemoveAt(@, First(i, type))]

Spawn(i, tile) ==
  /\ pc[i] = "run" /\ i \in Parents
  /\ master.count + Cardinality({j \in Tids : pc[j] = "spawn"}) < MaxTid
  /\ master' = [master EXCEPT !.core[Tile(i)] = "STALLED"]
  /\ Post(Tile(i), [op |-> "SPAWN", idx |-> at[i][2], tile |-> tile])
  /\ Goto(i, "spawn")
  /\ UNCHANGED <<at, target, got, kids, joined, history, yields, localVars>>
SpawnReturns(i) ==
  /\ pc[i] = "spawn" /\ Arrived(i, "SPAWN")
  /\ master' = [Without(i, "SPAWN") EXCEPT !.core[Tile(i)] = "RUNNING"]
  /\ kids' = [kids EXCEPT ![i] = @ \cup {master.tid[Received(i, "SPAWN").slot]}]
  /\ Goto(i, "run")
  /\ UNCHANGED <<mcp, task, at, target, got, joined, history, yields, localVars>>

joinThread(i, kid) ==
  /\ pc[i] = "run" /\ kid \in kids[i]
  /\ Post(Tile(i), [op |-> "JOIN", idx |-> at[i][2], tid |-> kid])
  /\ master' = [master EXCEPT !.core[Tile(i)] = "STALLED"]
  /\ kids' = [kids EXCEPT ![i] = @ \ {kid}]
  /\ target' = [target EXCEPT ![i] = <<kid, 0>>]
  /\ Goto(i, "join")
  /\ UNCHANGED <<at, got, joined, history, yields, localVars>>
JoinReturns(i) ==
  /\ pc[i] = "join" /\ Arrived(i, "JOIN")
  /\ master' = [Without(i, "JOIN") EXCEPT !.core[Tile(i)] = "WAKING_UP"]
  /\ joined' = joined \cup {target[i][1]}
  /\ target' = [target EXCEPT ![i] = None]
  /\ Goto(i, "run")
  /\ UNCHANGED <<mcp, task, at, got, kids, history, yields, localVars>>

\* The thread sends its request and goes on.
schedSetAffinity(i, kid, mask) ==
  /\ pc[i] = "run" /\ kid \in kids[i]
  /\ mcp[Tile(i)] = <<>>
  /\ master.mask[master.cell[master.where[kid]]] = {}
  /\ Post(Tile(i), [op |-> "SETAFFINITY", tid |-> kid, mask |-> mask])
  /\ UNCHANGED <<master, clientVars, localVars>>
schedGetAffinity(i, kid) ==
  /\ pc[i] = "run" /\ kid \in kids[i]
  /\ master.mask[master.cell[master.where[kid]]] # {}
  /\ Post(Tile(i), [op |-> "GETAFFINITY", tid |-> kid])
  /\ Goto(i, "affinity")
  /\ UNCHANGED <<master, at, target, got, kids, joined, history, yields, localVars>>
AffinityReturns(i) ==
  /\ pc[i] = "affinity" /\ Arrived(i, "AFFINITY")
  /\ master' = Without(i, "AFFINITY")
  /\ Goto(i, "run")
  /\ UNCHANGED <<mcp, task, at, target, got, kids, joined, history, yields, localVars>>

\* yieldThread, called before an instruction when the round robin scheme is
\* configured.  Before its quantum is over the thread only releases the
\* lock of its core, which it does not hold.
yieldEarly(i) ==
  /\ pc[i] = "run" /\ Tile(i) # 0 /\ MaxYields > 0
  /\ lock' = [lock EXCEPT ![Tile(i)] = Unlocked]
  /\ UNCHANGED <<master, mcp, task, clientVars, mapped, spawning>>
yieldThread(i) ==
  /\ pc[i] = "run" /\ Tile(i) # 0 /\ yields < MaxYields
  /\ Post(Tile(i), [op |-> "YIELD", idx |-> at[i][2]])
  /\ yields' = yields + 1
  /\ Goto(i, "yield")
  /\ UNCHANGED <<master, at, target, got, kids, joined, history, localVars>>

\* The reply is taken from the network before the thread has the lock.
YieldReply(i) ==
  /\ pc[i] = "yield" /\ Arrived(i, "YIELD")
  /\ got' = [got EXCEPT ![i] = Received(i, "YIELD")]
  /\ taken' = Append(taken, i) /\ UNCHANGED crossed
  /\ master' = Without(i, "YIELD")
  /\ Goto(i, "reply")
  /\ UNCHANGED <<mcp, task, at, target, kids, joined, yields, localVars>>
\* It says which thread is next on the old and on the new core.
YieldLocks(i) ==
  LET r == got[i]
      t == Tile(i)
      m == [Check(master, r.slot = at[i], "not my reply") EXCEPT
              !.next = [@ EXCEPT ![t] = r.next, ![r.to[1]] = r.toNext]]
      stays == r.to[1] = t
      here(j) == Tile(j) = t
  IN  /\ pc[i] = "reply" /\ Free(t)
      /\ crossed' = (crossed \/ Head(SelectSeq(taken, here)) # i)
      /\ taken' = Remove(taken, i)
      /\ master' = IF stays THEN broadcast(m, t) ELSE m
      /\ lock' = IF stays THEN [lock EXCEPT ![t] = i] ELSE lock
      /\ target' = [target EXCEPT ![i] = r.to]
      /\ got' = [got EXCEPT ![i] = NoReply]
      /\ Goto(i, IF stays THEN "loop" ELSE "move")
      /\ UNCHANGED <<mcp, task, at, kids, joined, yields, mapped, spawning>>

\* updateTLS: it has overwritten the slot it means to clear.
YieldMove(i) ==
  LET d == target[i]
  IN  /\ pc[i] = "move" /\ Free(d[1])
      /\ lock' = [lock EXCEPT ![d[1]] = i]
      /\ at' = [at EXCEPT ![i] = d]
      /\ mapped' = mapped \cup {d}
      /\ Post(d[1], [op |-> "PID", slot |-> d, pid |-> i])
      /\ master' = broadcast(master, Tile(i))
      /\ Goto(i, "loop")
      /\ UNCHANGED <<target, got, kids, joined, history, yields, spawning>>

\* while (dst_thread_idx != m_local_next_tidx) wait.  The lock is held from
\* the test until the thread sleeps.
YieldLoop(i) ==
  LET t == Tile(i)
  IN  /\ pc[i] = "loop"
      /\ IF master.next[t] = target[i][2]
         THEN /\ master' = [master EXCEPT !.core[t] = "RUNNING"]
              /\ lock' = [lock EXCEPT ![t] = Unlocked]
              /\ target' = [target EXCEPT ![i] = None]
              /\ Goto(i, "run")
         ELSE /\ master' = [master EXCEPT !.core[t] = "STALLED"]
              /\ Goto(i, "block")
              /\ UNCHANGED <<lock, target>>
      /\ UNCHANGED <<mcp, task, at, got, kids, joined, history, yields, mapped, spawning>>
YieldSleep(i) ==
  /\ pc[i] = "block"
  /\ master' = [master EXCEPT !.asleep[Tile(i)] = @ \cup {i}]
  /\ lock' = [lock EXCEPT ![Tile(i)] = Unlocked]
  /\ Goto(i, "asleep")
  /\ UNCHANGED <<mcp, task, at, target, got, kids, joined, history, yields, mapped, spawning>>
YieldWake(i) ==
  /\ pc[i] = "asleep" /\ i \notin master.asleep[Tile(i)] /\ Free(Tile(i))
  /\ lock' = [lock EXCEPT ![Tile(i)] = i]
  /\ Goto(i, "loop")
  /\ UNCHANGED <<master, mcp, task, at, target, got, kids, joined, history, yields, mapped, spawning>>

\* onThreadExit: it names the next thread without the lock of the core, and
\* after that gives up the core and its slot.
Exit(i) ==
  /\ pc[i] = "run" /\ i # 0
  /\ Post(Tile(i), [op |-> "EXIT", idx |-> at[i][2]])
  /\ Goto(i, "exit")
  /\ UNCHANGED <<master, at, target, got, kids, joined, history, yields, localVars>>
ExitReturns(i) ==
  LET t == Tile(i)
      nxt == Received(i, "EXIT").next
      m == [Without(i, "EXIT") EXCEPT !.next[t] = nxt]
  IN  /\ pc[i] = "exit" /\ Arrived(i, "EXIT")
      /\ master' = IF nxt = NoIdx THEN m ELSE broadcast(m, t)
      /\ Goto(i, "leave")
      /\ UNCHANGED <<mcp, task, at, target, got, kids, joined, history, yields, localVars>>
Leave(i) ==
  /\ pc[i] = "leave"
  /\ master' = [master EXCEPT !.core[Tile(i)] = "IDLE"]
  /\ terminateThread(at[i])
  /\ Goto(i, "done")
  /\ UNCHANGED <<mcp, task, at, target, got, kids, joined, history, yields, lock, spawning>>

-----------------------------------------------------------------------------
MasterStep ==
  \/ \E t \in Tiles :
       \/ HandleSpawn(t) \/ HandleStart(t) \/ HandleJoin(t) \/ HandleExit(t)
       \/ HandleYield(t) \/ HandlePid(t)
       \/ HandleSetAffinity(t) \/ HandleGetAffinity(t)
  \/ MasterStalls \/ MasterMigrates \/ MasterAnswers
ThreadStep(i) ==
  \/ SpawnReturns(i) \/ JoinReturns(i) \/ AffinityReturns(i)
  \/ YieldReply(i) \/ YieldLocks(i) \/ YieldMove(i) \/ YieldLoop(i) \/ YieldSleep(i)
  \/ YieldWake(i) \/ Exit(i) \/ ExitReturns(i) \/ Leave(i)
Application(i) ==
  \/ \E tile \in Targets : Spawn(i, tile)
  \/ \E kid \in Tids :
       \/ joinThread(i, kid) \/ schedGetAffinity(i, kid)
       \/ \E mask \in Masks : schedSetAffinity(i, kid, mask)
  \/ yieldThread(i) \/ yieldEarly(i)

\* A failed assertion ends the simulator.
Next ==
  /\ master.err = {}
  /\ \/ MasterStep \/ LcpSpawn \/ SpawnerTakes \/ onThreadStart
     \/ \E i \in Tids : ThreadStep(i) \/ Application(i)

Spec == Init /\ [][Next]_vars

-----------------------------------------------------------------------------
\* The assertions that do fail.
\* - A slot and its core are given to a new thread (thread_manager.cc:192) while
\*   the thread that leaves has yet to give up the core (:177) and its slot
\*   (:180): initializeThread may find the slot taken (tile_manager.cc:130), or
\*   onThreadStart the core running (thread_manager.cc:114).
\* - A thread that migrates after a yield leaves its waiter with the slot, where
\*   the next join finds it (:446).
\* - A thread that migrates, without the lock, writes the next thread of the
\*   core it goes to (thread_scheduler.cc:621) while the master is about to
\*   resume that thread (:693): m_thread_state is read at index -1.
\* - Two threads of a core that wait for YIELD replies take each other's (:613).
\* - A thread that migrates to a core whose thread waits in a join for it wakes
\*   that thread when it exits, and the scheduler finds the core running (:107).
\* - Two threads of a core take their replies in order and get the lock (:606)
\*   in the other order, so that the older reply has the last word.  The thread
\*   that runs is then not the one the master takes for running, and its exit
\*   (thread_manager.cc:191) or its next yield (thread_scheduler.cc:667) fails.
KnownFailures ==
  UNION {{"mapped", "core busy"},
         IF yields >= 1 THEN {"two joins"} ELSE {},
         IF yields >= 2 THEN {"no next thread"} ELSE {},
         IF yields >= 3 THEN {"not my reply"} ELSE {},
         IF \E i \in Tids \ {0} : pc[i] = "join" THEN {"exit running"} ELSE {},
         IF crossed THEN {"exit state", "yield"} ELSE {}}

\* No other assertion of the thread manager and the scheduler fails: no core
\* has two running threads, nobody who runs is resumed, nothing is started,
\* migrated or stalled that is not in the state for it.
NoAssertionFails == master.err \subseteq KnownFailures

\* A join returns only after the thread it names has left its function.
JoinAfterExit == \A i \in joined : pc[i] \in {"exit", "leave", "done"}

\* The thread at a slot waits for another one to exit.
Joins(s) ==
  master.status[s] = "STALLED" /\ \E i \in Tids : pc[i] = "join" /\ master.where[i] = s

\* The threads of a core that live are the ones on its queue, and the one that
\* runs is the first that does not wait in a join: a yield or an exit passes the
\* core on in queue order.
QueueMatchesStatus ==
  \A t \in Tiles \ {0} : \A i \in Idx :
    /\ (master.status[<<t, i>>] # "IDLE") <=>
         (\E k \in DOMAIN master.queue[t] : master.queue[t][k].slot = <<t, i>>)
    /\ master.status[<<t, i>>] = "RUNNING" =>
         Head(SelectSeq(master.queue[t], LAMBDA r : ~Joins(r.slot))).slot = <<t, i>>

\* The master knows a thread that lives by the slot it runs at, its queues
\* agree with the slots until a core has applied its replies out of order, and
\* of the assertions only the known ones fail.
SlotOfThread ==
  /\ NoAssertionFails
  /\ crossed \/ master.err # {} \/ QueueMatchesStatus
  /\ \A i \in 1..master.count :
       pc[i] \in {"run", "spawn", "join", "yield", "reply", "move", "loop",
                  "block", "asleep"} =>
         /\ master.tid[master.where[i]] = i
         /\ master.status[master.where[i]] # "IDLE"


=============================================================================
