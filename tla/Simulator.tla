------------------------------ MODULE Simulator ------------------------------
(***************************************************************************)
(* The life of a simulation over several processes: the transports of all  *)
(* processes come up, the main thread of process 0 greets the thread       *)
(* spawners of the others, the application runs, and the destructor of     *)
(* Simulator takes everything down again: thread spawners, the finish      *)
(* message and its acknowledgements, the MCP, the simulation threads, the  *)
(* barrier of the transport, the LCP, the update thread.                   *)
(***************************************************************************)
EXTENDS Network

CONSTANT Nets   \* the networks a behaviour may have

VARIABLES
  main,        \* main[p]: where the main thread of process p is
  greeted,     \* thread spawners that have answered the main thread
  spawner,     \* spawner[p]: the thread spawner of process p
  lcp, mcp,    \* m_finished of the LCPs and of the MCP
  terminated,  \* m_thread_spawners_terminated
  procsDone,   \* m_num_procs_finished
  simFinished, \* m_finished of the Simulator of each process
  failure      \* what has failed: an assertion or a warning of the code, or
               \* a simulation thread has used its network after its deletion

simulatorVars == <<main, greeted, spawner, lcp, mcp, terminated, procsDone, simFinished, failure>>
vars == <<transportVars, networkVars, simulatorVars>>

Full == net.mode = "FULL"

Init ==
  \E n \in Nets :
    /\ NetworkInit(Initialized(n))
    /\ main = [p \in 0 .. n.procs - 1 |-> "starting"]
    /\ greeted = 0
    /\ spawner = [p \in 0 .. n.procs - 1 |-> "waiting"]
    /\ lcp = [p \in 0 .. n.procs - 1 |-> "running"]
    /\ mcp = "running"
    /\ terminated = 0
    /\ procsDone = 0
    /\ simFinished = [p \in 0 .. n.procs - 1 |-> FALSE]
    /\ failure = {}

\* The names of what fails in a step
Failed(name, holds) == IF holds THEN {} ELSE {name}

\* The steps below write to the wires (s) and move the main thread of p on
Goes(p, from, to, s) ==
  /\ main[p] = from
  /\ main' = [main EXCEPT ![p] = to]
  /\ Written(s)
  /\ UNCHANGED <<nprocs, owner, boot, updater, net, sent, got, sim>>

\* globalSend of one message from process p to each of the processes ps
toAll(s, p, ps, msg) == FoldLeft(LAMBDA w, q : globalSend(w, p, q, msg), s, SetToSortSeq(ps, <))

------------------------------------------------------------------------------
(* Start-up.                                                               *)

Boot ==
  /\ net.runs
  /\ \E p \in P : Listen(p) \/ Connect(p) \/ \E q \in P : Accept(p, q)
  /\ UNCHANGED <<networkVars, simulatorVars>>

Updates(p) ==
  /\ \E i \in P :
       /\ updateBufferLists(i, p)
       /\ failure' = failure \cup Failed("transport", UpdateAsserts(i, p))
  /\ UNCHANGED <<networkVars, main, greeted, spawner, lcp, mcp, terminated, procsDone, simFinished>>

\* replacementMain in process 0: a NOTIFY to one thread spawner after the
\* other, each answered by an ACK before the next; then FINI to all.
MainNotify ==
  LET q == greeted + 1
      notify == netSend(Wires, 0, SystemPacket("NOTIFY", 0, ThreadSpawnerTile(net, q)))
  IN /\ Up(0) /\ Full /\ q < nprocs
     /\ Goes(0, "starting", "ack", notify)
     /\ UNCHANGED <<barrierSem, queue, greeted, spawner, lcp, mcp, terminated, procsDone, simFinished, failure>>

MainAck ==
  /\ queue[0] # <<>> /\ Head(queue[0]).kind = "ACK"
  /\ queue' = [queue EXCEPT ![0] = Tail(@)]
  /\ greeted' = greeted + 1
  /\ Goes(0, "ack", "starting", Wires)
  /\ UNCHANGED <<barrierSem, spawner, lcp, mcp, terminated, procsDone, simFinished, failure>>

MainFini ==
  LET fini == FoldLeft(LAMBDA w, q : netSend(w, 0, SystemPacket("FINI", 0, ThreadSpawnerTile(net, q))),
                       Wires, [q \in 1 .. nprocs - 1 |-> q])
  IN /\ Up(0)
     /\ ~Full \/ greeted = nprocs - 1
     /\ Goes(0, "starting", "application", fini)
     /\ UNCHANGED <<barrierSem, queue, greeted, spawner, lcp, mcp, terminated, procsDone, simFinished, failure>>

\* threadStartCallback and replacementMain in another process p: its main
\* thread is the thread spawner.  It takes the two messages in turn.
SpawnerTakes(p, msg) ==
  LET t == ThreadSpawnerTile(net, p) IN
  /\ p # 0
  /\ queue[t] # <<>> /\ Head(queue[t]).kind = msg
  /\ queue' = [queue EXCEPT ![t] = Tail(@)]
  /\ IF msg = "NOTIFY"
       THEN Goes(p, "starting", "fini", netSend(Wires, t, SystemPacket("ACK", t, 0)))
       ELSE Goes(p, "fini", "application", Wires)
  /\ UNCHANGED <<barrierSem, greeted, spawner, lcp, mcp, terminated, procsDone, simFinished, failure>>

\* The application: its threads send packets
AppSends ==
  /\ main[0] = "application"
  /\ \E st \in net.traffic : NetSend(st[1], st[2])
  /\ UNCHANGED simulatorVars

\* The tiles of process p and their networks have been deleted
Deleted(p) == main[p] \in {"closing", "exited"}

\* A simulation thread whose network is deleted may find anything in it;
\* the model notes the use, and then lets it find what was there.
Pulls(t) ==
  /\ netPull(t)
  /\ LET pkt == Head(lists[t]) IN
     failure' = failure
       \cup Failed("network", Ready(pkt) \/ routeAsserts(net, t, pkt))
       \cup Failed("receiver", pkt.system => pkt.to = t)
       \cup Failed("deleted network", ~Deleted(owner[t]))
  /\ UNCHANGED <<main, greeted, spawner, lcp, mcp, terminated, procsDone, simFinished>>

------------------------------------------------------------------------------
(* The destructor of Simulator, process 0 first.                           *)

\* terminateThreadSpawners: ask every process, its own too
MainQuitSpawners ==
  /\ net.ends /\ Full
  /\ Len(sent) = net.sends
  /\ Goes(0, "application", "spawners", toAll(Wires, 0, P, "QUIT_SPAWNER"))
  /\ UNCHANGED <<barrierSem, queue, greeted, spawner, lcp, mcp, terminated, procsDone, simFinished, failure>>

\* ... and poll until the count of those gone is the one awaited
SpawnersGone == terminated = nprocs - 1

\* broadcastFinish
MainBroadcastFinish ==
  /\ IF Full THEN main[0] = "spawners" /\ SpawnersGone
             ELSE main[0] = "application" /\ net.ends /\ Len(sent) = net.sends
  /\ procsDone' = 1
  /\ Goes(0, main[0], "acks", toAll(Wires, 0, P \ {0}, "FINISHED"))
  /\ UNCHANGED <<barrierSem, queue, greeted, spawner, lcp, mcp, terminated, simFinished, failure>>

\* ... until all processes have acknowledged; endMCP
MainEndMCP ==
  /\ procsDone >= nprocs
  /\ Goes(0, "acks", "mcp", netSend(Wires, MCPTile(net), SystemPacket("QUIT", MCPTile(net), MCPTile(net))))
  /\ UNCHANGED <<barrierSem, queue, greeted, spawner, lcp, mcp, terminated, procsDone, simFinished, failure>>

\* quitSimThreads: a quit packet to every tile of the process, through the
\* global node and not through a network model.  It does not wait.
quitSimThreads(p) ==
  FoldLeft(LAMBDA w, t : send(w, p, t, SystemPacket("TERMINATE_THREADS", 0, t)),
           Wires, SetToSortSeq({t \in T : owner[t] = p}, <))

\* CarbonStartSim in another process: the main thread has run the thread
\* spawner to its end and then waits for finished()
MayStop(p) == main[p] = "application" /\ simFinished[p] /\ (Full => spawner[p] = "gone")

MainQuitSimThreads(p) ==
  /\ IF p = 0 THEN main[0] = "mcp" /\ mcp = "finished" ELSE MayStop(p)
  /\ Goes(p, main[p], "barrier1", quitSimThreads(p))
  /\ UNCHANGED <<barrierSem, queue, greeted, spawner, lcp, mcp, terminated, procsDone, simFinished, failure>>

\* SockTransport::barrier, first trip round the ring: process 0 starts it
MainBarrierEnter(p) ==
  /\ p # 0 => barrierSem[p] > 0
  /\ barrierSem' = [barrierSem EXCEPT ![p] = IF p # 0 THEN @ - 1 ELSE @]
  /\ Goes(p, "barrier1", "barrier2", raw(Wires, p, (p + 1) % nprocs, BARRIER_TAG))
  /\ UNCHANGED <<queue, greeted, spawner, lcp, mcp, terminated, procsDone, simFinished, failure>>

\* A mutant: the second trip goes all the way round
PassItOn(p) ==
  /\ barrierSem[p] > 0
  /\ barrierSem' = [barrierSem EXCEPT ![p] = @ - 1]
  /\ Goes(p, "barrier2", "lcp",
          globalSend(raw(Wires, p, (p + 1) % nprocs, BARRIER_TAG), p, p, "QUIT"))
  /\ UNCHANGED <<queue, greeted, spawner, lcp, mcp, terminated, procsDone, simFinished, failure>>

\* ... second trip, which the last process does not pass on; LCP::finish
MainBarrierLeave(p) ==
  LET s == IF p = nprocs - 1 THEN Wires ELSE raw(Wires, p, (p + 1) % nprocs, BARRIER_TAG) IN
  /\ barrierSem[p] > 0
  /\ barrierSem' = [barrierSem EXCEPT ![p] = @ - 1]
  /\ Goes(p, "barrier2", "lcp", globalSend(s, p, p, "QUIT"))
  /\ UNCHANGED <<queue, greeted, spawner, lcp, mcp, terminated, procsDone, simFinished, failure>>

\* ... until the LCP has finished.  ~SimThreadManager warns when a simulation
\* thread has not exited; then the tiles and their networks are deleted, and
\* ~SockTransport ends the update thread.
MainDelete(p) ==
  /\ lcp[p] = "finished"
  /\ failure' = failure \cup
       Failed("threads still active", \A t \in T : owner[t] = p => sim[t] = "exited")
  /\ Goes(p, "lcp", "closing", raw(Wires, p, p, TERMINATE_TAG))
  /\ UNCHANGED <<barrierSem, queue, greeted, spawner, lcp, mcp, terminated, procsDone, simFinished>>

MainExit(p) ==
  /\ updater[p] = "EXITED"
  /\ Goes(p, "closing", "exited", Wires)
  /\ UNCHANGED <<barrierSem, queue, greeted, spawner, lcp, mcp, terminated, procsDone, simFinished, failure>>

------------------------------------------------------------------------------
(* The other threads.                                                      *)

\* The thread spawner of process p gets a request without a function
slaveTerminateThreadSpawner(p) == [spawner EXCEPT ![p] = "asked"]

\* Process 0 counts it as gone
updateTerminateThreadSpawner == terminated + 1

\* LCP::processPacket, the messages of start-up and shutdown
LCPPacket(p) ==
  LET msg == Head(lists[Node(p)])
      rest == [Wires EXCEPT !.lists[Node(p)] = Tail(@)]
  IN /\ Up(p) /\ lcp[p] = "running"
     /\ lists[Node(p)] # <<>>
     /\ lcp' = [lcp EXCEPT ![p] = IF msg = "QUIT" THEN "finished" ELSE @]
     \* handleFinish acknowledges to process 0
     /\ Written(IF msg = "FINISHED" THEN globalSend(rest, p, 0, "FINISHED_ACK") ELSE rest)
     /\ simFinished' = [simFinished EXCEPT ![p] = @ \/ msg = "FINISHED"]
     \* deallocateProcess
     /\ procsDone' = IF msg = "FINISHED_ACK" THEN procsDone + 1 ELSE procsDone
     /\ terminated' = IF msg = "SPAWNER_ACK" THEN updateTerminateThreadSpawner ELSE terminated
     /\ spawner' = IF msg = "QUIT_SPAWNER" THEN slaveTerminateThreadSpawner(p) ELSE spawner
     /\ failure' = failure
          \cup Failed("finish", msg = "FINISHED" => p # 0)
          \cup Failed("acknowledgement", msg \in {"FINISHED_ACK", "SPAWNER_ACK"} => p = 0)
     /\ UNCHANGED <<nprocs, owner, boot, barrierSem, updater, networkVars, main, greeted, mcp>>

\* The thread spawner leaves its loop: onThreadExit tells the MCP
SpawnerExit(p) ==
  LET t == ThreadSpawnerTile(net, p) IN
  /\ spawner[p] = "asked"
  /\ p # 0 => main[p] = "application"
  /\ spawner' = [spawner EXCEPT ![p] = "gone"]
  /\ Written(netSend(Wires, t, SystemPacket("THREAD_EXIT", t, MCPTile(net))))
  /\ UNCHANGED <<nprocs, owner, boot, barrierSem, updater, networkVars, main, greeted, lcp, mcp,
                 terminated, procsDone, simFinished, failure>>

\* Was it a thread spawner that exited?  Then process 0 hears of it.
slaveTerminateThreadSpawnerAck(s, t) ==
  IF \E p \in P : t = ThreadSpawnerTile(net, p) THEN globalSend(s, 0, 0, "SPAWNER_ACK") ELSE s

\* MCP::processPacket: masterOnThreadExit answers the thread that exits
\* and, for a thread spawner, acknowledges to process 0; a quit message ends
\* the MCP.
MCPPacket ==
  LET t == MCPTile(net)
      pkt == Head(queue[t])
      answer == netSend(Wires, t, SystemPacket("EXIT_REPLY", t, pkt.from))
  IN /\ mcp = "running"
     /\ queue[t] # <<>>
     /\ queue' = [queue EXCEPT ![t] = Tail(@)]
     /\ mcp' = IF pkt.kind = "QUIT" THEN "finished" ELSE mcp
     /\ Written(IF pkt.kind = "THREAD_EXIT" THEN slaveTerminateThreadSpawnerAck(answer, pkt.from) ELSE Wires)
     /\ UNCHANGED <<nprocs, owner, boot, barrierSem, updater, net, sent, got, sim, main, greeted, spawner,
                    lcp, terminated, procsDone, simFinished, failure>>

Main(p) ==
  \/ MainQuitSimThreads(p) \/ MainBarrierEnter(p) \/ MainBarrierLeave(p)
  \/ MainDelete(p) \/ MainExit(p)

Main0 ==
  \/ MainNotify \/ MainAck \/ MainFini
  \/ MainQuitSpawners \/ MainBroadcastFinish \/ MainEndMCP

Threads ==
  \/ MCPPacket \/ Main0 \/ Boot
  \/ \E p \in P : LCPPacket(p) \/ SpawnerExit(p) \/ Updates(p)
  \/ \E p \in P : Main(p) \/ SpawnerTakes(p, "NOTIFY") \/ SpawnerTakes(p, "FINI")
  \/ \E t \in T : Pulls(t)

Next == Threads \/ AppSends

\* Every thread is an operating-system thread and is scheduled again and
\* again, so it takes the step it keeps being able to take.  No step undoes
\* another (a message is read once, a thread only moves on), so a behaviour
\* in which each thread is treated fairly is one that does not stop while
\* some thread can go on.  The application need not send.
Fairness == WF_vars(Threads)

Spec == Init /\ [][Next]_vars /\ Fairness

------------------------------------------------------------------------------
(* Properties.                                                             *)

\* None of the assertions of the transport, the network models and the LCP
\* fails, from the first connect to the last exit.  What does happen: the
\* simulation threads are told to quit and nobody waits for them
\* (sim_thread_manager.cc:39), so some may be active when ~SimThreadManager
\* looks (line 18), and use the network of their tile after its deletion.
NoAssertionFails == failure \subseteq {"threads still active", "deleted network"}

Entered == {"barrier2", "lcp", "closing", "exited"}

\* The simulation thread of tile t has exited, or a quit packet waits for it
\* or has been taken
ToldToQuit(t) ==
  \/ sim[t] \in {"last", "exited"}
  \/ \E i \in DOMAIN lists[t] : lists[t][i].kind = "TERMINATE_THREADS"

\* No process leaves the transport's barrier before every process has entered
\* it and told all its simulation threads to quit; and when the update thread
\* of a process is gone no message of the shutdown is left in a socket to it,
\* at most packets of the application that a simulation thread still forwards:
\* two trips round the ring are enough, with no lock and no process-wide
\* count.  No assertion fails, from the start to the end.
TornDownTogether ==
  /\ NoAssertionFails
  /\ \A p, q \in P :
       /\ main[p] \in {"lcp", "closing", "exited"} =>
            main[q] \in Entered /\ \A t \in T : owner[t] = q => ToldToQuit(t)
       /\ updater[p] = "EXITED" =>
            \A i \in DOMAIN sock[q][p] :
              sock[q][p][i].tag >= 0 /\ sock[q][p][i].data.kind = "data"

\* "wait for all thread spawners to terminate" (thread_manager.cc:529), and
\* then shut down: the main thread of process 0 exits once it has begun.
ShutdownEnds == (main[0] = "spawners") ~> (main[0] = "exited")
==============================================================================
