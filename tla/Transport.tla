------------------------------ MODULE Transport ------------------------------
(***************************************************************************)
(* SockTransport: the processes of one simulation, joined by one socket    *)
(* for every ordered pair.  A message carries a tag: the tile it is for,   *)
(* or the process's global node, a barrier or the end of the update        *)
(* thread.  The update thread of a process empties its sockets into the    *)
(* buffer lists its tiles (and its LCP) read from.                         *)
(*                                                                         *)
(* TCP delivers in order but at its own pace, so which socket has          *)
(* something to read when the update thread looks is not determined.  A    *)
(* buffer list and the semaphore that counts it change together: the       *)
(* module Semaphore shows what that rests on.                              *)
(***************************************************************************)
EXTENDS Integers, Sequences, FiniteSets

CONSTANTS
  Procs,    \* the largest number of processes
  Tiles     \* the largest number of tiles whose threads run

\* Tags below the tile numbers, as SockTransport defines them
GLOBAL_TAG == -1
BARRIER_TAG == -2
TERMINATE_TAG == -3

VARIABLES
  nprocs,     \* m_num_procs; the processes are 0 .. nprocs - 1
  owner,      \* Config's m_tile_to_proc_map: the process of every tile
  boot,       \* how far initSockets got, for every process
  sock,       \* sock[p][q]: written by p, not yet read by q
  lists,      \* m_buffer_lists: tile t's is lists[t], process p's lists[Node(p)]
  barrierSem, \* m_barrier_sem
  updater     \* m_update_thread_state

transportVars == <<nprocs, owner, boot, sock, lists, barrierSem, updater>>

P == 0 .. nprocs - 1

\* The list of the global node comes after those of the tiles; every
\* process has its own, which this numbering keeps apart.
Node(p) == Cardinality(DOMAIN owner) + p

TransportInit(n, tileOwner) ==
  /\ nprocs = n
  /\ owner = tileOwner
  /\ boot = [p \in 0 .. n - 1 |-> [connected |-> 0, accepted |-> {}, listening |-> FALSE]]
  /\ sock = [p \in 0 .. n - 1 |-> [q \in 0 .. n - 1 |-> <<>>]]
  /\ lists = [l \in DOMAIN tileOwner \cup {Cardinality(DOMAIN tileOwner) + p : p \in 0 .. n - 1} |-> <<>>]
  /\ barrierSem = [p \in 0 .. n - 1 |-> 0]
  /\ updater = [p \in 0 .. n - 1 |-> "NOT_STARTED"]

\* The constructor of process p has returned
Up(p) == updater[p] # "NOT_STARTED"

------------------------------------------------------------------------------
(* initSockets: listen, connect to every process in turn (its own too),    *)
(* saying who is calling, then accept as many calls.                       *)

Listen(p) ==
  /\ ~boot[p].listening
  /\ boot' = [boot EXCEPT ![p].listening = TRUE]
  /\ UNCHANGED <<nprocs, owner, sock, lists, barrierSem, updater>>

\* The listen queue is as long as there are processes, so a connect only
\* waits for the other side to listen.
Connect(p) ==
  LET q == boot[p].connected IN
  /\ boot[p].listening
  /\ q < nprocs
  /\ boot[q].listening
  /\ boot' = [boot EXCEPT ![p].connected = q + 1]
  /\ sock' = [sock EXCEPT ![p][q] = Append(@, [tag |-> "proc_index", data |-> p])]
  /\ UNCHANGED <<nprocs, owner, lists, barrierSem, updater>>

Accept(p, q) ==
  /\ boot[p].connected = nprocs
  /\ q \notin boot[p].accepted
  /\ sock[q][p] # <<>>
  /\ LET accepted == boot[p].accepted \cup {Head(sock[q][p]).data} IN
     /\ boot' = [boot EXCEPT ![p].accepted = accepted]
     /\ updater' = [updater EXCEPT ![p] = IF accepted = P THEN "RUNNING" ELSE @]
  /\ sock' = [sock EXCEPT ![q][p] = Tail(@)]
  /\ UNCHANGED <<nprocs, owner, lists, barrierSem>>

------------------------------------------------------------------------------
(* Sending.  Both are functions of the sockets and lists before, so that a *)
(* caller can send several messages in one step.                           *)

\* SockNode::send: within the process straight into the list, else framed
\* with its length and tag and written to the socket under the send lock.
send(s, from, tile, data) ==
  IF owner[tile] = from
    THEN [s EXCEPT !.lists[tile] = Append(@, data)]
    ELSE [s EXCEPT !.sock[from][owner[tile]] = Append(@, [tag |-> tile, data |-> data])]

globalSend(s, from, to, data) ==
  IF to = from
    THEN [s EXCEPT !.lists[Node(to)] = Append(@, data)]
    ELSE [s EXCEPT !.sock[from][to] = Append(@, [tag |-> GLOBAL_TAG, data |-> data])]

\* Message m of a kind the transport keeps for itself, straight into a socket
raw(s, from, to, tag) ==
  [s EXCEPT !.sock[from][to] = Append(@, [tag |-> tag, data |-> 0])]

Wires == [sock |-> sock, lists |-> lists]
Written(s) == sock' = s.sock /\ lists' = s.lists

------------------------------------------------------------------------------
(* The update thread of process p reads one message of process i.          *)

InsertInBufferList(i, p) ==
  LET m == Head(sock[i][p])
      l == IF m.tag = GLOBAL_TAG THEN Node(p) ELSE m.tag
  IN /\ m.tag >= GLOBAL_TAG
     /\ lists' = [lists EXCEPT ![l] = Append(@, m.data)]
     /\ UNCHANGED <<barrierSem, updater>>

BarrierUpdate(i, p) ==
  /\ Head(sock[i][p]).tag = BARRIER_TAG
  /\ barrierSem' = [barrierSem EXCEPT ![p] = @ + 1]
  /\ UNCHANGED <<lists, updater>>

\* updateBufferLists returns at once, whatever other sockets hold, and
\* updateThreadFunc leaves its loop.
TerminateUpdate(i, p) ==
  /\ Head(sock[i][p]).tag = TERMINATE_TAG
  /\ updater' = [updater EXCEPT ![p] = "EXITED"]
  /\ UNCHANGED <<lists, barrierSem>>

updateBufferLists(i, p) ==
  /\ updater[p] = "RUNNING"
  /\ sock[i][p] # <<>>
  /\ sock' = [sock EXCEPT ![i][p] = Tail(@)]
  /\ InsertInBufferList(i, p) \/ BarrierUpdate(i, p) \/ TerminateUpdate(i, p)
  /\ UNCHANGED <<nprocs, owner, boot>>

\* What the update thread asserts of the message it is about to read
UpdateAsserts(i, p) ==
  LET m == Head(sock[i][p]) IN
  /\ m.tag = TERMINATE_TAG => i = p
  /\ m.tag = BARRIER_TAG => i = (p + nprocs - 1) % nprocs
  /\ m.tag >= 0 => m.tag \in DOMAIN owner
==============================================================================
