----------------------------- MODULE SyncServer -----------------------------
(***************************************************************************)
(* The synchronization server of the master control process                *)
(* (common/system/sync_server.cc) and its clients (sync_client.cc).        *)
(*                                                                         *)
(* A client sends one request and blocks until a reply of the response     *)
(* type arrives.  The server handles one packet at a time, so a handler is *)
(* one action; it stalls and resumes threads in the thread manager and may *)
(* answer any number of clients.  Cores run one thread each.               *)
(*                                                                         *)
(* A core is its core_id_t; mutexes, conditions and barriers are numbered  *)
(* from 1 in the order of their creation.  Clocks count the cycles of a    *)
(* core; the times in messages are cycles of the global clock.  The state  *)
(* a client sets for the point-to-point clock scheme is not modelled.      *)
(***************************************************************************)
EXTENDS Clocks, Sequences, FiniteSets, Functions

CONSTANTS
  Ops,           \* the operations the application uses
  MaxMutexes, MaxConds, MaxBarriers,  \* bounds: how many are created
  Counts,        \* the counts barriers are created with
  MaxTime,       \* bound on the clock of a core that computes, or calls
                 \* anything but mutexUnlock
  None           \* no core, no request

AllOps == {"mutexInit", "mutexLock", "mutexUnlock", "condInit", "condWait",
           "condSignal", "condBroadcast", "barrierInit", "barrierWait"}

Time == Nat
Request == [op : AllOps, obj : Nat, mux : Nat, time : Time]

ASSUME SyncAssumption ==
  /\ Ops \subseteq AllOps
  /\ {MaxMutexes, MaxConds, MaxBarriers, MaxTime} \subseteq Nat
  /\ Counts \subseteq Nat \ {0}
  /\ None \notin Cores \cup Request

VARIABLES
  clk,       \* the clock of each core
  call,      \* the request a client is blocked on
  pkt,       \* the request on its way to the server
  reply,     \* replies on their way to each client
  holds,     \* the mutexes a client has locked
  status,    \* ThreadManager::m_thread_state
  mutexes, conds, barriers,   \* m_mutexes, m_conds, m_barriers
  err        \* the assertions of the code that have failed

clientVars == <<clk, call, holds>>
serverVars == <<status, mutexes, conds, barriers>>
vars == <<clientVars, pkt, reply, serverVars, err>>

-----------------------------------------------------------------------------
(* Types *)

Req(op, obj, mux, time) == [op |-> op, obj |-> obj, mux |-> mux, time |-> time]

\* The reply codes of SyncClient; val is a time or the number of what was
\* created.  COND_WAIT_RESPONSE is MUTEX_LOCK_RESPONSE.
Codes == {"ID", "MUTEX_LOCK", "MUTEX_UNLOCK", "COND_SIGNAL", "COND_BROADCAST",
          "BARRIER_WAIT"}
Reply == [code : Codes, val : Nat]
Rep(code, val) == [code |-> code, val |-> val]

SimMutex == [owner : Cores \cup {None}, waiting : Seq(Cores)]
CondWaiter == [core : Cores, mux : Nat]
SimBarrier == [count : Nat, waiting : Seq(Cores), max_time : Time]

Destructors == {"~SimMutex", "~SimCond", "~SimBarrier"}
Assertions == {"owner", "stallThread", "resumeThread", "barrier_count",
               "reply_code"} \cup Destructors

\* Every variable holds what the types of the code allow, and a client has at
\* most one request in the network, the one it is blocked on.
TypeOK ==
  /\ clk \in [Cores -> Nat]
  /\ call \in [Cores -> Request \cup {None}]
  /\ pkt \in [Cores -> Request \cup {None}]
  /\ \A c \in Cores : pkt[c] \in {None, call[c]}
  /\ reply \in [Cores -> Seq(Reply)]
  /\ holds \in [Cores -> SUBSET Nat]
  /\ status \in [Cores -> {"RUNNING", "STALLED"}]
  /\ mutexes \in Seq(SimMutex)
  /\ conds \in Seq(Seq(CondWaiter))
  /\ barriers \in Seq(SimBarrier)
  /\ err \subseteq Assertions

Init ==
  /\ clk = [c \in Cores |-> 0]
  /\ call = [c \in Cores |-> None]
  /\ pkt = [c \in Cores |-> None]
  /\ reply = [c \in Cores |-> <<>>]
  /\ holds = [c \in Cores |-> {}]
  /\ status = [c \in Cores |-> "RUNNING"]
  /\ mutexes = <<>> /\ conds = <<>> /\ barriers = <<>>
  /\ err = {}

Failure(name, cond) == IF cond THEN {} ELSE {name}
Check(failures) == err' = err \cup failures

-----------------------------------------------------------------------------
(* Clients: SyncClient, called by the application *)


\* How many objects of the kind that op creates exist or are being created.
Created(op, objs) ==
  Len(objs) + Cardinality({c \in Cores : pkt[c] # None /\ pkt[c].op = op})

\* The application may use what it has been given a number of.
GivenIds(op, objs) ==
  {i \in 1..Len(objs) : \A c \in Cores :
     ~(call[c] # None /\ call[c].op = op /\ \E r \in Range(reply[c]) : r.val = i)}

\* The mutex the threads in or on their way to cond i wait with.
MuxOf(i) == {call[c].mux : c \in {d \in Cores : /\ call[d] # None
                                                /\ call[d].op = "condWait"
                                                /\ call[d].obj = i}}

\* What each call of SyncClient asks for, with the time of the caller.
Asks(c, op, obj, mux) == Req(op, obj, mux, ToGlobal(c, clk[c]))
AsksMutexInit(c) == {Asks(c, "mutexInit", 0, 0)}
AsksCondInit(c) == {Asks(c, "condInit", 0, 0)}
AsksBarrierInit(c) == {Asks(c, "barrierInit", n, 0) : n \in Counts}
AsksUnlock(c) == {Asks(c, "mutexUnlock", m, 0) : m \in holds[c]}
AsksLock(c) ==
  {Asks(c, "mutexLock", m, 0) : m \in GivenIds("mutexInit", mutexes) \ holds[c]}
AsksCond(c) ==
  LET cvs == GivenIds("condInit", conds)
  IN  {Asks(c, "condWait", i, m) : i \in cvs, m \in holds[c]}
      \cup {Asks(c, op, i, 0) : op \in {"condSignal", "condBroadcast"}, i \in cvs}
AsksBarrier(c) ==
  {Asks(c, "barrierWait", i, 0) :
     i \in IF holds[c] = {} THEN GivenIds("barrierInit", barriers) ELSE {}}

\* The calls of an application that uses the API as intended: it unlocks what
\* it has locked, does not lock it twice, and waits on a condition with a
\* mutex it has locked, the same one as the others that wait on it.  It does
\* not wait at a barrier with a mutex locked.
Calls(c) ==
  { r \in AsksMutexInit(c) \cup AsksCondInit(c) \cup AsksBarrierInit(c)
          \cup AsksLock(c) \cup AsksUnlock(c) \cup AsksCond(c) \cup AsksBarrier(c)
    : /\ r.op \in Ops
      /\ r.op = "mutexInit" => Created(r.op, mutexes) < MaxMutexes
      /\ r.op = "condInit" => Created(r.op, conds) < MaxConds
      /\ r.op = "barrierInit" => Created(r.op, barriers) < MaxBarriers
      /\ r.op = "condWait" => MuxOf(r.obj) \subseteq {r.mux} }

\* A client sends its request and blocks; a mutex is given up by the call.
Send(c, ops) ==
  /\ call[c] = None
  /\ \E r \in Calls(c) :
       /\ r.op \in ops /\ (r.op = "mutexUnlock" \/ clk[c] <= MaxTime)
       /\ call' = [call EXCEPT ![c] = r]
       /\ pkt' = [pkt EXCEPT ![c] = r]
       /\ holds' = [holds EXCEPT ![c] =
            CASE r.op = "mutexUnlock" -> @ \ {r.obj}
              [] r.op = "condWait" -> @ \ {r.mux}
              [] OTHER -> @]
  /\ UNCHANGED <<clk, reply, serverVars, err>>
Call(c) == Send(c, AllOps)

\* The code a client expects, and the mutex it has when the call returns.
Expected(op) ==
  CASE op \in {"mutexInit", "condInit", "barrierInit"} -> "ID"
    [] op \in {"mutexLock", "condWait"} -> "MUTEX_LOCK"
    [] op = "mutexUnlock" -> "MUTEX_UNLOCK"
    [] op = "condSignal" -> "COND_SIGNAL"
    [] op = "condBroadcast" -> "COND_BROADCAST"
    [] op = "barrierWait" -> "BARRIER_WAIT"
Gains(r) == CASE r.op = "mutexLock" -> {r.obj}
              [] r.op = "condWait" -> {r.mux}
              [] OTHER -> {}

\* netRecv returns: the clock moves on to the time in the reply.
AdvanceClock(c, r) ==
  clk' = [clk EXCEPT ![c] =
            IF r.code \in {"MUTEX_LOCK", "BARRIER_WAIT"} /\ r.val > call[c].time
            THEN @ + ToCore(c, r.val - call[c].time) ELSE @]
Return(c) ==
  LET r == Head(reply[c])
  IN
  /\ call[c] # None /\ reply[c] # <<>>
  /\ reply' = [reply EXCEPT ![c] = Tail(@)]
  /\ Check(Failure("reply_code", r.code = Expected(call[c].op)))
  /\ AdvanceClock(c, r)
  /\ holds' = [holds EXCEPT ![c] = @ \cup Gains(call[c])]
  /\ call' = [call EXCEPT ![c] = None]
  /\ UNCHANGED <<pkt, serverVars>>

\* The application runs.
Compute(c) ==
  /\ call[c] = None /\ clk[c] < MaxTime
  /\ clk' = [clk EXCEPT ![c] = @ + 1]
  /\ UNCHANGED <<call, pkt, reply, holds, serverVars, err>>

-----------------------------------------------------------------------------
(* Server: MCP::processPacket takes the request of c *)

Takes(c, op) == pkt[c] # None /\ pkt[c].op = op /\ pkt' = [pkt EXCEPT ![c] = None]

\* netSend to each core; out[d] are the replies to core d.
Answer(out) == reply' = [d \in Cores |-> reply[d] \o out[d]]
One(c, r) == [d \in Cores |-> IF d = c THEN <<r>> ELSE <<>>]
ForgetCaller(f, g) == f   \* faulty: the caller is not answered
Both(f, g) == [d \in Cores |-> f[d] \o g[d]]
Each(S, r) == [d \in Cores |-> IF d \in S THEN <<r>> ELSE <<>>]

\* ThreadManager::stallThread, resumeThread.
\* A handler stalls or resumes each core at most once, save that a core woken
\* from a condition may queue for the mutex: it is resumed and stalled again.
MayStall(S) == Failure("stallThread", \A c \in S : status[c] = "RUNNING")
MayResume(S) == Failure("resumeThread", \A c \in S : status[c] = "STALLED")
SetStatus(S, st) == [c \in Cores |-> IF c \in S THEN st ELSE status[c]]

AnyGranted(m) == TRUE   \* faulty: the caller is answered although it queues
Granted(m) == m.owner = None

\* SimMutex::lock of the cores ws, one after the other.
lock(m, ws) ==
  IF ws = <<>> THEN m
  ELSE IF m.owner = None
       THEN [owner |-> Head(ws), waiting |-> m.waiting \o Tail(ws)]
       ELSE [m EXCEPT !.waiting = @ \o ws]
\* SimMutex::unlock hands the mutex to the one that waits longest.
LastWaiter(m) ==   \* faulty: the one that has come last
  IF m.waiting = <<>> THEN [m EXCEPT !.owner = None]
  ELSE LET n == Len(m.waiting)
       IN  [owner |-> m.waiting[n], waiting |-> SubSeq(m.waiting, 1, n - 1)]
unlock(m) ==
  IF m.waiting = <<>> THEN [m EXCEPT !.owner = None]
  ELSE [owner |-> Head(m.waiting), waiting |-> Tail(m.waiting)]
\* Who gets a mutex that goes from m to n.
NewOwner(m, n) == IF n.owner # m.owner THEN {n.owner} \ {None} ELSE {}

mutexLock(c) ==
  LET r == pkt[c]
      m == mutexes[r.obj]
      n == lock(m, <<c>>)
  IN
  /\ Takes(c, "mutexLock")
  /\ mutexes' = [mutexes EXCEPT ![r.obj] = n]
  /\ IF Granted(m)
     THEN /\ Answer(One(c, Rep("MUTEX_LOCK", r.time)))
          /\ UNCHANGED <<status, err>>
     ELSE /\ status' = SetStatus({c}, "STALLED") /\ Check(MayStall({c}))
          /\ UNCHANGED reply
  /\ UNCHANGED <<clientVars, conds, barriers>>

mutexUnlock(c) ==
  LET r == pkt[c]
      m == mutexes[r.obj]
      n == unlock(m)
      woken == NewOwner(m, n)
  IN
  /\ Takes(c, "mutexUnlock")
  /\ Check(Failure("owner", m.owner = c) \cup MayResume(woken))
  /\ mutexes' = [mutexes EXCEPT ![r.obj] = n]
  /\ status' = SetStatus(woken, "RUNNING")
  /\ Answer(Both(Each(woken, Rep("MUTEX_LOCK", r.time)),
                 One(c, Rep("MUTEX_UNLOCK", 0))))
  /\ UNCHANGED <<clientVars, conds, barriers>>

\* SimCond::wait: the core stalls, is queued, and gives up the mutex.
condWait(c) ==
  LET r == pkt[c]
      m == mutexes[r.mux]
      n == unlock(m)
      woken == NewOwner(m, n)
  IN
  /\ Takes(c, "condWait")
  /\ Check(MayStall({c}) \cup Failure("owner", m.owner = c)
           \cup MayResume(woken))
  /\ conds' = [conds EXCEPT ![r.obj] = Append(@, [core |-> c, mux |-> r.mux])]
  /\ mutexes' = [mutexes EXCEPT ![r.mux] = n]
  /\ status' = [SetStatus(woken, "RUNNING") EXCEPT ![c] = "STALLED"]
  /\ Answer(Each(woken, Rep("MUTEX_LOCK", r.time)))
  /\ UNCHANGED <<clientVars, barriers>>

\* The cores that wait with mutex m among the waiters that are woken, in the
\* order of the queue: the k-th is the one that k - 1 others precede.
CoresOn(woken, m) ==
  LET mine == {i \in DOMAIN woken : woken[i].mux = m}
      nth(k) == CHOOSE i \in mine : Cardinality({j \in mine : j < i}) = k - 1
  IN  [k \in 1..Cardinality(mine) |-> woken[nth(k)].core]

\* The waiters that are woken try to lock the mutexes they wait with: the
\* cores get them at once or queue for them (and stall again).
Locked(woken) ==
  [m \in DOMAIN mutexes |-> lock(mutexes[m], CoresOn(woken, m))]
Wake(c, woken, time, code) ==
  LET cores == {w.core : w \in Range(woken)}
      owners == UNION {NewOwner(mutexes[m], Locked(woken)[m]) :
                       m \in DOMAIN mutexes}
  IN
  /\ Check(MayResume(cores))
  /\ mutexes' = Locked(woken)
  /\ status' = SetStatus(owners, "RUNNING")
  /\ Answer(Both(Each(owners, Rep("MUTEX_LOCK", time)), One(c, Rep(code, 0))))

\* m_waiting.erase(begin()): the waiters move up by assignment, and the
\* assignment of StableIterator leaves the mutex of each place as it was.
EraseFirst(w) ==
  [i \in 1..(Len(w) - 1) |-> [core |-> w[i + 1].core, mux |-> w[i].mux]]

condSignal(c) ==
  LET r == pkt[c]
      w == conds[r.obj]
  IN
  /\ Takes(c, "condSignal")
  /\ Wake(c, IF w = <<>> THEN <<>> ELSE <<Head(w)>>, r.time, "COND_SIGNAL")
  /\ conds' = IF w = <<>> THEN conds
              ELSE [conds EXCEPT ![r.obj] = EraseFirst(w)]
  /\ UNCHANGED <<clientVars, barriers>>

\* SimCond::broadcast clears the queue.
KeepWaiting(i) == conds' = conds   \* faulty: the queue is not cleared
ClearWaiting(i) == conds' = [conds EXCEPT ![i] = <<>>]
condBroadcast(c) ==
  LET r == pkt[c]
  IN
  /\ Takes(c, "condBroadcast")
  /\ Wake(c, conds[r.obj], r.time, "COND_BROADCAST")
  /\ ClearWaiting(r.obj)
  /\ UNCHANGED <<clientVars, barriers>>

\* SimBarrier::wait: the core that completes the barrier resumes all.
Complete(b) == Len(b.waiting) = b.count
LastTime(b, time) == time   \* faulty: the time of the last core to arrive
MaxTimeOf(b, time) ==
  IF b.waiting = <<>> \/ time > b.max_time THEN time ELSE b.max_time
barrierWait(c) ==
  LET r == pkt[c]
      b == barriers[r.obj]
      n == [b EXCEPT !.waiting = Append(@, c),
                     !.max_time = MaxTimeOf(b, r.time)]
      all == Range(n.waiting)
  IN
  /\ Takes(c, "barrierWait")
  /\ Check(MayStall({c}) \cup Failure("barrier_count",
                                      Len(n.waiting) <= b.count)
           \cup (IF Complete(n) THEN MayResume(all \ {c}) ELSE {}))
  /\ IF Complete(n)
     THEN /\ barriers' = [barriers EXCEPT ![r.obj] = [n EXCEPT !.waiting = <<>>]]
          /\ status' = SetStatus(all, "RUNNING")
          /\ Answer(Each(all, Rep("BARRIER_WAIT", n.max_time)))
     ELSE /\ barriers' = [barriers EXCEPT ![r.obj] = n]
          /\ status' = SetStatus({c}, "STALLED")
          /\ UNCHANGED reply
  /\ UNCHANGED <<clientVars, mutexes, conds>>

\* push_back on a full vector copies the elements and destroys the old ones,
\* whose destructors assert that nobody waits.  The capacity doubles.
Reallocates(objs) == \E k \in 0..Len(objs) : Len(objs) = 2^k

mutexInit(c) ==
  /\ Takes(c, "mutexInit")
  /\ mutexes' = Append(mutexes, [owner |-> None, waiting |-> <<>>])
  /\ Check(Failure("~SimMutex", Reallocates(mutexes) =>
             \A i \in DOMAIN mutexes : mutexes[i].waiting = <<>>))
  /\ Answer(One(c, Rep("ID", Len(mutexes) + 1)))
  /\ UNCHANGED <<clientVars, status, conds, barriers>>

condInit(c) ==
  /\ Takes(c, "condInit")
  /\ conds' = Append(conds, <<>>)
  /\ Check(Failure("~SimCond", Reallocates(conds) =>
             \A i \in DOMAIN conds : conds[i] = <<>>))
  /\ Answer(One(c, Rep("ID", Len(conds) + 1)))
  /\ UNCHANGED <<clientVars, status, mutexes, barriers>>

barrierInit(c) ==
  /\ Takes(c, "barrierInit")
  /\ barriers' = Append(barriers,
       [count |-> pkt[c].obj, waiting |-> <<>>, max_time |-> 0])
  /\ Check(Failure("~SimBarrier", Reallocates(barriers) =>
             \A i \in DOMAIN barriers : barriers[i].waiting = <<>>))
  /\ Answer(One(c, Rep("ID", Len(barriers) + 1)))
  /\ UNCHANGED <<clientVars, status, mutexes, conds>>

-----------------------------------------------------------------------------
(* Specification *)

Handle(c) ==
  \/ mutexInit(c) \/ mutexLock(c) \/ mutexUnlock(c)
  \/ condInit(c) \/ condWait(c) \/ condSignal(c) \/ condBroadcast(c)
  \/ barrierInit(c) \/ barrierWait(c)

Next == /\ err = {}
        /\ \E c \in Cores : Call(c) \/ Return(c) \/ Compute(c) \/ Handle(c)

Spec == Init /\ [][Next]_vars

\* The server handles the packets that have arrived, a client receives its
\* reply, and the application does not keep a mutex for ever.
Fairness ==
  /\ \A c \in Cores : WF_vars(err = {} /\ (Handle(c) \/ Return(c)))
  /\ SF_vars(err = {} /\ \E c \in Cores : Send(c, {"mutexUnlock"}))
FairSpec == Spec /\ Fairness

-----------------------------------------------------------------------------
(* Properties *)

\* No assertion of the server, its clients or the thread manager fails: only
\* the owner unlocks, only a running thread is stalled, only a stalled one is
\* resumed, no barrier overflows, and every reply is the one its receiver
\* waits for.  The destructors
\* may: a vector that grows destroys the objects it has copied.
NoAssertionFails == err \subseteq Destructors

\* Who has mutex m: it holds it, the reply that grants it is on its way, or
\* the request that gives it up is.
Claims(m) ==
  {c \in Cores :
     \/ m \in holds[c]
     \/ /\ call[c] # None /\ m \in Gains(call[c])
        /\ \E r \in Range(reply[c]) : r.code = "MUTEX_LOCK"
     \/ /\ pkt[c] # None
        /\ \/ pkt[c].op = "mutexUnlock" /\ pkt[c].obj = m
           \/ pkt[c].op = "condWait" /\ pkt[c].mux = m}

\* At any time one client at most has a mutex, and it is the one the server
\* takes for the owner; a mutex that nobody has is free (SimMutex::lock,
\* unlock and every handler that grants or takes back a mutex).
MutualExclusion ==
  \A m \in DOMAIN mutexes : Claims(m) = {mutexes[m].owner} \ {None}

\* The queues a core may wait in, with the call it must be blocked in.
Queued(c) ==
  [mux : {m \in DOMAIN mutexes : c \in Range(mutexes[m].waiting)}]
  \cup [cond : {i \in DOMAIN conds :
                 c \in {w.core : w \in Range(conds[i])}}]
  \cup [barrier : {i \in DOMAIN barriers : c \in Range(barriers[i].waiting)}]

\* A core is in at most one queue of the server, once, and is blocked in the
\* call that put it there, with the mutex it will have to lock: a later
\* signal, unlock or barrier wakes the right thread for the right reason, and
\* no assertion on the way fails.
QueuesMatchCalls ==
  /\ TypeOK /\ NoAssertionFails
  /\ \A c \in Cores : Cardinality(Queued(c)) <= 1
  /\ \A m \in DOMAIN mutexes :
       /\ \A c \in Range(mutexes[m].waiting) :
            call[c] # None /\ m \in Gains(call[c])
       /\ Cardinality(Range(mutexes[m].waiting)) = Len(mutexes[m].waiting)
  /\ \A i \in DOMAIN conds :
       /\ \A w \in Range(conds[i]) :
            /\ call[w.core] # None /\ call[w.core].op = "condWait"
            /\ call[w.core].obj = i /\ call[w.core].mux = w.mux
       /\ Cardinality({w.core : w \in Range(conds[i])}) = Len(conds[i])
  /\ \A i \in DOMAIN barriers : \A c \in Range(barriers[i].waiting) :
       call[c] # None /\ call[c].op = "barrierWait" /\ call[c].obj = i

\* The thread manager takes a core for stalled exactly while it waits in a
\* queue, with neither its request nor a reply under way.  The lax barrier
\* waits for the threads that run and would stop if one of them were blocked.
StatusAgrees ==
  \A c \in Cores :
    status[c] = "STALLED" <=> /\ call[c] # None
                              /\ pkt[c] = None /\ reply[c] = <<>>
                              /\ Queued(c) # {}

\* A blocked client has its request under way, waits in a queue, or has one
\* reply under way: no request is dropped and none is answered twice; and the
\* thread manager knows which clients are blocked.
OneAnswer ==
  /\ StatusAgrees
  /\ \A c \in Cores :
       /\ Len(reply[c]) <= 1
       /\ IF call[c] = None THEN pkt[c] = None /\ reply[c] = <<>> /\ Queued(c) = {}
          ELSE Cardinality({x \in {"pkt", "queue", "reply"} :
                 CASE x = "pkt" -> pkt[c] # None
                   [] x = "queue" -> Queued(c) # {}
                   [] x = "reply" -> reply[c] # <<>>}) = 1

\* The cores that are let out of a barrier by a step.
Released == {c \in Cores : /\ call[c] # None /\ call[c].op = "barrierWait"
                           /\ reply[c] = <<>> /\ reply'[c] # <<>>}

\* When a client returns, its clock is not behind the time in the reply,
\* whatever the roundings between core and global clock (sync_client.cc:83,
\* 193, 335): nobody leaves a barrier before the last one has arrived, or has
\* a mutex before it was given up to it.  Clocks never go back.
ClocksFollow ==
  [][\A c \in Cores :
       /\ clk'[c] >= clk[c]
       /\ call[c] # None /\ call'[c] = None
            /\ Head(reply[c]).code \in {"MUTEX_LOCK", "BARRIER_WAIT"}
          => ToGlobal(c, clk'[c]) >= Head(reply[c]).val]_vars

\* SimBarrier::wait: a barrier lets its waiters out together, as many as it
\* was created for, and all with the time at which the last of them (in
\* simulated time) has arrived; the clocks they go on with are not earlier.
BarrierHolds ==
  /\ ClocksFollow
  /\ [][Released # {} =>
          \E i \in DOMAIN barriers :
            /\ Cardinality(Released) = barriers[i].count
            /\ \A c \in Released :
                 /\ call[c].obj = i
                 /\ \A d \in Released : reply'[c][1].val >= call[d].time
                 /\ \E d \in Released : reply'[c][1].val = call[d].time]_vars

\* A waiter that a signal or broadcast has woken returns, even when it has to
\* queue for the mutex first (SimCond::signal and broadcast, SimMutex::lock).
WokenReturns ==
  \A c \in Cores :
    (/\ call[c] # None /\ call[c].op = "condWait" /\ pkt[c] = None
     /\ \A i \in DOMAIN conds : c \notin {w.core : w \in Range(conds[i])})
    ~> (call[c] = None)
=============================================================================
