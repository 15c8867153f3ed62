-------------------------------- MODULE MSI --------------------------------
(***************************************************************************)
(* The private-L1, private-L2, dram-directory MSI protocol of              *)
(* common/tile/memory_subsystem/pr_l1_pr_l2_dram_directory_msi.            *)
(*                                                                         *)
(* Every tile has an application thread that issues accesses and a         *)
(* simulation thread that handles the packets the network delivers.  Both  *)
(* run under the tile's memory-manager lock, so one critical section is    *)
(* one action, and the two hand the tile over with two semaphores.  The    *)
(* home tile of a line also runs its directory, in the same simulation     *)
(* thread; a directory handler that goes on to serve queued requests keeps *)
(* the lock ("sim") and does one request per step.                         *)
(*                                                                         *)
(* A cache is modelled as one set of L1Ways or L2Ways lines, a directory   *)
(* as one set of DirWays entries per home: sets do not interact.  Latency, *)
(* counters and the isModeled flag of messages are left out.               *)
(***************************************************************************)
EXTENDS Naturals, Sequences, FiniteSets

CONSTANTS
  Tiles,              \* the tiles
  Addrs,              \* line addresses
  InstrAddrs,         \* the ones fetched through the L1 instruction cache
  DataAddrs,          \* the ones accessed through the L1 data cache
  Home,               \* [Addrs -> Tiles]: AddressHomeLookup::getHome
  Values, InitVal,    \* what a line may hold; DRAM starts zeroed
  L1Ways, L2Ways, DirWays,  \* associativities
  ReplacementPolicy,  \* "lru" or "round_robin"
  DirectoryType,      \* the scheme that tracks sharers
  MaxHwSharers,       \* sharers a limited scheme tracks in hardware
  MaxInFlight,        \* bound: no new miss while a channel is longer
  None                \* no address, no tile, no data

DirectoryTypes == {"full_map", "limited_no_broadcast", "ackwise", "limitless"}

ASSUME MSIAssumption ==
  /\ IsFiniteSet(Addrs) /\ Home \in [Addrs -> Tiles]
  /\ InstrAddrs \subseteq Addrs /\ DataAddrs \subseteq Addrs
  /\ InitVal \in Values
  /\ {L1Ways, L2Ways, DirWays, MaxHwSharers} \subseteq Nat \ {0}
  /\ MaxInFlight \in Nat
  /\ ReplacementPolicy \in {"lru", "round_robin"}
  /\ DirectoryType \in DirectoryTypes
  /\ None \notin Tiles \cup Addrs \cup Values

VARIABLES
  l1,     \* [Tiles -> [Comps -> [Addrs -> line]]]
  l2,     \* [Tiles -> [Addrs -> line with its cached location]]
  app,    \* application thread: what it is doing, and its access
  sim,    \* simulation thread: receiving, or waiting for the application
  lock,   \* MemoryManager::_lock
  appSem, simSem,  \* _app_thread_sem, _sim_thread_sem
  outst,  \* L2CacheCntlr::_outstanding_shmem_msg: address and L1 component
  chan,   \* packets in flight from one tile to another, in order
  queue,  \* _dram_directory_req_queue_list
  way,    \* directory entries in the directory's ways
  repl,   \* _replaced_directory_entry_list
  work,   \* the address a directory handler is serving, and cached_data_buf
  dram,   \* DramCntlr::_data_map
  latest, \* history variable: the value last written to each line
  err     \* the assertions of the code that have failed

cacheVars == <<l1, l2, latest>>
syncVars == <<app, sim, lock, appSem, simSem, outst>>
dirVars == <<queue, way, repl, work, dram>>
vars == <<cacheVars, syncVars, chan, dirVars, err>>

-----------------------------------------------------------------------------
(* Types *)

Comps == {"ICACHE", "DCACHE"}
CState == {"I", "S", "M"}
L1Line == [st : CState, val : Values \cup {None}]
L2Line == [st : {"S", "M"}, loc : Comps \cup {None}, val : Values]
          \cup [st : {"I"}, loc : Comps \cup {None}, val : Values \cup {None}]
InvalidL1 == [st |-> "I", val |-> None]
InvalidL2 == [st |-> "I", loc |-> None, val |-> None]

\* src is the sending memory component; it determines the receiving one.
\* Replies with the line carry its data, the other messages carry none.
DataMsg == {"EX_REP", "SH_REP", "FLUSH_REP", "WB_REP"}
ControlMsg == {"EX_REQ", "SH_REQ", "INV_REQ", "FLUSH_REQ", "WB_REQ", "INV_REP"}
MsgSource == Comps \cup {"L2", "DIR"}
ShmemMsg == [type : DataMsg, src : MsgSource, addr : Addrs, val : Values]
            \cup [type : ControlMsg, src : MsgSource, addr : Addrs,
                  val : {None}]
Msg(type, src, addr, val) ==
  [type |-> type, src |-> src, addr |-> addr, val |-> val]

ShmemReq == [type : {"EX_REQ", "SH_REQ", "NULLIFY_REQ"}, tile : Tiles]

Access == [comp : Comps, sig : {"NONE"}, op : {"READ"}, addr : Addrs, val : {None}]
          \cup [comp : Comps, sig : {"LOCK"}, op : {"READ_EX"},
                addr : Addrs, val : {None}]
          \cup [comp : Comps, sig : {"NONE"}, op : {"WRITE"},
                addr : Addrs, val : Values]
\* What readInstructionMemory and accessMemory ask for.  An atomic
\* instruction is a READ_EX with LOCK and then a WRITE with UNLOCK.
Accesses ==
  { [comp |-> "ICACHE", sig |-> "NONE", op |-> "READ", addr |-> a,
     val |-> None] : a \in InstrAddrs }
  \cup
  { [comp |-> "DCACHE", sig |-> "NONE", op |-> "READ", addr |-> a,
     val |-> None] : a \in DataAddrs }
  \cup
  { [comp |-> "DCACHE", sig |-> "LOCK", op |-> "READ_EX", addr |-> a,
     val |-> None] : a \in DataAddrs }
  \cup
  { [comp |-> "DCACHE", sig |-> "NONE", op |-> "WRITE", addr |-> a,
     val |-> v] : a \in DataAddrs, v \in Values }

Entry == [st : {"U", "S", "M"}, owner : Tiles \cup {None},
          sharers : SUBSET Tiles, hw : SUBSET Tiles]
FreshEntry == [st |-> "U", owner |-> None, sharers |-> {}, hw |-> {}]

\* "None" is no cache, no entry, nothing that is outstanding and nothing that
\* a directory handler serves.
ASSUME NoneAssumption ==
  None \notin Comps \cup Entry \cup [addr : Addrs, comp : Comps]
              \cup [addr : Addrs, buf : Values \cup {None}]

AppState == [pc : {"idle"}, acc : {None}]
            \cup [pc : {"wait", "locked"}, acc : Access]

\* The assertions of the handlers, by what they check.
Assertions == {
  "access_num", "unlock_hits", "l2_line_present", "clearCachedLoc",
  "setCachedLoc", "setCacheLineState", "no_outstanding", "ex_req_state",
  "outstanding_address", "inv_req_state", "flush_req_state", "wb_req_state",
  "inv_rep_entry", "inv_rep_state", "flush_rep_entry", "flush_rep_state",
  "wb_rep_entry", "wb_rep_state", "wb_rep_request", "addSharer",
  "removeSharer", "cached_data_buf", "replacement_candidate",
  "nullify_alone", "nullify_entry", "invalidateDirectoryEntry"}

CachesOK ==
  /\ l1 \in [Tiles -> [Comps -> [Addrs -> L1Line]]]
  /\ l2 \in [Tiles -> [Addrs -> L2Line]]
  /\ latest \in [Addrs -> Values]
ThreadsOK ==
  /\ app \in [Tiles -> AppState]
  /\ sim \in [Tiles -> {"recv", "waitApp"}]
  /\ lock \in [Tiles -> {"free", "app", "sim"}]
  /\ appSem \in [Tiles -> Nat]
  /\ simSem \in [Tiles -> Nat]
  /\ outst \in [Tiles -> {None} \cup [addr : Addrs, comp : Comps]]
NetworkOK == chan \in [Tiles \X Tiles -> Seq(ShmemMsg)]
DirectoryOK ==
  /\ queue \in [Addrs -> Seq(ShmemReq)]
  /\ way \in [Addrs -> Entry \cup {None}]
  /\ repl \in [Addrs -> Entry \cup {None}]
  /\ work \in [Tiles -> {None} \cup [addr : Addrs, buf : Values \cup {None}]]
  /\ dram \in [Addrs -> Values]

\* Every variable holds what the code's types allow; a valid line of the L2
\* cache, a message that is to carry a line and DRAM always have data.
TypeOK ==
  CachesOK /\ ThreadsOK /\ NetworkOK /\ DirectoryOK /\ err \subseteq Assertions

Init ==
  /\ l1 = [t \in Tiles |-> [c \in Comps |-> [a \in Addrs |-> InvalidL1]]]
  /\ l2 = [t \in Tiles |-> [a \in Addrs |-> InvalidL2]]
  /\ app = [t \in Tiles |-> [pc |-> "idle", acc |-> None]]
  /\ sim = [t \in Tiles |-> "recv"]
  /\ lock = [t \in Tiles |-> "free"]
  /\ appSem = [t \in Tiles |-> 0] /\ simSem = [t \in Tiles |-> 0]
  /\ outst = [t \in Tiles |-> None]
  /\ chan = [p \in Tiles \X Tiles |-> <<>>]
  /\ queue = [a \in Addrs |-> <<>>]
  /\ way = [a \in Addrs |-> None]
  /\ repl = [a \in Addrs |-> None]
  /\ work = [t \in Tiles |-> None]
  /\ dram = [a \in Addrs |-> InitVal]
  /\ latest = [a \in Addrs |-> InitVal]
  /\ err = {}

-----------------------------------------------------------------------------
(* Assertions, network and caches *)

\* A handler records the assertions of its code that fail.
Failure(name, cond) == IF cond THEN {} ELSE {name}
Check(failures) == err' = err \cup failures

\* The messages a tile sends to one tile, or to each tile of a set.
Nothing == [d \in Tiles |-> <<>>]
To(t, msgs) == [d \in Tiles |-> IF d = t THEN msgs ELSE <<>>]
ToAll(S, m) == [d \in Tiles |-> IF d \in S THEN <<m>> ELSE <<>>]

\* sendMsg, broadcastMsg: tile t appends out[d] to its channel to each d.
Send(t, out) ==
  chan' = [p \in Tiles \X Tiles |->
             IF p[1] = t THEN chan[p] \o out[p[2]] ELSE chan[p]]

\* The simulation thread of t takes the next packet from s and sends out.
NoLoopback(s, t, out) ==   \* faulty: packets to the own tile are lost
  chan' = [p \in Tiles \X Tiles |->
             (IF p = <<s, t>> THEN Tail(chan[p]) ELSE chan[p])
             \o (IF p[1] = t /\ p[2] # t THEN out[p[2]] ELSE <<>>)]
Deliver(s, t, out) ==
  chan' = [p \in Tiles \X Tiles |->
             (IF p = <<s, t>> THEN Tail(chan[p]) ELSE chan[p])
             \o (IF p[1] = t THEN out[p[2]] ELSE <<>>)]

AnyCopyPermits(op, st) == st # "I"   \* faulty: a shared line may be written
operationPermissible(op, st) ==
  IF op = "READ" THEN st \in {"S", "O", "M"} ELSE st = "M"

\* CacheSet::insert: the line evicted to make room, None when the chosen way
\* is invalid.  LRU takes an invalid way first, round robin does not look.
Victims(cache, ways) ==
  LET valid == {a \in Addrs : cache[a].st # "I"}
  IN  IF Cardinality(valid) >= ways THEN valid
      ELSE IF ReplacementPolicy = "lru" THEN {None} ELSE valid \cup {None}

Insert(cache, a, line, victim, invalid) ==
  [b \in Addrs |-> IF b = a THEN line
                   ELSE IF b = victim THEN invalid ELSE cache[b]]

\* L2CacheCntlr::insertCacheLineInL1: the L1 line, and the present bit of the
\* line it evicts (c is the L1 component, line the L2 line to copy).
L1After(L1, c, a, line, victim) ==
  [L1 EXCEPT ![c] = Insert(L1[c], a, [st |-> line.st, val |-> line.val],
                           victim, InvalidL1)]
ClearCachedLoc(L2, victim) ==
  [b \in Addrs |-> IF b = victim THEN [L2[b] EXCEPT !.loc = None] ELSE L2[b]]

-----------------------------------------------------------------------------
(* Application thread: MemoryManager::coreInitiateMemoryAccess *)

L1Hit(t, r) == operationPermissible(r.op, l1[t][r.comp][r.addr].st)
L2Hit(t, r) == operationPermissible(r.op, l2[t][r.addr].st)

\* L1CacheCntlr::accessCache on the caches L1 and L2 of tile t.  A write goes
\* through to the L2 line, which has to be there.
accessCache(t, r, L1, L2) ==
  IF r.op = "WRITE"
  THEN /\ l1' = [l1 EXCEPT ![t] = [L1 EXCEPT ![r.comp][r.addr].val = r.val]]
       /\ l2' = [l2 EXCEPT ![t] = [L2 EXCEPT ![r.addr].val = r.val]]
       /\ latest' = [latest EXCEPT ![r.addr] = r.val]
  ELSE /\ l1' = [l1 EXCEPT ![t] = L1]
       /\ l2' = [l2 EXCEPT ![t] = L2]
       /\ latest' = latest

\* The access is over: the lock is released unless it was a LOCK access.
AlwaysRelease(t, r) ==   \* faulty: a LOCK access releases the lock too
  /\ app' = [app EXCEPT ![t] = IF r.sig = "LOCK"
                               THEN [pc |-> "locked", acc |-> r]
                               ELSE [pc |-> "idle", acc |-> None]]
  /\ lock' = [lock EXCEPT ![t] = "free"]
Return(t, r) ==
  IF r.sig = "LOCK"
  THEN /\ app' = [app EXCEPT ![t] = [pc |-> "locked", acc |-> r]]
       /\ lock' = [lock EXCEPT ![t] = "app"]
  ELSE /\ app' = [app EXCEPT ![t] = [pc |-> "idle", acc |-> None]]
       /\ lock' = [lock EXCEPT ![t] = "free"]

\* processMemOpFromTile, first pass: a hit in the L1 cache.
AppL1Hit(t, r) ==
  /\ app[t].pc = "idle" /\ lock[t] = "free"
  /\ L1Hit(t, r)
  /\ accessCache(t, r, l1[t], l2[t])
  /\ Check(Failure("l2_line_present", r.op = "WRITE" => l2[t][r.addr].st # "I"))
  /\ Return(t, r)
  /\ UNCHANGED <<sim, appSem, simSem, outst, chan, dirVars>>

\* A miss in the L1 cache that hits in the L2 cache
\* (processShmemRequestFromL1Cache).
AppL2Hit(t, r) ==
  LET inv == [l1[t] EXCEPT ![r.comp][r.addr] = InvalidL1]
  IN
  /\ app[t].pc = "idle" /\ lock[t] = "free"
  /\ ~L1Hit(t, r) /\ L2Hit(t, r)
  /\ \E victim \in Victims(inv[r.comp], L1Ways) :
       /\ accessCache(t, r,
            L1After(inv, r.comp, r.addr, l2[t][r.addr], victim),
            [ClearCachedLoc(l2[t], victim) EXCEPT ![r.addr].loc = r.comp])
       /\ Check(Failure("clearCachedLoc",
                        victim # None => l2[t][victim].loc = r.comp)
                \cup Failure("setCachedLoc", l2[t][r.addr].loc = None))
  /\ Return(t, r)
  /\ UNCHANGED <<sim, appSem, simSem, outst, chan, dirVars>>

\* getShmemMsgType
ReqType(op) == IF op = "READ" THEN "SH_REQ" ELSE "EX_REQ"

\* A miss in both: ask the simulation thread, release the lock and wait.
\* Broadcast invalidations to a tile that does not receive would pile up
\* without end: MaxInFlight bounds them.
AppMiss(t, r) ==
  /\ app[t].pc = "idle" /\ lock[t] = "free"
  /\ \A p \in Tiles \X Tiles : Len(chan[p]) <= MaxInFlight
  /\ ~L1Hit(t, r) /\ ~L2Hit(t, r)
  /\ l1' = [l1 EXCEPT ![t][r.comp][r.addr] = InvalidL1]
  /\ Send(t, To(t, <<Msg(ReqType(r.op), r.comp, r.addr, None)>>))
  /\ app' = [app EXCEPT ![t] = [pc |-> "wait", acc |-> r]]
  /\ UNCHANGED <<l2, latest, sim, lock, appSem, simSem, outst, dirVars, err>>

\* waitForSimThread returns; second pass under the lock, with the simulation
\* thread signalled.  The access has to hit now: a third pass is an error.
AppResume(t) ==
  LET r == app[t].acc
  IN
  /\ app[t].pc = "wait" /\ appSem[t] > 0 /\ lock[t] = "free"
  /\ appSem' = [appSem EXCEPT ![t] = @ - 1]
  /\ simSem' = [simSem EXCEPT ![t] = @ + 1]
  /\ Check(Failure("access_num", L1Hit(t, r))
           \cup Failure("l2_line_present",
                        r.op = "WRITE" => l2[t][r.addr].st # "I"))
  /\ accessCache(t, r, l1[t], l2[t])
  /\ Return(t, r)
  /\ UNCHANGED <<sim, outst, chan, dirVars>>

\* The second half of an atomic instruction: WRITE with UNLOCK, under the
\* lock kept since the READ_EX.
AppUnlock(t, v) ==
  LET r == [app[t].acc EXCEPT !.op = "WRITE", !.sig = "NONE", !.val = v]
  IN
  /\ app[t].pc = "locked"
  /\ Check(Failure("unlock_hits", L1Hit(t, r))
           \cup Failure("l2_line_present", l2[t][r.addr].st # "I"))
  /\ accessCache(t, r, l1[t], l2[t])
  /\ Return(t, r)
  /\ UNCHANGED <<sim, appSem, simSem, outst, chan, dirVars>>

-----------------------------------------------------------------------------
(* Simulation thread, L2 cache: MemoryManager::handleMsgFromNetwork *)

\* The next packet from s to t is m, and t is free to handle it.
Receives(s, t, m) ==
  /\ sim[t] = "recv" /\ lock[t] = "free"
  /\ chan[<<s, t>>] # <<>>
  /\ m = Head(chan[<<s, t>>])

\* handleMsgFromL1Cache, processExReqFromL1Cache, processShReqFromL1Cache: a
\* shared line is given up before the exclusive request is sent.
L2RecvFromL1(t) ==
  LET m == Head(chan[<<t, t>>])
      a == m.addr
      upgrade == m.type = "EX_REQ" /\ l2[t][a].st = "S"
      req == Msg(m.type, "L2", a, None)
  IN
  /\ Receives(t, t, m) /\ m.src \in Comps /\ m.type \in {"EX_REQ", "SH_REQ"}
  /\ Check(Failure("no_outstanding", outst[t] = None)
           \cup Failure("ex_req_state",
                        m.type = "EX_REQ" => l2[t][a].st \in {"I", "S"}))
  /\ outst' = [outst EXCEPT ![t] = [addr |-> a, comp |-> m.src]]
  /\ l2' = IF upgrade THEN [l2 EXCEPT ![t][a] = InvalidL2] ELSE l2
  /\ Deliver(t, t, To(Home[a],
       IF upgrade THEN <<Msg("INV_REP", "L2", a, None), req>> ELSE <<req>>))
  /\ UNCHANGED <<l1, latest, app, sim, lock, appSem, simSem, dirVars>>

\* A reply of the L2 cache that carries the line.
DataReply(type, a, line) == Msg(type, "L2", a, line.val)

\* What an L2 line evicted with state st leaves for its home.
SilentEviction(e, line) == Msg("INV_REP", "L2", e, None)  \* faulty: M as S
EvictionMsg(e, line) ==
  IF line.st = "M" THEN DataReply("FLUSH_REP", e, line)
                   ELSE Msg("INV_REP", "L2", e, None)

\* The L1 caches of t after the copy of a that L2 knows of is invalidated.
InvalidateInL1(t, a) ==
  IF l2[t][a].loc = None THEN l1[t]
  ELSE [l1[t] EXCEPT ![l2[t][a].loc][a] = InvalidL1]

\* insertCacheLineInHierarchy: the line goes into L2, and from there into the
\* L1 cache c that asked; either may evict another line.
InsertInHierarchy(s, t, a, c, new) ==
  \E e \in Victims(l2[t], L2Ways) :
    LET L1 == IF e = None THEN l1[t] ELSE InvalidateInL1(t, e)
        L2 == Insert(l2[t], a, new, e, InvalidL2)
    IN  \E e1 \in Victims(L1[c], L1Ways) :
          /\ l1' = [l1 EXCEPT ![t] = L1After(L1, c, a, new, e1)]
          /\ l2' = [l2 EXCEPT ![t] = ClearCachedLoc(L2, e1)]
          /\ Deliver(s, t, IF e = None THEN Nothing
                           ELSE To(Home[e], <<EvictionMsg(e, l2[t][e])>>))
          /\ Check(Failure("clearCachedLoc", e1 # None => L2[e1].loc = c))

\* processExRepFromDramDirectory, processShRepFromDramDirectory: insert the
\* line, then wake the application thread and wait until it has used it.
L2RecvReply(s, t) ==
  LET m == Head(chan[<<s, t>>])
      a == m.addr
      new == [st |-> IF m.type = "EX_REP" THEN "M" ELSE "S",
              loc |-> outst[t].comp, val |-> m.val]
  IN
  /\ Receives(s, t, m) /\ m.type \in {"EX_REP", "SH_REP"}
  /\ IF outst[t] = None \/ outst[t].addr # a
     THEN /\ Check(Failure("outstanding_address", FALSE))
          /\ UNCHANGED <<cacheVars, syncVars, chan, dirVars>>
     ELSE /\ InsertInHierarchy(s, t, a, outst[t].comp, new)
          /\ outst' = [outst EXCEPT ![t] = None]
          /\ appSem' = [appSem EXCEPT ![t] = @ + 1]
          /\ sim' = [sim EXCEPT ![t] = "waitApp"]
          /\ UNCHANGED <<latest, app, lock, simSem, dirVars>>

\* waitForAppThread returns.
SimDoesNotWait(t) ==   \* faulty: goes on before the application has signalled
  /\ sim[t] = "waitApp" /\ lock[t] = "free"
  /\ sim' = [sim EXCEPT ![t] = "recv"]
  /\ UNCHANGED <<cacheVars, app, lock, appSem, simSem, outst, chan,
                 dirVars, err>>
SimResume(t) ==
  /\ sim[t] = "waitApp" /\ simSem[t] > 0 /\ lock[t] = "free"
  /\ simSem' = [simSem EXCEPT ![t] = @ - 1]
  /\ sim' = [sim EXCEPT ![t] = "recv"]
  /\ UNCHANGED <<cacheVars, app, lock, appSem, outst, chan, dirVars, err>>

\* processInvReqFromDramDirectory; an invalid line ignores the request.
L2RecvInvReq(s, t) ==
  LET m == Head(chan[<<s, t>>])
      a == m.addr
      held == l2[t][a].st # "I"
  IN
  /\ Receives(s, t, m) /\ m.type = "INV_REQ"
  /\ Check(Failure("inv_req_state", held => l2[t][a].st = "S"))
  /\ IF held
     THEN /\ l1' = [l1 EXCEPT ![t] = InvalidateInL1(t, a)]
          /\ l2' = [l2 EXCEPT ![t][a] = InvalidL2]
          /\ Deliver(s, t, To(s, <<Msg("INV_REP", "L2", a, None)>>))
     ELSE UNCHANGED <<l1, l2>> /\ Deliver(s, t, Nothing)
  /\ UNCHANGED <<latest, syncVars, dirVars>>

\* processFlushReqFromDramDirectory
L2RecvFlushReq(s, t) ==
  LET m == Head(chan[<<s, t>>])
      a == m.addr
      held == l2[t][a].st # "I"
  IN
  /\ Receives(s, t, m) /\ m.type = "FLUSH_REQ"
  /\ Check(Failure("flush_req_state", held => l2[t][a].st = "M"))
  /\ IF held
     THEN /\ l1' = [l1 EXCEPT ![t] = InvalidateInL1(t, a)]
          /\ l2' = [l2 EXCEPT ![t][a] = InvalidL2]
          /\ Deliver(s, t, To(s, <<DataReply("FLUSH_REP", a, l2[t][a])>>))
     ELSE UNCHANGED <<l1, l2>> /\ Deliver(s, t, Nothing)
  /\ UNCHANGED <<latest, syncVars, dirVars>>

\* processWbReqFromDramDirectory: the line stays, shared, in both caches.
L2RecvWbReq(s, t) ==
  LET m == Head(chan[<<s, t>>])
      a == m.addr
      held == l2[t][a].st # "I"
      loc == l2[t][a].loc
  IN
  /\ Receives(s, t, m) /\ m.type = "WB_REQ"
  /\ Check(Failure("wb_req_state", held => l2[t][a].st = "M")
           \cup Failure("setCacheLineState",
                        held /\ loc # None => l1[t][loc][a].st # "I"))
  /\ IF held
     THEN /\ l1' = IF loc = None THEN l1
                   ELSE [l1 EXCEPT ![t][loc][a].st = "S"]
          /\ l2' = [l2 EXCEPT ![t][a].st = "S"]
          /\ Deliver(s, t, To(s, <<DataReply("WB_REP", a, l2[t][a])>>))
     ELSE UNCHANGED <<l1, l2>> /\ Deliver(s, t, Nothing)
  /\ UNCHANGED <<latest, syncVars, dirVars>>

-----------------------------------------------------------------------------
(* Simulation thread of the home tile: directory entries *)

\* DirectoryCache: whether a way of h's set is free, and whether
\* getDirectoryEntry finds an entry of a (it looks for a free way before it
\* looks in the list of replaced entries).
FreeWay(h) ==
  Cardinality({b \in Addrs : Home[b] = h /\ way[b] # None}) < DirWays
HasEntry(a) ==
  \/ way[a] # None
  \/ ~FreeWay(Home[a]) /\ repl[a] # None
EntryOf(a) == IF way[a] # None THEN way[a]
              ELSE IF repl[a] # None THEN repl[a] ELSE FreshEntry
SetEntry(a, e) ==
  IF way[a] # None
  THEN way' = [way EXCEPT ![a] = e] /\ repl' = repl
  ELSE repl' = [repl EXCEPT ![a] = e] /\ way' = way

\* The schemes.  hw holds the sharers a limited scheme has in its hardware
\* slots; Ackwise counts the others without knowing them and is in global
\* mode while there are any.
Limited == DirectoryType \in {"limited_no_broadcast", "ackwise"}
Global(e) == DirectoryType = "ackwise" /\ e.sharers # e.hw
CanAddSharer(e) ==
  DirectoryType = "limited_no_broadcast" => Cardinality(e.hw) < MaxHwSharers
addSharer(e, t) ==
  [e EXCEPT !.sharers = @ \cup {t},
            !.hw = IF Limited /\ ~Global(e) /\ Cardinality(@) < MaxHwSharers
                   THEN @ \cup {t} ELSE @]
removeSharer(e, t) == [e EXCEPT !.sharers = @ \ {t}, !.hw = @ \ {t}]

\* getSharersList: the tiles an invalidation of the entry goes to.  The
\* limited scheme without broadcast reports "all tiles" too.
InvTargets(e) ==
  IF DirectoryType = "limited_no_broadcast" \/ Global(e)
  THEN Tiles ELSE e.sharers

\* What processNullifyReq, processExReqFromL2Cache and
\* processShReqFromL2Cache send when the line is cached.
FlushReq(e, a) == To(e.owner, <<Msg("FLUSH_REQ", "DIR", a, None)>>)
WbReq(e, a) == To(e.owner, <<Msg("WB_REQ", "DIR", a, None)>>)
InvReq(S, a) == ToAll(S, Msg("INV_REQ", "DIR", a, None))

-----------------------------------------------------------------------------
(* Directory handlers.  They start serving by taking the lock for the      *)
(* simulation thread and setting work; nothing else happens at the tile    *)
(* until the handler stops serving.                                        *)

StartServing(h, a, buf) ==
  /\ lock' = [lock EXCEPT ![h] = "sim"]
  /\ work' = [work EXCEPT ![h] = [addr |-> a, buf |-> buf]]
StopServing(h) ==
  /\ lock' = [lock EXCEPT ![h] = "free"]
  /\ work' = [work EXCEPT ![h] = None]

\* handleMsgFromL2Cache: requests wait in the queue of their address; the
\* first one is served at once.
DirRecvReq(s, h) ==
  LET m == Head(chan[<<s, h>>])
      a == m.addr
  IN
  /\ Receives(s, h, m) /\ m.src = "L2" /\ m.type \in {"EX_REQ", "SH_REQ"}
  /\ queue' = [queue EXCEPT ![a] = Append(@, [type |-> m.type, tile |-> s])]
  /\ IF queue[a] = <<>> THEN StartServing(h, a, None)
     ELSE UNCHANGED <<lock, work>>
  /\ Deliver(s, h, Nothing)
  /\ UNCHANGED <<cacheVars, app, sim, appSem, simSem, outst,
                 way, repl, dram, err>>

\* processInvRepFromL2Cache
DirRecvInvRep(s, h) ==
  LET m == Head(chan[<<s, h>>])
      a == m.addr
      r == removeSharer(EntryOf(a), s)
      e == IF r.sharers = {} THEN [r EXCEPT !.st = "U"] ELSE r
  IN
  /\ Receives(s, h, m) /\ m.type = "INV_REP"
  /\ Check(Failure("inv_rep_entry", HasEntry(a))
           \cup Failure("inv_rep_state", HasEntry(a) => EntryOf(a).st = "S")
           \cup Failure("removeSharer",
                        HasEntry(a) => s \in EntryOf(a).sharers))
  /\ SetEntry(a, e)
  /\ IF queue[a] # <<>> /\ (Head(queue[a]).type = "SH_REQ" \/ e.st = "U")
     THEN StartServing(h, a, None)
     ELSE UNCHANGED <<lock, work>>
  /\ Deliver(s, h, Nothing)
  /\ UNCHANGED <<cacheVars, app, sim, appSem, simSem, outst, queue, dram>>

\* The request at the front of a's queue takes the data of a flush.
AnyTakesData(a) == queue[a] # <<>>   \* faulty: SH_REQ and NULLIFY_REQ too
TakesData(a) == queue[a] # <<>> /\ Head(queue[a]).type = "EX_REQ"

\* processFlushRepFromL2Cache: the data go to DRAM unless an exclusive
\* request takes them.
DirRecvFlushRep(s, h) ==
  LET m == Head(chan[<<s, h>>])
      a == m.addr
      e == [removeSharer(EntryOf(a), s) EXCEPT !.owner = None, !.st = "U"]
  IN
  /\ Receives(s, h, m) /\ m.type = "FLUSH_REP"
  /\ Check(Failure("flush_rep_entry", HasEntry(a))
           \cup Failure("flush_rep_state", HasEntry(a) => EntryOf(a).st = "M")
           \cup Failure("removeSharer",
                        HasEntry(a) => s \in EntryOf(a).sharers))
  /\ SetEntry(a, e)
  /\ dram' = IF TakesData(a) THEN dram ELSE [dram EXCEPT ![a] = m.val]
  /\ IF queue[a] # <<>> THEN StartServing(h, a, m.val)
     ELSE UNCHANGED <<lock, work>>
  /\ Deliver(s, h, Nothing)
  /\ UNCHANGED <<cacheVars, app, sim, appSem, simSem, outst, queue>>

\* processWbRepFromL2Cache: only a shared request asks for a write-back.
DirRecvWbRep(s, h) ==
  LET m == Head(chan[<<s, h>>])
      a == m.addr
      e == [EntryOf(a) EXCEPT !.owner = None, !.st = "S"]
  IN
  /\ Receives(s, h, m) /\ m.type = "WB_REP"
  /\ Check(Failure("wb_rep_entry", HasEntry(a))
           \cup Failure("wb_rep_state",
                        HasEntry(a) => /\ EntryOf(a).st = "M"
                                       /\ s \in EntryOf(a).sharers)
           \cup Failure("wb_rep_request",
                        queue[a] # <<>> /\ Head(queue[a]).type = "SH_REQ"))
  /\ SetEntry(a, e)
  /\ dram' = [dram EXCEPT ![a] = m.val]
  /\ StartServing(h, a, m.val)
  /\ Deliver(s, h, Nothing)
  /\ UNCHANGED <<cacheVars, app, sim, appSem, simSem, outst, queue>>

-----------------------------------------------------------------------------
(* Serving the request at the front of the queue of work[h].addr *)

Serving(h, a, r, types) ==
  /\ lock[h] = "sim" /\ work[h] # None
  /\ a = work[h].addr /\ queue[a] # <<>> /\ r = Head(queue[a])
  /\ r.type \in types

\* The request waits for replies: the handler returns.
Await(h, a, out) ==
  /\ Check(Failure("cached_data_buf", work[h].buf = None))
  /\ Send(h, out)
  /\ StopServing(h)
  /\ UNCHANGED <<queue, dram>>

\* processNextReqFromL2Cache: the front is done; go on with the next one.
NextReq(h, a) ==
  /\ queue' = [queue EXCEPT ![a] = Tail(@)]
  /\ IF Len(queue[a]) > 1
     THEN work' = [work EXCEPT ![h].buf = None] /\ lock' = lock
     ELSE StopServing(h)

\* retrieveDataAndSendToL2Cache, then processNextReqFromL2Cache.
Grant(h, a, r, type) ==
  /\ Send(h, To(r.tile, <<Msg(type, "DIR", a,
            IF work[h].buf = None THEN dram[a] ELSE work[h].buf)>>))
  /\ NextReq(h, a)
  /\ UNCHANGED dram

\* getDirectoryEntry gives a request that has no entry a free way.
DirAllocateFree(h) ==
  LET a == work[h].addr
      r == Head(queue[a])
  IN
  /\ Serving(h, a, r, {"EX_REQ", "SH_REQ"})
  /\ way[a] = None /\ FreeWay(h)
  /\ way' = [way EXCEPT ![a] = FreshEntry]
  /\ UNCHANGED <<cacheVars, syncVars, chan, queue, repl, work, dram, err>>

\* The entries processDirectoryEntryAllocationReq may replace: those with no
\* request in progress, and of those one with the fewest sharers.
Candidates(h) ==
  LET idle == {b \in Addrs : /\ Home[b] = h /\ way[b] # None
                             /\ queue[b] = <<>>}
  IN  {b \in idle : \A c \in idle :
         Cardinality(way[b].sharers) <= Cardinality(way[c].sharers)}

\* Nobody has the line of the entry.
NotModified(e) == e.st # "M"   \* faulty: shared copies are forgotten
Uncached(e) == e.st = "U"

\* processDirectoryEntryAllocationReq with processNullifyReq of the entry it
\* replaces: an uncached one is dropped, another one stays in the replaced
\* list with a NULLIFY request until its copies are gone.
DirReplace(h) ==
  LET a == work[h].addr
      r == Head(queue[a])
  IN
  /\ Serving(h, a, r, {"EX_REQ", "SH_REQ"})
  /\ ~HasEntry(a) /\ ~FreeWay(h)
  /\ IF Candidates(h) = {}
     THEN /\ Check(Failure("replacement_candidate", FALSE))
          /\ UNCHANGED <<way, repl, queue, chan>>
     ELSE \E b \in Candidates(h) :
            LET e == way[b]
            IN /\ Check(Failure("nullify_alone", queue[b] = <<>>))
               /\ way' = [way EXCEPT ![b] = None, ![a] = FreshEntry]
               /\ IF Uncached(e) THEN UNCHANGED <<repl, queue, chan>>
                  ELSE /\ repl' = [repl EXCEPT ![b] = e]
                       /\ queue' = [queue EXCEPT ![b] = Append(@,
                            [type |-> "NULLIFY_REQ", tile |-> r.tile])]
                       /\ Send(h, IF e.st = "M" THEN FlushReq(e, b)
                                  ELSE InvReq(InvTargets(e), b))
  /\ UNCHANGED <<cacheVars, syncVars, work, dram>>

\* processExReqFromL2Cache
DirServeExReq(h) ==
  LET a == work[h].addr
      r == Head(queue[a])
      e == EntryOf(a)
  IN
  /\ Serving(h, a, r, {"EX_REQ"}) /\ HasEntry(a)
  /\ \/ /\ e.st = "M" /\ Await(h, a, FlushReq(e, a))
        /\ UNCHANGED <<way, repl>>
     \/ /\ e.st = "S" /\ Await(h, a, InvReq(InvTargets(e), a))
        /\ UNCHANGED <<way, repl>>
     \/ /\ e.st = "U"
        /\ Check(Failure("addSharer",
                         CanAddSharer(e) /\ r.tile \notin e.sharers))
        /\ SetEntry(a, [addSharer(e, r.tile) EXCEPT !.owner = r.tile,
                                                    !.st = "M"])
        /\ Grant(h, a, r, "EX_REP")
  /\ UNCHANGED <<cacheVars, app, sim, appSem, simSem, outst>>

\* processShReqFromL2Cache.  When the scheme has no room for the requester,
\* a sharer it tracks (getOneSharer) is invalidated first.
DirServeShReq(h) ==
  LET a == work[h].addr
      r == Head(queue[a])
      e == EntryOf(a)
  IN
  /\ Serving(h, a, r, {"SH_REQ"}) /\ HasEntry(a)
  /\ \/ /\ e.st = "M" /\ Await(h, a, WbReq(e, a))
        /\ UNCHANGED <<way, repl>>
     \/ /\ e.st = "S" /\ ~CanAddSharer(e)
        /\ \E x \in e.hw : Send(h, InvReq({x}, a))
        /\ Check(Failure("addSharer", r.tile \notin e.sharers))
        /\ StopServing(h)
        /\ UNCHANGED <<queue, dram, way, repl>>
     \/ /\ e.st = "U" \/ (e.st = "S" /\ CanAddSharer(e))
        /\ Check(Failure("addSharer",
                         CanAddSharer(e) /\ r.tile \notin e.sharers))
        /\ SetEntry(a, [addSharer(e, r.tile) EXCEPT !.st = "S"])
        /\ Grant(h, a, r, "SH_REP")
  /\ UNCHANGED <<cacheVars, app, sim, appSem, simSem, outst>>

\* processNullifyReq once the line is uncached: invalidateDirectoryEntry.
DirServeNullify(h) ==
  LET a == work[h].addr
      r == Head(queue[a])
  IN
  /\ Serving(h, a, r, {"NULLIFY_REQ"})
  /\ Check(Failure("nullify_entry", HasEntry(a) /\ EntryOf(a).st = "U")
           \cup Failure("invalidateDirectoryEntry", repl[a] # None))
  /\ repl' = [repl EXCEPT ![a] = None]
  /\ NextReq(h, a)
  /\ UNCHANGED <<cacheVars, app, sim, appSem, simSem, outst, chan, way, dram>>

-----------------------------------------------------------------------------
(* Specification *)

AppStep(t) ==
  \/ \E r \in Accesses : AppL1Hit(t, r) \/ AppL2Hit(t, r) \/ AppMiss(t, r)
  \/ AppResume(t)
  \/ \E v \in Values : AppUnlock(t, v)

RecvStep(s, t) ==
  \/ L2RecvReply(s, t) \/ L2RecvInvReq(s, t)
  \/ L2RecvFlushReq(s, t) \/ L2RecvWbReq(s, t)
  \/ DirRecvReq(s, t) \/ DirRecvInvRep(s, t)
  \/ DirRecvFlushRep(s, t) \/ DirRecvWbRep(s, t)

ServeStep(h) ==
  \/ DirAllocateFree(h) \/ DirReplace(h)
  \/ DirServeExReq(h) \/ DirServeShReq(h) \/ DirServeNullify(h)

\* A failed assertion ends the simulation.
Next ==
  /\ err = {}
  /\ \E t \in Tiles :
       \/ AppStep(t)
       \/ L2RecvFromL1(t) \/ SimResume(t) \/ ServeStep(t)
       \/ \E s \in Tiles : RecvStep(s, t)

Spec == Init /\ [][Next]_vars

\* Threads run: an application thread that is resumed or inside an atomic
\* instruction goes on, a simulation thread takes packets from every sender.
\* The simulation thread competes for the lock with an application that may
\* take it again and again, hence strong fairness there.
Fairness ==
  \A t \in Tiles :
    /\ WF_vars(err = {} /\ AppResume(t))
    /\ WF_vars(err = {} /\ \E v \in Values : AppUnlock(t, v))
    /\ WF_vars(err = {} /\ ServeStep(t))
    /\ SF_vars(err = {} /\ SimResume(t))
    /\ SF_vars(err = {} /\ L2RecvFromL1(t))
    /\ \A s \in Tiles : SF_vars(err = {} /\ RecvStep(s, t))

FairSpec == Spec /\ Fairness

-----------------------------------------------------------------------------
(* Properties *)

\* No assert or LOG_ASSERT_ERROR of the two cache controllers and the
\* directory controller ever fails: every reply finds the directory in the
\* state the handler expects, whatever requests it crossed on the way.
NoAssertionFails == err = {}

\* Every valid copy, in L1 or L2, is the value last written by anybody: no
\* load can return a stale value.
CopiesAreCurrent ==
  \A t \in Tiles, a \in Addrs :
    /\ l2[t][a].st # "I" => l2[t][a].val = latest[a]
    /\ \A c \in Comps : l1[t][c][a].st # "I" => l1[t][c][a].val = latest[a]

\* Inclusion: a line in an L1 cache is in the L2 cache, with the same state,
\* and the L2 tags say which L1 cache has it.
Inclusion ==
  \A t \in Tiles, c \in Comps, a \in Addrs :
    l1[t][c][a].st # "I" =>
      l2[t][a].st = l1[t][c][a].st /\ l2[t][a].loc = c

\* At most one entry per address, in a way or being nullified, and a
\* directory set is full while one of its entries is being nullified: this
\* is why getDirectoryEntry may look for a free way first.
OneEntryPerLine ==
  \A a \in Addrs :
    /\ ~(way[a] # None /\ repl[a] # None)
    /\ repl[a] # None => ~FreeWay(Home[a])

\* The directory knows every holder: a tile with a copy is a sharer of the
\* line's only entry, the one with a modified copy its owner, and the L1
\* caches hold nothing that L2 does not answer for.
DirectoryKnowsHolders ==
  /\ Inclusion /\ OneEntryPerLine
  /\ \A t \in Tiles, a \in Addrs :
       l2[t][a].st # "I" =>
         /\ HasEntry(a) /\ t \in EntryOf(a).sharers
         /\ l2[t][a].st = "M" => EntryOf(a).st = "M" /\ EntryOf(a).owner = t

\* Data in a message or in the directory's hands.
Carried(a) ==
  \/ \E p \in Tiles \X Tiles : \E i \in 1..Len(chan[p]) :
       chan[p][i].addr = a /\ chan[p][i].val # None
  \/ \E h \in Tiles : work[h] # None /\ work[h].addr = a /\ work[h].buf # None

\* No write is lost: every copy has the last value written, and when nobody
\* has the line modified and nobody carries its data, DRAM has it.
NoLostWrite ==
  /\ CopiesAreCurrent
  /\ \A a \in Addrs :
       (\A t \in Tiles : l2[t][a].st # "M") /\ ~Carried(a) => dram[a] = latest[a]

\* The two threads of a tile hand it over strictly: a pending signal for one
\* of them means the other one is parked where the protocol says.
Handover ==
  \A t \in Tiles :
    /\ appSem[t] + simSem[t] <= 1
    /\ appSem[t] = 1 => app[t].pc = "wait" /\ sim[t] = "waitApp"
    /\ sim[t] = "waitApp" => appSem[t] + simSem[t] = 1
    /\ outst[t] # None => app[t].pc = "wait" /\ sim[t] = "recv"

\* What makes Handover inductive: a simulation thread that receives has no
\* signal pending, and there is at most one request from the L1 caches under
\* way, only while the application waits and nothing else is outstanding.
L1Requests(t) ==
  {i \in 1..Len(chan[<<t, t>>]) : chan[<<t, t>>][i].src \in Comps}
HandoverInv ==
  /\ Handover
  /\ \A t \in Tiles :
       /\ sim[t] = "recv" => appSem[t] = 0 /\ simSem[t] = 0
       /\ \A i \in L1Requests(t) :
            /\ app[t].pc = "wait" /\ outst[t] = None /\ appSem[t] = 0
            /\ \A j \in L1Requests(t) : j = i

\* While a tile is between the load and the store of an atomic instruction,
\* nobody changes the line.
AtomicInstructions ==
  [][\A t \in Tiles :
       app[t].pc = "locked" /\ app'[t].pc = "locked" =>
         latest'[app[t].acc.addr] = latest[app[t].acc.addr]]_vars

\* Every access that misses is eventually completed.
AccessCompletes ==
  \A t \in Tiles : app[t].pc = "wait" ~> app[t].pc # "wait"

\* The coherence protocol implements a memory whose lines are written by a
\* single holder at a time and read by nobody meanwhile.
Abstract == INSTANCE CoherentMemory WITH
  mem <- latest,
  perm <- [t \in Tiles |-> [a \in Addrs |-> l2[t][a].st]]
ImplementsCoherentMemory == Abstract!Spec
=============================================================================
