-------------------------------- MODULE ShL2 --------------------------------
(***************************************************************************)
(* The private-L1, shared-L2 MSI protocol of                               *)
(* common/tile/memory_subsystem/pr_l1_sh_l2_msi.                           *)
(*                                                                         *)
(* The L2 cache is spread over the tiles: the home tile of a line keeps it *)
(* together with its directory entry and fetches it from the tile of its   *)
(* DRAM controller by messages.  An L2 line that is evicted while L1       *)
(* caches have it waits in _evicted_cache_line_map until they have given   *)
(* it up.  Each L1 cache has a lock of its own, which the application      *)
(* thread keeps during an atomic instruction; the L2 side needs none.      *)
(*                                                                         *)
(* Directory schemes, cache sets and channels are those of MOSI and MSI    *)
(* (D, and B in it).  A handler that serves queued requests does one per   *)
(* step, and nothing else happens in the tile's simulation thread.         *)
(***************************************************************************)
EXTENDS Naturals, Sequences, FiniteSets

CONSTANTS
  Tiles, Addrs, InstrAddrs, DataAddrs, Home, Values, InitVal,
  L1Ways, L2Ways, ReplacementPolicy, DirectoryType, MaxHwSharers,
  MaxInFlight, None,
  DramHome,           \* [Addrs -> Tiles]: the tile of the DRAM controller
  Plan                \* bound: the accesses a tile makes

VARIABLES
  l1,       \* [Tiles -> [Comps -> [Addrs -> line]]]
  l2,       \* [Addrs -> L2 line with its directory entry, or None]
  evicted,  \* _evicted_cache_line_map
  app, sim, appSem, simSem, outst,   \* as in MSI
  chan,     \* packets in flight from one tile to another, in order
  queue,    \* _L2_cache_req_queue_list
  work,     \* the address a handler serves, and its data_buf
  dram, latest, err

l1Vars == <<l1, latest>>
syncVars == <<app, sim, appSem, simSem, outst>>
l2Vars == <<l2, evicted, queue, work>>
vars == <<l1Vars, syncVars, l2Vars, chan, dram, err>>

D == INSTANCE MOSI WITH
  way <- l2, repl <- evicted, data <- dram, DirWays <- L2Ways,
  lock <- [t \in Tiles |-> "free"], Plans <- {Plan}, plan <- Plan

ASSUME ShL2Assumption ==
  /\ {Home, DramHome} \subseteq [Addrs -> Tiles]
  /\ {L1Ways, L2Ways} \subseteq Nat \ {0}
  /\ Plan \in [Tiles -> SUBSET D!B!Accesses]
  /\ InitVal \in Values /\ None \notin Tiles \cup Addrs \cup Values

Failure(name, cond) == D!B!Failure(name, cond)
Check(failures) == D!B!Check(failures)
Send(t, out) == D!B!Send(t, out)
Deliver(s, t, out) == D!B!Deliver(s, t, out)
Nothing == D!B!Nothing
To(t, m) == D!B!To(t, <<m>>)
Both(x, y) == [d \in Tiles |-> x[d] \o y[d]]

ShmemMsg(type, src, dst, a, val, reply) ==
  [type |-> type, src |-> src, dst |-> dst, addr |-> a, val |-> val,
   reply |-> reply]
Control(type, src, dst, a) == ShmemMsg(type, src, dst, a, None, FALSE)
Carries(type, src, dst, a, val) == ShmemMsg(type, src, dst, a, val, FALSE)

\* allocateCacheLine: the line has no data yet.
FreshLine == [st |-> "DATA_INVALID", val |-> None, comp |-> None,
              entry |-> D!FreshEntry]

Init ==
  /\ app = [t \in Tiles |-> [pc |-> "idle", acc |-> None]]
  /\ sim = [t \in Tiles |-> "recv"]
  /\ l1 = [t \in Tiles |-> [c \in D!B!Comps |-> [a \in Addrs |-> D!B!InvalidL1]]]
  /\ l2 = [a \in Addrs |-> None] /\ evicted = [a \in Addrs |-> None]
  /\ appSem = [t \in Tiles |-> 0] /\ simSem = [t \in Tiles |-> 0]
  /\ outst = [t \in Tiles |-> None]
  /\ chan = [p \in Tiles \X Tiles |-> <<>>]
  /\ queue = [a \in Addrs |-> <<>>]
  /\ work = [t \in Tiles |-> None]
  /\ dram = [a \in Addrs |-> InitVal] /\ latest = [a \in Addrs |-> InitVal]
  /\ err = {}

-----------------------------------------------------------------------------
(* Application thread: L1CacheCntlr::processMemOpFromCore *)

L1Hit(t, r) == D!B!operationPermissible(r.op, l1[t][r.comp][r.addr].st)

\* accessCache; a LOCK access keeps the lock of the L1 cache.
Access(t, r) ==
  /\ IF r.op = "WRITE"
     THEN /\ l1' = [l1 EXCEPT ![t][r.comp][r.addr].val = r.val]
          /\ latest' = [latest EXCEPT ![r.addr] = r.val]
     ELSE UNCHANGED <<l1, latest>>
  /\ app' = [app EXCEPT ![t] = IF r.sig = "LOCK" THEN [pc |-> "locked", acc |-> r]
                               ELSE [pc |-> "idle", acc |-> None]]
AppHit(t, r) ==
  /\ app[t].pc = "idle" /\ L1Hit(t, r)
  /\ Access(t, r)
  /\ UNCHANGED <<sim, appSem, simSem, outst, l2Vars, chan, dram, err>>

\* The request goes through the own network interface to the simulation
\* thread, without the lock; MaxInFlight bounds what is in flight.
AppMiss(t, r) ==
  /\ app[t].pc = "idle" /\ ~L1Hit(t, r)
  /\ \A p \in Tiles \X Tiles : Len(chan[p]) <= MaxInFlight
  /\ Send(t, To(t, Control(D!B!ReqType(r.op), "CORE", r.comp, r.addr)))
  /\ app' = [app EXCEPT ![t] = [pc |-> "wait", acc |-> r]]
  /\ UNCHANGED <<l1Vars, sim, appSem, simSem, outst, l2Vars, dram, err>>

\* Second pass; an access that misses again fails.
AppResume(t) ==
  LET r == app[t].acc
  IN
  /\ app[t].pc = "wait" /\ appSem[t] > 0
  /\ appSem' = [appSem EXCEPT ![t] = @ - 1]
  /\ simSem' = [simSem EXCEPT ![t] = @ + 1]
  /\ Check(Failure("access_num", L1Hit(t, r)))
  /\ Access(t, r)
  /\ UNCHANGED <<sim, outst, l2Vars, chan, dram>>

\* The WRITE with UNLOCK of an atomic instruction.
AppUnlock(t, v) ==
  LET r == [app[t].acc EXCEPT !.op = "WRITE", !.sig = "NONE", !.val = v]
  IN
  /\ app[t].pc = "locked"
  /\ Check(Failure("unlock_hits", L1Hit(t, r)))
  /\ Access(t, r)
  /\ UNCHANGED <<sim, appSem, simSem, outst, l2Vars, chan, dram>>

-----------------------------------------------------------------------------
(* Simulation thread, L1 caches *)

\* The packet from s that is handled next at t.  An L1 handler waits for the
\* lock of its cache.
Receives(s, t, m, dsts) ==
  /\ sim[t] = "recv" /\ work[t] = None
  /\ chan[<<s, t>>] # <<>> /\ m = Head(chan[<<s, t>>])
  /\ m.dst \in dsts
Unlocked(t, c) == app[t].pc = "locked" => app[t].acc.comp # c

\* handleMsgFromCore
L1RecvFromCore(t) ==
  LET m == Head(chan[<<t, t>>])
  IN
  /\ Receives(t, t, m, D!B!Comps) /\ m.src = "CORE"
  /\ outst' = [outst EXCEPT ![t] = [addr |-> m.addr, comp |-> m.dst]]
  /\ Deliver(t, t, To(Home[m.addr], Control(m.type, m.dst, "L2", m.addr)))
  /\ UNCHANGED <<l1Vars, app, sim, appSem, simSem, l2Vars, dram, err>>

\* insertCacheLine: a modified line that is evicted takes its data along.
EvictionMsg(c, e, line) ==
  IF line.st = "M" THEN Carries("FLUSH_REP", c, "L2", e, line.val)
  ELSE Control("INV_REP", c, "L2", e)

\* handleMsgFromL2Cache with processExRep, processShRep, processUpgradeRep:
\* then the application is woken and the thread waits for it.
L1RecvReply(s, t) ==
  LET m == Head(chan[<<s, t>>])
      a == m.addr
      cache == l1[t][m.dst]
      new == [st |-> IF m.type = "SH_REP" THEN "S" ELSE "M", val |-> m.val]
  IN
  /\ Receives(s, t, m, D!B!Comps) /\ Unlocked(t, m.dst)
  /\ m.type \in {"EX_REP", "SH_REP", "UPGRADE_REP"}
  /\ Check(Failure("outstanding_address", outst[t] # None /\ outst[t].addr = a)
           \cup Failure("upgrade_state", m.type = "UPGRADE_REP" => cache[a].st = "S"))
  /\ \/ /\ m.type = "UPGRADE_REP"
        /\ l1' = [l1 EXCEPT ![t][m.dst][a].st = "M"]
        /\ Deliver(s, t, Nothing)
     \/ /\ m.type # "UPGRADE_REP"
        /\ \E e \in D!B!Victims(cache, L1Ways) :
             /\ l1' = [l1 EXCEPT ![t][m.dst] =
                         D!B!Insert(cache, a, new, e, D!B!InvalidL1)]
             /\ Deliver(s, t, IF e = None THEN Nothing
                              ELSE To(Home[e], EvictionMsg(m.dst, e, cache[e])))
  /\ outst' = [outst EXCEPT ![t] = None]
  /\ appSem' = [appSem EXCEPT ![t] = @ + 1]
  /\ sim' = [sim EXCEPT ![t] = "waitApp"]
  /\ UNCHANGED <<latest, app, simSem, l2Vars, dram>>

\* waitForAppThread returns.
SimResume(t) ==
  /\ sim[t] = "waitApp" /\ simSem[t] > 0
  /\ simSem' = [simSem EXCEPT ![t] = @ - 1]
  /\ sim' = [sim EXCEPT ![t] = "recv"]
  /\ UNCHANGED <<l1Vars, app, appSem, outst, l2Vars, chan, dram, err>>

\* processInvReqFromL2Cache: a cache without the line answers when it has to.
L1RecvInvReq(s, t) ==
  LET m == Head(chan[<<s, t>>])
      line == l1[t][m.dst][m.addr]
      rep == ShmemMsg("INV_REP", m.dst, "L2", m.addr, None, m.reply)
  IN
  /\ Receives(s, t, m, D!B!Comps) /\ Unlocked(t, m.dst) /\ m.type = "INV_REQ"
  /\ Check(Failure("inv_req_state", line.st \in {"I", "S"}))
  /\ l1' = [l1 EXCEPT ![t][m.dst][m.addr] = D!B!InvalidL1]
  /\ Deliver(s, t, IF line.st # "I" \/ m.reply THEN To(s, rep) ELSE Nothing)
  /\ UNCHANGED <<latest, syncVars, l2Vars, dram>>

\* processFlushReqFromL2Cache, processWbReqFromL2Cache: the owner gives the
\* line up, or keeps it shared; an owner that has evicted it says nothing.
L1RecvFlushWbReq(s, t) ==
  LET m == Head(chan[<<s, t>>])
      line == l1[t]["DCACHE"][m.addr]
      type == IF m.type = "FLUSH_REQ" THEN "FLUSH_REP" ELSE "WB_REP"
  IN
  /\ Receives(s, t, m, D!B!Comps) /\ Unlocked(t, "DCACHE")
  /\ m.type \in {"FLUSH_REQ", "WB_REQ"}
  /\ Check(Failure("flush_wb_state", line.st \in {"I", "M"})
           \cup Failure("data_cache", m.dst = "DCACHE" /\ ~m.reply))
  /\ l1' = [l1 EXCEPT ![t]["DCACHE"][m.addr] =
              IF m.type = "WB_REQ" /\ line.st # "I" THEN [@ EXCEPT !.st = "S"]
              ELSE D!B!InvalidL1]
  /\ Deliver(s, t, IF line.st = "I" THEN Nothing
                   ELSE To(s, Carries(type, "DCACHE", "L2", m.addr, line.val)))
  /\ UNCHANGED <<latest, syncVars, l2Vars, dram>>

-----------------------------------------------------------------------------
(* Simulation thread, DRAM controller: DramCntlr::handleMsgFromL2Cache *)

DramRecv(s, t) ==
  LET m == Head(chan[<<s, t>>])
  IN
  /\ Receives(s, t, m, {"DRAM"})
  /\ \/ /\ m.type = "DRAM_FETCH_REQ" /\ dram' = dram
        /\ Deliver(s, t, To(s, Carries("DRAM_FETCH_REP", "DRAM", "L2", m.addr,
                                       dram[m.addr])))
     \/ /\ m.type = "DRAM_STORE_REQ"
        /\ dram' = [dram EXCEPT ![m.addr] = m.val]
        /\ Deliver(s, t, Nothing)
  /\ UNCHANGED <<l1Vars, syncVars, l2Vars, err>>

-----------------------------------------------------------------------------
(* Simulation thread of the home tile: the L2 cache *)

\* getCacheLineInfo and setCacheLineInfo look in the map of evicted lines
\* first.
LineOf(a) == IF evicted[a] # None THEN evicted[a] ELSE l2[a]
SetLine(a, line) ==
  IF evicted[a] # None THEN evicted' = [evicted EXCEPT ![a] = line] /\ l2' = l2
  ELSE l2' = [l2 EXCEPT ![a] = line] /\ evicted' = evicted

StartServing(h, a, buf) == work' = [work EXCEPT ![h] = [addr |-> a, buf |-> buf]]
\* restartShmemReq
Restart(h, a, line, buf) ==
  IF queue[a] # <<>> /\ (Head(queue[a]).type = "SH_REQ" \/ line.entry.st = "U")
  THEN StartServing(h, a, buf) ELSE work' = work

\* handleMsgFromL1Cache
L2RecvReq(s, h) ==
  LET m == Head(chan[<<s, h>>])
      a == m.addr
  IN
  /\ Receives(s, h, m, {"L2"}) /\ m.type \in {"EX_REQ", "SH_REQ"}
  /\ queue' = [queue EXCEPT ![a] = Append(@, [type |-> m.type, tile |-> s,
                                              comp |-> m.src])]
  /\ IF queue[a] = <<>> THEN StartServing(h, a, None) ELSE work' = work
  /\ Deliver(s, h, Nothing)
  /\ UNCHANGED <<l1Vars, syncVars, l2, evicted, dram, err>>

\* processInvRepFromL1Cache
L2RecvInvRep(s, h) ==
  LET m == Head(chan[<<s, h>>])
      a == m.addr
      line == LineOf(a)
      e == D!removeSharer(line.entry, s, m.reply)
      new == IF D!getNumSharers(e) # 0 THEN [line EXCEPT !.entry = e]
             ELSE [line EXCEPT !.entry = [e EXCEPT !.st = "U"], !.comp = None]
      ok == line # None /\ line.entry.st = "S" /\ line.entry.owner = None
            /\ D!RemoveOK(line.entry, s, m.reply)
  IN
  /\ Receives(s, h, m, {"L2"}) /\ m.type = "INV_REP"
  /\ Check(Failure("inv_rep", ok))
  /\ IF ok THEN SetLine(a, new) /\ Restart(h, a, new, None)
     ELSE UNCHANGED <<l2, evicted, work>>
  /\ Deliver(s, h, Nothing)
  /\ UNCHANGED <<l1Vars, syncVars, queue, dram>>

\* processFlushRepFromL1Cache: the data are written to the L2 cache unless an
\* exclusive request takes them, or the line is leaving the cache.
NeverWrites(a) == FALSE   \* faulty: the data of an eviction are dropped
WritesFlush(a) == queue[a] = <<>> \/ Head(queue[a]).type = "SH_REQ"
L2RecvFlushRep(s, h) ==
  LET m == Head(chan[<<s, h>>])
      a == m.addr
      line == LineOf(a)
      e == [D!removeSharer(line.entry, s, FALSE) EXCEPT !.owner = None, !.st = "U"]
      new == [line EXCEPT !.entry = e, !.st = "DIRTY", !.comp = None,
                          !.val = IF WritesFlush(a) THEN m.val ELSE @]
      ok == line # None /\ line.entry.st = "M" /\ line.entry.owner = s
            /\ D!RemoveOK(line.entry, s, FALSE)
  IN
  /\ Receives(s, h, m, {"L2"}) /\ m.type = "FLUSH_REP"
  /\ Check(Failure("flush_rep", ok)
           \cup Failure("l2_access", WritesFlush(a) => l2[a] # None))
  /\ IF ok THEN SetLine(a, new) /\ Restart(h, a, new, m.val)
     ELSE UNCHANGED <<l2, evicted, work>>
  /\ Deliver(s, h, Nothing)
  /\ UNCHANGED <<l1Vars, syncVars, queue, dram>>

\* processWbRepFromL1Cache
L2RecvWbRep(s, h) ==
  LET m == Head(chan[<<s, h>>])
      a == m.addr
      line == LineOf(a)
      new == [line EXCEPT !.entry.st = "S", !.entry.owner = None,
                          !.st = "DIRTY", !.val = m.val]
      ok == line # None /\ line.entry.st = "M" /\ line.entry.owner = s
            /\ queue[a] # <<>>
  IN
  /\ Receives(s, h, m, {"L2"}) /\ m.type = "WB_REP"
  /\ Check(Failure("wb_rep", ok) \cup Failure("l2_access", l2[a] # None))
  /\ IF ok THEN SetLine(a, new) /\ Restart(h, a, new, m.val)
     ELSE UNCHANGED <<l2, evicted, work>>
  /\ Deliver(s, h, Nothing)
  /\ UNCHANGED <<l1Vars, syncVars, queue, dram>>

\* handleMsgFromDram: an exclusive request passes the data on without
\* writing them to the L2 cache, and the line counts as clean all the same.
L2RecvFromDram(s, h) ==
  LET m == Head(chan[<<s, h>>])
      a == m.addr
      shared == queue[a] # <<>> /\ Head(queue[a]).type = "SH_REQ"
      line == LineOf(a)
      new == [line EXCEPT !.st = "CLEAN", !.val = IF shared THEN m.val ELSE @]
      ok == line # None /\ queue[a] # <<>>
            /\ Head(queue[a]).type \in {"SH_REQ", "EX_REQ"}
  IN
  /\ Receives(s, h, m, {"L2"}) /\ m.type = "DRAM_FETCH_REP"
  /\ Check(Failure("dram_rep", ok))
  /\ IF ok THEN SetLine(a, new) /\ Restart(h, a, new, m.val)
     ELSE UNCHANGED <<l2, evicted, work>>
  /\ Deliver(s, h, Nothing)
  /\ UNCHANGED <<l1Vars, syncVars, queue, dram>>

-----------------------------------------------------------------------------
(* Serving the request at the front of the queue of work[h].addr *)

Serving(h, a, r, types) ==
  /\ work[h] # None /\ a = work[h].addr
  /\ queue[a] # <<>> /\ r = Head(queue[a]) /\ r.type \in types
Await(h, out) ==
  Send(h, out) /\ work' = [work EXCEPT ![h] = None] /\ UNCHANGED queue
\* processNextReqFromL1Cache
NextReq(h, a) ==
  /\ queue' = [queue EXCEPT ![a] = Tail(@)]
  /\ work' = [work EXCEPT ![h] =
                IF Len(queue[a]) > 1 THEN [addr |-> a, buf |-> None] ELSE None]
\* readCacheLineAndSendToL1Cache
FromCache(h, a) == LineOf(a).val   \* faulty: the data at hand are ignored
DataFor(h, a) == IF work[h].buf # None THEN work[h].buf ELSE LineOf(a).val
Grant(h, a, r, type, line) ==
  /\ SetLine(a, line)
  /\ Send(h, To(r.tile, Carries(type, "L2", r.comp, a, DataFor(h, a))))
  /\ NextReq(h, a)

\* sendInvalidationMsg, and the request for the owner's line.
Inv(line, a, c) ==
  LET e == line.entry
      all == IF D!LimBcast THEN e.acks > 0 ELSE D!B!InvTargets(e) = Tiles
  IN  D!B!ToAll(IF all THEN Tiles ELSE D!Tracked(e),
                ShmemMsg("INV_REQ", "L2", c, a, None, all /\ D!LimBcast))
AskOwner(line, a, type) == To(line.entry.owner, Control(type, "L2", "DCACHE", a))
Store(a, val) == To(DramHome[a], Carries("DRAM_STORE_REQ", "L2", "DRAM", a, val))
Fetch(a) == To(DramHome[a], Control("DRAM_FETCH_REQ", "L2", "DRAM", a))

\* L2CacheReplacementPolicy::getReplacementWay: an invalid way, or a line
\* without requests that has the fewest sharers.
InSet(h) == {b \in Addrs : Home[b] = h /\ l2[b] # None}
AnyLine(h) == InSet(h)   \* faulty: lines in use are replaced too
Idle(h) == {b \in InSet(h) : queue[b] = <<>>}
Candidates(h) ==
  {b \in Idle(h) : \A c \in Idle(h) :
     D!getNumSharers(l2[b].entry) <= D!getNumSharers(l2[c].entry)}

\* allocateCacheLine with processNullifyReq of the line b it evicts.
NullifyMsgs(b) ==
  LET line == l2[b]
      store == IF line.st = "DIRTY" THEN Store(b, line.val) ELSE Nothing
  IN  CASE line.entry.st = "M" -> AskOwner(line, b, "FLUSH_REQ")
        [] line.entry.st = "S" -> Both(Inv(line, b, line.comp), store)
        [] line.entry.st = "U" -> store
L2Allocate(h) ==
  LET a == work[h].addr
      r == Head(queue[a])
  IN
  /\ Serving(h, a, r, {"EX_REQ", "SH_REQ"}) /\ LineOf(a) = None
  /\ \/ /\ Cardinality(InSet(h)) < L2Ways
        /\ l2' = [l2 EXCEPT ![a] = FreshLine]
        /\ UNCHANGED <<evicted, queue, chan, err>>
     \/ /\ Cardinality(InSet(h)) >= L2Ways /\ Candidates(h) # {}
        /\ \E b \in Candidates(h) :
             /\ Check(Failure("evicted_state", l2[b].st # "DATA_INVALID")
                      \cup Failure("evicted_alone", queue[b] = <<>>))
             /\ l2' = [l2 EXCEPT ![b] = None, ![a] = FreshLine]
             /\ Send(h, NullifyMsgs(b))
             /\ IF l2[b].entry.st = "U" THEN UNCHANGED <<evicted, queue>>
                ELSE /\ evicted' = [evicted EXCEPT ![b] = l2[b]]
                     /\ queue' = [queue EXCEPT ![b] = Append(@,
                          [type |-> "NULLIFY_REQ", tile |-> h, comp |-> "L2"])]
     \/ /\ Cardinality(InSet(h)) >= L2Ways /\ Candidates(h) = {}
        /\ Check({"replacement_candidate"})
        /\ UNCHANGED <<l2, evicted, queue, chan>>
  /\ UNCHANGED <<l1Vars, syncVars, work, dram>>

\* Data have to be fetched first.
L2Fetch(h) ==
  LET a == work[h].addr
  IN
  /\ Serving(h, a, Head(queue[a]), {"EX_REQ", "SH_REQ"})
  /\ LineOf(a) # None /\ LineOf(a).st = "DATA_INVALID"
  /\ Await(h, Fetch(a))
  /\ UNCHANGED <<l1Vars, syncVars, l2, evicted, dram, err>>

\* processExReqFromL1Cache.  The only sharer is upgraded without data.
Sole(e, t) == D!hasSharer(e, t) /\ D!getNumSharers(e) = 1
L2ServeExReq(h) ==
  LET a == work[h].addr
      r == Head(queue[a])
      line == LineOf(a)
      e == line.entry
  IN
  /\ Serving(h, a, r, {"EX_REQ"}) /\ line # None /\ line.st # "DATA_INVALID"
  /\ Check(Failure("component", /\ r.comp = "DCACHE"
                                /\ line.comp = IF e.st = "U" THEN None ELSE "DCACHE"))
  /\ \/ /\ e.st = "M" /\ Await(h, AskOwner(line, a, "FLUSH_REQ"))
        /\ UNCHANGED <<l2, evicted>>
     \/ /\ e.st = "S" /\ Sole(e, r.tile)
        /\ SetLine(a, [line EXCEPT !.entry.owner = r.tile, !.entry.st = "M"])
        /\ Send(h, To(r.tile, Control("UPGRADE_REP", "L2", "DCACHE", a)))
        /\ NextReq(h, a)
     \/ /\ e.st = "S" /\ ~Sole(e, r.tile) /\ Await(h, Inv(line, a, "DCACHE"))
        /\ UNCHANGED <<l2, evicted>>
     \/ /\ e.st = "U"
        /\ Grant(h, a, r, "EX_REP", [line EXCEPT !.comp = "DCACHE",
             !.entry = [D!addSharer(e, r.tile) EXCEPT !.owner = r.tile, !.st = "M"]])
  /\ UNCHANGED <<l1Vars, syncVars, dram>>

\* processShReqFromL1Cache
L2ServeShReq(h) ==
  LET a == work[h].addr
      r == Head(queue[a])
      line == LineOf(a)
      e == line.entry
  IN
  /\ Serving(h, a, r, {"SH_REQ"}) /\ line # None /\ line.st # "DATA_INVALID"
  /\ Check(Failure("component", line.comp = IF e.st = "U" THEN None ELSE r.comp))
  /\ \/ /\ e.st = "M" /\ Await(h, AskOwner(line, a, "WB_REQ"))
        /\ UNCHANGED <<l2, evicted>>
     \/ /\ e.st = "S" /\ ~D!B!CanAddSharer(e)
        /\ \E x \in D!OneSharer(e) :
             Await(h, To(x, Control("INV_REQ", "L2", r.comp, a)))
        /\ UNCHANGED <<l2, evicted>>
     \/ /\ e.st = "U" \/ (e.st = "S" /\ D!B!CanAddSharer(e))
        /\ Grant(h, a, r, "SH_REP", [line EXCEPT !.comp = r.comp,
             !.entry = [D!addSharer(e, r.tile) EXCEPT !.st = "S"]])
  /\ UNCHANGED <<l1Vars, syncVars, dram>>

\* processNullifyReq when the last copy is gone: the data of an owner go to
\* DRAM, the ones of a shared line have been sent when it was evicted.
L2ServeNullify(h) ==
  LET a == work[h].addr
      line == LineOf(a)
  IN
  /\ Serving(h, a, Head(queue[a]), {"NULLIFY_REQ"})
  /\ Check(Failure("nullify", evicted[a] # None /\ line.entry.st = "U"))
  /\ Send(h, IF line.st = "DIRTY" /\ work[h].buf # None
             THEN Store(a, work[h].buf) ELSE Nothing)
  /\ evicted' = [evicted EXCEPT ![a] = None] /\ l2' = l2
  /\ NextReq(h, a)
  /\ UNCHANGED <<l1Vars, syncVars, dram>>

-----------------------------------------------------------------------------
(* Specification *)

AppStep(t) ==
  \/ \E r \in Plan[t] : AppHit(t, r) \/ AppMiss(t, r)
  \/ AppResume(t) \/ \E v \in Values : AppUnlock(t, v)
RecvStep(s, t) ==
  \/ L1RecvReply(s, t) \/ L1RecvInvReq(s, t) \/ L1RecvFlushWbReq(s, t)
  \/ L2RecvReq(s, t) \/ L2RecvInvRep(s, t) \/ L2RecvFlushRep(s, t)
  \/ L2RecvWbRep(s, t) \/ L2RecvFromDram(s, t) \/ DramRecv(s, t)
ServeStep(h) ==
  \/ L2Allocate(h) \/ L2Fetch(h) \/ L2ServeExReq(h) \/ L2ServeShReq(h)
  \/ L2ServeNullify(h)
Next ==
  /\ err = {}
  /\ \E t \in Tiles :
       \/ AppStep(t) \/ L1RecvFromCore(t) \/ SimResume(t)
       \/ work[t] # None /\ ServeStep(t)
       \/ \E s \in Tiles : chan[<<s, t>>] # <<>> /\ RecvStep(s, t)

Spec == Init /\ [][Next]_vars

-----------------------------------------------------------------------------
(* Properties *)

\* No assertion of the L1, L2 and DRAM controllers fails: a reply always
\* finds its line, in the cache or in the map of evicted lines, in the state
\* the handler expects.
NoAssertionFails == err = {}

\* A copy in an L1 cache is what was written last, and a modified one is the
\* only one: so is it while the line is being evicted from the L2 cache.
CopiesAreCurrent ==
  \A t \in Tiles, c \in D!B!Comps, a \in Addrs :
    l1[t][c][a].st # "I" =>
      /\ l1[t][c][a].val = latest[a]
      /\ l1[t][c][a].st = "M" =>
           \A u \in Tiles, d \in D!B!Comps :
             <<u, d>> # <<t, c>> => l1[u][d][a].st = "I"

\* No write is lost: when no L1 cache has the line modified and no message
\* carries its data, the L2 cache or else DRAM has what was written last.
NoLostWrite ==
  \A a \in Addrs :
    \/ \E t \in Tiles : l1[t]["DCACHE"][a].st = "M"
    \/ \E p \in Tiles \X Tiles : \E i \in DOMAIN chan[p] :
         chan[p][i].addr = a /\ (chan[p][i].val # None
                                 \/ chan[p][i].type = "UPGRADE_REP")
    \/ work[Home[a]] # None /\ work[Home[a]].buf # None
    \/ l2[a] # None /\ l2[a].st # "DATA_INVALID" /\ l2[a].val = latest[a]
         /\ (l2[a].st = "CLEAN" => dram[a] = latest[a])
    \/ (l2[a] = None \/ l2[a].st = "DATA_INVALID") /\ dram[a] = latest[a]
=============================================================================
