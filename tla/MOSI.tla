-------------------------------- MODULE MOSI --------------------------------
(***************************************************************************)
(* The private-L1, private-L2, dram-directory MOSI protocol of             *)
(* common/tile/memory_subsystem/pr_l1_pr_l2_dram_directory_mosi.           *)
(*                                                                         *)
(* Threads, caches, network and directory cache are those of the MSI       *)
(* protocol (module MSI, instantiated as B).  What differs: a modified     *)
(* line that is read by another tile stays dirty with its OWNER; a request *)
(* fetches the line from a sharer before it goes to DRAM; a sole sharer    *)
(* that writes is upgraded without data; and the directory keeps the data  *)
(* of unfinished requests in _cached_data_list.                            *)
(***************************************************************************)
EXTENDS Naturals, Sequences, FiniteSets

CONSTANTS
  Tiles, Addrs, InstrAddrs, DataAddrs, Home, Values, InitVal,
  L1Ways, L2Ways, DirWays, ReplacementPolicy, DirectoryType, MaxHwSharers,
  MaxInFlight, None,
  Plans               \* bound: which accesses the tiles of a run make

VARIABLES
  l1, l2, app, sim, lock, appSem, simSem, outst, chan, queue, way, repl, work,
  dram, latest, err,
  data,   \* _cached_data_list
  plan    \* the accesses of each tile, chosen at the start

B == INSTANCE MSI

ASSUME MOSIAssumption ==
  /\ Home \in [Addrs -> Tiles] /\ Plans \subseteq [Tiles -> SUBSET B!Accesses]
  /\ DirectoryType \in {"full_map", "limited_no_broadcast", "ackwise",
                        "limitless", "limited_broadcast"}

cacheVars == <<l1, l2, latest>>
syncVars == <<app, sim, lock, appSem, simSem, outst>>
dirVars == <<queue, way, repl, work, dram, data>>
vars == <<cacheVars, syncVars, chan, dirVars, err, plan>>

-----------------------------------------------------------------------------
(* Messages: single is the tile an INV_FLUSH_COMBINED_REQ asks for the      *)
(* data, reply whether a tile without the line has to answer too.           *)

ShmemMsg(type, src, a, val, single, reply) ==
  [type |-> type, src |-> src, addr |-> a, val |-> val,
   single |-> single, reply |-> reply]
Control(type, src, a) == ShmemMsg(type, src, a, None, None, FALSE)
Carries(type, src, a, val) == ShmemMsg(type, src, a, val, None, FALSE)

\* sendMsg, broadcastMsg
Send(t, out) == B!Send(t, out)

FreshEntry == [st |-> "U", owner |-> None, sharers |-> {}, hw |-> {}, acks |-> 0]

\* ShmemReq: a queued request; sharer is the tile asked on its behalf.
ShmemReq(type, t) == [type |-> type, tile |-> t, sharer |-> None]

\* DataList::insert, lookup and erase: one buffer per line at most.
DataInsert(a, val) == [data EXCEPT ![a] = val]
DataErase(a) == [data EXCEPT ![a] = None]
\* DramCntlr: reading a line, writing a line.
getDataFromDram(a) == dram[a]
putDataToDram(a, val) == [dram EXCEPT ![a] = val]

Init == B!Init /\ data = [a \in Addrs |-> None] /\ plan \in Plans

-----------------------------------------------------------------------------
(* The L1 cache controller's operations on a line, and the L2 line's record  *)
(* of the L1 cache that has it.                                              *)

getCacheLineState(t, c, a) == l1[t][c][a].st
setCacheLineState(t, c, a, st) == [l1 EXCEPT ![t][c][a].st = st]
insertCacheLine(L1, c, a, line, victim) == B!L1After(L1, c, a, line, victim)
invalidateCacheLine(t, a) == B!InvalidateInL1(t, a)
InvalidLine == B!InvalidL2
setCachedLoc(L2, a, c) == [L2 EXCEPT ![a].loc = c]
clearCachedLoc(L2, victim) == B!ClearCachedLoc(L2, victim)
getShmemMsgType(op) == B!ReqType(op)

-----------------------------------------------------------------------------
(* Application thread: the L1 line is not given up before a miss *)

L1Hit(t, r) ==
  B!operationPermissible(r.op, getCacheLineState(t, r.comp, r.addr))
L2Hit(t, r) == B!operationPermissible(r.op, l2[t][r.addr].st)

AppL2Hit(t, r) ==
  /\ app[t].pc = "idle" /\ lock[t] = "free"
  /\ ~L1Hit(t, r) /\ L2Hit(t, r)
  /\ \E victim \in B!Victims(l1[t][r.comp], L1Ways) :
       /\ B!accessCache(t, r,
            insertCacheLine(l1[t], r.comp, r.addr, l2[t][r.addr], victim),
            setCachedLoc(clearCachedLoc(l2[t], victim), r.addr, r.comp))
       /\ B!Check(B!Failure("clearCachedLoc",
                            victim # None => l2[t][victim].loc = r.comp)
                  \cup B!Failure("setCachedLoc", l2[t][r.addr].loc = None))
  /\ B!Return(t, r)
  /\ UNCHANGED <<sim, appSem, simSem, outst, chan, dirVars>>

AppMiss(t, r) ==
  /\ app[t].pc = "idle" /\ lock[t] = "free"
  /\ ~L1Hit(t, r) /\ ~L2Hit(t, r)
  /\ \A p \in Tiles \X Tiles : Len(chan[p]) <= MaxInFlight
  /\ Send(t, B!To(t, <<Control(getShmemMsgType(r.op), r.comp, r.addr)>>))
  /\ app' = [app EXCEPT ![t] = [pc |-> "wait", acc |-> r]]
  /\ UNCHANGED <<l1, l2, latest, sim, lock, appSem, simSem, outst, dirVars, err>>

-----------------------------------------------------------------------------
(* Simulation thread, L2 cache *)

\* handleMsgFromL1Cache: the request is passed on as it is.
L2RecvFromL1(t) ==
  LET m == Head(chan[<<t, t>>])
  IN
  /\ B!Receives(t, t, m) /\ m.src \in B!Comps
  /\ B!Check(B!Failure("no_outstanding", outst[t] = None))
  /\ outst' = [outst EXCEPT ![t] = [addr |-> m.addr, comp |-> m.src]]
  /\ B!Deliver(t, t, B!To(Home[m.addr], <<Control(m.type, "L2", m.addr)>>))
  /\ UNCHANGED <<cacheVars, app, sim, lock, appSem, simSem, dirVars>>

\* The application goes on, and the simulation thread waits for it.
WakeUpApp(t) ==
  /\ outst' = [outst EXCEPT ![t] = None]
  /\ appSem' = [appSem EXCEPT ![t] = @ + 1]
  /\ sim' = [sim EXCEPT ![t] = "waitApp"]
  /\ UNCHANGED <<latest, app, lock, simSem, dirVars>>

\* insertCacheLine: a modified or owned line is evicted with its data.
OwnedIsClean(e, line) ==   \* faulty: an owned line is dropped like a shared one
  IF line.st = "M" THEN Carries("FLUSH_REP", "L2", e, line.val)
  ELSE Control("INV_REP", "L2", e)
EvictionMsg(e, line) ==
  IF line.st \in {"M", "O"} THEN Carries("FLUSH_REP", "L2", e, line.val)
  ELSE Control("INV_REP", "L2", e)

InsertInHierarchy(s, t, a, c, new) ==
  \E e \in B!Victims(l2[t], L2Ways) :
    LET L1 == IF e = None THEN l1[t] ELSE invalidateCacheLine(t, e)
        L2 == B!Insert(l2[t], a, new, e, InvalidLine)
    IN  \E e1 \in B!Victims(L1[c], L1Ways) :
          /\ l1' = [l1 EXCEPT ![t] = insertCacheLine(L1, c, a, new, e1)]
          /\ l2' = [l2 EXCEPT ![t] = clearCachedLoc(L2, e1)]
          /\ B!Deliver(s, t, IF e = None THEN B!Nothing
                             ELSE B!To(Home[e], <<EvictionMsg(e, l2[t][e])>>))
          /\ B!Check(B!Failure("clearCachedLoc", e1 # None => L2[e1].loc = c))

\* processExRepFromDramDirectory, processShRepFromDramDirectory
L2RecvReply(s, t) ==
  LET m == Head(chan[<<s, t>>])
      new == [st |-> IF m.type = "EX_REP" THEN "M" ELSE "S",
              loc |-> outst[t].comp, val |-> m.val]
  IN
  /\ B!Receives(s, t, m) /\ m.type \in {"EX_REP", "SH_REP"}
  /\ IF outst[t] = None \/ outst[t].addr # m.addr
     THEN /\ B!Check({"outstanding_address"})
          /\ UNCHANGED <<cacheVars, syncVars, chan, dirVars>>
     ELSE InsertInHierarchy(s, t, m.addr, outst[t].comp, new) /\ WakeUpApp(t)

\* processUpgradeRepFromDramDirectory: the line that is there is modified.
L2RecvUpgradeRep(s, t) ==
  LET m == Head(chan[<<s, t>>])
      a == m.addr
      line == [l2[t][a] EXCEPT !.st = "M"]
      c == outst[t].comp
      ok == outst[t] # None /\ outst[t].addr = a /\ c = "DCACHE"
  IN
  /\ B!Receives(s, t, m) /\ m.type = "UPGRADE_REP"
  /\ B!Check(B!Failure("upgrade_rep_state", l2[t][a].st \in {"S", "O"})
             \cup B!Failure("outstanding_address", ok)
             \cup B!Failure("setCacheLineState",
                            line.loc # None
                              => getCacheLineState(t, "DCACHE", a) # "I"))
  /\ IF ~ok THEN UNCHANGED <<cacheVars, syncVars, chan, dirVars>>
     ELSE /\ IF line.loc # None
             THEN /\ l1' = setCacheLineState(t, c, a, "M")
                  /\ l2' = [l2 EXCEPT ![t][a] = line]
             ELSE \E e1 \in B!Victims(l1[t][c], L1Ways) :
                    /\ l1' = [l1 EXCEPT ![t] = insertCacheLine(l1[t], c, a, line, e1)]
                    /\ l2' = [l2 EXCEPT ![t] =
                         setCachedLoc([clearCachedLoc(l2[t], e1) EXCEPT ![a] = line],
                                      a, c)]
          /\ B!Deliver(s, t, B!Nothing)
          /\ WakeUpApp(t)

\* A line is given up; a tile that does not have it answers when asked to.
GiveUp(s, t, a, reply, answer) ==
  IF l2[t][a].st # "I"
  THEN /\ l1' = [l1 EXCEPT ![t] = invalidateCacheLine(t, a)]
       /\ l2' = [l2 EXCEPT ![t][a] = InvalidLine]
       /\ B!Deliver(s, t, B!To(s, <<answer>>))
  ELSE /\ UNCHANGED <<l1, l2>>
       /\ B!Deliver(s, t, IF reply
            THEN B!To(s, <<ShmemMsg("INV_REP", "L2", a, None, None, TRUE)>>)
            ELSE B!Nothing)

\* processInvFlushCombinedReqFromDramDirectory
IsFlush(t, m) ==
  m.type = "FLUSH_REQ" \/ (m.type = "COMBINED_REQ" /\ m.single = t)
\* processInvReqFromDramDirectory, processFlushReqFromDramDirectory
L2RecvInvFlushReq(s, t) ==
  LET m == Head(chan[<<s, t>>])
      a == m.addr
      type == IF IsFlush(t, m) THEN "FLUSH_REP" ELSE "INV_REP"
      val == IF IsFlush(t, m) THEN l2[t][a].val ELSE None
  IN
  /\ B!Receives(s, t, m) /\ m.type \in {"INV_REQ", "FLUSH_REQ", "COMBINED_REQ"}
  /\ B!Check(B!Failure("inv_req_state",
                       IsFlush(t, m) \/ l2[t][a].st \in {"I", "S"}))
  /\ GiveUp(s, t, a, m.reply, ShmemMsg(type, "L2", a, val, None, m.reply))
  /\ UNCHANGED <<latest, syncVars, dirVars>>

\* processWbReqFromDramDirectory: the line stays; a modified one is owned now.
WbToShared(st) == "S"    \* faulty: nobody owns the dirty line
WbState(st) == IF st = "M" THEN "O" ELSE st
L2RecvWbReq(s, t) ==
  LET m == Head(chan[<<s, t>>])
      a == m.addr
      line == l2[t][a]
  IN
  /\ B!Receives(s, t, m) /\ m.type = "WB_REQ"
  /\ B!Check(B!Failure("setCacheLineState",
                       line.st # "I" /\ line.loc # None
                         => getCacheLineState(t, line.loc, a) # "I"))
  /\ IF line.st = "I" THEN UNCHANGED <<l1, l2>> /\ B!Deliver(s, t, B!Nothing)
     ELSE /\ l1' = IF line.loc = None THEN l1
                   ELSE setCacheLineState(t, line.loc, a, WbState(line.st))
          /\ l2' = [l2 EXCEPT ![t][a].st = WbState(line.st)]
          /\ B!Deliver(s, t, B!To(s, <<Carries("WB_REP", "L2", a, line.val)>>))
  /\ UNCHANGED <<latest, syncVars, dirVars>>

-----------------------------------------------------------------------------
(* Directory entries.  Limited broadcast forgets who the sharers are once    *)
(* there are too many, and counts the answers of all tiles: acks is what is  *)
(* missing, and the entry is in broadcast mode while it is not 0.            *)

LimBcast == DirectoryType = "limited_broadcast"
Tracked(e) == IF LimBcast THEN e.hw ELSE e.sharers
getNumSharers(e) ==
  IF e.acks > 0 THEN e.acks ELSE Cardinality(Tracked(e))
addSharer(e, t) ==
  IF ~LimBcast THEN B!addSharer(e, t)
  ELSE IF e.acks > 0 THEN e
  ELSE IF Cardinality(e.hw) < MaxHwSharers THEN [e EXCEPT !.hw = @ \cup {t}]
  ELSE [e EXCEPT !.acks = Cardinality(Tiles)]
removeSharer(e, t, reply) ==
  IF ~LimBcast THEN B!removeSharer(e, t)
  ELSE [e EXCEPT !.hw = @ \ {t}, !.acks = IF reply THEN @ - 1 ELSE @]
\* What the schemes assert when a sharer is removed.
RemoveOK(e, t, reply) ==
  IF ~LimBcast THEN t \in e.sharers /\ ~reply
  ELSE /\ e.acks = 0 => t \in e.hw
       /\ reply => e.acks > 0 /\ (e.acks = 1 => e.hw \subseteq {t})
hasSharer(e, t) == IF DirectoryType = "ackwise" THEN t \in e.hw ELSE t \in Tracked(e)

\* getOneSharer: one of the sharers that are tracked, at random.
OneSharer(e) ==
  LET S == IF DirectoryType = "ackwise" THEN e.hw ELSE Tracked(e)
  IN  IF S = {} THEN {None} ELSE S

\* sendShmemMsg
InvFlushReq(e, a, type, single) ==
  LET all == IF LimBcast THEN e.acks > 0 ELSE B!InvTargets(e) = Tiles
  IN  B!ToAll(IF all THEN Tiles ELSE Tracked(e),
              ShmemMsg(type, "DIR", a, None, single, all /\ LimBcast))
Ask(e, a, to, type) == B!To(to, <<Control(type, "DIR", a)>>)

-----------------------------------------------------------------------------
(* Directory: what arrives *)

EntryOf(a) == IF way[a] # None THEN way[a]
              ELSE IF repl[a] # None THEN repl[a] ELSE FreshEntry

DirRecvReq(s, h) ==
  LET m == Head(chan[<<s, h>>])
      a == m.addr
      req == ShmemReq(m.type, s)
  IN
  /\ B!Receives(s, h, m) /\ m.src = "L2" /\ m.type \in {"EX_REQ", "SH_REQ"}
  /\ queue' = [queue EXCEPT ![a] = Append(@, req)]
  /\ B!Check(B!Failure("cached_data", queue[a] = <<>> => data[a] = None))
  /\ IF queue[a] = <<>> THEN B!StartServing(h, a, None) ELSE UNCHANGED <<lock, work>>
  /\ B!Deliver(s, h, B!Nothing)
  /\ UNCHANGED <<cacheVars, app, sim, appSem, simSem, outst, way, repl, dram, data>>

\* restartShmemReq: the request at the front goes on when nobody has the line
\* any more, a shared request when the sharer it asked has answered.
restartShmemReq(s, h, a, e) ==
  LET r == Head(queue[a])
  IN  IF queue[a] = <<>> \/ (r.type # "SH_REQ" /\ e.st # "U")
                         \/ (r.type = "SH_REQ" /\ r.sharer # s)
      THEN UNCHANGED <<queue, lock, work>>
      ELSE /\ B!StartServing(h, a, None)
           /\ queue' = [queue EXCEPT ![a][1].sharer = None]
SharerAsked(a) ==
  queue[a] # <<>> /\ Head(queue[a]).type = "SH_REQ" => Head(queue[a]).sharer # None

\* processInvRepFromL2Cache
DirRecvInvRep(s, h) ==
  LET m == Head(chan[<<s, h>>])
      a == m.addr
      e0 == EntryOf(a)
      e1 == removeSharer(e0, s, m.reply)
      e == IF e0.st = "S" /\ getNumSharers(e1) = 0 THEN [e1 EXCEPT !.st = "U"] ELSE e1
  IN
  /\ B!Receives(s, h, m) /\ m.type = "INV_REP"
  /\ B!Check(B!Failure("inv_rep_entry", B!HasEntry(a))
             \cup B!Failure("inv_rep_state", e0.st \in {"O", "S"})
             \cup B!Failure("removeSharer", RemoveOK(e0, s, m.reply))
             \cup B!Failure("owned_inv_rep", e0.st = "O" =>
                            s # e0.owner /\ getNumSharers(e1) > 0)
             \cup B!Failure("shared_owner", e0.st = "S" => e0.owner = None)
             \cup B!Failure("sharer_asked", SharerAsked(a)))
  /\ B!SetEntry(a, e)
  /\ restartShmemReq(s, h, a, e)
  /\ B!Deliver(s, h, B!Nothing)
  /\ UNCHANGED <<cacheVars, app, sim, appSem, simSem, outst, dram, data>>

\* processFlushRepFromL2Cache: the data wait for the request at the front; a
\* shared request writes them to DRAM when the line has lost its owner.
WritesBack(a, st0, st) ==
  \/ queue[a] = <<>>
  \/ Head(queue[a]).type = "SH_REQ" /\ st0 \in {"M", "O"} /\ st \in {"S", "U"}
DirRecvFlushRep(s, h) ==
  LET m == Head(chan[<<s, h>>])
      a == m.addr
      e0 == EntryOf(a)
      e1 == removeSharer(e0, s, m.reply)
      left == IF getNumSharers(e1) = 0 THEN "U" ELSE "S"
      e == IF e0.st = "M" \/ (e0.st = "O" /\ s = e0.owner)
           THEN [e1 EXCEPT !.owner = None, !.st = IF e0.st = "M" THEN "U" ELSE left]
           ELSE IF e0.st = "S" THEN [e1 EXCEPT !.st = left] ELSE e1
  IN
  /\ B!Receives(s, h, m) /\ m.type = "FLUSH_REP"
  /\ B!Check(B!Failure("flush_rep_entry", B!HasEntry(a))
             \cup B!Failure("flush_rep_state", e0.st # "U")
             \cup B!Failure("removeSharer", RemoveOK(e0, s, m.reply))
             \cup B!Failure("modified_owner",
                            e0.st = "M" => s = e0.owner /\ ~m.reply)
             \cup B!Failure("same_data", queue[a] # <<>> => data[a] \in {None, m.val})
             \cup B!Failure("sharer_asked", SharerAsked(a)))
  /\ B!SetEntry(a, e)
  /\ data' = IF queue[a] = <<>> THEN data ELSE DataInsert(a, m.val)
  /\ dram' = IF WritesBack(a, e0.st, e.st) THEN putDataToDram(a, m.val) ELSE dram
  /\ restartShmemReq(s, h, a, e)
  /\ B!Deliver(s, h, B!Nothing)
  /\ UNCHANGED <<cacheVars, app, sim, appSem, simSem, outst>>

\* processWbRepFromL2Cache
DirRecvWbRep(s, h) ==
  LET m == Head(chan[<<s, h>>])
      a == m.addr
      e0 == EntryOf(a)
      e == IF e0.st = "M" THEN [e0 EXCEPT !.st = "O"] ELSE e0
  IN
  /\ B!Receives(s, h, m) /\ m.type = "WB_REP"
  /\ B!Check(B!Failure("wb_rep_entry", B!HasEntry(a))
             \cup B!Failure("wb_rep_state",
                            /\ e0.st # "U"
                            /\ e0.st = "M" => s = e0.owner
                            /\ e0.st # "M" => hasSharer(e0, s))
             \cup B!Failure("wb_rep_request", queue[a] # <<>>)
             \cup B!Failure("same_data", data[a] \in {None, m.val})
             \cup B!Failure("sharer_asked", SharerAsked(a)))
  /\ B!SetEntry(a, e)
  /\ data' = DataInsert(a, m.val)
  /\ restartShmemReq(s, h, a, e)
  /\ B!Deliver(s, h, B!Nothing)
  /\ UNCHANGED <<cacheVars, app, sim, appSem, simSem, outst, dram>>

-----------------------------------------------------------------------------
(* Directory: serving the request at the front *)

NextReq(h, a) == B!NextReq(h, a)
Await(h, a, out) ==
  Send(h, out) /\ B!StopServing(h) /\ UNCHANGED <<dram, data, err>>

\* retrieveDataAndSendToL2Cache, then processNextReqFromL2Cache.
Grant(h, a, r, type) ==
  LET val == IF data[a] = None THEN getDataFromDram(a) ELSE data[a]
  IN  /\ Send(h, B!To(r.tile, <<Carries(type, "DIR", a, val)>>))
      /\ data' = DataErase(a)
      /\ NextReq(h, a)
      /\ UNCHANGED dram
Upgrade(h, a, r) ==
  /\ Send(h, B!To(r.tile, <<Control("UPGRADE_REP", "DIR", a)>>))
  /\ B!Check(B!Failure("cached_data", data[a] = None))
  /\ NextReq(h, a)
  /\ UNCHANGED <<dram, data>>

DirAllocateFree(h) ==
  LET a == work[h].addr
  IN
  /\ B!Serving(h, a, Head(queue[a]), {"EX_REQ", "SH_REQ"})
  /\ way[a] = None /\ B!FreeWay(h)
  /\ way' = [way EXCEPT ![a] = FreshEntry]
  /\ UNCHANGED <<cacheVars, syncVars, chan, queue, repl, work, dram, data, err>>

\* DirectoryCache: the entries of the set, the entry of b given to a, and the
\* end of an entry that was replaced.
getReplacementCandidates(h) == {b \in Addrs : Home[b] = h /\ way[b] # None}
replaceDirectoryEntry(b, a) == [way EXCEPT ![b] = None, ![a] = FreshEntry]
invalidateDirectoryEntry(a) == [repl EXCEPT ![a] = None]

Candidates(h) ==
  LET idle == {b \in getReplacementCandidates(h) : queue[b] = <<>>}
  IN  {b \in idle : \A c \in idle : getNumSharers(way[b]) <= getNumSharers(way[c])}

\* processNullifyReq of the entry b that is replaced
NullifyMsgs(e, b) ==
  CASE e.st = "M" -> Ask(e, b, e.owner, "FLUSH_REQ")
    [] e.st = "O" -> InvFlushReq(e, b, "COMBINED_REQ", e.owner)
    [] e.st = "S" -> InvFlushReq(e, b, "INV_REQ", None)
DirReplace(h) ==
  LET a == work[h].addr
      r == Head(queue[a])
  IN
  /\ B!Serving(h, a, r, {"EX_REQ", "SH_REQ"})
  /\ ~B!HasEntry(a) /\ ~B!FreeWay(h)
  /\ IF Candidates(h) = {}
     THEN B!Check({"replacement_candidate"}) /\ UNCHANGED <<way, repl, queue, chan>>
     ELSE \E b \in Candidates(h) :
            /\ way' = replaceDirectoryEntry(b, a)
            /\ IF way[b].st = "U" THEN UNCHANGED <<repl, queue, chan>>
               ELSE /\ repl' = [repl EXCEPT ![b] = way[b]]
                    /\ queue' = [queue EXCEPT ![b] =
                                    Append(@, ShmemReq("NULLIFY_REQ", r.tile))]
                    /\ Send(h, NullifyMsgs(way[b], b))
            /\ UNCHANGED err
  /\ UNCHANGED <<cacheVars, syncVars, work, dram, data>>

\* processExReqFromL2Cache.  A request that is the only sharer left needs no
\* data; the data of the others come from the owner or from one sharer.
AnySharer(e, r) ==   \* faulty: a sharer is upgraded while there are others
  IF e.st = "O" THEN e.owner = r.tile ELSE hasSharer(e, r.tile)
Sole(e, r) == /\ getNumSharers(e) = 1
              /\ IF e.st = "O" THEN e.owner = r.tile ELSE hasSharer(e, r.tile)
DirServeExReq(h) ==
  LET a == work[h].addr
      r == Head(queue[a])
      e == EntryOf(a)
  IN
  /\ B!Serving(h, a, r, {"EX_REQ"}) /\ B!HasEntry(a)
  /\ \/ /\ e.st = "M" /\ Await(h, a, Ask(e, a, e.owner, "FLUSH_REQ"))
        /\ UNCHANGED <<way, repl, queue>>
     \/ /\ e.st \in {"O", "S"} /\ Sole(e, r)
        /\ B!SetEntry(a, [e EXCEPT !.st = "M", !.owner = r.tile])
        /\ Upgrade(h, a, r)
     \/ /\ e.st \in {"O", "S"} /\ ~Sole(e, r)
        /\ \E one \in IF e.st = "O" THEN {e.owner} ELSE OneSharer(e) :
             Await(h, a, InvFlushReq(e, a, "COMBINED_REQ", one))
        /\ UNCHANGED <<way, repl, queue>>
     \/ /\ e.st = "U"
        /\ B!Check(B!Failure("addSharer", getNumSharers(e) = 0))
        /\ B!SetEntry(a, [addSharer(e, r.tile) EXCEPT !.owner = r.tile, !.st = "M"])
        /\ Grant(h, a, r, "EX_REP")
  /\ UNCHANGED <<cacheVars, app, sim, appSem, simSem, outst>>

\* processShReqFromL2Cache.  A sharer is asked for the data (and to leave, when
\* the scheme has no room) unless the directory has them already.
DirServeShReq(h) ==
  LET a == work[h].addr
      r == Head(queue[a])
      e == EntryOf(a)
      AskSharer(x, type) ==
        /\ Await(h, a, Ask(e, a, x, type))
        /\ queue' = [queue EXCEPT ![a][1].sharer = x]
      added == addSharer(e, r.tile)
      undone == removeSharer(added, r.tile, FALSE)
  IN
  /\ B!Serving(h, a, r, {"SH_REQ"}) /\ B!HasEntry(a)
  /\ \/ /\ e.st = "M" /\ AskSharer(e.owner, "WB_REQ")
        /\ UNCHANGED <<way, repl>>
     \/ /\ e.st \in {"O", "S"}
        /\ \E x \in OneSharer(e) :
             \/ /\ ~B!CanAddSharer(e) /\ AskSharer(x, "FLUSH_REQ")
                /\ UNCHANGED <<way, repl>>
             \/ /\ B!CanAddSharer(e) /\ data[a] = None /\ x # None
                /\ B!SetEntry(a, undone)
                /\ AskSharer(x, "WB_REQ")
             \/ /\ B!CanAddSharer(e) /\ (data[a] # None \/ x = None)
                /\ B!Check(B!Failure("addSharer", r.tile \notin Tracked(e)))
                /\ B!SetEntry(a, added)
                /\ Grant(h, a, r, "SH_REP")
     \/ /\ e.st = "U"
        /\ B!Check(B!Failure("addSharer", r.tile \notin Tracked(e)))
        /\ B!SetEntry(a, [added EXCEPT !.st = "S"])
        /\ Grant(h, a, r, "SH_REP")
  /\ UNCHANGED <<cacheVars, app, sim, appSem, simSem, outst>>

\* processNullifyReq once nobody has the line: its data go to DRAM.
DirServeNullify(h) ==
  LET a == work[h].addr
  IN
  /\ B!Serving(h, a, Head(queue[a]), {"NULLIFY_REQ"})
  /\ B!Check(B!Failure("nullify_entry", B!HasEntry(a) /\ EntryOf(a).st = "U"))
  /\ dram' = IF data[a] = None THEN dram ELSE putDataToDram(a, data[a])
  /\ data' = DataErase(a)
  /\ repl' = invalidateDirectoryEntry(a)
  /\ NextReq(h, a)
  /\ UNCHANGED <<cacheVars, app, sim, appSem, simSem, outst, chan, way>>

-----------------------------------------------------------------------------
(* Specification *)

AppStep(t) ==
  \/ \E r \in plan[t] :
       \/ B!AppL1Hit(t, r) /\ UNCHANGED data
       \/ AppL2Hit(t, r) \/ AppMiss(t, r)
  \/ B!AppResume(t) /\ UNCHANGED data
  \/ \E v \in Values : B!AppUnlock(t, v) /\ UNCHANGED data
RecvStep(s, t) ==
  \/ L2RecvReply(s, t) \/ L2RecvUpgradeRep(s, t)
  \/ L2RecvInvFlushReq(s, t) \/ L2RecvWbReq(s, t)
  \/ DirRecvReq(s, t) \/ DirRecvInvRep(s, t)
  \/ DirRecvFlushRep(s, t) \/ DirRecvWbRep(s, t)
ServeStep(h) ==
  \/ DirAllocateFree(h) \/ DirReplace(h)
  \/ DirServeExReq(h) \/ DirServeShReq(h) \/ DirServeNullify(h)
Next ==
  /\ err = {} /\ UNCHANGED plan
  /\ \E t \in Tiles :
       \/ AppStep(t) \/ L2RecvFromL1(t)
       \/ B!SimResume(t) /\ UNCHANGED data
       \/ work[t] # None /\ ServeStep(t)
       \/ \E s \in Tiles : chan[<<s, t>>] # <<>> /\ RecvStep(s, t)

Spec == Init /\ [][Next]_vars

-----------------------------------------------------------------------------
(* Properties *)

\* No assertion of the MOSI controllers fails: in particular data that reach
\* the directory twice are the same, no data are left behind when a request
\* is done, and an upgrade finds the line it upgrades.
NoAssertionFails == err = {}

\* One tile may write, or one is responsible for a dirty line: a modified
\* line is nowhere else, an owned one nowhere else owned or modified.
OneOwner ==
  \A t \in Tiles, a \in Addrs :
    /\ l2[t][a].st = "M" => \A u \in Tiles \ {t} : l2[u][a].st = "I"
    /\ l2[t][a].st = "O" => \A u \in Tiles \ {t} : l2[u][a].st \in {"I", "S"}

\* No write is lost: every valid copy is the value last written, in every
\* state of the line, and a line that no tile has modified or owned, and whose
\* data nobody carries, is in DRAM as it was last written.
NoLostWrite ==
  /\ B!CopiesAreCurrent
  /\ \A a \in Addrs :
       \/ dram[a] = latest[a] \/ data[a] # None
       \/ \E t \in Tiles : l2[t][a].st \in {"M", "O"}
       \/ B!Carried(a)
=============================================================================
