-------------------------------- MODULE ShL1 --------------------------------
(***************************************************************************)
(* The shared-L1 shared-L2 memory system (sh_l1_sh_l2): a tile keeps no    *)
(* copy of its own.  Every access of its core goes to the home of the      *)
(* line, whose directory controller answers from its L2 slice; READ_EX     *)
(* locks the whole home until the same tile's next message, which is to    *)
(* be the WRITE of the atomic instruction.  A directory entry is never     *)
(* given up: a home whose lines outnumber its entries stops the simulator. *)
(*                                                                         *)
(* The core is MainCore: it cuts an access that crosses lines into one     *)
(* request a line, in ascending order, and waits for each.                 *)
(***************************************************************************)
EXTENDS Integers, Sequences, FiniteSets, SequencesExt

CONSTANTS
  Tiles,
  Lines,
  Home,      \* AddressHomeLookup: [Lines -> Tiles]
  Values,    \* what a line holds
  InitVal,
  L2Ways,    \* lines a slice has room for
  DirectoryEntries,   \* entries of a home's directory, which is one set
  Program,   \* bound: the instructions of the tiles, <<tile, instruction, lines>>
             \* with the lines of the access in ascending order
  None

VARIABLES
  core,     \* the instruction of every tile's core: initiateMemoryAccess; what
            \* a plain load reads is not kept
  wire,     \* the message of a tile that is under way: a request or its reply
  locked,   \* _locked and _lock_owner of every home: the owner, or None
  pending,  \* _request_queue
  dstate,   \* the directory state of every line at its home, None without an entry
  l2,       \* the L2 slices: state and data of every line
  dram,     \* the DRAM
  err,      \* the assertions that failed
  written   \* ghost: the value the last WRITE handled gave a line

vars == <<core, wire, locked, pending, dstate, l2, dram, err, written>>
homeVars == <<locked, pending, dstate, l2, dram, err, written>>

Idle == [ins |-> "none", lines |-> <<>>, at |-> 0, op |-> None, got |-> <<>>, waits |-> FALSE]
Invalid == [st |-> "I", val |-> None]

\* A message; only a WRITE and a READ_REP carry data.  What is sent is a copy,
\* and so is what waits in a queue.
ShmemMsg(type, line, data) == [type |-> type, line |-> line, data |-> data]
ShmemReq(t, msg) == [tile |-> t, msg |-> msg]

Fails(ok, what) == IF ok THEN {} ELSE {what}

------------------------------------------------------------------------------
(* The core and L1CacheCntlr *)

\* An instruction: a load, a store, or an atomic one, which loads with READ_EX
\* and stores at the same address.
Issue(t, ins, lines) ==
  /\ core[t] = Idle
  /\ core' = [core EXCEPT ![t] = [Idle EXCEPT !.ins = ins, !.lines = lines, !.at = 1,
                !.op = CASE ins = "load" -> "READ" [] ins = "store" -> "WRITE" [] ins = "atomic" -> "READ_EX"]]
  /\ UNCHANGED <<wire, homeVars>>

\* processMemOpFromTile: the request for the line the access has come to.  A
\* WRITE carries its data.
processMemOpFromTile(t, v) ==
  LET c == core[t]
  IN  /\ c.at > 0 /\ ~c.waits
      /\ c.op # "WRITE" => v = InitVal
      /\ err' = err \cup Fails(wire[t] = None, "outstanding_data_buf")
      /\ wire' = [wire EXCEPT ![t] = ShmemMsg(c.op, c.lines[c.at], IF c.op = "WRITE" THEN v ELSE None)]
      /\ core' = [core EXCEPT ![t].waits = TRUE]
      /\ UNCHANGED <<locked, pending, dstate, l2, dram, written>>

\* What comes after a line's reply: the access's next line, the store of an
\* atomic instruction, or the end.
Advance(c, reply) ==
  LET read == [c EXCEPT !.waits = FALSE,
                        !.got = IF c.op = "READ_EX" THEN Append(@, reply.data) ELSE @]
  IN  IF c.at < Len(c.lines) THEN [read EXCEPT !.at = @ + 1]
      ELSE IF c.op = "READ_EX" THEN [read EXCEPT !.at = 1, !.op = "WRITE"]
      ELSE Idle

\* handleMsgFromDramDirectory wakes the core's thread, which goes on.
handleMsgFromDramDirectory(t) ==
  /\ wire[t] # None
  /\ wire[t].type \in {"READ_REP", "WRITE_REP"}
  /\ core' = [core EXCEPT ![t] = Advance(@, wire[t])]
  /\ wire' = [wire EXCEPT ![t] = None]
  /\ UNCHANGED homeVars

------------------------------------------------------------------------------
(* DramDirectoryCntlr and L2CacheCntlr of a home.  A home's state is       *)
(*   [locked, pending, dstate, l2, dram, replies, err, written]            *)

HomeState ==
  [locked |-> locked, pending |-> pending, dstate |-> dstate, l2 |-> l2, dram |-> dram,
   replies |-> [t \in Tiles |-> None], err |-> err, written |-> written]

\* DirectoryCache::getDirectoryEntry: the entry of the line, or a free one.
getDirectoryEntry(s, line) ==
  IF s.dstate[line] # None THEN s
  ELSE IF Cardinality({l \in Lines : Home[l] = Home[line] /\ s.dstate[l] # None})
            < DirectoryEntries
  THEN [s EXCEPT !.dstate[line] = "U"]
  ELSE [s EXCEPT !.err = @ \cup {"directory_entry"}]

\* Mutant: an evicted line is dropped.
DropEvicted(s, line) == [s EXCEPT !.l2[line] = Invalid, !.dstate[line] = "U"]

\* handleEvictedCacheLineFromL2Cache: a modified line goes to the DRAM.
handleEvictedCacheLine(s, line) ==
  [s EXCEPT !.dram[line] = IF s.dstate[line] = "M" THEN s.l2[line].val ELSE @,
            !.err = @ \cup Fails(s.dstate[line] = s.l2[line].st, "data_buf"),
            !.l2[line] = Invalid,
            !.dstate[line] = "U"]

\* insertCacheLine: the line the replacement policy picks makes room, if the
\* slice has none for the line.
Victims(s, line) ==
  LET here == {l \in Lines : Home[l] = Home[line] /\ s.l2[l].st # "I"}
  IN  IF s.dstate[line] # "U" \/ Cardinality(here) < L2Ways THEN {None} ELSE here

insertCacheLine(s, line, st, victim) ==
  LET room == IF victim = None THEN s ELSE handleEvictedCacheLine(s, victim)
  IN  [room EXCEPT !.l2[line] = [st |-> st, val |-> room.dram[line]], !.dstate[line] = st]

processReadReqFromL1Cache(s, t, line, victim) ==
  LET there == IF s.dstate[line] = "U" THEN insertCacheLine(s, line, "S", victim) ELSE s
  IN  [there EXCEPT !.replies[t] = ShmemMsg("READ_REP", line, there.l2[line].val),
                    !.err = @ \cup Fails(there.l2[line].st # "I", "readData")]

processWriteReqFromL1Cache(s, t, line, v, victim) ==
  LET there == IF s.dstate[line] = "U" THEN insertCacheLine(s, line, "M", victim)
               ELSE [s EXCEPT !.dstate[line] = "M", !.l2[line].st = "M"]
  IN  [there EXCEPT !.l2[line].val = v,
                    !.written[line] = v,
                    !.replies[t] = ShmemMsg("WRITE_REP", line, None)]

\* READ_EX locks the home for its sender; a WRITE unlocks it.
processMsgFromL1Cache(s, t, m, victim) ==
  LET h == Home[m.line]
  IN  CASE m.type = "READ" -> processReadReqFromL1Cache(s, t, m.line, victim)
        [] m.type = "READ_EX" ->
             [processReadReqFromL1Cache(s, t, m.line, victim) EXCEPT !.locked[h] = t]
        [] m.type = "WRITE" ->
             [processWriteReqFromL1Cache(s, t, m.line, m.data, victim) EXCEPT !.locked[h] = None]

\* The states that message m of tile t can leave behind: both requests get
\* the directory entry first.
Processed(s, t, m) ==
  UNION {IF e.err # {} THEN {e}
         ELSE {processMsgFromL1Cache(e, t, m, v) : v \in Victims(e, m.line)} :
           e \in {getDirectoryEntry(s, m.line)}}

\* Mutant: pending requests are all handled, locked or not.
RECURSIVE DrainAll(_, _)
DrainAll(s, h) ==
  IF s.pending[h] = <<>> \/ s.err # {} THEN {s}
  ELSE LET r == Head(s.pending[h])
           popped == [s EXCEPT !.pending[h] = Tail(@)]
       IN  UNION {DrainAll(p, h) : p \in Processed(popped, r.tile, r.msg)}

\* Mutant: the request that came last goes first.
RECURSIVE NewestFirst(_, _)
NewestFirst(s, h) ==
  IF s.pending[h] = <<>> \/ s.locked[h] # None \/ s.err # {} THEN {s}
  ELSE LET r == Last(s.pending[h])
           popped == [s EXCEPT !.pending[h] = Front(@)]
       IN  UNION {NewestFirst(p, h) : p \in Processed(popped, r.tile, r.msg)}

\* processPendingRequests: the states the requests that waited can leave behind,
\* up to the one that locks the home again.
RECURSIVE processPendingRequests(_, _)
processPendingRequests(s, h) ==
  IF s.pending[h] = <<>> \/ s.locked[h] # None \/ s.err # {} THEN {s}
  ELSE LET r == Head(s.pending[h])
           popped == [s EXCEPT !.pending[h] = Tail(@)]
       IN  UNION {processPendingRequests(p, h) : p \in Processed(popped, r.tile, r.msg)}

\* handleMsgFromL1Cache
HandledFrom(t) ==
  LET m == wire[t]
      h == Home[m.line]
      s == [HomeState EXCEPT !.err = @ \cup
              Fails(locked[h] # None \/ pending[h] = <<>>, "request_queue_empty")]
      Unlocked(p) == [p EXCEPT !.err = @ \cup Fails(p.locked[h] = None, "still_locked")]
  IN  CASE locked[h] = None -> Processed(s, t, m)
        [] locked[h] = t -> UNION {processPendingRequests(Unlocked(p), h) : p \in Processed(s, t, m)}
        [] OTHER -> {[s EXCEPT !.pending[h] = Append(@, ShmemReq(t, m))]}

\* A reply takes the place of the tile's request.
sendMsg(replies) == [u \in Tiles |-> IF replies[u] # None THEN replies[u] ELSE wire[u]]

handleMsgFromL1Cache(t) ==
  /\ wire[t] # None
  /\ wire[t].type \in {"READ", "READ_EX", "WRITE"}
  /\ \A r \in ToSet(pending[Home[wire[t].line]]) : r.tile # t
  /\ \E s \in HandledFrom(t) :
       /\ locked' = s.locked /\ pending' = s.pending /\ dstate' = s.dstate
       /\ l2' = s.l2 /\ dram' = s.dram /\ err' = s.err /\ written' = s.written
       /\ wire' = sendMsg(s.replies)
  /\ UNCHANGED core

------------------------------------------------------------------------------
Init ==
  /\ core = [t \in Tiles |-> Idle]
  /\ wire = [t \in Tiles |-> None]
  /\ locked = [t \in Tiles |-> None]
  /\ pending = [t \in Tiles |-> <<>>]
  /\ dstate = [l \in Lines |-> None]
  /\ l2 = [l \in Lines |-> Invalid]
  /\ dram = [l \in Lines |-> InitVal]
  /\ err = {}
  /\ written = [l \in Lines |-> InitVal]

\* The core's requests, and MemoryManager::handleMsgFromNetwork, which hands a
\* message to the controller it is for
Memory(t) ==
  \/ \E v \in Values : processMemOpFromTile(t, v)
  \/ handleMsgFromL1Cache(t)
  \/ handleMsgFromDramDirectory(t)

\* An assertion that fails ends the simulator.
Next ==
  /\ err = {}
  /\ \E t \in Tiles :
       \/ \E p \in Program : p[1] = t /\ Issue(t, p[2], p[3])
       \/ Memory(t)

\* The threads of a tile run, and its messages arrive.
Spec == Init /\ [][Next]_vars /\ \A t \in Tiles : WF_vars(err = {} /\ Memory(t))

------------------------------------------------------------------------------
\* No assertion of the controllers fails: requests wait only while a home is
\* locked, the lock owner's next message unlocks it, a tile has one request
\* outstanding, and the directory agrees with the slice about the line that is
\* evicted (dram_directory_cntlr.cc, l1_cache_cntlr.cc).  The exception is a
\* home with more lines than directory entries, at the first request for the
\* line too many: "Does not handle directory evictions for now" (lines 122, 165).
NoAssertionFails == err \subseteq {"directory_entry"}

\* What a line reads as is what was last written to it, wherever it is kept:
\* evictions between the requests of several tiles lose no write.
NoLostWrite ==
  \A l \in Lines :
    /\ written[l] = IF dstate[l] \in {None, "U"} THEN dram[l] ELSE l2[l].val
    /\ dstate[l] = "S" => dram[l] = written[l]

\* Between the load and the store of an atomic instruction nobody changes a
\* line it has loaded and not yet stored to: other tiles' requests wait at the
\* locked home, those that were queued before it included.
AtomicInstructions ==
  \A t \in Tiles :
    LET c == core[t]
        loaded == IF c.op = "READ_EX" THEN 1 .. Len(c.got) ELSE c.at .. Len(c.got)
        stored == c.op = "WRITE" /\ wire[t] # None /\ wire[t].type = "WRITE_REP"
    IN  c.ins = "atomic" =>
          \A i \in loaded : (i = c.at /\ stored) \/ c.got[i] = written[c.lines[i]]

\* Every access ends: a home that is locked is unlocked, and the requests
\* that waited for it are answered, unless the directory overflows.
AccessCompletes == \A t \in Tiles : core[t] # Idle ~> core[t] = Idle \/ err # {}
=============================================================================
