------------------------------- MODULE MCShL2 -------------------------------
(* The two memory systems whose L2 cache is shared, side by side: ShL2,    *)
(* and ShL1 as S.  They share no state, so a behaviour moves one of them.  *)
EXTENDS ShL2
CONSTANTS t1, t2, t3, a1, a2, a3, Lines

AllAtT1 == [a \in Addrs |-> t1]
DramAtT2 == [a \in Addrs |-> t2]
\* Two tiles fight for a line, the third one also reads what evicts it.
Steps ==
  LET Acc(c, sig, op, a, v) ==
        [comp |-> c, sig |-> sig, op |-> op, addr |-> a, val |-> v]
      read(a) == Acc("DCACHE", "NONE", "READ", a, None)
  IN  [t \in Tiles |->
         IF t = t1 THEN {Acc("DCACHE", "LOCK", "READ_EX", a1, None)}
         ELSE IF t = t2 THEN {read(a1)}
         ELSE {Acc("DCACHE", "NONE", "WRITE", a1, 1), read(a2),
               Acc("ICACHE", "NONE", "READ", a3, None)}]

\* AddressHomeLookup: consecutive lines go to consecutive tiles.
Striped == [l \in Lines |-> <<t1, t2, t3>>[1 + (l % 3)]]
\* Accesses within a line, and atomic ones also across two.  Those that
\* cross lines lock their homes in one order, as long as no access reaches from
\* the last tile around to the first.  Three lines have the same home, whose
\* directory has room for two.
Mixed ==
  { <<t1, "atomic", <<0, 1>>>>,
    <<t2, "atomic", <<1>>>>, <<t2, "load", <<3>>>>, <<t2, "load", <<6>>>>,
    <<t3, "store", <<1>>>> }

VARIABLES core, wire, locked, pending, dstate, slice, memory, failed, written
S == INSTANCE ShL1 WITH
  Home <- Striped, L2Ways <- 1, DirectoryEntries <- 2, Program <- Mixed,
  l2 <- slice, dram <- memory, err <- failed
sharedVars ==
  <<core, wire, locked, pending, dstate, slice, memory, failed, written>>

Start == Init /\ S!Init
Step == \/ S!Init /\ Next /\ UNCHANGED sharedVars
        \/ Init /\ S!Next /\ UNCHANGED vars
        \/ failed # {} /\ UNCHANGED <<vars, sharedVars>>   \* the simulator has ended
\* The threads of a tile run, and its messages arrive (ShL1.Spec).
BothSpec ==
  /\ Start /\ [][Step]_<<vars, sharedVars>>
  /\ \A t \in Tiles :
       WF_sharedVars(Init /\ failed = {} /\ S!Memory(t) /\ UNCHANGED vars)

\* Evictions of a slice between the requests of several tiles lose no write
\* and fail no assertion but that of a full directory.
SliceKeepsWrites == S!NoAssertionFails /\ S!NoLostWrite
\* Nobody changes what an atomic instruction has loaded before it stores.
AtomicInstructions == S!AtomicInstructions
\* Every access ends, also one that waits at a locked home, unless a directory
\* overflows.
AccessCompletes == S!AccessCompletes
=============================================================================
