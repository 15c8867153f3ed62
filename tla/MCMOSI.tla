------------------------------- MODULE MCMOSI -------------------------------
(* Constants of the runs of MOSI *)
EXTENDS MOSI, TLC
CONSTANTS t1, t2, t3, a1, a2, a3
ThreeTiles == {t1, t2, t3}
AllAtT1 == [a \in Addrs |-> t1]
\* One tile evicts what it has written, the others execute atomic instructions
\* and read; or one reads before its atomic instructions, which then only need
\* an upgrade.
Steps ==
  LET Acc(c, sig, op, a, v) ==
        [comp |-> c, sig |-> sig, op |-> op, addr |-> a, val |-> v]
      read == Acc("DCACHE", "NONE", "READ", a1, None)
      atomic == Acc("DCACHE", "LOCK", "READ_EX", a1, None)
      evict == {Acc("DCACHE", "NONE", "WRITE", a1, 1)}
               \cup {Acc("ICACHE", "NONE", "READ", a, None) : a \in InstrAddrs}
      Plan(A1, A2, A3) ==
        [t \in Tiles |-> IF t = t1 THEN A1 ELSE IF t = t2 THEN A2 ELSE A3]
  IN  {Plan({atomic}, {read}, evict), Plan({}, {read, atomic}, evict)}
\* Lines that are only fetched, by one tile and at one home, are interchangeable.
FetchedLines == Permutations(InstrAddrs)
=============================================================================
