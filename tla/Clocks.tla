------------------------------- MODULE Clocks -------------------------------
(* Core and global clocks (common/misc/clock_converter.cc). *)
EXTENDS Naturals

CONSTANTS
  Cores,
  Freq, Unit     \* the frequency of each core, and the global one

ASSUME ClockAssumption ==
  /\ Unit \in Nat \ {0}
  /\ Freq \in [Cores -> Nat \ {0}]

\* convertCycleCount rounds up.  Its quotient of frequencies is a float; the
\* instances use frequencies whose quotients are exact.
convertCycleCount(n, from, to) == (n * to + from - 1) \div from

ToGlobal(c, n) == convertCycleCount(n, Freq[c], Unit)
ToCore(c, n) == convertCycleCount(n, Unit, Freq[c])
=============================================================================
