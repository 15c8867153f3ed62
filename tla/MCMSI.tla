------------------------------- MODULE MCMSI -------------------------------
(* Small instances of MSI for TLC. *)
EXTENDS MSI, TLC

CONSTANTS t1, t2, t3, a1, a2, a3

\* Every line at one home.
OneHome == [a \in Addrs |-> t1]

\* Lines that are only fetched, at one home, are interchangeable.
FetchedLines == Permutations(Addrs \ DataAddrs)
=============================================================================
