------------------------------ MODULE MCNetwork ------------------------------
(* The networks of MCSimulator beside the ports that delay their packets   *)
(* and the cores that send them.  The models share no state, so a          *)
(* behaviour moves one of them: it has a network without traffic, a port   *)
(* that gets no packet, or an application that makes no call.              *)
EXTENDS MCSimulator, QueueModels

Conf(ports, type, size, analytical, interleaving, average, times, flits, n) ==
  [ports |-> ports, type |-> type, size |-> size, analytical |-> analytical,
   interleaving |-> interleaving, average |-> average,
   times |-> times, flits |-> flits, requests |-> n]
Unused == Conf({1}, "basic", 1, FALSE, FALSE, "none", {0}, {1}, 0)

SomeConfs ==
  { Unused,
    \* Many intervals: the tree grows to seven nodes, and shrinks.
    Conf({1}, "history", 8, FALSE, FALSE, "none", {1, 3, 5, 7, 9, 11}, {1}, 7),
    Conf({Dram}, "history", 8, TRUE, FALSE, "none", {2, 5, 8, 12}, {1}, 5),
    \* Few intervals: the first is given up, and old packets come late.
    Conf({1}, "history", 2, TRUE, FALSE, "none", {0, 2, 4, 7}, {1, 2, 3}, 4),
    Conf({1}, "history", 3, FALSE, FALSE, "none", {0, 2, 4, 7}, {1, 3}, 4),
    Conf({1, 2}, "history", 3, TRUE, TRUE, "none", {0, 4, 7}, {1, 3}, 3),
    \* The basic model
    Conf({1}, "basic", 2, FALSE, FALSE, "none", {0, 3, 7}, {1, 2}, 4),
    Conf({Dram}, "basic", 2, FALSE, FALSE, "arithmetic_mean", {0, 3, 7}, {1}, 4),
    Conf({Dram}, "basic", 2, FALSE, FALSE, "median", {0, 3, 7}, {1}, 4) }

ASSUME /\ DramTime > 0 /\ Window > 0
       /\ \A c \in Confs : c.size > 0 /\ 0 \notin c.flits
       /\ \A n \in Nets : isTileCountPermissible(n)

-------------------------------------------------------------------------------
VARIABLES program, known, nextVc, channels, vc, filter, netQueue, buffer, count,
          block, pc, issued, left
coreVars == <<program, known, nextVc, channels, vc, filter, netQueue, buffer,
              count, block, pc, issued, left>>

\* As in tests/apps/atac_test, the thread of a tile has the rank of another.
\* One thread polls the queue from which the other receives directly; or both
\* create the channel; or one counts down what the other counts up.
Silent == [t \in 0..1 |-> {}]
Application(a, b) == [t \in 0..1 |-> IF t = 0 THEN a ELSE b]
A == INSTANCE AtacMessages WITH
       Cores <- 0..1, Rank <- [t \in 0..1 |-> 1 - t], Owners <- {1, 7},
       Names <- {<<"t", "estChannel1">>}, Signatures <- {1},
       Filters <- {[op |-> "AND", mask |-> 3, match |-> m] : m \in {1, 2}},
       Programs <- { Silent,
         Application({"create", "poll"}, {"send", "receive"}),
         Application({"create", "filter", "poll"},
                     {"create", "open", "broadcast", "poll"}),
         Application({"receive"}, {"send"}) },
       Limit <- 2, Wavelengths <- 100, MaxChannels <- 11, Delays <- {0, 2}, MaxSends <- 2

-------------------------------------------------------------------------------
Quiet == [net |-> net = Initialized(Mesh(1, 1)), port |-> conf = Unused, cores |-> program = Silent]
Start == /\ Init /\ QueueInit /\ A!Init
         /\ \E one \in DOMAIN Quiet : \A m \in DOMAIN Quiet \ {one} : Quiet[m]
Step == \/ Next /\ UNCHANGED <<queueVars, coreVars>>
        \/ QueueNext /\ UNCHANGED <<vars, coreVars>>
        \/ A!Next /\ UNCHANGED <<vars, queueVars>>
BothSpec == Start /\ [][Step]_<<vars, queueVars, coreVars>>

\* Broadcasts between the cores are neither lost nor doubled: AtacMessages.
MessagesKept == A!MessagesKept
==============================================================================
