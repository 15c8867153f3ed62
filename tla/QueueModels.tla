---------------------------- MODULE QueueModels ----------------------------
(***************************************************************************)
(* The contention of a port: how long a packet that arrives at pkt_time    *)
(* waits before the port serves it for processing_time cycles.  Packets    *)
(* do not arrive in the order of their times, since tiles run apart, so    *)
(* the history models remember the intervals the port is free in.          *)
(*                                                                         *)
(* A port has one queue model; here every port has one of each kind, fed   *)
(* with the same packets, so that what they answer can be compared: the    *)
(* basic model, the history list, and the history tree with room for one   *)
(* interval more than the list, since the tree makes room before a         *)
(* request and the list after it.                                          *)
(*                                                                         *)
(* The output ports of a RouterModel and a DramPerfModel are the users.    *)
(***************************************************************************)
EXTENDS IntervalTree, FiniteSets, FiniteSetsExt, SequencesExt

CONSTANTS
  DramTime,     \* pkt_size / m_dram_bandwidth + 1: lines have one size
  Window,       \* queue_model/basic/moving_avg_window_size
  Forever,      \* UINT64_MAX
  Confs         \* the configurations and bounds: records with
                \*   ports         the output ports of a router, or {Dram}
                \*   type          "basic" or "history"
                \*   size          queue_model/history_list/max_list_size
                \*   analytical    .../analytical_model_enabled
                \*   interleaving  .../interleaving_enabled
                \*   average       queue_model/basic/moving_avg_type, or "none"
                \*   times, flits  bound: when packets arrive, and their lengths
                \*   requests      bound: packets in a behaviour

\* The DRAM's port has a number no output port has.
Dram == -1

VARIABLES
  conf,      \* the configuration of this simulation, from Confs
  port,      \* the queue models of every port
  packets,   \* the router's _total_packets
  enabled,   \* the DRAM model's m_enabled
  calendar,  \* ghost: the cycles that are taken, of every port
  answer,    \* ghost: what the last packet was told, at each of its ports
  requests   \* ghost: how many packets there were

Ports == conf.ports

queueVars == <<conf, port, packets, enabled, calendar, answer, requests>>

\* The shortest interval worth keeping: 1 for a router, the time of a line
\* for the DRAM
min_processing_time(p) == IF p = Dram THEN DramTime ELSE 1

Max2(a, b) == IF a > b THEN a ELSE b

\* The least integer that is at least n / d
CeilDiv(n, d) == (n + d - 1) \div d

------------------------------------------------------------------------------
(* QueueModelMG1: the mean wait of an M/G/1 queue from the sums over the   *)
(* packets so far.  With rates 1/mean service and arrivals/newest time     *)
(* the formula of the code comes down to these two quotients; it is        *)
(* computed in doubles there, exactly here.                                *)

EmptyMG1 == [sigma |-> 0, sigmaSquare |-> 0, arrivals |-> 0, newest |-> 0]

MG1Delay(m) ==
  IF m.arrivals = 0 THEN 0
  ELSE IF m.sigma >= m.newest THEN CeilDiv(999 * m.sigmaSquare, 2 * m.sigma)
  ELSE CeilDiv(m.sigmaSquare, 2 * (m.newest - m.sigma))

updateQueue(m, time, service, wait) ==
  [sigma |-> m.sigma + service, sigmaSquare |-> m.sigmaSquare + service * service,
   arrivals |-> m.arrivals + 1, newest |-> Max2(m.newest, time + wait + service)]

------------------------------------------------------------------------------
(* QueueModel: the counters every kind keeps.                              *)

NoCounters == [utilized |-> 0, last |-> 0, total |-> 0]

updateQueueUtilizationCounters(c, time, service, delay) ==
  [utilized |-> c.utilized + service, last |-> Max2(c.last, time + delay + service),
   total |-> c.total + 1]

------------------------------------------------------------------------------
(* QueueModelBasic: the port serves in the order of the calls.  The time   *)
(* of a packet is replaced by a moving average, when there is one.         *)

EmptyBasic == [queueTime |-> 0, window |-> <<>>, counters |-> NoCounters]

addToWindow(w, n) ==
  IF Len(w) = Window THEN Append(Tail(w), n) ELSE Append(w, n)

\* MovingArithmeticMean and MovingMedian; the median does not sort its window.
RefTime(w, time) ==
  CASE conf.average = "none" -> time
    [] conf.average = "arithmetic_mean" -> FoldSeq(+, 0, w) \div Len(w)
    [] conf.average = "median" -> w[1 + Len(w) \div 2]

\* The port serves from ref on, or when it is done with the others.
ServeInOrder(q, ref, service, delay, w) ==
  <<delay,
    [queueTime |-> ref + delay + service,
     window |-> IF conf.average = "none" THEN <<>> ELSE w,
     counters |-> updateQueueUtilizationCounters(q.counters, ref, service, delay)]>>

BasicAt(q, ref, service, w) == ServeInOrder(q, ref, service, Max2(q.queueTime - ref, 0), w)

BasicDelayWith(q, time, service, w) == BasicAt(q, RefTime(w, time), service, w)

BasicDelay(q, time, service) == BasicDelayWith(q, time, service, addToWindow(q.window, time))

------------------------------------------------------------------------------
(* QueueModelHistoryList                                                   *)

EmptyList == [free |-> <<<<0, Forever>>>>, mg1 |-> EmptyMG1, analytical |-> 0,
              counters |-> NoCounters, err |-> {}]

\* Mutant: a part that is just long enough is dropped.
KeepLonger(first, second, shortest) ==
  IF second - first > shortest THEN <<<<first, second>>>> ELSE <<>>

\* The parts of an interval around what a packet takes, if worth keeping
Keep(first, second, shortest) ==
  IF second - first >= shortest THEN <<<<first, second>>>> ELSE <<>>

\* The walk over the list, from its i-th interval.  With interleaving a
\* packet also takes what does not suffice for it and goes on; the walk sets
\* pkt_time to the end of the interval before it subtracts the part served,
\* so that nothing is subtracted from a packet that began inside.
RECURSIVE Walk(_, _, _, _, _, _)
Walk(free, i, time, service, delay, shortest) ==
  IF i > Len(free) THEN <<delay, free>>
  ELSE
    LET a == free[i][1]
        b == free[i][2]
        With(pieces) == SubSeq(free, 1, i - 1) \o pieces \o SubSeq(free, i + 1, Len(free))
        before == Keep(a, time, shortest)
    IN  IF time >= a /\ time + service <= b
        THEN <<delay, With(before \o Keep(time + service, b, shortest))>>
        ELSE IF time < a /\ a + service <= b
        THEN <<delay + (a - time), With(Keep(a + service, b, shortest))>>
        ELSE IF conf.interleaving /\ time >= a /\ time < b
        THEN Walk(With(before), i + Len(before), b, service, delay, shortest)
        ELSE IF conf.interleaving /\ time < a
        THEN Walk(With(<<>>), i, b, service - (b - a), delay + (a - time), shortest)
        ELSE Walk(free, i + 1, time, service, delay, shortest)

DropFirst(walked) ==
  <<walked[1], IF Len(walked[2]) > conf.size THEN Tail(walked[2]) ELSE walked[2]>>

computeUsingHistoryList(free, time, service, shortest) ==
  DropFirst(Walk(free, 1, time, service, 0, shortest))

\* done is the delay and the list that is left.
ListAfter(q, time, service, old, done) ==
  <<done[1],
    [free |-> done[2],
     mg1 |-> updateQueue(q.mg1, time, service, done[1]),
     analytical |-> q.analytical + (IF old THEN 1 ELSE 0),
     counters |-> updateQueueUtilizationCounters(q.counters, time, service, done[1]),
     err |-> q.err \cup (IF Len(q.free) \in 1 .. conf.size THEN {} ELSE {"list_size"})]>>

ListDelayIf(old, q, time, service, shortest) ==
  ListAfter(q, time, service, old,
            IF old THEN <<MG1Delay(q.mg1), q.free>>
            ELSE computeUsingHistoryList(q.free, time, service, shortest))

ListDelay(q, time, service, shortest) ==
  ListDelayIf(conf.analytical /\ time + service < q.free[1][1], q, time, service, shortest)

------------------------------------------------------------------------------
(* QueueModelHistoryTree: the nodes come from a pool of max_list_size      *)
(* blocks, whose free ones are a stack.                                    *)

TreeSize(size) == size + 1

EmptyTree(size) ==
  [t |-> [node |-> [b \in 0 .. size - 1 |-> IF b = size - 1 THEN Fresh(<<0, Forever>>) ELSE NoNode],
          root |-> size - 1, size |-> 1, err |-> {}],
   blocks |-> [i \in 1 .. size - 1 |-> i - 1],
   mg1 |-> EmptyMG1, analytical |-> 0, counters |-> NoCounters]

\* A block off the stack, and into the tree
AllocateAndInsert(q, interval) ==
  IF q.blocks = <<>> THEN [q EXCEPT !.t = Assert0(q.t, FALSE, "no_block")]
  ELSE LET b == Last(q.blocks)
       IN  [q EXCEPT !.t = insert([q.t EXCEPT !.node[b] = Fresh(interval)], b),
                     !.blocks = Front(@)]

\* Out of the tree, and the block that left it back on the stack
Release(q, done) ==
  [q EXCEPT !.t = Assert0(done[1], Len(q.blocks) < Cardinality(DOMAIN q.t.node), "no_room"),
            !.blocks = Append(@, done[2])]

RemoveAndRelease(q, n) == Release(q, remove(q.t, n))

\* The oldest interval gives way when the pool is used up.
Prune(q) ==
  IF q.t.size >= Cardinality(DOMAIN q.t.node) THEN RemoveAndRelease(q, search(q.t, <<0, 1>>)) ELSE q

\* The interval of node n starts later; its key follows.
StartAt(q, n, time) ==
  [q EXCEPT !.t.node[n].interval[1] = time, !.t.node[n].key = time]

\* The part of node n, whose interval is here, from first to last is taken.
Take(q, n, here, first, last, shortest) ==
  CASE first - here[1] >= shortest ->
         [(IF here[2] - last >= shortest THEN AllocateAndInsert(q, <<last, here[2]>>) ELSE q)
            EXCEPT !.t.node[n].interval[2] = first]
    [] first - here[1] < shortest /\ here[2] - last >= shortest -> StartAt(q, n, last)
    [] OTHER -> RemoveAndRelease(q, n)

\* The counters of a packet that waits for delay
Counted(q, time, service, delay) ==
  [q EXCEPT !.mg1 = updateQueue(@, time, service, delay),
            !.counters = updateQueueUtilizationCounters(@, time, service, delay)]

Analytical(q, time, service, delay) ==
  <<delay, Counted([q EXCEPT !.analytical = @ + 1], time, service, delay)>>

\* The packet is served in the interval of node n, from first on.
ServeIn(q, n, here, time, first, service, shortest) ==
  <<first - time,
    Counted([Take(q, n, here, first, first + service, shortest) EXCEPT
               !.t = Assert0(@, time + service <= here[2], "interval_second")],
            time, service, first - time)>>

computeUsingHistoryTree(q, n, time, service, shortest) ==
  IF n = Null THEN <<0, [q EXCEPT !.t = Assert0(@, FALSE, "node_null")]>>
  ELSE ServeIn(q, n, q.t.node[n].interval, time, Max2(time, q.t.node[n].interval[1]), service, shortest)

\* q has room for one interval more.
DelayWithRoom(q, time, service, shortest) ==
  IF conf.analytical /\ q.t.node[search(q.t, <<0, 1>>)].interval[1] > time + service
  THEN Analytical(q, time, service, MG1Delay(q.mg1))
  ELSE computeUsingHistoryTree(q, search(q.t, <<time, time + service>>), time, service, shortest)

TreeDelay(q, time, service, shortest) == DelayWithRoom(Prune(q), time, service, shortest)

------------------------------------------------------------------------------
(* What a port promises, from the cycles that are taken alone: a packet    *)
(* is served in the first free cycles, at its time or later, that are      *)
(* enough for it; when more runs of free cycles would have to be           *)
(* remembered than there is room for, the first of them is given up.       *)

\* The runs of free cycles, shorter than forever, that are worth keeping
Runs(taken, shortest) ==
  LET end == IF taken = {} THEN 0 ELSE Max(taken) + 1
  IN  {r \in (0 .. end) \X (0 .. end) :
         /\ r[2] - r[1] >= shortest
         /\ r[1] .. (r[2] - 1) \cap taken = {}
         /\ r[1] = 0 \/ r[1] - 1 \in taken
         /\ r[2] \in taken}

FirstFit(taken, time, service) ==
  CHOOSE s \in time .. (Max(taken \cup {time}) + 1) :
    /\ s .. (s + service - 1) \cap taken = {}
    /\ \A u \in time .. (s - 1) : u .. (u + service - 1) \cap taken # {}

\* A port that keeps n runs, the one without end included
GiveUp(taken, n, shortest) ==
  LET runs == Runs(taken, shortest)
      first == CHOOSE r \in runs : \A s \in runs : r[1] <= s[1]
  IN  IF Cardinality(runs) + 1 <= n THEN taken
      ELSE IF runs = {} THEN taken ELSE taken \cup 0 .. (first[2] - 1)

\* The first cycle the port still knows to be free
Oldest(taken, shortest) ==
  LET runs == Runs(taken, shortest)
  IN  IF taken = {} THEN 0 ELSE Min({r[1] : r \in runs} \cup {Max(taken) + 1})

------------------------------------------------------------------------------
(* computeQueueDelay of port p's models, and of the calendar c *)
InOrder(basic, p, c, time, service) ==
  [port |-> [port[p] EXCEPT !.basic = basic[2]],
   calendar |-> [c EXCEPT !.end = Max2(@, time) + service],
   answer |-> [basic |-> basic[1], inOrder |-> Max2(c.end, time) - time]]

\* old: the packet is older than what the port remembers; start: its first cycle
InHistory(list, tree, p, c, time, service, old, start) ==
  [port |-> [port[p] EXCEPT !.list = list[2], !.tree = tree[2]],
   calendar |->
     [c EXCEPT
        !.taken = IF old THEN @
                  ELSE GiveUp(@ \cup start .. (start + service - 1), conf.size, min_processing_time(p)),
        !.analytical = @ + (IF old THEN 1 ELSE 0)],
   answer |-> [list |-> list[1], tree |-> tree[1],
               firstFit |-> IF old THEN MG1Delay(port[p].tree.mg1) ELSE start - time]]

Request(p, time, service) ==
  IF conf.type = "basic"
  THEN InOrder(BasicDelay(port[p].basic, time, service), p, calendar[p], time, service)
  ELSE InHistory(ListDelay(port[p].list, time, service, min_processing_time(p)),
                 TreeDelay(port[p].tree, time, service, min_processing_time(p)),
                 p, calendar[p], time, service,
                 conf.analytical /\ time + service < Oldest(calendar[p].taken, min_processing_time(p)),
                 FirstFit(calendar[p].taken, time, service))

Answered(r) ==
  /\ port' = [p \in Ports |-> IF p \in DOMAIN r THEN r[p].port ELSE port[p]]
  /\ calendar' = [p \in Ports |-> IF p \in DOMAIN r THEN r[p].calendar ELSE calendar[p]]
  /\ answer' = [p \in DOMAIN r |-> r[p].answer]
  /\ requests' = requests + 1

\* RouterModel::processPacket: every output port of the packet, or all of them
\* for OUTPUT_PORT_ALL.  The contention delay is the greatest of the answers.
processPacket(ports, time, num_flits) ==
  /\ requests < conf.requests
  /\ Answered([p \in ports |-> Request(p, time, num_flits)])
  /\ packets' = [p \in Ports |-> packets[p] + (IF p \in ports THEN 1 ELSE 0)]
  /\ UNCHANGED <<conf, enabled>>

\* getPercentAnalyticalModelsUsed expects that the router has counted the
\* packets its ports' models have counted.
CountsAgree(p) ==
  \A q \in IF conf.type = "basic" THEN {port[p].basic.counters}
           ELSE {port[p].list.counters, port[p].tree.counters} : q.total = packets[p]

\* DramPerfModel::getAccessLatency
getAccessLatency(time) ==
  /\ requests < conf.requests
  /\ enabled
  /\ Answered([p \in {Dram} |-> Request(p, time, DramTime)])
  /\ UNCHANGED <<conf, enabled, packets>>

enable == enabled' = TRUE /\ UNCHANGED <<conf, port, packets, calendar, answer, requests>>
disable == enabled' = FALSE /\ UNCHANGED <<conf, port, packets, calendar, answer, requests>>

QueueInit ==
  /\ conf \in Confs
  /\ port = [p \in Ports |-> [basic |-> EmptyBasic, list |-> EmptyList,
                              tree |-> EmptyTree(TreeSize(conf.size))]]
  /\ packets = [p \in Ports |-> 0]
  /\ enabled = FALSE
  /\ calendar = [p \in Ports |-> [taken |-> {}, analytical |-> 0, end |-> 0]]
  /\ answer = <<>>
  /\ requests = 0

QueueNext ==
  \/ /\ Dram \notin Ports
     /\ \E ports \in {{p} : p \in Ports} \cup {Ports}, time \in conf.times, n \in conf.flits :
          processPacket(ports, time, n)
  \/ /\ Dram \in Ports
     /\ (\E time \in conf.times : getAccessLatency(time)) \/ enable \/ disable

QueueSpec == QueueInit /\ [][QueueNext]_queueVars

------------------------------------------------------------------------------
\* No assertion of the queue models and of the interval tree fails: the pool
\* never runs out of blocks, the list never outgrows its bound, a rotation
\* balances, no two intervals start together, and the router has counted as
\* many packets as its ports (queue_model_history_*.cc, interval_tree.cc,
\* RouterModel::getPercentAnalyticalModelsUsed).
NoQueueAsserts ==
  /\ \A p \in Ports : port[p].list.err = {} /\ port[p].tree.t.err = {}
  /\ \A p \in Ports \ {Dram} : CountsAgree(p)

\* The tree stays an AVL tree of disjoint intervals, and the blocks that are
\* not in it are exactly those on the stack, each once, whatever the order of
\* inserts, in-place moves of a key and removals (removeFromTree returns the
\* successor's block, not the one it was asked to remove).
TreeIsSound ==
  \A p \in Ports :
    LET q == port[p].tree
    IN  /\ SoundTree(q.t)
        /\ Below(q.t, q.t.root) \cap ToSet(q.blocks) = {}
        /\ Len(q.blocks) = Cardinality(ToSet(q.blocks))
        /\ Len(q.blocks) + q.t.size = Cardinality(DOMAIN q.t.node)

\* A port is never busy for longer than it has run, so that the utilization
\* (getQueueUtilization) is at most one: packets take different cycles, also
\* when a moving average takes the place of their times.  A packet that got the
\* delay of the M/G/1 formula may take the cycles of others.
WithinTime ==
  \A p \in Ports :
    LET used == IF conf.type = "basic" THEN {port[p].basic.counters}
                ELSE {q.counters : q \in {port[p].list, port[p].tree}}
    IN  calendar[p].analytical = 0 => \A c \in used : c.utilized <= c.last

\* The delay is that of the first free cycles that are enough, however late a
\* packet with an early time is asked about: the history tree and the history
\* list (without interleaving) answer the same, and answer what the cycles
\* taken so far allow; both turn to the M/G/1 formula for the same packets.
\* Without an average the basic model serves in the order of the calls.
\* No assertion fails, the tree keeps its shape and no port is overused.
DelaysAreFirstFit ==
  /\ NoQueueAsserts /\ TreeIsSound /\ WithinTime
  /\ \A p \in DOMAIN answer :
       IF conf.type = "basic"
       THEN conf.average = "none" => answer[p].basic = answer[p].inOrder
       ELSE /\ answer[p].tree = answer[p].firstFit
            /\ ~conf.interleaving => answer[p].list = answer[p].firstFit
  /\ \A p \in Ports :
       /\ port[p].tree.analytical = calendar[p].analytical
       /\ ~conf.interleaving =>
            /\ port[p].list.analytical = calendar[p].analytical
            /\ port[p].list.free = inOrderTraversal(Prune(port[p].tree).t)
=============================================================================
