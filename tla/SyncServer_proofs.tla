------------------------- MODULE SyncServer_proofs -------------------------
(***************************************************************************)
(* The synchronization server for any set of cores, any number of mutexes, *)
(* conditions and barriers, and any counts.                                *)
(***************************************************************************)
EXTENDS SyncServer, FiniteSetTheorems, SequenceTheorems, TLAPS

-----------------------------------------------------------------------------
(* The inductive invariant *)

\* The cores of the waiters of a condition.
CoresOf(w) == [k \in DOMAIN w |-> w[k].core]

\* The cores that wait for each mutex, condition and barrier.
MuxQueue(m) == Range(mutexes[m].waiting)
CondQueue(i) == Range(CoresOf(conds[i]))
BarrierQueue(i) == Range(barriers[i].waiting)

\* No core is twice in a queue.
NoTwice(s) == \A j, k \in DOMAIN s : s[j] = s[k] => j = k

\* A client that waits in a queue: nothing is under way for it.
Blocked(c) == /\ call[c] # None /\ pkt[c] = None /\ reply[c] = <<>>
              /\ status[c] = "STALLED"

\* What a request names exists, and its sender has given up or has not yet
\* what it is about.
Names(r, mine) ==
  /\ r.op \in {"mutexLock", "mutexUnlock"} =>
       r.obj \in DOMAIN mutexes /\ r.obj \notin mine
  /\ r.op = "condWait" =>
       r.obj \in DOMAIN conds /\ r.mux \in DOMAIN mutexes /\ r.mux \notin mine
  /\ r.op \in {"condSignal", "condBroadcast"} => r.obj \in DOMAIN conds
  /\ r.op = "barrierWait" => r.obj \in DOMAIN barriers
  /\ r.op = "barrierInit" => r.obj # 0
IdsExist ==
  \A c \in Cores : /\ holds[c] \subseteq DOMAIN mutexes
                   /\ call[c] # None => Names(call[c], holds[c])

\* The message under way for a client is the one its call makes it wait for.
MessagesMatch ==
  \A c \in Cores :
    /\ call[c] = None => pkt[c] = None /\ reply[c] = <<>> /\ status[c] = "RUNNING"
    /\ pkt[c] # None => reply[c] = <<>> /\ status[c] = "RUNNING"
    /\ reply[c] # <<>> => /\ Len(reply[c]) = 1 /\ status[c] = "RUNNING"
                          /\ reply[c][1].code = Expected(call[c].op)
    /\ call[c] # None /\ pkt[c] = None /\ reply[c] = <<>> => status[c] = "STALLED"

\* The queues of the mutexes; a mutex that nobody has is not waited for.
MuxQueues ==
  \A m \in DOMAIN mutexes :
    /\ mutexes[m].owner = None => mutexes[m].waiting = <<>>
    /\ NoTwice(mutexes[m].waiting)
    /\ \A c \in MuxQueue(m) : Blocked(c) /\ m \in Gains(call[c])

\* The queues of the conditions: who waits there does not wait for the mutex.
CondQueues ==
  \A i \in DOMAIN conds :
    /\ NoTwice(CoresOf(conds[i]))
    /\ \A c \in CondQueue(i) :
         /\ Blocked(c) /\ call[c].op = "condWait" /\ call[c].obj = i
         /\ c \notin MuxQueue(call[c].mux)
    /\ \A k \in DOMAIN conds[i] : conds[i][k].mux = call[conds[i][k].core].mux

\* The mutex that clients wait with on a condition is one.
OneMux ==
  \A c, d \in Cores :
    (/\ call[c] # None /\ call[c].op = "condWait"
     /\ call[d] # None /\ call[d].op = "condWait" /\ call[c].obj = call[d].obj)
    => call[c].mux = call[d].mux

\* The queues of the barriers, and the time of the latest to arrive.
BarrierQueues ==
  \A i \in DOMAIN barriers :
    LET b == barriers[i] IN
    /\ Len(b.waiting) < b.count
    /\ NoTwice(b.waiting)
    /\ \A c \in BarrierQueue(i) :
         /\ Blocked(c) /\ call[c].op = "barrierWait" /\ call[c].obj = i
         /\ call[c].time <= b.max_time
    /\ b.waiting # <<>> => \E c \in BarrierQueue(i) : call[c].time = b.max_time

\* A thread is stalled because it waits in a queue.
StalledWaits ==
  \A c \in Cores : status[c] = "STALLED" =>
    \/ \E m \in DOMAIN mutexes : c \in MuxQueue(m)
    \/ \E i \in DOMAIN conds : c \in CondQueue(i)
    \/ \E i \in DOMAIN barriers : c \in BarrierQueue(i)

\* A client that is blocked has sent the time it has.
TimesAgree ==
  \A c \in Cores : call[c] # None => call[c].time = ToGlobal(c, clk[c])

SyncInv ==
  /\ TypeOK /\ NoAssertionFails /\ IdsExist /\ MessagesMatch
  /\ MuxQueues /\ CondQueues /\ OneMux /\ BarrierQueues /\ StalledWaits
  /\ TimesAgree /\ MutualExclusion

-----------------------------------------------------------------------------
(* Sequences *)

\* Nobody is in an empty queue.
LEMMA EmptyQueue ==
  /\ Range(<<>>) = {} /\ NoTwice(<<>>)
  /\ \A x : Range(<<x>>) = {x} /\ NoTwice(<<x>>)
BY DEF Range, NoTwice

\* What push and push_back leave in a queue.
LEMMA AppendQueue ==
  ASSUME NEW S, NEW s \in Seq(S), NEW x \in S
  PROVE  /\ Append(s, x) \in Seq(S)
         /\ Append(s, x) # <<>>
         /\ Len(Append(s, x)) = Len(s) + 1
         /\ Range(Append(s, x)) = Range(s) \cup {x}
         /\ NoTwice(s) /\ x \notin Range(s) => NoTwice(Append(s, x))
<1>1. /\ Append(s, x) \in Seq(S) /\ Len(Append(s, x)) = Len(s) + 1
      /\ DOMAIN Append(s, x) = 1..(Len(s) + 1) /\ DOMAIN s = 1..Len(s)
      /\ Append(s, x)[Len(s) + 1] = x
      /\ \A k \in 1..Len(s) : Append(s, x)[k] = s[k]
      /\ Len(s) \in Nat
  OBVIOUS
<1>2. Range(Append(s, x)) = Range(s) \cup {x}
  BY <1>1, SMT DEF Range
<1>3. NoTwice(s) /\ x \notin Range(s) => NoTwice(Append(s, x))
  BY <1>1, SMT DEF Range, NoTwice
<1>4. Append(s, x) # <<>>
  BY <1>1
<1>5. QED
  BY <1>1, <1>2, <1>3, <1>4

\* What pop leaves.
LEMMA TailQueue ==
  ASSUME NEW S, NEW s \in Seq(S), s # <<>>
  PROVE  /\ Head(s) \in S /\ Head(s) \in Range(s)
         /\ Tail(s) \in Seq(S)
         /\ Range(s) = Range(Tail(s)) \cup {Head(s)}
         /\ NoTwice(s) => NoTwice(Tail(s)) /\ Head(s) \notin Range(Tail(s))
<1>1. /\ Tail(s) \in Seq(S) /\ Len(s) \in Nat \ {0} /\ Len(Tail(s)) = Len(s) - 1
      /\ DOMAIN s = 1..Len(s) /\ DOMAIN Tail(s) = 1..(Len(s) - 1)
      /\ \A k \in 1..(Len(s) - 1) : Tail(s)[k] = s[k + 1]
      /\ Head(s) = s[1] /\ Head(s) \in S
  BY EmptySeq, HeadTailProperties, LenProperties
<1>2. Range(s) = Range(Tail(s)) \cup {Head(s)}
  <2>1. \A k \in 1..Len(s) : k = 1 \/ k - 1 \in 1..(Len(s) - 1)
    BY <1>1
  <2>2. \A k \in 1..(Len(s) - 1) : k + 1 \in 1..Len(s)
    BY <1>1
  <2>3. \A k \in 1..Len(s) : k # 1 => Tail(s)[k - 1] = s[k]
    BY <1>1, <2>1
  <2>4. ASSUME NEW y \in Range(s) PROVE y \in Range(Tail(s)) \cup {Head(s)}
    <3>1. PICK k \in 1..Len(s) : y = s[k]
      BY <1>1 DEF Range
    <3>2. CASE k = 1
      BY <1>1, <3>1, <3>2
    <3>3. CASE k # 1
      <4>1. k - 1 \in DOMAIN Tail(s) /\ Tail(s)[k - 1] = y
        BY <1>1, <2>1, <2>3, <3>1, <3>3
      <4>2. QED
        BY <4>1 DEF Range
    <3>4. QED
      BY <3>2, <3>3
  <2>5. ASSUME NEW y \in Range(Tail(s)) PROVE y \in Range(s)
    BY <1>1, <2>2 DEF Range
  <2>6. Head(s) \in Range(s)
    BY <1>1 DEF Range
  <2>7. QED
    BY <2>4, <2>5, <2>6
<1>3. NoTwice(s) => NoTwice(Tail(s))
  BY <1>1, SMT DEF NoTwice
<1>4. NoTwice(s) => Head(s) \notin Range(Tail(s))
  BY <1>1, SMT DEF NoTwice, Range
<1>5. QED
  BY <1>1, <1>2, <1>3, <1>4

\* The cores that are queued behind others.
LEMMA ConcatQueue ==
  ASSUME NEW S, NEW s \in Seq(S), NEW t \in Seq(S)
  PROVE  /\ s \o t \in Seq(S)
         /\ Range(s \o t) = Range(s) \cup Range(t)
         /\ NoTwice(s) /\ NoTwice(t) /\ Range(s) \cap Range(t) = {} => NoTwice(s \o t)
<1> DEFINE u == s \o t
<1>1. /\ u \in Seq(S) /\ Len(s) \in Nat /\ Len(t) \in Nat
      /\ DOMAIN u = 1..(Len(s) + Len(t)) /\ DOMAIN s = 1..Len(s) /\ DOMAIN t = 1..Len(t)
      /\ \A k \in 1..Len(s) : u[k] = s[k] /\ k \in 1..(Len(s) + Len(t))
      /\ \A k \in 1..Len(t) : u[Len(s) + k] = t[k] /\ Len(s) + k \in 1..(Len(s) + Len(t))
      /\ \A k \in 1..(Len(s) + Len(t)) :
           k \in 1..Len(s) \/ (k - Len(s) \in 1..Len(t) /\ u[k] = t[k - Len(s)])
  BY ConcatProperties, LenProperties
<1> HIDE DEF u
<1>2. Range(u) = Range(s) \cup Range(t)
  <2>1. ASSUME NEW y \in Range(u) PROVE y \in Range(s) \cup Range(t)
    <3>1. PICK k \in 1..(Len(s) + Len(t)) : y = u[k]
      BY <1>1 DEF Range
    <3>2. CASE k \in 1..Len(s)
      BY <1>1, <3>1, <3>2 DEF Range
    <3>3. CASE k - Len(s) \in 1..Len(t) /\ u[k] = t[k - Len(s)]
      BY <1>1, <3>1, <3>3 DEF Range
    <3>4. QED
      BY <1>1, <3>2, <3>3
  <2>2. ASSUME NEW y \in Range(s) PROVE y \in Range(u)
    <3>1. PICK k \in 1..Len(s) : y = s[k]
      BY <1>1 DEF Range
    <3>2. u[k] = y /\ k \in DOMAIN u
      BY <1>1, <3>1
    <3>3. QED
      BY <3>2 DEF Range
  <2>3. ASSUME NEW y \in Range(t) PROVE y \in Range(u)
    <3>1. PICK k \in 1..Len(t) : y = t[k]
      BY <1>1 DEF Range
    <3>2. u[Len(s) + k] = y /\ Len(s) + k \in DOMAIN u
      BY <1>1, <3>1
    <3>3. QED
      BY <3>2 DEF Range
  <2>4. QED
    BY <2>1, <2>2, <2>3
<1>3. ASSUME NoTwice(s), NoTwice(t), Range(s) \cap Range(t) = {} PROVE NoTwice(u)
  <2>1. \A j \in DOMAIN s, k \in DOMAIN t : s[j] # t[k]
    BY <1>3 DEF Range
  <2>2. SUFFICES ASSUME NEW j \in 1..(Len(s) + Len(t)), NEW k \in 1..(Len(s) + Len(t)),
                        u[j] = u[k]
                 PROVE  j = k
    BY <1>1 DEF NoTwice
  <2>3. \/ j \in 1..Len(s) /\ u[j] = s[j]
        \/ j - Len(s) \in 1..Len(t) /\ u[j] = t[j - Len(s)]
    BY <1>1
  <2>4. \/ k \in 1..Len(s) /\ u[k] = s[k]
        \/ k - Len(s) \in 1..Len(t) /\ u[k] = t[k - Len(s)]
    BY <1>1
  <2>5. CASE j \in 1..Len(s) /\ k \in 1..Len(s)
    BY <1>1, <1>3, <2>2, <2>5 DEF NoTwice
  <2>6. CASE j - Len(s) \in 1..Len(t) /\ k - Len(s) \in 1..Len(t)
    <3>1. t[j - Len(s)] = t[k - Len(s)]
      BY <1>1, <2>2, <2>3, <2>4, <2>6
    <3>2. j - Len(s) = k - Len(s)
      BY <1>1, <1>3, <2>6, <3>1 DEF NoTwice
    <3>3. QED
      BY <3>2, <1>1
  <2>7. QED
    BY <1>1, <2>1, <2>2, <2>3, <2>4, <2>5, <2>6
<1>4. QED
  BY <1>1, <1>2, <1>3 DEF u

-----------------------------------------------------------------------------
(* Clocks *)

\* convertCycleCount rounds up to a natural number.
LEMMA RoundsUp ==
  ASSUME NEW n \in Nat, NEW f \in Nat \ {0}, NEW t \in Nat \ {0}
  PROVE  /\ convertCycleCount(n, f, t) \in Nat
         /\ convertCycleCount(n, f, t) * f >= n * t
         /\ convertCycleCount(n, f, t) * f <= n * t + f - 1
<1> DEFINE a == n * t + f - 1
           q == a \div f
<1>1. n * t \in Nat
  OBVIOUS
<1>2. a \in Nat
  BY <1>1
<1> HIDE DEF a
<1>3. q \in Int /\ a = q * f + (a % f) /\ a % f \in 0..(f - 1)
  BY <1>2
<1>4. q >= 0
  BY <1>2
<1>5. q * f \in Int
  BY <1>3
<1> HIDE DEF q
<1>6. q * f <= a /\ q * f >= a - f + 1
  BY <1>2, <1>3, <1>5
<1>7. convertCycleCount(n, f, t) = q
  BY DEF convertCycleCount, a, q
<1>8. QED
  BY <1>1, <1>3, <1>4, <1>5, <1>6, <1>7 DEF a

\* The clock that a client moves on to is not behind the time it is given:
\* the roundings to core cycles and back never lose a cycle.
LEMMA CatchesUp ==
  ASSUME NEW c \in Cores, NEW k \in Nat, NEW v \in Nat, v > ToGlobal(c, k)
  PROVE  /\ ToCore(c, v - ToGlobal(c, k)) \in Nat
         /\ ToGlobal(c, k + ToCore(c, v - ToGlobal(c, k))) >= v
<1> DEFINE f == Freq[c]
           u == Unit
           t == ToGlobal(c, k)
           d == v - t
           e == ToCore(c, d)
           w == ToGlobal(c, k + e)
<1>1. f \in Nat \ {0} /\ u \in Nat \ {0}
  BY ClockAssumption
<1>2. t \in Nat /\ t * f <= k * u + f - 1
  BY <1>1, RoundsUp DEF ToGlobal
<1>3. d \in Nat
  BY <1>2
<1> HIDE DEF d
<1>4. e \in Nat /\ e * u >= d * f
  BY <1>1, <1>3, RoundsUp DEF ToCore
<1> HIDE DEF e
<1>5. w \in Nat /\ w * f >= (k + e) * u
  <2>1. k + e \in Nat
    BY <1>4
  <2>2. QED
    BY <1>1, <2>1, RoundsUp DEF ToGlobal
<1> HIDE DEF w, t, f, u
<1>6. (k + e) * u = k * u + e * u
  BY <1>1, <1>4
<1>7. v * f = t * f + d * f
  <2>1. v = t + d
    BY <1>2 DEF d
  <2>2. (t + d) * f = t * f + d * f
    BY <1>1, <1>2, <1>3
  <2>3. QED
    BY <2>1, <2>2
<1>8. w * f > v * f - f
  <2>1. k * u \in Int /\ e * u \in Int /\ t * f \in Int /\ d * f \in Int
        /\ w * f \in Int /\ v * f \in Int /\ f \in Int
    BY <1>1, <1>2, <1>3, <1>4, <1>5
  <2>2. QED
    BY <2>1, <1>2, <1>4, <1>5, <1>6, <1>7
<1>9. w >= v
  <2>1. SUFFICES ASSUME w <= v - 1 PROVE FALSE
    BY <1>5
  <2>2. w * f <= (v - 1) * f
    BY <1>1, <1>5, <2>1
  <2>3. (v - 1) * f = v * f - f
    BY <1>1
  <2>4. QED
    BY <1>1, <1>5, <1>8, <2>2, <2>3
<1>10. QED
  BY <1>4, <1>9 DEF w, e, d, t

-----------------------------------------------------------------------------
(* The waiters of a condition *)

\* The cores of a queue of waiters are a queue of cores.
LEMMA CoresOfSeq ==
  ASSUME NEW w \in Seq(CondWaiter)
  PROVE  /\ CoresOf(w) \in Seq(Cores)
         /\ Len(CoresOf(w)) = Len(w)
         /\ DOMAIN CoresOf(w) = DOMAIN w
         /\ CoresOf(w) = <<>> <=> w = <<>>
<1>1. DOMAIN w = 1..Len(w) /\ Len(w) \in Nat /\ \A k \in 1..Len(w) : w[k] \in CondWaiter
  BY LenProperties
<1>2. \A k \in 1..Len(w) : w[k].core \in Cores
  BY <1>1 DEF CondWaiter
<1>3. CoresOf(w) = [k \in 1..Len(w) |-> w[k].core]
  BY <1>1 DEF CoresOf
<1>4. CoresOf(w) \in Seq(Cores) /\ Len(CoresOf(w)) = Len(w)
  BY <1>1, <1>2, <1>3
<1>5. QED
  BY <1>1, <1>3, <1>4, EmptySeq

\* When all of the woken waiters wait with mutex m, they lock it in the order
\* of the queue.
LEMMA CoresOnAll ==
  ASSUME NEW w \in Seq(CondWaiter), NEW m, \A k \in DOMAIN w : w[k].mux = m
  PROVE  CoresOn(w, m) = CoresOf(w)
<1> DEFINE mine == {i \in DOMAIN w : w[i].mux = m}
           nth(k) == CHOOSE i \in mine : Cardinality({j \in mine : j < i}) = k - 1
<1>1. DOMAIN w = 1..Len(w) /\ Len(w) \in Nat
  BY LenProperties
<1>2. mine = 1..Len(w)
  BY <1>1
<1> HIDE DEF mine
<1>3. Cardinality(mine) = Len(w)
  BY <1>1, <1>2, FS_Interval
<1>4. ASSUME NEW i \in mine PROVE Cardinality({j \in mine : j < i}) = i - 1
  <2>1. {j \in mine : j < i} = 1..(i - 1)
    BY <1>1, <1>2
  <2>2. i - 1 \in Nat
    BY <1>1, <1>2
  <2>3. Cardinality(1..(i - 1)) = i - 1
    BY <2>2, FS_Interval
  <2>4. QED
    BY <2>1, <2>3
<1>5. ASSUME NEW k \in 1..Len(w) PROVE nth(k) = k
  <2>1. \A i \in mine : Cardinality({j \in mine : j < i}) = k - 1 <=> i = k
    BY <1>1, <1>2, <1>4
  <2>2. k \in mine
    BY <1>2
  <2>3. QED
    BY <2>1, <2>2
<1> HIDE DEF nth
<1>6. CoresOn(w, m) = [k \in 1..Cardinality(mine) |-> w[nth(k)].core]
  BY DEF CoresOn, mine, nth
<1>7. QED
  BY <1>1, <1>3, <1>5, <1>6 DEF CoresOf

\* No core locks a mutex that no woken waiter waits with.
LEMMA CoresOnNone ==
  ASSUME NEW w \in Seq(CondWaiter), NEW m, \A k \in DOMAIN w : w[k].mux # m
  PROVE  CoresOn(w, m) = <<>>
<1> DEFINE mine == {i \in DOMAIN w : w[i].mux = m}
           nth(k) == CHOOSE i \in mine : Cardinality({j \in mine : j < i}) = k - 1
<1>1. mine = {}
  OBVIOUS
<1>2. Cardinality(mine) = 0
  BY <1>1, FS_EmptySet
<1> HIDE DEF mine, nth
<1>3. CoresOn(w, m) = [k \in 1..Cardinality(mine) |-> w[nth(k)].core]
  BY DEF CoresOn, mine, nth
<1>4. 1..Cardinality(mine) = {}
  BY <1>2
<1>5. QED
  BY <1>3, <1>4

-----------------------------------------------------------------------------
(* Steps that leave the queues of a kind alone *)

\* Queues hold cores.
LEMMA QueuesHoldCores ==
  ASSUME TypeOK
  PROVE  /\ \A m \in DOMAIN mutexes :
              mutexes[m] \in SimMutex /\ MuxQueue(m) \subseteq Cores
         /\ \A i \in DOMAIN conds :
              conds[i] \in Seq(CondWaiter) /\ CondQueue(i) \subseteq Cores
         /\ \A i \in DOMAIN barriers :
              barriers[i] \in SimBarrier /\ BarrierQueue(i) \subseteq Cores
<1>1. \A s \in Seq(Cores) : Range(s) \subseteq Cores
  BY LenProperties DEF Range
<1>2. \A m \in DOMAIN mutexes : mutexes[m] \in SimMutex
  BY DEF TypeOK
<1>3. \A i \in DOMAIN conds : conds[i] \in Seq(CondWaiter)
  BY DEF TypeOK
<1>4. \A i \in DOMAIN barriers : barriers[i] \in SimBarrier
  BY DEF TypeOK
<1>5. \A i \in DOMAIN conds : CoresOf(conds[i]) \in Seq(Cores)
  BY <1>3, CoresOfSeq
<1>6. QED
  BY <1>1, <1>2, <1>3, <1>4, <1>5
  DEF SimMutex, SimBarrier, MuxQueue, CondQueue, BarrierQueue

\* Mutexes nobody touches.
LEMMA MuxFrame ==
  ASSUME SyncInv, mutexes' = mutexes,
         \A m \in DOMAIN mutexes : \A d \in MuxQueue(m) :
           Blocked(d)' /\ call'[d] = call[d]
  PROVE  MuxQueues'
<1>1. \A m : MuxQueue(m)' = MuxQueue(m)
  BY DEF MuxQueue
<1>2. QED
  BY <1>1 DEF SyncInv, MuxQueues

\* Conditions nobody touches.
LEMMA CondFrame ==
  ASSUME SyncInv, conds' = conds,
         \A i \in DOMAIN conds : \A d \in CondQueue(i) :
           Blocked(d)' /\ call'[d] = call[d] /\ d \notin MuxQueue(call[d].mux)'
  PROVE  CondQueues'
<1>1. \A i : CondQueue(i)' = CondQueue(i)
  BY DEF CondQueue
<1>2. \A i \in DOMAIN conds : \A k \in DOMAIN conds[i] : conds[i][k].core \in CondQueue(i)
  BY QueuesHoldCores, CoresOfSeq DEF SyncInv, CondQueue, Range, CoresOf
<1>3. QED
  BY <1>1, <1>2 DEF SyncInv, CondQueues

\* Barriers nobody touches.
LEMMA BarrierFrame ==
  ASSUME SyncInv, barriers' = barriers,
         \A i \in DOMAIN barriers : \A d \in BarrierQueue(i) :
           Blocked(d)' /\ call'[d] = call[d]
  PROVE  BarrierQueues'
<1>1. \A i : BarrierQueue(i)' = BarrierQueue(i)
  BY DEF BarrierQueue
<1>2. QED
  BY <1>1 DEF SyncInv, BarrierQueues

-----------------------------------------------------------------------------
(* The clients *)

\* What a client asks for is a request about what exists.
LEMMA CallsAreRequests ==
  ASSUME SyncInv, NEW c \in Cores, NEW r \in Calls(c)
  PROVE  /\ r \in Request
         /\ r.time = ToGlobal(c, clk[c])
         /\ r.op = "mutexLock" => r.obj \in DOMAIN mutexes /\ r.obj \notin holds[c]
         /\ r.op = "mutexUnlock" => r.obj \in holds[c]
         /\ r.op = "condWait" => /\ r.obj \in DOMAIN conds /\ r.mux \in holds[c]
                                 /\ MuxOf(r.obj) \subseteq {r.mux}
         /\ r.op \in {"condSignal", "condBroadcast"} => r.obj \in DOMAIN conds
         /\ r.op = "barrierWait" => r.obj \in DOMAIN barriers
         /\ r.op = "barrierInit" => r.obj # 0
<1>1. ToGlobal(c, clk[c]) \in Nat
  <2>1. clk[c] \in Nat /\ Freq[c] \in Nat \ {0} /\ Unit \in Nat \ {0}
    BY ClockAssumption DEF SyncInv, TypeOK
  <2>2. QED
    BY <2>1, RoundsUp DEF ToGlobal
<1>2. /\ DOMAIN mutexes = 1..Len(mutexes) /\ DOMAIN conds = 1..Len(conds)
      /\ DOMAIN barriers = 1..Len(barriers)
      /\ Len(mutexes) \in Nat /\ Len(conds) \in Nat /\ Len(barriers) \in Nat
  BY LenProperties DEF SyncInv, TypeOK
<1>3. holds[c] \subseteq 1..Len(mutexes)
  BY <1>2 DEF SyncInv, IdsExist
<1>4. r.op = "condWait" => MuxOf(r.obj) \subseteq {r.mux}
  BY DEF Calls
<1>5. CASE r \in AsksMutexInit(c) \cup AsksCondInit(c)
  BY <1>1, <1>4, <1>5 DEF AsksMutexInit, AsksCondInit, Asks, Req, Request, AllOps, Time
<1>6. CASE r \in AsksBarrierInit(c)
  BY <1>1, <1>4, <1>6, SyncAssumption
  DEF AsksBarrierInit, Asks, Req, Request, AllOps, Time
<1>7. CASE r \in AsksLock(c)
  BY <1>1, <1>2, <1>4, <1>7 DEF AsksLock, GivenIds, Asks, Req, Request, AllOps, Time
<1>8. CASE r \in AsksUnlock(c)
  BY <1>1, <1>2, <1>3, <1>4, <1>8 DEF AsksUnlock, Asks, Req, Request, AllOps, Time
<1>9. CASE r \in AsksCond(c)
  BY <1>1, <1>2, <1>3, <1>4, <1>9 DEF AsksCond, GivenIds, Asks, Req, Request, AllOps, Time
<1>10. CASE r \in AsksBarrier(c)
  BY <1>1, <1>2, <1>4, <1>10 DEF AsksBarrier, GivenIds, Asks, Req, Request, AllOps, Time
<1>11. QED
  BY <1>5, <1>6, <1>7, <1>8, <1>9, <1>10 DEF Calls

\* A request keeps the claim on the mutex it gives up, and its sender is in no
\* queue yet.
LEMMA SendStep ==
  ASSUME SyncInv, NEW c \in Cores, Call(c)
  PROVE  SyncInv'
<1>1. PICK r \in Calls(c) :
        /\ call' = [call EXCEPT ![c] = r]
        /\ pkt' = [pkt EXCEPT ![c] = r]
        /\ holds' = [holds EXCEPT ![c] =
             CASE r.op = "mutexUnlock" -> @ \ {r.obj}
               [] r.op = "condWait" -> @ \ {r.mux}
               [] OTHER -> @]
  BY DEF Call, Send
<1>2. /\ call[c] = None
      /\ UNCHANGED <<clk, reply, status, mutexes, conds, barriers, err>>
  BY DEF Call, Send, serverVars
<1>3. r \in Request /\ r # None
  BY CallsAreRequests, SyncAssumption
<1>4. /\ call' \in [Cores -> Request \cup {None}] /\ pkt' \in [Cores -> Request \cup {None}]
      /\ call'[c] = r /\ pkt'[c] = r
      /\ \A d \in Cores : d # c => /\ call'[d] = call[d] /\ pkt'[d] = pkt[d]
                                   /\ holds'[d] = holds[d]
      /\ holds' \in [Cores -> SUBSET Nat] /\ holds'[c] \subseteq holds[c]
      /\ r.op = "mutexUnlock" => holds'[c] = holds[c] \ {r.obj}
      /\ r.op = "condWait" => holds'[c] = holds[c] \ {r.mux}
      /\ r.op \notin {"mutexUnlock", "condWait"} => holds'[c] = holds[c]
  BY <1>1, <1>3 DEF SyncInv, TypeOK
<1>5. TypeOK'
  BY <1>2, <1>4 DEF SyncInv, TypeOK
<1>6. NoAssertionFails'
  BY <1>2 DEF SyncInv, NoAssertionFails
<1>7. IdsExist'
  <2>1. Names(r, holds[c])'
    BY <1>1, <1>2, <1>3, <1>4, CallsAreRequests DEF Names, SyncInv, IdsExist
  <2>2. QED
    BY <1>2, <1>4, <2>1 DEF Names, SyncInv, IdsExist
<1>8. MessagesMatch'
  BY <1>2, <1>3, <1>4 DEF SyncInv, MessagesMatch
<1>9. \A d \in Cores : Blocked(d) => /\ Blocked(d)' /\ call'[d] = call[d]
  BY <1>2, <1>4 DEF Blocked
<1>10. /\ \A m : MuxQueue(m)' = MuxQueue(m)
       /\ \A i : CondQueue(i)' = CondQueue(i)
       /\ \A i : BarrierQueue(i)' = BarrierQueue(i)
  BY <1>2 DEF MuxQueue, CondQueue, BarrierQueue
<1>11. MuxQueues'
  BY <1>2, <1>9, MuxFrame, QueuesHoldCores DEF SyncInv, MuxQueues
<1>12. CondQueues'
  BY <1>2, <1>9, <1>10, CondFrame, QueuesHoldCores DEF SyncInv, CondQueues
<1>13. OneMux'
  <2>1. \A d \in Cores : /\ call[d] # None /\ call[d].op = "condWait"
                         /\ r.op = "condWait" /\ call[d].obj = r.obj
                         => call[d].mux = r.mux
    BY CallsAreRequests DEF MuxOf
  <2>2. QED
    BY <1>4, <2>1 DEF SyncInv, OneMux
<1>14. BarrierQueues'
  BY <1>2, <1>9, BarrierFrame, QueuesHoldCores DEF SyncInv, BarrierQueues
<1>15. StalledWaits'
  BY <1>2, <1>10 DEF SyncInv, StalledWaits
<1>16. MutualExclusion'
  <2>1. ASSUME NEW m \in DOMAIN mutexes, NEW d \in Cores
        PROVE  d \in Claims(m)' <=> d \in Claims(m)
    <3>1. CASE d # c
      BY <1>2, <1>4, <3>1 DEF Claims
    <3>2. CASE d = c
      <4>1. d \in Claims(m) <=> m \in holds[c]
        BY <1>2, <3>2 DEF Claims, SyncInv, MessagesMatch
      <4>2. d \in Claims(m)' <=> \/ m \in holds'[c]
                                 \/ r.op = "mutexUnlock" /\ r.obj = m
                                 \/ r.op = "condWait" /\ r.mux = m
        BY <1>2, <1>3, <1>4, <3>2 DEF Claims, SyncInv, MessagesMatch, Range
      <4>3. QED
        BY <1>4, <4>1, <4>2, CallsAreRequests
    <3>3. QED
      BY <3>1, <3>2
  <2>2. \A m \in DOMAIN mutexes : Claims(m)' = Claims(m)
    BY <2>1 DEF Claims
  <2>3. QED
    BY <1>2, <2>2 DEF SyncInv, MutualExclusion
<1>17. TimesAgree'
  BY <1>2, <1>4, CallsAreRequests DEF SyncInv, TimesAgree
<1>18. QED
  BY <1>5, <1>6, <1>7, <1>8, <1>11, <1>12, <1>13, <1>14, <1>15, <1>16, <1>17 DEF SyncInv

\* The call returns what it has been granted, with the clock moved on.
LEMMA ReturnStep ==
  ASSUME SyncInv, NEW c \in Cores, Return(c)
  PROVE  SyncInv'
<1> DEFINE r == Head(reply[c])
<1>1. /\ call[c] # None /\ reply[c] # <<>>
      /\ reply' = [reply EXCEPT ![c] = Tail(@)]
      /\ err' = err \cup Failure("reply_code", r.code = Expected(call[c].op))
      /\ AdvanceClock(c, r)
      /\ holds' = [holds EXCEPT ![c] = @ \cup Gains(call[c])]
      /\ call' = [call EXCEPT ![c] = None]
      /\ UNCHANGED <<pkt, status, mutexes, conds, barriers>>
  BY DEF Return, Check, serverVars
<1>2. /\ Len(reply[c]) = 1 /\ r = reply[c][1] /\ r \in Reply /\ Tail(reply[c]) = <<>>
      /\ r.code = Expected(call[c].op) /\ status[c] = "RUNNING"
      /\ pkt[c] = None /\ call[c] \in Request
  <2>1. /\ Len(reply[c]) = 1 /\ reply[c] \in Seq(Reply)
        /\ reply[c][1].code = Expected(call[c].op)
        /\ status[c] = "RUNNING" /\ pkt[c] = None /\ call[c] \in Request
    BY <1>1 DEF SyncInv, TypeOK, MessagesMatch
  <2>2. r = reply[c][1] /\ r \in Reply
    BY <2>1
  <2>3. Tail(reply[c]) \in Seq(Reply) /\ Len(Tail(reply[c])) = 0
    BY <1>1, <2>1, HeadTailProperties
  <2>4. Tail(reply[c]) = <<>>
    BY <2>3, EmptySeq
  <2>5. QED
    BY <2>1, <2>2, <2>4
<1>3. /\ reply' \in [Cores -> Seq(Reply)] /\ reply'[c] = <<>>
      /\ call' \in [Cores -> Request \cup {None}] /\ call'[c] = None
      /\ \A d \in Cores : d # c => /\ call'[d] = call[d] /\ reply'[d] = reply[d]
                                   /\ holds'[d] = holds[d]
      /\ holds'[c] = holds[c] \cup Gains(call[c])
  BY <1>1, <1>2 DEF SyncInv, TypeOK
<1>4. Gains(call[c]) \subseteq DOMAIN mutexes /\ DOMAIN mutexes \subseteq Nat
  BY <1>1, <1>2, LenProperties DEF SyncInv, TypeOK, IdsExist, Names, Gains
<1>5. /\ clk' \in [Cores -> Nat] /\ \A d \in Cores : d # c => clk'[d] = clk[d]
  <2>1. r.val > call[c].time => ToCore(c, r.val - call[c].time) \in Nat
    BY <1>1, <1>2, CatchesUp DEF SyncInv, TypeOK, TimesAgree, Reply
  <2>2. QED
    BY <1>1, <2>1 DEF AdvanceClock, SyncInv, TypeOK
<1>6. TypeOK'
  <2>1. holds' \in [Cores -> SUBSET Nat]
    BY <1>1, <1>4 DEF SyncInv, TypeOK
  <2>2. err' = err
    BY <1>1, <1>2 DEF Failure
  <2>3. QED
    BY <1>1, <1>2, <1>3, <1>5, <2>1, <2>2 DEF SyncInv, TypeOK
<1>7. NoAssertionFails'
  BY <1>1, <1>2 DEF SyncInv, NoAssertionFails, Failure
<1>8. IdsExist'
  BY <1>1, <1>3, <1>4 DEF Names, SyncInv, IdsExist
<1>9. MessagesMatch'
  BY <1>1, <1>2, <1>3 DEF SyncInv, MessagesMatch
<1>10. \A d \in Cores : Blocked(d) => Blocked(d)' /\ call'[d] = call[d]
  BY <1>1, <1>3 DEF Blocked
<1>11. /\ \A m : MuxQueue(m)' = MuxQueue(m)
       /\ \A i : CondQueue(i)' = CondQueue(i)
       /\ \A i : BarrierQueue(i)' = BarrierQueue(i)
  BY <1>1 DEF MuxQueue, CondQueue, BarrierQueue
<1>12. MuxQueues'
  BY <1>1, <1>10, MuxFrame, QueuesHoldCores DEF SyncInv, MuxQueues
<1>13. CondQueues'
  BY <1>1, <1>10, <1>11, CondFrame, QueuesHoldCores DEF SyncInv, CondQueues
<1>14. OneMux'
  BY <1>3 DEF SyncInv, OneMux
<1>15. BarrierQueues'
  BY <1>1, <1>10, BarrierFrame, QueuesHoldCores DEF SyncInv, BarrierQueues
<1>16. StalledWaits'
  BY <1>1, <1>11 DEF SyncInv, StalledWaits
<1>17. TimesAgree'
  BY <1>3, <1>5 DEF SyncInv, TimesAgree
<1>18. MutualExclusion'
  <2>1. ASSUME NEW m \in DOMAIN mutexes, NEW d \in Cores
        PROVE  d \in Claims(m)' <=> d \in Claims(m)
    <3>1. CASE d # c
      BY <1>1, <1>3, <3>1 DEF Claims
    <3>2. CASE d = c
      <4>1. d \in Claims(m)' <=> m \in holds[c] \cup Gains(call[c])
        BY <1>1, <1>2, <1>3, <3>2 DEF Claims
      <4>2. Range(reply[c]) = {r}
        BY <1>2, LenProperties DEF Range, SyncInv, TypeOK
      <4>3. m \in Gains(call[c]) => r.code = "MUTEX_LOCK"
        BY <1>2 DEF Gains, Expected
      <4>4. QED
        BY <1>1, <1>2, <3>2, <4>1, <4>2, <4>3 DEF Claims
    <3>3. QED
      BY <3>1, <3>2
  <2>2. \A m \in DOMAIN mutexes : Claims(m)' = Claims(m)
    BY <2>1 DEF Claims
  <2>3. QED
    BY <1>1, <2>2 DEF SyncInv, MutualExclusion
<1>19. QED
  BY <1>6, <1>7, <1>8, <1>9, <1>12, <1>13, <1>14, <1>15, <1>16, <1>17, <1>18 DEF SyncInv

\* A client that computes is in no call.
LEMMA ComputeStep ==
  ASSUME SyncInv, NEW c \in Cores, Compute(c)
  PROVE  SyncInv'
<1>1. /\ call[c] = None
      /\ clk' = [clk EXCEPT ![c] = @ + 1]
      /\ UNCHANGED <<call, pkt, reply, holds, status, mutexes, conds, barriers, err>>
  BY DEF Compute, serverVars
<1>2. clk' \in [Cores -> Nat] /\ \A d \in Cores : d # c => clk'[d] = clk[d]
  BY <1>1 DEF SyncInv, TypeOK
<1>3. TypeOK' /\ TimesAgree'
  BY <1>1, <1>2 DEF SyncInv, TypeOK, TimesAgree
<1>4. /\ NoAssertionFails' /\ IdsExist' /\ MessagesMatch'
      /\ MuxQueues' /\ CondQueues' /\ OneMux' /\ BarrierQueues' /\ StalledWaits'
      /\ MutualExclusion'
  BY <1>1
  DEF SyncInv, NoAssertionFails, IdsExist, MessagesMatch, MuxQueues, CondQueues,
      OneMux, BarrierQueues, StalledWaits, MutualExclusion, Claims, Names,
      Blocked, MuxQueue, CondQueue, BarrierQueue
<1>5. QED
  BY <1>3, <1>4 DEF SyncInv

-----------------------------------------------------------------------------
(* What the handlers have in common *)

\* The client whose packet the server takes is blocked and waits nowhere.
LEMMA TakenPacket ==
  ASSUME SyncInv, NEW c \in Cores, NEW op, Takes(c, op)
  PROVE  /\ pkt[c] = call[c] /\ call[c] # None /\ call[c] \in Request
         /\ call[c].op = op /\ Names(call[c], holds[c])
         /\ reply[c] = <<>> /\ status[c] = "RUNNING" /\ ~ Blocked(c)
         /\ pkt' \in [Cores -> Request \cup {None}] /\ pkt'[c] = None
         /\ \A d \in Cores : d # c => pkt'[d] = pkt[d]
         /\ \A m \in DOMAIN mutexes : c \notin MuxQueue(m)
         /\ \A i \in DOMAIN conds : c \notin CondQueue(i)
         /\ \A i \in DOMAIN barriers : c \notin BarrierQueue(i)
<1>1. /\ pkt[c] = call[c] /\ call[c] # None /\ call[c] \in Request
      /\ call[c].op = op /\ Names(call[c], holds[c])
      /\ reply[c] = <<>> /\ status[c] = "RUNNING" /\ ~ Blocked(c)
  BY DEF Takes, SyncInv, TypeOK, MessagesMatch, IdsExist, Blocked
<1>2. /\ pkt' \in [Cores -> Request \cup {None}] /\ pkt'[c] = None
      /\ \A d \in Cores : d # c => pkt'[d] = pkt[d]
  BY DEF Takes, SyncInv, TypeOK
<1>3. /\ \A m \in DOMAIN mutexes : c \notin MuxQueue(m)
      /\ \A i \in DOMAIN conds : c \notin CondQueue(i)
      /\ \A i \in DOMAIN barriers : c \notin BarrierQueue(i)
  BY <1>1 DEF SyncInv, MuxQueues, CondQueues, BarrierQueues
<1>4. QED
  BY <1>1, <1>2, <1>3

\* What the client whose packet the server takes has a claim on.
LEMMA SenderClaims ==
  ASSUME SyncInv, NEW c \in Cores, pkt[c] # None, NEW m
  PROVE  c \in Claims(m) <=>
           \/ m \in holds[c]
           \/ pkt[c].op = "mutexUnlock" /\ pkt[c].obj = m
           \/ pkt[c].op = "condWait" /\ pkt[c].mux = m
<1>1. Range(reply[c]) = {}
  BY EmptyQueue DEF SyncInv, MessagesMatch
<1>2. QED
  BY <1>1 DEF Claims

\* A handler leaves the clients as they are; what exists goes on to exist.
LEMMA ClientFrame ==
  ASSUME SyncInv, UNCHANGED clientVars,
         DOMAIN mutexes \subseteq DOMAIN mutexes', DOMAIN conds \subseteq DOMAIN conds',
         DOMAIN barriers \subseteq DOMAIN barriers'
  PROVE  IdsExist' /\ OneMux' /\ TimesAgree'
<1>1. call' = call /\ clk' = clk /\ holds' = holds
  BY DEF clientVars
<1>2. IdsExist'
  BY <1>1 DEF SyncInv, IdsExist, Names
<1>3. QED
  BY <1>1, <1>2 DEF SyncInv, OneMux, TimesAgree

\* The claims of a client that is not concerned, of one that is answered, and
\* of one that is not answered.
LEMMA ClaimsOf ==
  ASSUME SyncInv, UNCHANGED clientVars, NEW d \in Cores, NEW m
  PROVE  /\ pkt'[d] = pkt[d] /\ reply'[d] = reply[d] =>
              (d \in Claims(m)' <=> d \in Claims(m))
         /\ pkt'[d] = None /\ reply'[d] = <<>> =>
              (d \in Claims(m)' <=> m \in holds[d])
         /\ \A r : pkt'[d] = None /\ reply'[d] = <<r>> =>
              (d \in Claims(m)' <=>
                 \/ m \in holds[d]
                 \/ call[d] # None /\ m \in Gains(call[d]) /\ r.code = "MUTEX_LOCK")
<1>1. call' = call /\ holds' = holds
  BY DEF clientVars
<1>2. Range(<<>>) = {} /\ \A r : Range(<<r>>) = {r}
  BY DEF Range
<1>3. pkt'[d] = pkt[d] /\ reply'[d] = reply[d] => (d \in Claims(m)' <=> d \in Claims(m))
  BY <1>1 DEF Claims
<1>4. pkt'[d] = None /\ reply'[d] = <<>> => (d \in Claims(m)' <=> m \in holds[d])
  BY <1>1, <1>2 DEF Claims
<1>5. ASSUME NEW r, pkt'[d] = None, reply'[d] = <<r>>
      PROVE  d \in Claims(m)' <=>
                 \/ m \in holds[d]
                 \/ call[d] # None /\ m \in Gains(call[d]) /\ r.code = "MUTEX_LOCK"
  <2>1. Range(reply'[d]) = {r}
    BY <1>2, <1>5
  <2>2. QED
    BY <1>1, <1>5, <2>1 DEF Claims
<1>6. QED
  BY <1>3, <1>4, <1>5

\* Who gets no answer keeps the replies it has; who gets its only one has it.
LEMMA Answers ==
  ASSUME SyncInv, NEW out \in [Cores -> Seq(Reply)], Answer(out)
  PROVE  /\ reply' \in [Cores -> Seq(Reply)]
         /\ \A d \in Cores : out[d] = <<>> => reply'[d] = reply[d]
         /\ \A d \in Cores, r \in Reply :
              reply[d] = <<>> /\ out[d] = <<r>> => reply'[d] = <<r>>
<1>1. reply' = [d \in Cores |-> reply[d] \o out[d]]
  BY DEF Answer
<1>2. \A d \in Cores : reply[d] \in Seq(Reply) /\ out[d] \in Seq(Reply)
  BY DEF SyncInv, TypeOK
<1>3. \A d \in Cores : reply[d] \o out[d] \in Seq(Reply)
  BY <1>2, ConcatProperties
<1>4. \A r \in Reply : <<>> \o <<r>> = <<r>>
  OBVIOUS
<1>5. \A d \in Cores : reply[d] \o <<>> = reply[d]
  BY <1>2, ConcatEmptySeq
<1>6. QED
  BY <1>1, <1>3, <1>4, <1>5

\* What the server puts in a reply.
LEMMA Replies ==
  ASSUME NEW code \in Codes, NEW val \in Nat
  PROVE  Rep(code, val) \in Reply /\ Rep(code, val).code = code /\ Rep(code, val).val = val
BY DEF Rep, Reply

\* The replies under way once the server has answered its caller and the cores
\* it wakes.
LEMMA AnswerBoth ==
  ASSUME SyncInv, NEW W \in SUBSET Cores, NEW c \in Cores \ W, NEW x \in Reply, NEW y \in Reply,
         Answer(Both(Each(W, x), One(c, y))), \A d \in W \cup {c} : reply[d] = <<>>
  PROVE  /\ reply' \in [Cores -> Seq(Reply)]
         /\ reply'[c] = <<y>> /\ \A d \in W : reply'[d] = <<x>>
         /\ \A d \in Cores \ (W \cup {c}) : reply'[d] = reply[d]
<1>1. PICK out : out = Both(Each(W, x), One(c, y))
  OBVIOUS
<1>2. /\ out \in [Cores -> Seq(Reply)] /\ out[c] = <<y>> /\ \A d \in W : out[d] = <<x>>
      /\ \A d \in Cores \ (W \cup {c}) : out[d] = <<>>
  <2>1. /\ <<x>> \in Seq(Reply) /\ <<y>> \in Seq(Reply) /\ <<>> \in Seq(Reply)
    OBVIOUS
  <2>2. <<x>> \o <<>> = <<x>> /\ <<>> \o <<y>> = <<y>> /\ <<>> \o <<>> = <<>>
    BY <2>1, ConcatEmptySeq
  <2>3. out = [d \in Cores |-> (IF d \in W THEN <<x>> ELSE <<>>)
                               \o (IF d = c THEN <<y>> ELSE <<>>)]
    BY <1>1 DEF Both, Each, One
  <2>4. /\ out[c] = <<y>> /\ \A d \in W : out[d] = <<x>>
        /\ \A d \in Cores \ (W \cup {c}) : out[d] = <<>>
    BY <2>2, <2>3
  <2>5. \A d \in Cores : out[d] \in Seq(Reply)
    BY <2>1, <2>4
  <2>6. QED
    BY <2>3, <2>4, <2>5
<1>3. /\ reply' \in [Cores -> Seq(Reply)]
      /\ \A d \in Cores : out[d] = <<>> => reply'[d] = reply[d]
      /\ \A d \in Cores, r \in Reply : reply[d] = <<>> /\ out[d] = <<r>> => reply'[d] = <<r>>
  BY <1>1, <1>2, Answers
<1>4. QED
  BY <1>2, <1>3

\* The same when the caller gets no reply.
LEMMA AnswerEach ==
  ASSUME SyncInv, NEW W \in SUBSET Cores, NEW x \in Reply,
         Answer(Each(W, x)), \A d \in W : reply[d] = <<>>
  PROVE  /\ reply' \in [Cores -> Seq(Reply)]
         /\ \A d \in W : reply'[d] = <<x>>
         /\ \A d \in Cores \ W : reply'[d] = reply[d]
<1>1. PICK out : out = Each(W, x)
  OBVIOUS
<1>2. <<x>> \in Seq(Reply) /\ <<>> \in Seq(Reply)
  OBVIOUS
<1>3. /\ out \in [Cores -> Seq(Reply)] /\ \A d \in W : out[d] = <<x>>
      /\ \A d \in Cores \ W : out[d] = <<>>
  BY <1>1, <1>2 DEF Each
<1>4. /\ reply' \in [Cores -> Seq(Reply)]
      /\ \A d \in Cores : out[d] = <<>> => reply'[d] = reply[d]
      /\ \A d \in Cores, r \in Reply : reply[d] = <<>> /\ out[d] = <<r>> => reply'[d] = <<r>>
  BY <1>1, <1>3, Answers
<1>5. QED
  BY <1>3, <1>4

\* What happens to a client while the server handles a packet: nothing, or it
\* gets the answer it waits for, or it stalls.
Untouched(d) == pkt'[d] = pkt[d] /\ reply'[d] = reply[d] /\ status'[d] = status[d]
Answered(d, r) ==
  /\ pkt'[d] = None /\ reply'[d] = <<r>> /\ status'[d] = "RUNNING"
  /\ call[d] # None /\ r.code = Expected(call[d].op)
Stalls(d) ==
  pkt'[d] = None /\ reply'[d] = <<>> /\ status'[d] = "STALLED" /\ call[d] # None

\* Each of these keeps the messages in order.
LEMMA MessagesNext ==
  ASSUME SyncInv, call' = call,
         \A d \in Cores : Untouched(d) \/ (\E r : Answered(d, r)) \/ Stalls(d)
  PROVE  /\ MessagesMatch'
         /\ \A d \in Cores : Untouched(d) /\ Blocked(d) => Blocked(d)'
         /\ \A d \in Cores : Stalls(d) => Blocked(d)'
<1>1. \A r : <<r>> # <<>> /\ Len(<<r>>) = 1 /\ <<r>>[1] = r
  OBVIOUS
<1>2. MessagesMatch'
  <2>1. SUFFICES ASSUME NEW d \in Cores
        PROVE /\ call'[d] = None => pkt'[d] = None /\ reply'[d] = <<>> /\ status'[d] = "RUNNING"
              /\ pkt'[d] # None => reply'[d] = <<>> /\ status'[d] = "RUNNING"
              /\ reply'[d] # <<>> => /\ Len(reply'[d]) = 1 /\ status'[d] = "RUNNING"
                                     /\ reply'[d][1].code = Expected(call'[d].op)
              /\ call'[d] # None /\ pkt'[d] = None /\ reply'[d] = <<>> => status'[d] = "STALLED"
    BY DEF MessagesMatch
  <2>2. CASE Untouched(d)
    BY <2>2 DEF Untouched, SyncInv, MessagesMatch
  <2>3. CASE \E r : Answered(d, r)
    <3>1. PICK r : Answered(d, r)
      BY <2>3
    <3>2. QED
      BY <1>1, <3>1 DEF Answered
  <2>4. CASE Stalls(d)
    BY <2>4 DEF Stalls
  <2>5. QED
    BY <2>2, <2>3, <2>4
<1>3. QED
  BY <1>2 DEF Untouched, Stalls, Blocked

\* The queues of the server after a step that replaces mutex m by n.
LEMMA ReplacedMutex ==
  ASSUME SyncInv, NEW m \in DOMAIN mutexes, NEW n \in SimMutex,
         mutexes' = [mutexes EXCEPT ![m] = n]
  PROVE  /\ mutexes' \in Seq(SimMutex) /\ DOMAIN mutexes' = DOMAIN mutexes
         /\ mutexes'[m] = n
         /\ \A k \in DOMAIN mutexes : k # m => mutexes'[k] = mutexes[k]
         /\ MuxQueue(m)' = Range(n.waiting)
         /\ \A k \in DOMAIN mutexes : k # m => MuxQueue(k)' = MuxQueue(k)
<1>1. mutexes \in Seq(SimMutex) /\ m \in 1..Len(mutexes) /\ DOMAIN mutexes = 1..Len(mutexes)
  BY LenProperties DEF SyncInv, TypeOK
<1>2. /\ mutexes' \in Seq(SimMutex) /\ DOMAIN mutexes' = DOMAIN mutexes
      /\ mutexes'[m] = n
      /\ \A k \in DOMAIN mutexes : k # m => mutexes'[k] = mutexes[k]
  BY <1>1, ExceptSeq
<1>3. QED
  BY <1>2 DEF MuxQueue

\* MutualExclusion after a step, core by core.
LEMMA ExclusionNext ==
  ASSUME TypeOK',
         \A m \in DOMAIN mutexes', d \in Cores : d \in Claims(m)' <=> mutexes'[m].owner = d
  PROVE  MutualExclusion'
<1>1. \A m \in DOMAIN mutexes' : mutexes'[m].owner \in Cores \cup {None}
  <2>1. mutexes' \in Seq(SimMutex)
    BY DEF TypeOK
  <2>2. \A m \in DOMAIN mutexes' : mutexes'[m] \in SimMutex
    BY <2>1
  <2>3. QED
    BY <2>2 DEF SimMutex
<1>2. \A m : Claims(m)' \subseteq Cores
  BY DEF Claims
<1>3. QED
  BY <1>1, <1>2, SyncAssumption DEF MutualExclusion

\* MutualExclusion before a step, core by core.
LEMMA ExclusionNow ==
  ASSUME SyncInv, NEW m \in DOMAIN mutexes, NEW d \in Cores
  PROVE  d \in Claims(m) <=> mutexes[m].owner = d
BY SyncAssumption DEF SyncInv, MutualExclusion

\* SimMutex::lock of cores that do not wait for the mutex: the first of them
\* gets it if it is free, and the others queue behind those that wait.
LEMMA LockResult ==
  ASSUME NEW m \in SimMutex, NEW ws \in Seq(Cores), ws # <<>>, NoTwice(m.waiting), NoTwice(ws),
         m.owner = None => m.waiting = <<>>, Range(ws) \cap Range(m.waiting) = {}
  PROVE  /\ lock(m, ws) \in SimMutex
         /\ lock(m, ws).owner # None
         /\ NoTwice(lock(m, ws).waiting)
         /\ m.owner = None => /\ lock(m, ws).owner = Head(ws) /\ Head(ws) \in Range(ws)
                              /\ Range(lock(m, ws).waiting) = Range(ws) \ {Head(ws)}
         /\ m.owner # None =>
              /\ lock(m, ws).owner = m.owner
              /\ Range(lock(m, ws).waiting) = Range(m.waiting) \cup Range(ws)
<1>1. m.waiting \in Seq(Cores) /\ m.owner \in Cores \cup {None}
  BY DEF SimMutex
<1>2. CASE m.owner = None
  <2>1. <<>> \o Tail(ws) = Tail(ws)
    BY TailQueue, ConcatEmptySeq
  <2>2. lock(m, ws) = [owner |-> Head(ws), waiting |-> Tail(ws)]
    BY <1>2, <2>1 DEF lock
  <2>3. QED
    BY <1>2, <2>2, TailQueue, SyncAssumption DEF SimMutex
<1>3. CASE m.owner # None
  <2>1. lock(m, ws) = [m EXCEPT !.waiting = m.waiting \o ws]
    BY <1>3 DEF lock
  <2>2. /\ m.waiting \o ws \in Seq(Cores) /\ NoTwice(m.waiting \o ws)
        /\ Range(m.waiting \o ws) = Range(m.waiting) \cup Range(ws)
    BY <1>1, ConcatQueue
  <2>3. QED
    BY <1>1, <1>3, <2>1, <2>2 DEF SimMutex
<1>4. QED
  BY <1>2, <1>3

-----------------------------------------------------------------------------
(* The handlers *)

\* SyncServer::mutexLock
LEMMA MutexLockStep ==
  ASSUME SyncInv, NEW c \in Cores, mutexLock(c)
  PROVE  SyncInv'
<1>1. PICK r \in Request :
        /\ r = pkt[c] /\ r = call[c] /\ r # None /\ r.op = "mutexLock"
        /\ r.obj \in DOMAIN mutexes /\ r.obj \notin holds[c]
        /\ Gains(r) = {r.obj} /\ Expected(r.op) = "MUTEX_LOCK"
  <2>1. Takes(c, "mutexLock")
    BY DEF mutexLock
  <2>2. QED
    BY <2>1, TakenPacket DEF Names, Gains, Expected
<1>2. PICK k : k = r.obj
  OBVIOUS
<1>3. PICK m \in SimMutex :
        m = mutexes[k] /\ NoTwice(m.waiting) /\ (m.owner = None => m.waiting = <<>>)
  BY <1>1, <1>2, QueuesHoldCores DEF SyncInv, MuxQueues
<1>4. /\ Takes(c, "mutexLock")
      /\ mutexes' = [mutexes EXCEPT ![k] = lock(m, <<c>>)]
      /\ UNCHANGED clientVars /\ UNCHANGED <<conds, barriers>>
      /\ call' = call /\ holds' = holds /\ clk' = clk
  BY <1>1, <1>2, <1>3 DEF mutexLock, clientVars
<1>5. /\ pkt' \in [Cores -> Request \cup {None}] /\ pkt'[c] = None
      /\ reply[c] = <<>> /\ status[c] = "RUNNING"
      /\ \A d \in Cores : d # c => pkt'[d] = pkt[d]
      /\ \A i \in DOMAIN conds : c \notin CondQueue(i)
  BY <1>4, TakenPacket
<1>6. c \notin Range(m.waiting) /\ m.owner # c
  <2>1. c \notin MuxQueue(k)
    BY <1>1, <1>2, <1>4, TakenPacket
  <2>2. c \notin Claims(k)
    BY <1>1, <1>2, SenderClaims
  <2>3. QED
    BY <1>1, <1>2, <1>3, <2>1, <2>2, ExclusionNow DEF MuxQueue
<1>7. PICK n \in SimMutex :
        /\ n = lock(m, <<c>>) /\ n.owner # None /\ NoTwice(n.waiting)
        /\ m.owner = None => n.owner = c /\ Range(n.waiting) = {}
        /\ m.owner # None => /\ n.owner = m.owner
                             /\ Range(n.waiting) = Range(m.waiting) \cup {c}
  <2>1. PICK ws \in Seq(Cores) : ws = <<c>> /\ ws # <<>> /\ Head(ws) = c
    <3>1. <<c>> \in Seq(Cores) /\ <<c>> # <<>> /\ Head(<<c>>) = c
      OBVIOUS
    <3>2. QED
      BY <3>1
  <2>2. NoTwice(ws) /\ Range(ws) = {c} /\ Range(ws) \cap Range(m.waiting) = {}
    BY <1>6, <2>1, EmptyQueue
  <2>3. /\ lock(m, ws) \in SimMutex /\ lock(m, ws).owner # None
        /\ NoTwice(lock(m, ws).waiting)
        /\ m.owner = None => /\ lock(m, ws).owner = Head(ws)
                             /\ Range(lock(m, ws).waiting) = Range(ws) \ {Head(ws)}
        /\ m.owner # None => /\ lock(m, ws).owner = m.owner
                             /\ Range(lock(m, ws).waiting) = Range(m.waiting) \cup Range(ws)
    BY <1>3, <2>1, <2>2, LockResult
  <2>4. QED
    BY <2>1, <2>2, <2>3
<1>8. /\ mutexes' \in Seq(SimMutex) /\ DOMAIN mutexes' = DOMAIN mutexes
      /\ mutexes'[k] = n
      /\ \A j \in DOMAIN mutexes : j # k => mutexes'[j] = mutexes[j]
      /\ MuxQueue(k)' = Range(n.waiting)
      /\ \A j \in DOMAIN mutexes : j # k => MuxQueue(j)' = MuxQueue(j)
  BY <1>1, <1>2, <1>4, <1>7, ReplacedMutex
<1>9. MuxQueue(k)' = IF m.owner = None THEN {} ELSE MuxQueue(k) \cup {c}
  BY <1>3, <1>7, <1>8 DEF MuxQueue
<1>10. /\ reply' \in [Cores -> Seq(Reply)]
       /\ status' \in [Cores -> {"RUNNING", "STALLED"}]
       /\ err' = err
       /\ \A d \in Cores : d # c => Untouched(d)
       /\ m.owner = None => Answered(c, Rep("MUTEX_LOCK", r.time))
       /\ m.owner # None => Stalls(c)
  <2>1. CASE m.owner = None
    <3> DEFINE rep == Rep("MUTEX_LOCK", r.time)
    <3>1. Answer(One(c, rep)) /\ status' = status /\ err' = err
      BY <1>1, <1>2, <1>3, <2>1 DEF mutexLock, Granted
    <3>2. rep \in Reply /\ rep.code = "MUTEX_LOCK"
      BY DEF Rep, Reply, Codes, Request, Time
    <3> HIDE DEF rep
    <3>3. /\ One(c, rep) \in [Cores -> Seq(Reply)] /\ One(c, rep)[c] = <<rep>>
          /\ \A d \in Cores : d # c => One(c, rep)[d] = <<>>
      BY <3>2 DEF One
    <3>4. /\ reply' \in [Cores -> Seq(Reply)] /\ reply'[c] = <<rep>>
          /\ \A d \in Cores : d # c => reply'[d] = reply[d]
      BY <1>5, <3>1, <3>2, <3>3, Answers
    <3>5. status' \in [Cores -> {"RUNNING", "STALLED"}]
      BY <3>1 DEF SyncInv, TypeOK
    <3>6. QED
      BY <1>1, <1>5, <2>1, <3>1, <3>2, <3>4, <3>5 DEF Untouched, Answered, rep
  <2>2. CASE m.owner # None
    <3>1. /\ reply' = reply /\ status' = SetStatus({c}, "STALLED")
          /\ err' = err \cup MayStall({c})
      BY <1>1, <1>2, <1>3, <2>2 DEF mutexLock, Granted, Check
    <3>2. err' = err
      BY <1>5, <3>1 DEF MayStall, Failure
    <3>3. QED
      BY <1>1, <1>5, <2>2, <3>1, <3>2
      DEF Untouched, Stalls, SetStatus, SyncInv, TypeOK
  <2>3. QED
    BY <2>1, <2>2
<1>11. TypeOK'
  BY <1>4, <1>5, <1>8, <1>10 DEF SyncInv, TypeOK
<1>12. NoAssertionFails'
  BY <1>10 DEF SyncInv, NoAssertionFails
<1>13. IdsExist' /\ OneMux' /\ TimesAgree'
  BY <1>4, <1>8, ClientFrame
<1>14. /\ MessagesMatch'
       /\ \A d \in Cores : d # c /\ Blocked(d) => Blocked(d)'
       /\ m.owner # None => Blocked(c)'
  BY <1>4, <1>10, MessagesNext
<1>15. MuxQueues'
  <2>1. ASSUME NEW j \in DOMAIN mutexes, NEW d \in MuxQueue(j)'
        PROVE  Blocked(d)' /\ j \in Gains(call'[d])
    <3>1. CASE d = c
      BY <1>1, <1>2, <1>4, <1>5, <1>8, <1>9, <1>14, <2>1, <3>1, TakenPacket
    <3>2. CASE d # c
      BY <1>4, <1>8, <1>9, <1>14, <2>1, <3>2, QueuesHoldCores DEF SyncInv, MuxQueues
    <3>3. QED
      BY <3>1, <3>2
  <2>2. QED
    BY <1>7, <1>8, <2>1 DEF SyncInv, MuxQueues
<1>16. CondQueues'
  <2>1. ASSUME NEW i \in DOMAIN conds, NEW d \in CondQueue(i)
        PROVE  Blocked(d)' /\ call'[d] = call[d] /\ d \notin MuxQueue(call[d].mux)'
    <3>1. /\ d \in Cores /\ d # c /\ Blocked(d) /\ d \notin MuxQueue(call[d].mux)
          /\ call[d].mux \in DOMAIN mutexes
      BY <1>5, QueuesHoldCores DEF SyncInv, CondQueues, Blocked, IdsExist, Names
    <3>2. QED
      BY <1>4, <1>8, <1>9, <1>14, <3>1
  <2>2. QED
    BY <1>4, <2>1, CondFrame
<1>17. BarrierQueues'
  BY <1>4, <1>5, <1>14, BarrierFrame, QueuesHoldCores DEF SyncInv, BarrierQueues, Blocked
<1>18. StalledWaits'
  <2>1. SUFFICES ASSUME NEW d \in Cores, status'[d] = "STALLED"
                 PROVE  \/ \E j \in DOMAIN mutexes' : d \in MuxQueue(j)'
                        \/ \E i \in DOMAIN conds : d \in CondQueue(i)
                        \/ \E i \in DOMAIN barriers : d \in BarrierQueue(i)
    BY <1>4 DEF StalledWaits, CondQueue, BarrierQueue
  <2>2. CASE d = c
    BY <1>1, <1>2, <1>8, <1>9, <1>10, <2>1, <2>2 DEF Answered
  <2>3. CASE d # c
    <3>1. status[d] = "STALLED"
      BY <1>10, <2>1, <2>3 DEF Untouched
    <3>2. \A j \in DOMAIN mutexes : d \in MuxQueue(j) => d \in MuxQueue(j)'
      BY <1>3, <1>8, <1>9, EmptyQueue DEF MuxQueue
    <3>3. QED
      BY <1>8, <3>1, <3>2 DEF SyncInv, StalledWaits
  <2>4. QED
    BY <2>2, <2>3
<1>19. MutualExclusion'
  <2>1. ASSUME NEW j \in DOMAIN mutexes, NEW d \in Cores, d # c
        PROVE  d \in Claims(j)' <=> mutexes'[j].owner = d
    <3>1. d \in Claims(j)' <=> mutexes[j].owner = d
      BY <1>4, <1>10, <2>1, ClaimsOf, ExclusionNow DEF Untouched
    <3>2. mutexes'[j].owner = d <=> mutexes[j].owner = d
      BY <1>1, <1>2, <1>3, <1>7, <1>8, <2>1, SyncAssumption
    <3>3. QED
      BY <3>1, <3>2
  <2>2. ASSUME NEW j \in DOMAIN mutexes
        PROVE  c \in Claims(j)' <=> mutexes'[j].owner = c
    <3>1. c \in Claims(j) <=> j \in holds[c]
      BY <1>1, SenderClaims
    <3>2. c \in Claims(j)' <=> j \in holds[c] \/ (m.owner = None /\ j = k)
      BY <1>1, <1>2, <1>4, <1>10, ClaimsOf DEF Rep, Answered, Stalls
    <3>3. QED
      BY <1>1, <1>2, <1>3, <1>6, <1>7, <1>8, <3>1, <3>2, ExclusionNow
  <2>3. QED
    BY <1>8, <1>11, <2>1, <2>2, ExclusionNext
<1>20. QED
  BY <1>11, <1>12, <1>13, <1>14, <1>15, <1>16, <1>17, <1>18, <1>19 DEF SyncInv

\* SimMutex::unlock hands the mutex to one of those that wait, if any.
LEMMA UnlockResult ==
  ASSUME NEW m \in SimMutex, NoTwice(m.waiting), m.owner # None, m.owner \notin Range(m.waiting)
  PROVE  /\ unlock(m) \in SimMutex /\ NoTwice(unlock(m).waiting)
         /\ unlock(m).owner # m.owner
         /\ unlock(m).owner = None => unlock(m).waiting = <<>> /\ m.waiting = <<>>
         /\ NewOwner(m, unlock(m)) = {unlock(m).owner} \ {None}
         /\ NewOwner(m, unlock(m)) \subseteq Range(m.waiting)
         /\ Range(unlock(m).waiting) = Range(m.waiting) \ NewOwner(m, unlock(m))
<1>1. m.waiting \in Seq(Cores) /\ m.owner \in Cores \cup {None}
  BY DEF SimMutex
<1>2. CASE m.waiting = <<>>
  <2>1. unlock(m) = [m EXCEPT !.owner = None]
    BY <1>2 DEF unlock
  <2>2. unlock(m) \in SimMutex /\ unlock(m).owner = None /\ unlock(m).waiting = <<>>
    BY <1>1, <1>2, <2>1 DEF SimMutex
  <2>3. NewOwner(m, unlock(m)) = {}
    BY <2>2 DEF NewOwner
  <2>4. QED
    BY <1>2, <2>2, <2>3, EmptyQueue
<1>3. CASE m.waiting # <<>>
  <2>1. unlock(m) = [owner |-> Head(m.waiting), waiting |-> Tail(m.waiting)]
    BY <1>3 DEF unlock
  <2>2. /\ Head(m.waiting) \in Cores /\ Head(m.waiting) \in Range(m.waiting)
        /\ Tail(m.waiting) \in Seq(Cores) /\ NoTwice(Tail(m.waiting))
        /\ Range(m.waiting) = Range(Tail(m.waiting)) \cup {Head(m.waiting)}
        /\ Head(m.waiting) \notin Range(Tail(m.waiting))
    BY <1>1, <1>3, TailQueue
  <2>3. unlock(m) \in SimMutex /\ unlock(m).owner = Head(m.waiting)
        /\ unlock(m).waiting = Tail(m.waiting) /\ Head(m.waiting) # None
    BY <2>1, <2>2, SyncAssumption DEF SimMutex
  <2>4. NewOwner(m, unlock(m)) = {Head(m.waiting)}
    BY <2>2, <2>3 DEF NewOwner
  <2>5. QED
    BY <2>2, <2>3, <2>4
<1>4. QED
  BY <1>2, <1>3

\* c gives up mutex k, which goes to the cores in W (one or none).
HandsMutex(c, k, W) ==
  /\ k \in DOMAIN mutexes /\ mutexes[k].owner = c /\ pkt[c] # None
  /\ W = NewOwner(mutexes[k], unlock(mutexes[k]))
  /\ mutexes' = [mutexes EXCEPT ![k] = unlock(mutexes[k])]

\* Who gets it has waited for it and for nothing else.
Handed(c, k, W) ==
  /\ mutexes' \in Seq(SimMutex) /\ DOMAIN mutexes' = DOMAIN mutexes
  /\ \A j \in DOMAIN mutexes : /\ j # k => mutexes'[j] = mutexes[j]
                               /\ MuxQueue(j)' = MuxQueue(j) \ W
                               /\ NoTwice(mutexes'[j].waiting)
  /\ mutexes'[k].owner = None => mutexes'[k].waiting = <<>>
  /\ W = {mutexes'[k].owner} \ {None} /\ mutexes'[k].owner # c
  /\ W \subseteq MuxQueue(k) /\ W \subseteq Cores /\ c \notin W
  /\ \A d \in W : Blocked(d) /\ Gains(call[d]) = {k}
  /\ \A i \in DOMAIN conds : W \cap CondQueue(i) = {}
  /\ \A i \in DOMAIN barriers : W \cap BarrierQueue(i) = {}

\* unlock hands a mutex over like that.
LEMMA HandedMutex ==
  ASSUME SyncInv, NEW c \in Cores, NEW k, NEW W, HandsMutex(c, k, W)
  PROVE  Handed(c, k, W)
<1>0. /\ k \in DOMAIN mutexes /\ mutexes[k].owner = c /\ pkt[c] # None
      /\ W = NewOwner(mutexes[k], unlock(mutexes[k]))
      /\ mutexes' = [mutexes EXCEPT ![k] = unlock(mutexes[k])]
  BY DEF HandsMutex
<1>1. PICK m \in SimMutex : m = mutexes[k] /\ NoTwice(m.waiting)
  BY <1>0, QueuesHoldCores DEF SyncInv, MuxQueues
<1>2. m.owner = c /\ c # None /\ c \notin Range(m.waiting)
  BY <1>0, <1>1, SyncAssumption DEF SyncInv, MuxQueues, MuxQueue, Blocked
<1>3. PICK n \in SimMutex :
        /\ n = unlock(m) /\ NoTwice(n.waiting) /\ n.owner # m.owner
        /\ n.owner = None => n.waiting = <<>>
        /\ W = {n.owner} \ {None} /\ W \subseteq Range(m.waiting)
        /\ Range(n.waiting) = Range(m.waiting) \ W
  BY <1>0, <1>1, <1>2, UnlockResult
<1>4. /\ mutexes' \in Seq(SimMutex) /\ DOMAIN mutexes' = DOMAIN mutexes
      /\ mutexes'[k] = n
      /\ \A j \in DOMAIN mutexes : j # k => mutexes'[j] = mutexes[j]
      /\ MuxQueue(k)' = Range(n.waiting)
      /\ \A j \in DOMAIN mutexes : j # k => MuxQueue(j)' = MuxQueue(j)
  BY <1>0, <1>1, <1>3, ReplacedMutex
<1>5. W \subseteq MuxQueue(k) /\ W \subseteq Cores /\ c \notin W
  BY <1>0, <1>1, <1>2, <1>3, QueuesHoldCores DEF MuxQueue, SyncInv
<1>6. \A d \in W : Blocked(d) /\ k \in Gains(call[d]) /\ call[d] \in Request
  BY <1>0, <1>5 DEF SyncInv, MuxQueues, Blocked, TypeOK
<1>7. \A d \in W : /\ call[d].op \in {"mutexLock", "condWait"} /\ Gains(call[d]) = {k}
                   /\ call[d].op = "condWait" => call[d].mux = k
  BY <1>6 DEF Gains
<1>8. \A j \in DOMAIN mutexes : MuxQueue(j)' = MuxQueue(j) \ W
  <2>1. \A j \in DOMAIN mutexes : j # k => W \cap MuxQueue(j) = {}
    BY <1>7 DEF SyncInv, MuxQueues
  <2>2. QED
    BY <1>1, <1>3, <1>4, <2>1 DEF MuxQueue
<1>9. \A i \in DOMAIN conds : W \cap CondQueue(i) = {}
  BY <1>0, <1>5, <1>7 DEF SyncInv, CondQueues
<1>10. \A i \in DOMAIN barriers : W \cap BarrierQueue(i) = {}
  BY <1>7 DEF SyncInv, BarrierQueues
<1>11. \A j \in DOMAIN mutexes : NoTwice(mutexes'[j].waiting)
  BY <1>3, <1>4 DEF SyncInv, MuxQueues
<1>12. QED
  BY <1>2, <1>3, <1>4, <1>5, <1>6, <1>7, <1>8, <1>9, <1>10, <1>11 DEF Handed

\* Mutex k goes from c to the cores in W with the answer they wait for, and
\* nothing else happens to the clients or the mutexes.
HandsOver(c, k, W) ==
  /\ HandsMutex(c, k, W) /\ UNCHANGED clientVars
  /\ \A d \in Cores \ (W \cup {c}) : Untouched(d)
  /\ \A d \in W : \E r : Answered(d, r) /\ r.code = "MUTEX_LOCK"
  /\ \/ Stalls(c)
     \/ Gains(call[c]) = {} /\ \E r : Answered(c, r)

\* The new owner is the only one with a claim.
LEMMA HandOver ==
  ASSUME SyncInv, NEW c \in Cores, NEW k, NEW W, HandsOver(c, k, W), k \notin holds[c],
         \A j : c \in Claims(j) <=> j \in holds[c] \/ j = k
  PROVE  /\ MuxQueues' /\ MessagesMatch' /\ (TypeOK' => MutualExclusion')
         /\ \A d \in Cores \ (W \cup {c}) : Blocked(d) => Blocked(d)'
         /\ Stalls(c) => Blocked(c)'
<1>1. /\ call' = call /\ holds' = holds
      /\ \A d \in Cores \ (W \cup {c}) : Untouched(d)
      /\ \A d \in W : \E r : Answered(d, r) /\ r.code = "MUTEX_LOCK"
      /\ Stalls(c) \/ (Gains(call[c]) = {} /\ \E r : Answered(c, r))
      /\ UNCHANGED clientVars /\ pkt[c] # None /\ k \in DOMAIN mutexes /\ mutexes[k].owner = c
  BY DEF HandsOver, HandsMutex, clientVars
<1>2. /\ mutexes' \in Seq(SimMutex) /\ DOMAIN mutexes' = DOMAIN mutexes
      /\ \A j \in DOMAIN mutexes : /\ j # k => mutexes'[j] = mutexes[j]
                                   /\ MuxQueue(j)' = MuxQueue(j) \ W
                                   /\ NoTwice(mutexes'[j].waiting)
      /\ mutexes'[k].owner = None => mutexes'[k].waiting = <<>>
      /\ W = {mutexes'[k].owner} \ {None} /\ mutexes'[k].owner # c
      /\ W \subseteq MuxQueue(k) /\ W \subseteq Cores /\ c \notin W
      /\ \A d \in W : Blocked(d) /\ Gains(call[d]) = {k}
  BY HandedMutex DEF HandsOver, Handed
<1>3. /\ MessagesMatch'
      /\ \A d \in Cores \ (W \cup {c}) : Blocked(d) => Blocked(d)'
      /\ Stalls(c) => Blocked(c)'
  BY <1>1, MessagesNext
<1>4. MuxQueues'
  <2>1. ASSUME NEW j \in DOMAIN mutexes, NEW d \in MuxQueue(j)'
        PROVE  Blocked(d)' /\ j \in Gains(call'[d])
    <3>1. d \in MuxQueue(j) /\ d \notin W /\ d \in Cores /\ Blocked(d) /\ j \in Gains(call[d])
      BY <1>2, <2>1, QueuesHoldCores DEF SyncInv, MuxQueues
    <3>2. d # c
      BY <1>1, <3>1 DEF Blocked
    <3>3. QED
      BY <1>1, <1>3, <3>1, <3>2
  <2>2. QED
    BY <1>2, <2>1 DEF SyncInv, MuxQueues
<1>5. ASSUME TypeOK', NEW j \in DOMAIN mutexes, NEW d \in Cores
      PROVE  d \in Claims(j)' <=> mutexes'[j].owner = d
  <2>1. CASE d \in W
    <3>1. d \in Claims(j)' <=> j \in holds[d] \/ j = k
      BY <1>1, <1>2, <2>1, ClaimsOf DEF Answered
    <3>2. d \in Claims(j) <=> j \in holds[d]
      BY <1>2, <2>1, EmptyQueue DEF Claims, Blocked
    <3>3. d # c /\ mutexes'[k].owner = d
      BY <1>2, <2>1
    <3>4. QED
      BY <1>1, <1>2, <3>1, <3>2, <3>3, ExclusionNow
  <2>2. CASE d = c
    <3>1. c \in Claims(j)' <=> j \in holds[c]
      BY <1>1, ClaimsOf DEF Answered, Stalls
    <3>2. QED
      BY <1>1, <1>2, <2>2, <3>1, ExclusionNow
  <2>3. CASE d \notin W /\ d # c
    <3>1. d \in Claims(j)' <=> mutexes[j].owner = d
      BY <1>1, <2>3, ClaimsOf, ExclusionNow DEF Untouched
    <3>2. j = k => mutexes'[j].owner # d
      BY <1>2, <2>3, SyncAssumption
    <3>3. QED
      BY <1>1, <1>2, <2>3, <3>1, <3>2
  <2>4. QED
    BY <2>1, <2>2, <2>3
<1>6. QED
  BY <1>2, <1>3, <1>4, <1>5, ExclusionNext

\* SyncServer::mutexUnlock
LEMMA MutexUnlockStep ==
  ASSUME SyncInv, NEW c \in Cores, mutexUnlock(c)
  PROVE  SyncInv'
<1>1. PICK r \in Request :
        /\ r = pkt[c] /\ r = call[c] /\ r # None /\ r.op = "mutexUnlock"
        /\ r.obj \in DOMAIN mutexes /\ r.obj \notin holds[c]
        /\ Gains(r) = {} /\ Expected(r.op) = "MUTEX_UNLOCK"
  <2>1. Takes(c, "mutexUnlock")
    BY DEF mutexUnlock
  <2>2. QED
    BY <2>1, TakenPacket DEF Names, Gains, Expected
<1>2. PICK k : k = r.obj
  OBVIOUS
<1>3. PICK W : W = NewOwner(mutexes[k], unlock(mutexes[k]))
  OBVIOUS
<1>4. /\ Takes(c, "mutexUnlock")
      /\ mutexes' = [mutexes EXCEPT ![k] = unlock(mutexes[k])]
      /\ err' = err \cup (Failure("owner", mutexes[k].owner = c) \cup MayResume(W))
      /\ status' = SetStatus(W, "RUNNING")
      /\ Answer(Both(Each(W, Rep("MUTEX_LOCK", r.time)), One(c, Rep("MUTEX_UNLOCK", 0))))
      /\ UNCHANGED clientVars /\ UNCHANGED <<conds, barriers>>
      /\ call' = call /\ holds' = holds /\ clk' = clk
  BY <1>1, <1>2, <1>3 DEF mutexUnlock, clientVars, Check
<1>5. /\ pkt' \in [Cores -> Request \cup {None}] /\ pkt'[c] = None
      /\ reply[c] = <<>> /\ status[c] = "RUNNING"
      /\ \A d \in Cores : d # c => pkt'[d] = pkt[d]
  BY <1>4, TakenPacket
<1>6. \A j : c \in Claims(j) <=> j \in holds[c] \/ j = k
  BY <1>1, <1>2, SenderClaims
<1>7. mutexes[k].owner = c
  BY <1>1, <1>2, <1>6, ExclusionNow
<1>8. /\ mutexes' \in Seq(SimMutex) /\ DOMAIN mutexes' = DOMAIN mutexes
      /\ \A j \in DOMAIN mutexes : MuxQueue(j)' = MuxQueue(j) \ W
      /\ W \subseteq Cores /\ c \notin W /\ W \subseteq MuxQueue(k)
      /\ \A d \in W : Blocked(d) /\ Gains(call[d]) = {k}
      /\ \A i \in DOMAIN conds : W \cap CondQueue(i) = {}
      /\ \A i \in DOMAIN barriers : W \cap BarrierQueue(i) = {}
  <2>1. HandsMutex(c, k, W)
    BY <1>1, <1>2, <1>3, <1>4, <1>7 DEF HandsMutex
  <2>2. QED
    BY <2>1, HandedMutex DEF Handed
<1>9. PICK x \in Reply, y \in Reply :
        /\ x = Rep("MUTEX_LOCK", r.time) /\ x.code = "MUTEX_LOCK"
        /\ y = Rep("MUTEX_UNLOCK", 0) /\ y.code = "MUTEX_UNLOCK"
  <2>1. r.time \in Nat
    BY DEF Request, Time
  <2>2. QED
    BY <2>1, Replies DEF Codes
<1>10. /\ reply' \in [Cores -> Seq(Reply)]
       /\ \A d \in Cores \ (W \cup {c}) : Untouched(d)
       /\ \A d \in W : Answered(d, x)
       /\ Answered(c, y)
  <2>1. /\ W \in SUBSET Cores /\ c \in Cores \ W /\ \A d \in W \cup {c} : reply[d] = <<>>
        /\ Answer(Both(Each(W, x), One(c, y)))
    BY <1>4, <1>5, <1>8, <1>9 DEF Blocked
  <2>2. /\ reply' \in [Cores -> Seq(Reply)]
        /\ reply'[c] = <<y>> /\ \A d \in W : reply'[d] = <<x>>
        /\ \A d \in Cores \ (W \cup {c}) : reply'[d] = reply[d]
    BY <2>1, AnswerBoth
  <2>4. \A d \in W : Expected(call[d].op) = "MUTEX_LOCK" /\ pkt[d] = None /\ call[d] # None
    BY <1>8 DEF Gains, Expected, Blocked
  <2>5. \A d \in Cores : status'[d] = IF d \in W THEN "RUNNING" ELSE status[d]
    BY <1>4 DEF SetStatus
  <2>6. QED
    BY <1>1, <1>5, <1>8, <1>9, <2>2, <2>4, <2>5 DEF Untouched, Answered
<1>11. err' = err
  BY <1>4, <1>7, <1>8 DEF Failure, MayResume, Blocked
<1>12. TypeOK'
  <2>1. status' \in [Cores -> {"RUNNING", "STALLED"}]
    BY <1>4 DEF SetStatus, SyncInv, TypeOK
  <2>2. QED
    BY <1>4, <1>5, <1>8, <1>10, <1>11, <2>1 DEF SyncInv, TypeOK
<1>13. /\ MuxQueues' /\ MessagesMatch' /\ MutualExclusion'
       /\ \A d \in Cores \ (W \cup {c}) : Blocked(d) => Blocked(d)'
  <2>1. HandsOver(c, k, W)
    BY <1>1, <1>2, <1>3, <1>4, <1>7, <1>9, <1>10 DEF HandsOver, HandsMutex
  <2>2. QED
    BY <1>1, <1>2, <1>6, <1>12, <2>1, HandOver
<1>14. NoAssertionFails'
  BY <1>11 DEF SyncInv, NoAssertionFails
<1>15. IdsExist' /\ OneMux' /\ TimesAgree'
  BY <1>4, <1>8, ClientFrame
<1>16. CondQueues'
  <2>1. ASSUME NEW i \in DOMAIN conds, NEW d \in CondQueue(i)
        PROVE  Blocked(d)' /\ call'[d] = call[d] /\ d \notin MuxQueue(call[d].mux)'
    <3>1. /\ d \in Cores /\ d \notin W \cup {c} /\ Blocked(d) /\ d \notin MuxQueue(call[d].mux)
          /\ call[d].mux \in DOMAIN mutexes
      BY <1>4, <1>8, QueuesHoldCores, TakenPacket
      DEF SyncInv, CondQueues, Blocked, IdsExist, Names
    <3>2. QED
      BY <1>4, <1>8, <1>13, <3>1
  <2>2. QED
    BY <1>4, <2>1, CondFrame
<1>17. BarrierQueues'
  <2>1. ASSUME NEW i \in DOMAIN barriers, NEW d \in BarrierQueue(i)
        PROVE  Blocked(d)' /\ call'[d] = call[d]
    BY <1>4, <1>8, <1>13, QueuesHoldCores, TakenPacket DEF SyncInv, BarrierQueues
  <2>2. QED
    BY <1>4, <2>1, BarrierFrame
<1>18. StalledWaits'
  <2>1. SUFFICES ASSUME NEW d \in Cores, status'[d] = "STALLED"
                 PROVE  \/ \E j \in DOMAIN mutexes' : d \in MuxQueue(j)'
                        \/ \E i \in DOMAIN conds : d \in CondQueue(i)
                        \/ \E i \in DOMAIN barriers : d \in BarrierQueue(i)
    BY <1>4 DEF StalledWaits, CondQueue, BarrierQueue
  <2>2. status[d] = "STALLED" /\ d \notin W
    BY <1>10, <2>1 DEF Untouched, Answered
  <2>3. QED
    BY <1>8, <2>2 DEF SyncInv, StalledWaits
<1>19. QED
  BY <1>12, <1>13, <1>14, <1>15, <1>16, <1>17, <1>18 DEF SyncInv

\* The waiters of a condition once another core waits.
LEMMA AppendWaiter ==
  ASSUME NEW w \in Seq(CondWaiter), NEW x \in CondWaiter,
         NoTwice(CoresOf(w)), x.core \notin Range(CoresOf(w))
  PROVE  /\ Append(w, x) \in Seq(CondWaiter)
         /\ NoTwice(CoresOf(Append(w, x)))
         /\ Range(CoresOf(Append(w, x))) = Range(CoresOf(w)) \cup {x.core}
         /\ \A j \in DOMAIN Append(w, x) :
              Append(w, x)[j] = x \/ (j \in DOMAIN w /\ Append(w, x)[j] = w[j])
<1>1. PICK v : v = Append(w, x)
  OBVIOUS
<1>2. /\ v \in Seq(CondWaiter) /\ Len(w) \in Nat /\ Len(v) = Len(w) + 1
      /\ DOMAIN w = 1..Len(w) /\ DOMAIN v = 1..(Len(w) + 1)
      /\ v[Len(w) + 1] = x /\ \A j \in 1..Len(w) : v[j] = w[j]
  BY <1>1
<1>3. PICK s \in Seq(Cores) : s = CoresOf(w) /\ Len(s) = Len(w)
  BY CoresOfSeq
<1>4. PICK c \in Cores : c = x.core
  BY DEF CondWaiter
<1>5. CoresOf(v) = Append(s, c)
  <2>1. CoresOf(v) \in Seq(Cores) /\ Len(CoresOf(v)) = Len(v)
    BY <1>2, CoresOfSeq
  <2>2. /\ Append(s, c) \in Seq(Cores) /\ Len(Append(s, c)) = Len(w) + 1
        /\ Append(s, c)[Len(w) + 1] = c
        /\ \A j \in 1..Len(w) : Append(s, c)[j] = s[j]
    BY <1>2, <1>3
  <2>3. /\ CoresOf(v)[Len(w) + 1] = c
        /\ \A j \in 1..Len(w) : CoresOf(v)[j] = s[j]
    BY <1>2, <1>3, <1>4 DEF CoresOf
  <2>4. \A j \in 1..(Len(w) + 1) : CoresOf(v)[j] = Append(s, c)[j]
    BY <1>2, <2>2, <2>3
  <2>5. QED
    BY <1>2, <2>1, <2>2, <2>4, SeqEqual
<1>6. NoTwice(Append(s, c)) /\ Range(Append(s, c)) = Range(s) \cup {c}
  BY <1>3, <1>4, AppendQueue
<1>7. \A j \in DOMAIN v : v[j] = x \/ (j \in DOMAIN w /\ v[j] = w[j])
  BY <1>2
<1>8. QED
  BY <1>1, <1>2, <1>3, <1>4, <1>5, <1>6, <1>7

\* SyncServer::condWait
LEMMA CondWaitStep ==
  ASSUME SyncInv, NEW c \in Cores, condWait(c)
  PROVE  SyncInv'
<1>1. PICK r \in Request :
        /\ r = pkt[c] /\ r = call[c] /\ r # None /\ r.op = "condWait"
        /\ r.mux \in DOMAIN mutexes /\ r.mux \notin holds[c] /\ r.obj \in DOMAIN conds
        /\ Gains(r) = {r.mux} /\ Expected(r.op) = "MUTEX_LOCK"
  <2>1. Takes(c, "condWait")
    BY DEF condWait
  <2>2. QED
    BY <2>1, TakenPacket DEF Names, Gains, Expected
<1>2. PICK k, q : k = r.mux /\ q = r.obj
  OBVIOUS
<1>3. PICK W : W = NewOwner(mutexes[k], unlock(mutexes[k]))
  OBVIOUS
<1>4. /\ Takes(c, "condWait")
      /\ mutexes' = [mutexes EXCEPT ![k] = unlock(mutexes[k])]
      /\ conds' = [conds EXCEPT ![q] = Append(conds[q], [core |-> c, mux |-> k])]
      /\ err' = err \cup (MayStall({c}) \cup Failure("owner", mutexes[k].owner = c)
                          \cup MayResume(W))
      /\ status' = [SetStatus(W, "RUNNING") EXCEPT ![c] = "STALLED"]
      /\ Answer(Each(W, Rep("MUTEX_LOCK", r.time)))
      /\ UNCHANGED clientVars /\ UNCHANGED barriers
      /\ call' = call /\ holds' = holds /\ clk' = clk
  BY <1>1, <1>2, <1>3 DEF condWait, clientVars, Check
<1>5. /\ pkt' \in [Cores -> Request \cup {None}] /\ pkt'[c] = None
      /\ reply[c] = <<>> /\ status[c] = "RUNNING"
      /\ \A d \in Cores : d # c => pkt'[d] = pkt[d]
      /\ \A j \in DOMAIN mutexes : c \notin MuxQueue(j)
      /\ \A i \in DOMAIN conds : c \notin CondQueue(i)
      /\ \A i \in DOMAIN barriers : c \notin BarrierQueue(i)
  BY <1>4, TakenPacket
<1>6. \A j : c \in Claims(j) <=> j \in holds[c] \/ j = k
  BY <1>1, <1>2, SenderClaims
<1>7. mutexes[k].owner = c
  BY <1>1, <1>2, <1>6, ExclusionNow
<1>8. /\ mutexes' \in Seq(SimMutex) /\ DOMAIN mutexes' = DOMAIN mutexes
      /\ \A j \in DOMAIN mutexes : MuxQueue(j)' = MuxQueue(j) \ W
      /\ W \subseteq Cores /\ c \notin W /\ W \subseteq MuxQueue(k)
      /\ \A d \in W : Blocked(d) /\ Gains(call[d]) = {k}
      /\ \A i \in DOMAIN conds : W \cap CondQueue(i) = {}
      /\ \A i \in DOMAIN barriers : W \cap BarrierQueue(i) = {}
  <2>1. HandsMutex(c, k, W)
    BY <1>1, <1>2, <1>3, <1>4, <1>7 DEF HandsMutex
  <2>2. QED
    BY <2>1, HandedMutex DEF Handed
<1>9. PICK x \in Reply : x = Rep("MUTEX_LOCK", r.time) /\ x.code = "MUTEX_LOCK"
  <2>1. r.time \in Nat
    BY DEF Request, Time
  <2>2. QED
    BY <2>1, Replies DEF Codes
<1>10. /\ reply' \in [Cores -> Seq(Reply)]
       /\ \A d \in Cores \ (W \cup {c}) : Untouched(d)
       /\ \A d \in W : Answered(d, x)
       /\ Stalls(c)
  <2>1. /\ W \in SUBSET Cores /\ \A d \in W : reply[d] = <<>>
        /\ Answer(Each(W, x))
    BY <1>4, <1>8, <1>9 DEF Blocked
  <2>2. /\ reply' \in [Cores -> Seq(Reply)]
        /\ \A d \in W : reply'[d] = <<x>>
        /\ \A d \in Cores \ W : reply'[d] = reply[d]
    BY <2>1, AnswerEach
  <2>3. \A d \in W : Expected(call[d].op) = "MUTEX_LOCK" /\ pkt[d] = None /\ call[d] # None
    BY <1>8 DEF Gains, Expected, Blocked
  <2>4. \A d \in Cores : status'[d] = IF d = c THEN "STALLED"
                                      ELSE IF d \in W THEN "RUNNING" ELSE status[d]
    BY <1>4 DEF SetStatus
  <2>5. QED
    BY <1>1, <1>5, <1>8, <1>9, <2>2, <2>3, <2>4 DEF Untouched, Answered, Stalls
<1>11. err' = err
  BY <1>4, <1>5, <1>7, <1>8 DEF Failure, MayResume, MayStall, Blocked
<1>12. PICK w \in Seq(CondWaiter), v \in Seq(CondWaiter), x1 \in CondWaiter :
         /\ w = conds[q] /\ v = conds'[q] /\ x1.core = c /\ x1.mux = k
         /\ NoTwice(CoresOf(v)) /\ Range(CoresOf(v)) = Range(CoresOf(w)) \cup {c}
         /\ \A j \in DOMAIN v : v[j] = x1 \/ (j \in DOMAIN w /\ v[j] = w[j])
         /\ conds' \in Seq(Seq(CondWaiter)) /\ DOMAIN conds' = DOMAIN conds
         /\ \A i \in DOMAIN conds : i # q => conds'[i] = conds[i]
  <2>1. PICK w \in Seq(CondWaiter) : w = conds[q]
    BY <1>1, <1>2, QueuesHoldCores DEF SyncInv
  <2>2. PICK x1 \in CondWaiter : x1 = [core |-> c, mux |-> k] /\ x1.core = c /\ x1.mux = k
    <3>1. k \in Nat
      BY <1>2 DEF Request
    <3>2. [core |-> c, mux |-> k] \in CondWaiter
      BY <3>1 DEF CondWaiter
    <3>3. QED
      BY <3>2
  <2>3. NoTwice(CoresOf(w)) /\ x1.core \notin Range(CoresOf(w))
    BY <1>1, <1>2, <1>5, <2>1, <2>2 DEF SyncInv, CondQueues, CondQueue
  <2>4. PICK v \in Seq(CondWaiter) :
        /\ v = Append(w, x1) /\ NoTwice(CoresOf(v))
        /\ Range(CoresOf(v)) = Range(CoresOf(w)) \cup {c}
        /\ \A j \in DOMAIN v : v[j] = x1 \/ (j \in DOMAIN w /\ v[j] = w[j])
    <3>1. /\ Append(w, x1) \in Seq(CondWaiter)
          /\ NoTwice(CoresOf(Append(w, x1)))
          /\ Range(CoresOf(Append(w, x1))) = Range(CoresOf(w)) \cup {x1.core}
          /\ \A j \in DOMAIN Append(w, x1) :
               Append(w, x1)[j] = x1 \/ (j \in DOMAIN w /\ Append(w, x1)[j] = w[j])
      BY <2>3, AppendWaiter
    <3>2. QED
      BY <2>2, <3>1
  <2>5. /\ conds' = [conds EXCEPT ![q] = v] /\ conds \in Seq(Seq(CondWaiter))
        /\ q \in 1..Len(conds) /\ DOMAIN conds = 1..Len(conds)
    BY <1>1, <1>2, <1>4, <2>1, <2>2, <2>4, LenProperties DEF SyncInv, TypeOK
  <2>6. /\ conds' \in Seq(Seq(CondWaiter)) /\ DOMAIN conds' = DOMAIN conds
        /\ conds'[q] = v /\ \A i \in DOMAIN conds : i # q => conds'[i] = conds[i]
    BY <2>4, <2>5, ExceptSeq
  <2>7. QED
    BY <2>1, <2>2, <2>4, <2>6
<1>13. /\ CondQueue(q)' = CondQueue(q) \cup {c}
       /\ \A i \in DOMAIN conds : i # q => CondQueue(i)' = CondQueue(i)
  BY <1>12 DEF CondQueue
<1>14. TypeOK'
  <2>1. status' \in [Cores -> {"RUNNING", "STALLED"}]
    BY <1>4 DEF SetStatus, SyncInv, TypeOK
  <2>2. QED
    BY <1>4, <1>5, <1>8, <1>10, <1>11, <1>12, <2>1 DEF SyncInv, TypeOK
<1>15. /\ MuxQueues' /\ MessagesMatch' /\ MutualExclusion'
       /\ \A d \in Cores \ (W \cup {c}) : Blocked(d) => Blocked(d)'
       /\ Blocked(c)'
  <2>1. HandsOver(c, k, W)
    BY <1>1, <1>2, <1>3, <1>4, <1>7, <1>9, <1>10 DEF HandsOver, HandsMutex
  <2>2. QED
    BY <1>1, <1>2, <1>6, <1>10, <1>14, <2>1, HandOver
<1>16. NoAssertionFails'
  BY <1>11 DEF SyncInv, NoAssertionFails
<1>17. IdsExist' /\ OneMux' /\ TimesAgree'
  BY <1>4, <1>8, <1>12, ClientFrame
<1>18. CondQueues'
  <2>1. ASSUME NEW i \in DOMAIN conds, NEW d \in CondQueue(i), d \in Cores
        PROVE  /\ Blocked(d)' /\ call'[d].op = "condWait" /\ call'[d].obj = i
               /\ d \notin MuxQueue(call[d].mux)'
    <3>1. /\ d \notin W \cup {c} /\ Blocked(d) /\ d \notin MuxQueue(call[d].mux)
          /\ call[d].mux \in DOMAIN mutexes /\ call[d].op = "condWait" /\ call[d].obj = i
      BY <1>5, <1>8, <2>1 DEF SyncInv, CondQueues, Blocked, IdsExist, Names
    <3>2. d \notin MuxQueue(call[d].mux)'
      BY <1>4, <1>8, <3>1
    <3>3. QED
      BY <1>4, <1>15, <2>1, <3>1, <3>2
  <2>2. /\ Blocked(c)' /\ call'[c].op = "condWait" /\ call'[c].obj = q
        /\ c \notin MuxQueue(call[c].mux)'
    BY <1>1, <1>2, <1>4, <1>5, <1>8, <1>15
  <2>3. ASSUME NEW i \in DOMAIN conds, NEW d \in CondQueue(i)'
        PROVE  /\ Blocked(d)' /\ call'[d].op = "condWait" /\ call'[d].obj = i
               /\ d \notin MuxQueue(call[d].mux)'
    <3>1. (d \in CondQueue(i) /\ d \in Cores) \/ (d = c /\ i = q)
      <4>1. CASE i = q
        BY <1>1, <1>2, <1>13, <2>3, <4>1, QueuesHoldCores DEF SyncInv
      <4>2. CASE i # q
        <5>1. CondQueue(i)' = CondQueue(i)
          BY <1>13, <4>2
        <5>2. CondQueue(i) \subseteq Cores
          BY QueuesHoldCores DEF SyncInv
        <5>3. QED
          BY <2>3, <5>1, <5>2
      <4>3. QED
        BY <4>1, <4>2
    <3>2. QED
      BY <2>1, <2>2, <3>1
  <2>4. ASSUME NEW i \in DOMAIN conds PROVE NoTwice(CoresOf(conds'[i]))
    BY <1>12 DEF SyncInv, CondQueues
  <2>5. ASSUME NEW i \in DOMAIN conds, NEW j \in DOMAIN conds'[i]
        PROVE  conds'[i][j].mux = call'[conds'[i][j].core].mux
    <3>1. i # q => conds'[i][j].mux = call'[conds'[i][j].core].mux
      BY <1>4, <1>12, <2>5 DEF SyncInv, CondQueues
    <3>2. ASSUME i = q PROVE v[j].mux = call[v[j].core].mux
      <4>1. CASE v[j] = x1
        BY <1>1, <1>2, <1>12, <4>1
      <4>2. CASE j \in DOMAIN w /\ v[j] = w[j]
        BY <1>1, <1>2, <1>12, <4>2 DEF SyncInv, CondQueues
      <4>3. QED
        BY <1>12, <2>5, <3>2, <4>1, <4>2
    <3>3. QED
      BY <1>4, <1>12, <3>1, <3>2
  <2>6. QED
    BY <1>12, <2>3, <2>4, <2>5 DEF CondQueues
<1>19. BarrierQueues'
  <2>1. ASSUME NEW i \in DOMAIN barriers, NEW d \in BarrierQueue(i)
        PROVE  Blocked(d)' /\ call'[d] = call[d]
    BY <1>4, <1>5, <1>8, <1>15, QueuesHoldCores DEF SyncInv, BarrierQueues
  <2>2. QED
    BY <1>4, <2>1, BarrierFrame
<1>20. StalledWaits'
  <2>1. SUFFICES ASSUME NEW d \in Cores, status'[d] = "STALLED"
                 PROVE  \/ \E j \in DOMAIN mutexes' : d \in MuxQueue(j)'
                        \/ \E i \in DOMAIN conds' : d \in CondQueue(i)'
                        \/ \E i \in DOMAIN barriers : d \in BarrierQueue(i)
    BY <1>4 DEF StalledWaits, BarrierQueue
  <2>2. CASE d = c
    BY <1>1, <1>2, <1>12, <1>13, <2>2
  <2>3. CASE d # c
    <3>1. status[d] = "STALLED" /\ d \notin W
      BY <1>10, <2>1, <2>3 DEF Untouched, Answered
    <3>2. \A i \in DOMAIN conds : d \in CondQueue(i) => d \in CondQueue(i)'
      BY <1>13
    <3>3. \A j \in DOMAIN mutexes : d \in MuxQueue(j) => d \in MuxQueue(j)'
      BY <1>8, <3>1
    <3>4. QED
      BY <1>8, <1>12, <3>1, <3>2, <3>3 DEF SyncInv, StalledWaits
  <2>4. QED
    BY <2>2, <2>3
<1>21. QED
  BY <1>14, <1>15, <1>16, <1>17, <1>18, <1>19, <1>20 DEF SyncInv

\* woken are waiters of one condition, with the mutex they wait with.
Wakeable(woken) ==
  /\ woken \in Seq(CondWaiter) /\ NoTwice(CoresOf(woken))
  /\ \E q \in DOMAIN conds : Range(CoresOf(woken)) \subseteq CondQueue(q)
  /\ \A j \in DOMAIN woken : woken[j].mux = call[woken[j].core].mux

\* The mutexes that go to cores when waiters are woken.
Owners(woken) ==
  UNION {NewOwner(mutexes[m], Locked(woken)[m]) : m \in DOMAIN mutexes}

\* What waking the waiters S, of whom those in W get the mutex, makes of the
\* mutexes.
MutexesWoken(S, W) ==
  /\ mutexes' \in Seq(SimMutex) /\ DOMAIN mutexes' = DOMAIN mutexes
  /\ W \subseteq S
  /\ \A j \in DOMAIN mutexes :
       /\ NoTwice(mutexes'[j].waiting)
       /\ mutexes'[j].owner = None => mutexes'[j].waiting = <<>>
       /\ MuxQueue(j)' = MuxQueue(j) \cup {d \in S \ W : call[d].mux = j}
       /\ \/ mutexes'[j].owner = mutexes[j].owner
          \/ /\ mutexes[j].owner = None
             /\ mutexes'[j].owner \in W /\ call[mutexes'[j].owner].mux = j
  /\ \A d \in W : /\ mutexes[call[d].mux].owner = None
                  /\ mutexes'[call[d].mux].owner = d

\* The woken waiters have the same mutex.
LEMMA WokenMux ==
  ASSUME SyncInv, NEW woken, Wakeable(woken), NEW S, S = Range(CoresOf(woken))
  PROVE  /\ S \subseteq Cores /\ (S = {} <=> woken = <<>>)
         /\ \A d \in S : /\ Blocked(d) /\ call[d] \in Request /\ call[d].op = "condWait"
                         /\ call[d].mux \in DOMAIN mutexes /\ d \notin MuxQueue(call[d].mux)
                         /\ Gains(call[d]) = {call[d].mux}
         /\ \A d, e \in S : call[d].mux = call[e].mux
         /\ \A j \in DOMAIN woken : woken[j].core \in S
         /\ S = {w.core : w \in Range(woken)}
<1>1. PICK q \in DOMAIN conds : S \subseteq CondQueue(q)
  BY DEF Wakeable
<1>2. S \subseteq Cores
  BY <1>1, QueuesHoldCores DEF SyncInv
<1>3. \A d \in S : /\ Blocked(d) /\ call[d].op = "condWait" /\ call[d].obj = q
                   /\ d \notin MuxQueue(call[d].mux) /\ call[d] # None
  BY <1>1 DEF SyncInv, CondQueues, Blocked
<1>4. \A d \in S : call[d] \in Request /\ call[d].mux \in DOMAIN mutexes
  BY <1>2, <1>3 DEF SyncInv, TypeOK, IdsExist, Names
<1>5. \A d, e \in S : call[d].mux = call[e].mux
  BY <1>2, <1>3 DEF SyncInv, OneMux
<1>6. \A j \in DOMAIN woken : woken[j].core \in S
  BY DEF CoresOf, Range
<1>7. S = {w.core : w \in Range(woken)}
  BY DEF CoresOf, Range
<1>8. S = {} <=> woken = <<>>
  <2>1. woken \in Seq(CondWaiter)
    BY DEF Wakeable
  <2>2. woken # <<>> => 1 \in DOMAIN woken
    BY <2>1, EmptySeq, LenProperties
  <2>3. woken = <<>> => CoresOf(woken) = <<>>
    BY <2>1, CoresOfSeq
  <2>4. QED
    BY <1>6, <2>2, <2>3, EmptyQueue
<1>9. \A d \in S : Gains(call[d]) = {call[d].mux}
  BY <1>3 DEF Gains
<1>10. QED
  BY <1>2, <1>3, <1>4, <1>5, <1>6, <1>7, <1>8, <1>9

\* SimMutex::lock by each of the woken waiters.
LEMMA WokenMutexes ==
  ASSUME SyncInv, NEW woken, Wakeable(woken), mutexes' = Locked(woken),
         NEW S, S = Range(CoresOf(woken)), NEW W, W = Owners(woken)
  PROVE  MutexesWoken(S, W)
<1>1. /\ S \subseteq Cores /\ (S = {} <=> woken = <<>>)
      /\ \A d \in S : /\ call[d].mux \in DOMAIN mutexes /\ d \notin MuxQueue(call[d].mux)
      /\ \A d, e \in S : call[d].mux = call[e].mux
      /\ \A j \in DOMAIN woken : woken[j].core \in S
  BY WokenMux
<1>2. /\ mutexes \in Seq(SimMutex) /\ Len(mutexes) \in Nat /\ DOMAIN mutexes = 1..Len(mutexes)
      /\ woken \in Seq(CondWaiter)
  BY LenProperties DEF SyncInv, TypeOK, Wakeable
<1>3. ASSUME NEW j \in DOMAIN mutexes, \A d \in S : call[d].mux # j
      PROVE  Locked(woken)[j] = mutexes[j] /\ NewOwner(mutexes[j], Locked(woken)[j]) = {}
  <2>1. \A i \in DOMAIN woken : woken[i].mux # j
    BY <1>1, <1>3 DEF Wakeable
  <2>2. CoresOn(woken, j) = <<>>
    BY <1>2, <2>1, CoresOnNone
  <2>3. QED
    BY <2>2 DEF Locked, lock, NewOwner
<1>4. CASE S = {}
  <2>1. \A j \in DOMAIN mutexes :
          Locked(woken)[j] = mutexes[j] /\ NewOwner(mutexes[j], Locked(woken)[j]) = {}
    BY <1>3, <1>4
  <2>2. W = {}
    BY <2>1 DEF Owners
  <2>3. mutexes' = mutexes
    BY <1>2, <2>1 DEF Locked
  <2>4. \A j \in DOMAIN mutexes : MuxQueue(j)' = MuxQueue(j)
    BY <2>3 DEF MuxQueue
  <2>5. QED
    BY <1>2, <1>4, <2>2, <2>3, <2>4 DEF MutexesWoken, SyncInv, MuxQueues
<1>5. CASE S # {}
  <2>1. PICK k \in DOMAIN mutexes : \A d \in S : call[d].mux = k
    BY <1>1, <1>5
  <2>2. PICK m \in SimMutex :
          /\ m = mutexes[k] /\ NoTwice(m.waiting) /\ (m.owner = None => m.waiting = <<>>)
    BY <2>1, QueuesHoldCores DEF SyncInv, MuxQueues
  <2>3. PICK ws \in Seq(Cores) :
          /\ ws = CoresOf(woken) /\ ws # <<>> /\ NoTwice(ws) /\ Range(ws) = S
          /\ CoresOn(woken, k) = ws
    <3>1. \A i \in DOMAIN woken : woken[i].mux = k
      BY <1>1, <2>1 DEF Wakeable
    <3>2. CoresOn(woken, k) = CoresOf(woken)
      BY <1>2, <3>1, CoresOnAll
    <3>3. CoresOf(woken) \in Seq(Cores) /\ CoresOf(woken) # <<>>
      BY <1>1, <1>2, <1>5, CoresOfSeq
    <3>4. QED
      BY <3>2, <3>3 DEF Wakeable
  <2>4. PICK n \in SimMutex :
          /\ n = lock(m, ws) /\ n.owner # None /\ NoTwice(n.waiting)
          /\ m.owner = None => /\ n.owner \in S /\ Range(n.waiting) = S \ {n.owner}
          /\ m.owner # None => /\ n.owner = m.owner
                               /\ Range(n.waiting) = Range(m.waiting) \cup S
    <3>1. Range(ws) \cap Range(m.waiting) = {}
      BY <1>1, <2>1, <2>2, <2>3 DEF MuxQueue
    <3>2. /\ lock(m, ws) \in SimMutex /\ lock(m, ws).owner # None
          /\ NoTwice(lock(m, ws).waiting)
          /\ m.owner = None => /\ lock(m, ws).owner = Head(ws) /\ Head(ws) \in Range(ws)
                               /\ Range(lock(m, ws).waiting) = Range(ws) \ {Head(ws)}
          /\ m.owner # None => /\ lock(m, ws).owner = m.owner
                               /\ Range(lock(m, ws).waiting) = Range(m.waiting) \cup Range(ws)
      BY <2>2, <2>3, <3>1, LockResult
    <3>3. QED
      BY <2>3, <3>2
  <2>5. Locked(woken)[k] = n /\ \A j \in DOMAIN mutexes : j # k => Locked(woken)[j] = mutexes[j]
    BY <1>3, <2>1, <2>2, <2>3, <2>4 DEF Locked
  <2>6. mutexes' = [mutexes EXCEPT ![k] = n]
    BY <1>2, <2>5 DEF Locked
  <2>7. W = IF m.owner = None THEN {n.owner} ELSE {}
    <3>1. W = NewOwner(m, n)
      <4>1. \A j \in DOMAIN mutexes : j # k => NewOwner(mutexes[j], Locked(woken)[j]) = {}
        BY <1>3, <2>1
      <4>2. NewOwner(mutexes[k], Locked(woken)[k]) = NewOwner(m, n)
        BY <2>2, <2>5
      <4>3. \A d : d \in W <=> \E j \in DOMAIN mutexes : d \in NewOwner(mutexes[j], Locked(woken)[j])
        BY DEF Owners
      <4>4. \A d : d \in W <=> d \in NewOwner(m, n)
        BY <4>1, <4>2, <4>3
      <4>5. QED
        BY <4>4
    <3>2. QED
      BY <2>4, <3>1 DEF NewOwner
  <2>8. /\ mutexes' \in Seq(SimMutex) /\ DOMAIN mutexes' = DOMAIN mutexes
        /\ mutexes'[k] = n
        /\ \A j \in DOMAIN mutexes : j # k => mutexes'[j] = mutexes[j]
        /\ MuxQueue(k)' = Range(n.waiting)
        /\ \A j \in DOMAIN mutexes : j # k => MuxQueue(j)' = MuxQueue(j)
    BY <2>1, <2>4, <2>6, ReplacedMutex
  <2>9. W \subseteq S /\ MuxQueue(k)' = MuxQueue(k) \cup (S \ W)
    <3>1. MuxQueue(k) = Range(m.waiting)
      BY <2>2 DEF MuxQueue
    <3>2. CASE m.owner = None
      BY <2>2, <2>4, <2>7, <2>8, <3>1, <3>2, EmptyQueue
    <3>3. CASE m.owner # None
      BY <2>4, <2>7, <2>8, <3>1, <3>3
    <3>4. QED
      BY <3>2, <3>3
  <2>10. ASSUME NEW j \in DOMAIN mutexes
         PROVE  MuxQueue(j)' = MuxQueue(j) \cup {d \in S \ W : call[d].mux = j}
    <3>1. CASE j = k
      BY <2>1, <2>9, <3>1
    <3>2. CASE j # k
      BY <2>1, <2>8, <3>2
    <3>3. QED
      BY <3>1, <3>2
  <2>11. ASSUME NEW j \in DOMAIN mutexes
         PROVE  /\ NoTwice(mutexes'[j].waiting)
                /\ mutexes'[j].owner = None => mutexes'[j].waiting = <<>>
                /\ \/ mutexes'[j].owner = mutexes[j].owner
                   \/ /\ mutexes[j].owner = None
                      /\ mutexes'[j].owner \in W /\ call[mutexes'[j].owner].mux = j
    <3>1. CASE j = k
      BY <2>1, <2>2, <2>4, <2>7, <2>8, <2>9, <3>1
    <3>2. CASE j # k
      BY <2>8, <3>2 DEF SyncInv, MuxQueues
    <3>3. QED
      BY <3>1, <3>2
  <2>12. \A d \in W : /\ mutexes[call[d].mux].owner = None
                      /\ mutexes'[call[d].mux].owner = d
    BY <2>1, <2>2, <2>4, <2>7, <2>8, <2>9
  <2>13. QED
    BY <2>8, <2>9, <2>10, <2>11, <2>12 DEF MutexesWoken
<1>6. QED
  BY <1>4, <1>5

\* SimCond::signal and broadcast: the waiters woken leave the queue of their
\* condition, which becomes v, for the mutex.
LEMMA WakeStep ==
  ASSUME SyncInv, NEW c \in Cores, NEW op, Takes(c, op),
         op \in {"condSignal", "condBroadcast"}, NEW code \in Codes, code = Expected(op),
         NEW woken, Wakeable(woken), Wake(c, woken, pkt[c].time, code),
         NEW q \in DOMAIN conds, NEW v \in Seq(CondWaiter), conds' = [conds EXCEPT ![q] = v],
         NoTwice(CoresOf(v)), Range(CoresOf(v)) = CondQueue(q) \ Range(CoresOf(woken)),
         Range(CoresOf(woken)) \subseteq CondQueue(q),
         \A j \in DOMAIN v : v[j].mux = call[v[j].core].mux,
         UNCHANGED clientVars, UNCHANGED barriers
  PROVE  SyncInv'
<1>1. PICK S, W : S = Range(CoresOf(woken)) /\ W = Owners(woken)
  OBVIOUS
<1>2. PICK r \in Request : r = pkt[c] /\ r = call[c] /\ r.op = op
  BY TakenPacket
<1>3. /\ err' = err \cup MayResume({w.core : w \in Range(woken)})
      /\ mutexes' = Locked(woken)
      /\ status' = SetStatus(W, "RUNNING")
      /\ Answer(Both(Each(W, Rep("MUTEX_LOCK", r.time)), One(c, Rep(code, 0))))
  BY <1>1, <1>2 DEF Wake, Check, Owners
<1>4. call' = call /\ holds' = holds /\ clk' = clk
  BY DEF clientVars
<1>5. /\ S \subseteq Cores
      /\ \A d \in S : /\ Blocked(d) /\ call[d] \in Request /\ call[d].op = "condWait"
                      /\ call[d].mux \in DOMAIN mutexes /\ d \notin MuxQueue(call[d].mux)
                      /\ Gains(call[d]) = {call[d].mux}
      /\ S = {w.core : w \in Range(woken)}
  BY <1>1, WokenMux
<1>6. MutexesWoken(S, W)
  BY <1>1, <1>3, WokenMutexes
<1>7. /\ mutexes' \in Seq(SimMutex) /\ DOMAIN mutexes' = DOMAIN mutexes /\ W \subseteq S
      /\ \A j \in DOMAIN mutexes :
           /\ NoTwice(mutexes'[j].waiting)
           /\ mutexes'[j].owner = None => mutexes'[j].waiting = <<>>
           /\ MuxQueue(j)' = MuxQueue(j) \cup {d \in S \ W : call[d].mux = j}
           /\ \/ mutexes'[j].owner = mutexes[j].owner
              \/ /\ mutexes[j].owner = None
                 /\ mutexes'[j].owner \in W /\ call[mutexes'[j].owner].mux = j
      /\ \A d \in W : /\ mutexes[call[d].mux].owner = None
                      /\ mutexes'[call[d].mux].owner = d
  BY <1>6 DEF MutexesWoken
<1>8. /\ pkt' \in [Cores -> Request \cup {None}] /\ pkt'[c] = None /\ call[c] # None
      /\ reply[c] = <<>> /\ status[c] = "RUNNING"
      /\ \A d \in Cores : d # c => pkt'[d] = pkt[d]
      /\ \A j \in DOMAIN mutexes : c \notin MuxQueue(j)
      /\ \A i \in DOMAIN conds : c \notin CondQueue(i)
      /\ \A i \in DOMAIN barriers : c \notin BarrierQueue(i)
  BY TakenPacket
<1>9. c \notin S
  BY <1>1, <1>8
<1>10. PICK x \in Reply, y \in Reply :
         /\ x = Rep("MUTEX_LOCK", r.time) /\ x.code = "MUTEX_LOCK"
         /\ y = Rep(code, 0) /\ y.code = code
  <2>1. r.time \in Nat
    BY DEF Request, Time
  <2>2. QED
    BY <2>1, Replies DEF Codes
<1>11. /\ reply' \in [Cores -> Seq(Reply)]
       /\ \A d \in Cores \ (W \cup {c}) : Untouched(d)
       /\ \A d \in W : Answered(d, x)
       /\ Answered(c, y)
  <2>1. /\ W \in SUBSET Cores /\ c \in Cores \ W /\ \A d \in W \cup {c} : reply[d] = <<>>
        /\ Answer(Both(Each(W, x), One(c, y)))
    BY <1>3, <1>5, <1>7, <1>8, <1>9, <1>10 DEF Blocked
  <2>2. /\ reply' \in [Cores -> Seq(Reply)]
        /\ reply'[c] = <<y>> /\ \A d \in W : reply'[d] = <<x>>
        /\ \A d \in Cores \ (W \cup {c}) : reply'[d] = reply[d]
    BY <2>1, AnswerBoth
  <2>3. \A d \in W : Expected(call[d].op) = "MUTEX_LOCK" /\ pkt[d] = None /\ call[d] # None
    BY <1>5, <1>7 DEF Expected, Blocked
  <2>4. \A d \in Cores : status'[d] = IF d \in W THEN "RUNNING" ELSE status[d]
    BY <1>3 DEF SetStatus
  <2>5. QED
    <3>1. Answered(c, y)
      BY <1>2, <1>7, <1>8, <1>9, <1>10, <2>2, <2>4 DEF Answered
    <3>2. \A d \in W : Answered(d, x)
      <4>1. SUFFICES ASSUME NEW d \in W PROVE Answered(d, x)
        OBVIOUS
      <4>2. d \in Cores /\ d # c /\ reply'[d] = <<x>> /\ status'[d] = "RUNNING"
        BY <1>5, <1>7, <1>9, <2>2, <2>4
      <4>3. pkt'[d] = None /\ call[d] # None /\ x.code = Expected(call[d].op)
        BY <1>8, <1>10, <2>3, <4>2
      <4>4. QED
        BY <4>2, <4>3 DEF Answered
    <3>3. \A d \in Cores \ (W \cup {c}) : Untouched(d)
      BY <1>8, <2>2, <2>4 DEF Untouched
    <3>4. QED
      BY <2>2, <3>1, <3>2, <3>3
<1>12. err' = err
  BY <1>3, <1>5 DEF Failure, MayResume, Blocked
<1>13. /\ conds' \in Seq(Seq(CondWaiter)) /\ DOMAIN conds' = DOMAIN conds /\ conds'[q] = v
       /\ \A i \in DOMAIN conds : i # q => conds'[i] = conds[i]
       /\ CondQueue(q)' = CondQueue(q) \ S
       /\ \A i \in DOMAIN conds : i # q => CondQueue(i)' = CondQueue(i)
  <2>1. conds \in Seq(Seq(CondWaiter)) /\ q \in 1..Len(conds) /\ DOMAIN conds = 1..Len(conds)
    BY LenProperties DEF SyncInv, TypeOK
  <2>2. /\ conds' \in Seq(Seq(CondWaiter)) /\ DOMAIN conds' = DOMAIN conds /\ conds'[q] = v
        /\ \A i \in DOMAIN conds : i # q => conds'[i] = conds[i]
    BY <2>1, ExceptSeq
  <2>3. QED
    BY <1>1, <2>2 DEF CondQueue
<1>14. \A i \in DOMAIN conds : CondQueue(i)' = CondQueue(i) \ S
  <2>1. ASSUME NEW i \in DOMAIN conds, i # q PROVE CondQueue(i) \cap S = {}
    BY <1>1, <2>1 DEF SyncInv, CondQueues
  <2>2. QED
    BY <1>13, <2>1
<1>15. TypeOK'
  <2>1. status' \in [Cores -> {"RUNNING", "STALLED"}]
    BY <1>3 DEF SetStatus, SyncInv, TypeOK
  <2>2. QED
    BY <1>4, <1>7, <1>8, <1>11, <1>12, <1>13, <2>1 DEF SyncInv, TypeOK
<1>16. /\ MessagesMatch'
       /\ \A d \in Cores \ (W \cup {c}) : Blocked(d) => Blocked(d)'
  BY <1>4, <1>11, MessagesNext
<1>17. NoAssertionFails'
  BY <1>12 DEF SyncInv, NoAssertionFails
<1>18. IdsExist' /\ OneMux' /\ TimesAgree'
  BY <1>7, <1>13, ClientFrame
<1>19. \A j \in DOMAIN mutexes : MuxQueue(j) \cap S = {}
  <2>1. ASSUME NEW j \in DOMAIN mutexes, NEW d \in S PROVE d \notin MuxQueue(j)
    <3>1. d \in MuxQueue(j) => j \in Gains(call[d])
      BY DEF SyncInv, MuxQueues
    <3>2. QED
      BY <1>5, <2>1, <3>1
  <2>2. QED
    BY <2>1
<1>20. MuxQueues'
  <2>1. ASSUME NEW j \in DOMAIN mutexes, NEW d \in MuxQueue(j)'
        PROVE  Blocked(d)' /\ j \in Gains(call'[d])
    <3>1. d \in MuxQueue(j) \/ (d \in S \ W /\ call[d].mux = j)
      BY <1>7, <2>1
    <3>2. CASE d \in MuxQueue(j)
      <4>1. d \in Cores /\ Blocked(d) /\ j \in Gains(call[d])
        BY <3>2, QueuesHoldCores DEF SyncInv, MuxQueues
      <4>2. d \notin W \cup {c}
        BY <1>7, <1>8, <1>19, <3>2
      <4>3. QED
        BY <1>4, <1>16, <4>1, <4>2
    <3>3. CASE d \in S \ W /\ call[d].mux = j
      BY <1>4, <1>5, <1>9, <1>16, <3>3
    <3>4. QED
      BY <3>1, <3>2, <3>3
  <2>2. QED
    BY <1>7, <2>1 DEF MuxQueues
<1>21. CondQueues'
  <2>1. ASSUME NEW i \in DOMAIN conds, NEW d \in CondQueue(i)'
        PROVE  /\ Blocked(d)' /\ call'[d].op = "condWait" /\ call'[d].obj = i
               /\ d \notin MuxQueue(call[d].mux)'
    <3>1. /\ d \in CondQueue(i) /\ d \in Cores /\ d \notin S
      BY <1>14, <2>1, QueuesHoldCores DEF SyncInv
    <3>2. /\ d \notin W \cup {c} /\ Blocked(d) /\ d \notin MuxQueue(call[d].mux)
          /\ call[d].mux \in DOMAIN mutexes /\ call[d].op = "condWait" /\ call[d].obj = i
      BY <1>7, <1>8, <3>1 DEF SyncInv, CondQueues, Blocked, IdsExist, Names
    <3>3. d \notin MuxQueue(call[d].mux)'
      BY <1>4, <1>7, <3>1, <3>2
    <3>4. QED
      BY <1>4, <1>16, <3>1, <3>2, <3>3
  <2>2. ASSUME NEW i \in DOMAIN conds
        PROVE  /\ NoTwice(CoresOf(conds'[i]))
               /\ \A j \in DOMAIN conds'[i] : conds'[i][j].mux = call'[conds'[i][j].core].mux
    <3>1. CASE i = q
      BY <1>4, <1>13, <3>1
    <3>2. CASE i # q
      BY <1>4, <1>13, <3>2 DEF SyncInv, CondQueues
    <3>3. QED
      BY <3>1, <3>2
  <2>3. QED
    BY <1>13, <2>1, <2>2 DEF CondQueues
<1>22. BarrierQueues'
  <2>1. ASSUME NEW i \in DOMAIN barriers, NEW d \in BarrierQueue(i)
        PROVE  Blocked(d)' /\ call'[d] = call[d]
    <3>1. d \in Cores /\ Blocked(d) /\ call[d].op = "barrierWait" /\ d # c
      BY <1>8, <2>1, QueuesHoldCores DEF SyncInv, BarrierQueues
    <3>2. d \notin W
      BY <1>5, <1>7, <3>1
    <3>3. QED
      BY <1>4, <1>16, <3>1, <3>2
  <2>2. QED
    BY <2>1, BarrierFrame
<1>23. StalledWaits'
  <2>1. SUFFICES ASSUME NEW d \in Cores, status'[d] = "STALLED"
                 PROVE  \/ \E j \in DOMAIN mutexes' : d \in MuxQueue(j)'
                        \/ \E i \in DOMAIN conds' : d \in CondQueue(i)'
                        \/ \E i \in DOMAIN barriers : d \in BarrierQueue(i)
    BY DEF StalledWaits, BarrierQueue
  <2>2. status[d] = "STALLED" /\ d \notin W
    BY <1>11, <2>1 DEF Untouched, Answered
  <2>3. CASE d \in S
    BY <1>5, <1>7, <2>2, <2>3
  <2>4. CASE d \notin S
    <3>1. \A i \in DOMAIN conds : d \in CondQueue(i) => d \in CondQueue(i)'
      BY <1>14, <2>4
    <3>2. \A j \in DOMAIN mutexes : d \in MuxQueue(j) => d \in MuxQueue(j)'
      BY <1>7
    <3>3. QED
      BY <1>7, <1>13, <2>2, <3>1, <3>2 DEF SyncInv, StalledWaits
  <2>5. QED
    BY <2>3, <2>4
<1>24. MutualExclusion'
  <2>1. ASSUME NEW j \in DOMAIN mutexes, NEW d \in Cores
        PROVE  d \in Claims(j)' <=> mutexes'[j].owner = d
    <3>1. CASE d \in W
      <4>1. d \in Claims(j)' <=> j \in holds[d] \/ j = call[d].mux
        <5>1. pkt'[d] = None /\ reply'[d] = <<x>> /\ x.code = "MUTEX_LOCK" /\ call[d] # None
          BY <1>10, <1>11, <3>1 DEF Answered
        <5>2. Gains(call[d]) = {call[d].mux}
          BY <1>5, <1>7, <3>1
        <5>3. QED
          BY <5>1, <5>2, ClaimsOf
      <4>2. d \in Claims(j) <=> j \in holds[d]
        BY <1>5, <1>7, <3>1, EmptyQueue DEF Claims, Blocked
      <4>3. mutexes'[call[d].mux].owner = d /\ mutexes[call[d].mux].owner = None
        BY <1>7, <3>1
      <4>4. j # call[d].mux => (mutexes'[j].owner = d <=> mutexes[j].owner = d)
        BY <1>7, SyncAssumption
      <4>5. QED
        BY <4>1, <4>2, <4>3, <4>4, ExclusionNow
    <3>2. CASE d = c
      <4>1. c \in Claims(j)' <=> j \in holds[c]
        <5>1. pkt'[c] = None /\ reply'[c] = <<y>>
          BY <1>11 DEF Answered
        <5>2. y.code # "MUTEX_LOCK"
          BY <1>10 DEF Expected
        <5>3. QED
          BY <5>1, <5>2, ClaimsOf
      <4>2. c \in Claims(j) <=> j \in holds[c]
        BY <1>2, <1>8, SenderClaims DEF Expected
      <4>3. mutexes'[j].owner = c <=> mutexes[j].owner = c
        BY <1>7, <1>9, SyncAssumption
      <4>4. QED
        BY <3>2, <4>1, <4>2, <4>3, ExclusionNow
    <3>3. CASE d \notin W /\ d # c
      <4>1. d \in Claims(j)' <=> mutexes[j].owner = d
        BY <1>11, <3>3, ClaimsOf, ExclusionNow DEF Untouched
      <4>2. mutexes'[j].owner = d <=> mutexes[j].owner = d
        BY <1>7, <3>3, SyncAssumption
      <4>3. QED
        BY <4>1, <4>2
    <3>4. QED
      BY <3>1, <3>2, <3>3
  <2>2. QED
    BY <1>7, <1>15, <2>1, ExclusionNext
<1>25. QED
  BY <1>15, <1>16, <1>17, <1>18, <1>20, <1>21, <1>22, <1>23, <1>24 DEF SyncInv

\* The queue of a condition.
LEMMA Waiters ==
  ASSUME SyncInv, NEW q \in DOMAIN conds
  PROVE  /\ conds[q] \in Seq(CondWaiter) /\ NoTwice(CoresOf(conds[q]))
         /\ Range(CoresOf(conds[q])) = CondQueue(q)
         /\ \A j \in DOMAIN conds[q] : /\ conds[q][j].core \in CondQueue(q)
                                       /\ conds[q][j].mux = call[conds[q][j].core].mux
         /\ \A d, e \in CondQueue(q) : call[d].mux = call[e].mux
<1>1. /\ conds[q] \in Seq(CondWaiter) /\ NoTwice(CoresOf(conds[q]))
      /\ Range(CoresOf(conds[q])) = CondQueue(q) /\ CondQueue(q) \subseteq Cores
  BY QueuesHoldCores DEF SyncInv, CondQueues, CondQueue
<1>2. \A j \in DOMAIN conds[q] : conds[q][j].core \in CondQueue(q)
  BY DEF CondQueue, CoresOf, Range
<1>3. \A j \in DOMAIN conds[q] : conds[q][j].mux = call[conds[q][j].core].mux
  BY DEF SyncInv, CondQueues
<1>4. \A d \in CondQueue(q) : call[d] # None /\ call[d].op = "condWait" /\ call[d].obj = q
  BY DEF SyncInv, CondQueues, Blocked
<1>5. \A d, e \in CondQueue(q) : call[d].mux = call[e].mux
  BY <1>1, <1>4 DEF SyncInv, OneMux
<1>6. QED
  BY <1>1, <1>2, <1>3, <1>5

\* SyncServer::condSignal.  The waiters that move up keep their mutex although
\* the assignment leaves the one of the place: it is the same.
LEMMA CondSignalStep ==
  ASSUME SyncInv, NEW c \in Cores, condSignal(c)
  PROVE  SyncInv'
<1>1. /\ Takes(c, "condSignal") /\ UNCHANGED clientVars /\ UNCHANGED barriers
  BY DEF condSignal
<1>2. PICK q \in DOMAIN conds : q = pkt[c].obj
  BY <1>1, TakenPacket DEF Names
<1>3. PICK w \in Seq(CondWaiter) :
        /\ w = conds[q] /\ NoTwice(CoresOf(w)) /\ Range(CoresOf(w)) = CondQueue(q)
        /\ \A j \in DOMAIN w : w[j].core \in CondQueue(q) /\ w[j].mux = call[w[j].core].mux
        /\ \A d, e \in CondQueue(q) : call[d].mux = call[e].mux
  BY Waiters
<1>4. /\ Len(w) \in Nat /\ DOMAIN w = 1..Len(w)
      /\ \A j \in 1..Len(w) : w[j] \in CondWaiter
  BY LenProperties
<1>5. PICK s \in Seq(Cores) : /\ s = CoresOf(w) /\ Len(s) = Len(w) /\ DOMAIN s = DOMAIN w
                              /\ s = <<>> <=> w = <<>>
  BY CoresOfSeq
<1>6. "COND_SIGNAL" \in Codes /\ Expected("condSignal") = "COND_SIGNAL"
  BY DEF Codes, Expected
<1>7. CASE w = <<>>
  <2>1. PICK woken : woken = w
    OBVIOUS
  <2>2. Wake(c, woken, pkt[c].time, "COND_SIGNAL") /\ conds' = conds
    BY <1>2, <1>3, <1>7, <2>1 DEF condSignal
  <2>3. conds' = [conds EXCEPT ![q] = w]
    BY <1>3, <2>2, LenProperties DEF SyncInv, TypeOK
  <2>4. Range(CoresOf(woken)) = {}
    BY <1>5, <1>7, <2>1, EmptyQueue
  <2>5. Wakeable(woken)
    BY <1>3, <1>7, <2>1, <2>4 DEF Wakeable
  <2>6. Range(CoresOf(w)) = CondQueue(q) \ Range(CoresOf(woken))
    BY <1>3, <2>4
  <2>7. QED
    BY <1>1, <1>3, <1>6, <2>2, <2>3, <2>4, <2>5, <2>6, WakeStep
<1>8. CASE w # <<>>
  <2>1. PICK woken, v : woken = <<Head(w)>> /\ v = EraseFirst(w)
    OBVIOUS
  <2>2. Wake(c, woken, pkt[c].time, "COND_SIGNAL") /\ conds' = [conds EXCEPT ![q] = v]
    BY <1>2, <1>3, <1>8, <2>1 DEF condSignal
  <2>3. /\ Len(w) \in Nat \ {0} /\ Head(w) = w[1] /\ w[1] \in CondWaiter /\ 1 \in DOMAIN w
        /\ s # <<>> /\ Head(s) = s[1]
    BY <1>4, <1>5, <1>8, EmptySeq
  <2>4. /\ woken \in Seq(CondWaiter) /\ DOMAIN woken = {1} /\ woken[1] = w[1]
        /\ CoresOf(woken) = <<w[1].core>>
    BY <2>1, <2>3 DEF CoresOf
  <2>5. w[1].core = Head(s)
    BY <1>5, <2>3 DEF CoresOf
  <2>6. /\ Range(CoresOf(woken)) = {Head(s)} /\ NoTwice(CoresOf(woken))
    BY <2>4, <2>5, EmptyQueue
  <2>7. /\ Tail(s) \in Seq(Cores) /\ NoTwice(Tail(s)) /\ Head(s) \in Range(s)
        /\ Range(Tail(s)) = CondQueue(q) \ {Head(s)}
    BY <1>3, <1>5, <2>3, TailQueue
  <2>8. Wakeable(woken)
    BY <1>3, <1>5, <2>3, <2>4, <2>6, <2>7 DEF Wakeable
  <2>9. /\ v \in Seq(CondWaiter) /\ DOMAIN v = 1..(Len(w) - 1)
        /\ \A j \in 1..(Len(w) - 1) : v[j].core = w[j + 1].core /\ v[j].mux = w[j].mux
    <3>1. v = [i \in 1..(Len(w) - 1) |-> [core |-> w[i + 1].core, mux |-> w[i].mux]]
      BY <2>1 DEF EraseFirst
    <3>2. \A i \in 1..(Len(w) - 1) : i \in 1..Len(w) /\ i + 1 \in 1..Len(w)
      BY <1>4
    <3>3. \A i \in 1..(Len(w) - 1) : [core |-> w[i + 1].core, mux |-> w[i].mux] \in CondWaiter
      BY <1>4, <3>2 DEF CondWaiter
    <3>4. Len(w) - 1 \in Nat
      BY <2>3
    <3>5. QED
      BY <3>1, <3>3, <3>4
  <2>10. CoresOf(v) = Tail(s)
    <3>1. /\ CoresOf(v) \in Seq(Cores) /\ Len(CoresOf(v)) = Len(w) - 1
          /\ \A j \in 1..(Len(w) - 1) : CoresOf(v)[j] = w[j + 1].core
      <4>1. CoresOf(v) \in Seq(Cores) /\ DOMAIN CoresOf(v) = 1..(Len(w) - 1)
        BY <2>9, CoresOfSeq
      <4>2. Len(w) - 1 \in Nat
        BY <2>3
      <4>3. Len(CoresOf(v)) = Len(w) - 1
        <5>1. /\ Len(CoresOf(v)) \in Nat
              /\ 1..Len(CoresOf(v)) = 1..(Len(w) - 1)
          BY <4>1, LenProperties
        <5>2. \A j, k \in Nat : 1..j = 1..k => j = k
          OBVIOUS
        <5>3. QED
          BY <4>2, <5>1, <5>2
      <4>4. QED
        BY <2>9, <4>1, <4>3 DEF CoresOf
    <3>2. /\ Len(Tail(s)) = Len(w) - 1
          /\ \A j \in 1..(Len(w) - 1) : Tail(s)[j] = s[j + 1] /\ j + 1 \in DOMAIN w
      BY <1>4, <1>5, <2>3, HeadTailProperties
    <3>3. \A j \in 1..(Len(w) - 1) : s[j + 1] = w[j + 1].core
      BY <1>5, <3>2 DEF CoresOf
    <3>4. QED
      BY <2>7, <3>1, <3>2, <3>3, SeqEqual
  <2>11. \A j \in DOMAIN v : v[j].mux = call[v[j].core].mux
    <3>1. \A j \in DOMAIN v : j \in DOMAIN w /\ j + 1 \in DOMAIN w
      BY <1>4, <2>9
    <3>2. \A j \in DOMAIN v : call[w[j].core].mux = call[w[j + 1].core].mux
      BY <1>3, <3>1
    <3>3. QED
      BY <1>3, <2>9, <3>1, <3>2
  <2>12. /\ NoTwice(CoresOf(v)) /\ Range(CoresOf(v)) = CondQueue(q) \ Range(CoresOf(woken))
         /\ Range(CoresOf(woken)) \subseteq CondQueue(q)
    BY <1>3, <1>5, <2>6, <2>7, <2>10
  <2>13. QED
    BY <1>1, <1>6, <2>2, <2>8, <2>9, <2>11, <2>12, WakeStep
<1>9. QED
  BY <1>7, <1>8

\* SyncServer::condBroadcast
LEMMA CondBroadcastStep ==
  ASSUME SyncInv, NEW c \in Cores, condBroadcast(c)
  PROVE  SyncInv'
<1>1. /\ Takes(c, "condBroadcast") /\ UNCHANGED clientVars /\ UNCHANGED barriers
  BY DEF condBroadcast
<1>2. PICK q \in DOMAIN conds : q = pkt[c].obj
  BY <1>1, TakenPacket DEF Names
<1>3. PICK w \in Seq(CondWaiter) :
        /\ w = conds[q] /\ NoTwice(CoresOf(w)) /\ Range(CoresOf(w)) = CondQueue(q)
        /\ \A j \in DOMAIN w : w[j].core \in CondQueue(q) /\ w[j].mux = call[w[j].core].mux
  BY Waiters
<1>4. PICK v \in Seq(CondWaiter) : v = <<>> /\ DOMAIN v = {}
  <2>1. <<>> \in Seq(CondWaiter) /\ DOMAIN <<>> = {}
    OBVIOUS
  <2>2. QED
    BY <2>1
<1>5. Wake(c, w, pkt[c].time, "COND_BROADCAST") /\ conds' = [conds EXCEPT ![q] = v]
  BY <1>2, <1>3, <1>4 DEF condBroadcast, ClearWaiting
<1>6. Wakeable(w)
  BY <1>3 DEF Wakeable
<1>7. CoresOf(v) = <<>>
  BY <1>4, CoresOfSeq
<1>8. /\ NoTwice(CoresOf(v)) /\ Range(CoresOf(v)) = CondQueue(q) \ Range(CoresOf(w))
      /\ \A j \in DOMAIN v : v[j].mux = call[v[j].core].mux
      /\ Range(CoresOf(w)) \subseteq CondQueue(q)
  BY <1>3, <1>4, <1>7, EmptyQueue
<1>9. "COND_BROADCAST" \in Codes /\ Expected("condBroadcast") = "COND_BROADCAST"
  BY DEF Codes, Expected
<1>10. QED
  BY <1>1, <1>5, <1>6, <1>8, <1>9, WakeStep
-----------------------------------------------------------------------------
(* What is created *)

\* A vector t that has the elements of s and, behind them, only copies of x.
Grown(s, t, x) ==
  /\ DOMAIN s \subseteq DOMAIN t
  /\ \A j \in DOMAIN t : /\ j \in DOMAIN s => t[j] = s[j]
                         /\ j \notin DOMAIN s => t[j] = x

\* push_back adds one element.
LEMMA AppendGrown ==
  ASSUME NEW S, NEW s \in Seq(S), NEW x \in S
  PROVE  /\ Append(s, x) \in Seq(S) /\ Grown(s, Append(s, x), x)
         /\ Len(s) + 1 \in Nat /\ Grown(s, s, x)
BY DEF Grown

\* A new mutex, condition or barrier of count n.
NewMutex == [owner |-> None, waiting |-> <<>>]
NewBarrier(n) == [count |-> n, waiting |-> <<>>, max_time |-> 0]

\* The caller gets the number of what is created, which nobody knows yet.
LEMMA CreateStep ==
  ASSUME SyncInv, NEW c \in Cores, NEW op \in {"mutexInit", "condInit", "barrierInit"},
         Takes(c, op), NEW id \in Nat, Answer(One(c, Rep("ID", id))),
         UNCHANGED clientVars, status' = status, err' \subseteq Destructors,
         mutexes' \in Seq(SimMutex), Grown(mutexes, mutexes', NewMutex),
         conds' \in Seq(Seq(CondWaiter)), Grown(conds, conds', <<>>),
         NEW n \in Nat \ {0},
         barriers' \in Seq(SimBarrier), Grown(barriers, barriers', NewBarrier(n))
  PROVE  SyncInv'
<1>1. PICK r \in Request : r = pkt[c] /\ r = call[c] /\ r # None /\ r.op = op
  BY TakenPacket
<1>2. call' = call /\ holds' = holds /\ clk' = clk
  BY DEF clientVars
<1>3. /\ pkt' \in [Cores -> Request \cup {None}] /\ pkt'[c] = None
      /\ reply[c] = <<>> /\ status[c] = "RUNNING"
      /\ \A d \in Cores : d # c => pkt'[d] = pkt[d]
  BY TakenPacket
<1>4. PICK x \in Reply : x = Rep("ID", id) /\ x.code = "ID"
  BY Replies DEF Codes
<1>5. /\ reply' \in [Cores -> Seq(Reply)] /\ reply'[c] = <<x>>
      /\ \A d \in Cores : d # c => reply'[d] = reply[d]
  <2>1. /\ One(c, x) \in [Cores -> Seq(Reply)] /\ One(c, x)[c] = <<x>>
        /\ \A d \in Cores : d # c => One(c, x)[d] = <<>>
    BY DEF One
  <2>2. Answer(One(c, x))
    BY <1>4
  <2>3. QED
    BY <1>3, <2>1, <2>2, Answers
<1>6. Answered(c, x) /\ \A d \in Cores : d # c => Untouched(d)
  <2>1. Expected(op) = "ID"
    BY DEF Expected
  <2>2. QED
    BY <1>1, <1>3, <1>4, <1>5, <2>1 DEF Answered, Untouched
<1>7. /\ MessagesMatch'
      /\ \A d \in Cores : Blocked(d) => Blocked(d)'
  <2>1. MessagesMatch' /\ \A d \in Cores : d # c /\ Blocked(d) => Blocked(d)'
    BY <1>2, <1>6, MessagesNext
  <2>2. ~Blocked(c)
    BY <1>3 DEF Blocked
  <2>3. QED
    BY <2>1, <2>2
<1>8. /\ DOMAIN mutexes \subseteq DOMAIN mutexes' /\ DOMAIN conds \subseteq DOMAIN conds'
      /\ DOMAIN barriers \subseteq DOMAIN barriers'
  BY DEF Grown
<1>9. TypeOK'
  <2>1. err' \subseteq Assertions
    BY DEF Assertions
  <2>2. QED
    BY <1>2, <1>3, <1>5, <2>1 DEF SyncInv, TypeOK
<1>10. NoAssertionFails'
  BY DEF NoAssertionFails
<1>11. IdsExist' /\ OneMux' /\ TimesAgree'
  BY <1>8, ClientFrame
<1>12. \A j \in DOMAIN mutexes' :
         \/ j \in DOMAIN mutexes /\ mutexes'[j] = mutexes[j] /\ MuxQueue(j)' = MuxQueue(j)
         \/ /\ j \notin DOMAIN mutexes /\ mutexes'[j] = NewMutex /\ MuxQueue(j)' = {}
            /\ mutexes'[j].waiting = <<>> /\ mutexes'[j].owner = None
  BY EmptyQueue DEF Grown, MuxQueue, NewMutex
<1>13. \A i \in DOMAIN conds' :
         \/ i \in DOMAIN conds /\ conds'[i] = conds[i] /\ CondQueue(i)' = CondQueue(i)
         \/ i \notin DOMAIN conds /\ conds'[i] = <<>> /\ CoresOf(conds'[i]) = <<>> /\ CondQueue(i)' = {}
            /\ DOMAIN conds'[i] = {}
  <2>1. CoresOf(<<>>) = <<>> /\ DOMAIN <<>> = {}
    BY DEF CoresOf
  <2>2. QED
    BY <2>1, EmptyQueue DEF Grown, CondQueue
<1>14. \A i \in DOMAIN barriers' :
         \/ /\ i \in DOMAIN barriers /\ barriers'[i] = barriers[i]
            /\ BarrierQueue(i)' = BarrierQueue(i)
         \/ /\ i \notin DOMAIN barriers /\ barriers'[i] = NewBarrier(n) /\ BarrierQueue(i)' = {}
            /\ barriers'[i].waiting = <<>> /\ barriers'[i].count = n
  BY EmptyQueue DEF Grown, BarrierQueue, NewBarrier
<1>15. MuxQueues'
  <2>1. SUFFICES ASSUME NEW j \in DOMAIN mutexes'
                 PROVE  /\ mutexes'[j].owner = None => mutexes'[j].waiting = <<>>
                        /\ NoTwice(mutexes'[j].waiting)
                        /\ \A d \in MuxQueue(j)' : Blocked(d)' /\ j \in Gains(call'[d])
    BY DEF MuxQueues
  <2>2. CASE j \in DOMAIN mutexes
    <3>1. /\ mutexes[j].owner = None => mutexes[j].waiting = <<>>
          /\ NoTwice(mutexes[j].waiting)
          /\ \A d \in MuxQueue(j) : d \in Cores /\ Blocked(d) /\ j \in Gains(call[d])
      BY <2>2, QueuesHoldCores DEF SyncInv, MuxQueues
    <3>2. QED
      BY <1>2, <1>7, <1>12, <2>2, <3>1
  <2>3. CASE j \notin DOMAIN mutexes
    BY <1>12, <2>3, EmptyQueue
  <2>4. QED
    BY <2>2, <2>3
<1>16. CondQueues'
  <2>1. SUFFICES ASSUME NEW i \in DOMAIN conds'
                 PROVE  /\ NoTwice(CoresOf(conds'[i]))
                        /\ \A d \in CondQueue(i)' :
                             /\ Blocked(d)' /\ call'[d].op = "condWait" /\ call'[d].obj = i
                             /\ d \notin MuxQueue(call[d].mux)'
                        /\ \A k \in DOMAIN conds'[i] :
                             conds'[i][k].mux = call'[conds'[i][k].core].mux
    BY DEF CondQueues
  <2>2. CASE i \in DOMAIN conds
    <3>1. /\ NoTwice(CoresOf(conds[i]))
          /\ \A d \in CondQueue(i) :
               /\ d \in Cores /\ Blocked(d) /\ call[d].op = "condWait" /\ call[d].obj = i
               /\ d \notin MuxQueue(call[d].mux)
          /\ \A k \in DOMAIN conds[i] : conds[i][k].mux = call[conds[i][k].core].mux
      BY <2>2, QueuesHoldCores DEF SyncInv, CondQueues
    <3>2. \A d \in CondQueue(i) : call[d].mux \in DOMAIN mutexes
      BY <3>1 DEF SyncInv, IdsExist, Names, Blocked
    <3>3. \A d \in CondQueue(i) : d \notin MuxQueue(call[d].mux)'
      <4>1. SUFFICES ASSUME NEW d \in CondQueue(i) PROVE d \notin MuxQueue(call[d].mux)'
        OBVIOUS
      <4>2. PICK k \in DOMAIN mutexes : k = call[d].mux /\ d \notin MuxQueue(k)
        BY <3>1, <3>2
      <4>3. d \notin MuxQueue(k)'
        BY <1>8, <1>12, <4>2
      <4>4. QED
        BY <1>2, <4>2, <4>3
    <3>4. QED
      BY <1>2, <1>7, <1>13, <2>2, <3>1, <3>3
  <2>3. CASE i \notin DOMAIN conds
    BY <1>13, <2>3, EmptyQueue
  <2>4. QED
    BY <2>2, <2>3
<1>17. BarrierQueues'
  <2>1. SUFFICES ASSUME NEW i \in DOMAIN barriers'
                 PROVE  /\ Len(barriers'[i].waiting) < barriers'[i].count
                        /\ NoTwice(barriers'[i].waiting)
                        /\ \A d \in BarrierQueue(i)' :
                             /\ Blocked(d)' /\ call'[d].op = "barrierWait" /\ call'[d].obj = i
                             /\ call'[d].time <= barriers'[i].max_time
                        /\ barriers'[i].waiting # <<>> =>
                             \E d \in BarrierQueue(i)' : call'[d].time = barriers'[i].max_time
    BY DEF BarrierQueues
  <2>2. CASE i \in DOMAIN barriers
    <3>1. /\ Len(barriers[i].waiting) < barriers[i].count
          /\ NoTwice(barriers[i].waiting)
          /\ \A d \in BarrierQueue(i) :
               /\ d \in Cores /\ Blocked(d) /\ call[d].op = "barrierWait" /\ call[d].obj = i
               /\ call[d].time <= barriers[i].max_time
          /\ barriers[i].waiting # <<>> =>
               \E d \in BarrierQueue(i) : call[d].time = barriers[i].max_time
      BY <2>2, QueuesHoldCores DEF SyncInv, BarrierQueues
    <3>2. QED
      BY <1>2, <1>7, <1>14, <2>2, <3>1
  <2>3. CASE i \notin DOMAIN barriers
    <3>1. Len(<<>>) = 0
      OBVIOUS
    <3>2. QED
      BY <1>14, <2>3, <3>1, EmptyQueue
  <2>4. QED
    BY <2>2, <2>3
<1>18. StalledWaits'
  <2>1. SUFFICES ASSUME NEW d \in Cores, status[d] = "STALLED"
                 PROVE  \/ \E j \in DOMAIN mutexes' : d \in MuxQueue(j)'
                        \/ \E i \in DOMAIN conds' : d \in CondQueue(i)'
                        \/ \E i \in DOMAIN barriers' : d \in BarrierQueue(i)'
    BY DEF StalledWaits
  <2>2. QED
    BY <1>8, <1>12, <1>13, <1>14, <2>1 DEF SyncInv, StalledWaits
<1>19. ASSUME NEW d \in Cores, NEW j
       PROVE  d \in Claims(j)' <=> d \in Claims(j)
  <2>1. CASE d = c
    <3>1. c \in Claims(j)' <=> j \in holds[c]
      BY <1>4, <1>5, <1>3, ClaimsOf
    <3>2. c \in Claims(j) <=> j \in holds[c]
      BY <1>1, SenderClaims
    <3>3. QED
      BY <2>1, <3>1, <3>2
  <2>2. CASE d # c
    BY <1>6, <2>2, ClaimsOf DEF Untouched
  <2>3. QED
    BY <2>1, <2>2
<1>20. ASSUME NEW d \in Cores, NEW j, d \in Claims(j) PROVE j \in DOMAIN mutexes
  <2>1. /\ holds[d] \subseteq DOMAIN mutexes
        /\ call[d] # None => Names(call[d], holds[d])
        /\ pkt[d] # None => pkt[d] = call[d]
    BY DEF SyncInv, IdsExist, TypeOK
  <2>2. QED
    BY <1>20, <2>1 DEF Claims, Gains, Names
<1>21. MutualExclusion'
  <2>1. ASSUME NEW j \in DOMAIN mutexes', NEW d \in Cores
        PROVE  d \in Claims(j)' <=> mutexes'[j].owner = d
    <3>1. CASE j \in DOMAIN mutexes
      BY <1>12, <1>19, <3>1, ExclusionNow
    <3>2. CASE j \notin DOMAIN mutexes
      BY <1>12, <1>19, <1>20, <3>2, SyncAssumption
    <3>3. QED
      BY <3>1, <3>2
  <2>2. QED
    BY <1>9, <2>1, ExclusionNext
<1>22. QED
  BY <1>7, <1>9, <1>10, <1>11, <1>15, <1>16, <1>17, <1>18, <1>21 DEF SyncInv

\* SyncServer::mutexInit, condInit and barrierInit
LEMMA InitSteps ==
  ASSUME SyncInv, NEW c \in Cores, mutexInit(c) \/ condInit(c) \/ barrierInit(c)
  PROVE  SyncInv'
<1>1. /\ mutexes \in Seq(SimMutex) /\ conds \in Seq(Seq(CondWaiter))
      /\ barriers \in Seq(SimBarrier) /\ err \subseteq Destructors
  BY DEF SyncInv, TypeOK, NoAssertionFails
<1>2. /\ NewMutex \in SimMutex /\ <<>> \in Seq(CondWaiter)
      /\ \A n \in Nat : NewBarrier(n) \in SimBarrier
  <2>1. <<>> \in Seq(Cores) /\ <<>> \in Seq(CondWaiter)
    OBVIOUS
  <2>2. QED
    BY <2>1 DEF NewMutex, NewBarrier, SimMutex, SimBarrier, Time
<1>3. /\ Grown(mutexes, mutexes, NewMutex) /\ Grown(conds, conds, <<>>)
      /\ \A n : Grown(barriers, barriers, NewBarrier(n))
  BY DEF Grown
<1>4. \A name \in Destructors : \A p : err \cup Failure(name, p) \subseteq Destructors
  BY <1>1 DEF Failure
<1>5. "~SimMutex" \in Destructors /\ "~SimCond" \in Destructors /\ "~SimBarrier" \in Destructors
  BY DEF Destructors
<1>6. CASE mutexInit(c)
  <2>1. PICK id : id = Len(mutexes) + 1
    OBVIOUS
  <2>2. /\ Takes(c, "mutexInit") /\ Answer(One(c, Rep("ID", id)))
        /\ UNCHANGED clientVars /\ status' = status
        /\ mutexes' = Append(mutexes, NewMutex) /\ conds' = conds /\ barriers' = barriers
    BY <1>6, <2>1 DEF mutexInit, NewMutex
  <2>3. err' \subseteq Destructors
    BY <1>4, <1>5, <1>6 DEF mutexInit, Check
  <2>4. mutexes' \in Seq(SimMutex) /\ Grown(mutexes, mutexes', NewMutex) /\ id \in Nat
    BY <1>1, <1>2, <2>1, <2>2, AppendGrown
  <2>5. Grown(conds, conds', <<>>) /\ Grown(barriers, barriers', NewBarrier(1))
    BY <1>3, <2>2
  <2>6. "mutexInit" \in {"mutexInit", "condInit", "barrierInit"} /\ 1 \in Nat \ {0}
    OBVIOUS
  <2>7. conds' \in Seq(Seq(CondWaiter)) /\ barriers' \in Seq(SimBarrier)
    BY <1>1, <2>2
  <2>8. QED
    BY <2>2, <2>3, <2>4, <2>5, <2>6, <2>7, CreateStep
<1>7. CASE condInit(c)
  <2>1. PICK id : id = Len(conds) + 1
    OBVIOUS
  <2>2. /\ Takes(c, "condInit") /\ Answer(One(c, Rep("ID", id)))
        /\ UNCHANGED clientVars /\ status' = status
        /\ conds' = Append(conds, <<>>) /\ mutexes' = mutexes /\ barriers' = barriers
    BY <1>7, <2>1 DEF condInit
  <2>3. err' \subseteq Destructors
    BY <1>4, <1>5, <1>7 DEF condInit, Check
  <2>4. conds' \in Seq(Seq(CondWaiter)) /\ Grown(conds, conds', <<>>) /\ id \in Nat
    BY <1>1, <1>2, <2>1, <2>2, AppendGrown
  <2>5. Grown(mutexes, mutexes', NewMutex) /\ Grown(barriers, barriers', NewBarrier(1))
    BY <1>3, <2>2
  <2>6. "condInit" \in {"mutexInit", "condInit", "barrierInit"} /\ 1 \in Nat \ {0}
    OBVIOUS
  <2>7. mutexes' \in Seq(SimMutex) /\ barriers' \in Seq(SimBarrier)
    BY <1>1, <2>2
  <2>8. QED
    BY <2>2, <2>3, <2>4, <2>5, <2>6, <2>7, CreateStep
<1>8. CASE barrierInit(c)
  <2>1. PICK id, n : id = Len(barriers) + 1 /\ n = pkt[c].obj
    OBVIOUS
  <2>2. /\ Takes(c, "barrierInit") /\ Answer(One(c, Rep("ID", id)))
        /\ UNCHANGED clientVars /\ status' = status
        /\ barriers' = Append(barriers, NewBarrier(n)) /\ mutexes' = mutexes /\ conds' = conds
    BY <1>8, <2>1 DEF barrierInit, NewBarrier
  <2>3. err' \subseteq Destructors
    BY <1>4, <1>5, <1>8 DEF barrierInit, Check
  <2>4. n \in Nat \ {0}
    BY <2>1, <2>2, TakenPacket DEF Names, Request
  <2>5. barriers' \in Seq(SimBarrier) /\ Grown(barriers, barriers', NewBarrier(n)) /\ id \in Nat
    BY <1>1, <1>2, <2>1, <2>2, <2>4, AppendGrown
  <2>6. Grown(mutexes, mutexes', NewMutex) /\ Grown(conds, conds', <<>>)
    BY <1>3, <2>2
  <2>7. "barrierInit" \in {"mutexInit", "condInit", "barrierInit"}
    OBVIOUS
  <2>8. mutexes' \in Seq(SimMutex) /\ conds' \in Seq(Seq(CondWaiter))
    BY <1>1, <2>2
  <2>9. QED
    BY <2>2, <2>3, <2>4, <2>5, <2>6, <2>7, <2>8, CreateStep
<1>9. QED
  BY <1>6, <1>7, <1>8

-----------------------------------------------------------------------------
(* Barriers *)

\* The barrier after core c has arrived at time: it is last or it is queued,
\* and the barrier knows the latest time of all.
Arrived(b, c, time) ==
  [b EXCEPT !.waiting = Append(@, c), !.max_time = MaxTimeOf(b, time)]

\* A barrier that a core arrives at.
LEMMA ArrivedBarrier ==
  ASSUME NEW b \in SimBarrier, NEW c \in Cores, NEW time \in Nat,
         Len(b.waiting) < b.count, NoTwice(b.waiting), c \notin Range(b.waiting)
  PROVE  /\ Arrived(b, c, time) \in SimBarrier
         /\ Arrived(b, c, time).count = b.count
         /\ Arrived(b, c, time).waiting = Append(b.waiting, c)
         /\ Arrived(b, c, time).waiting # <<>>
         /\ Range(Arrived(b, c, time).waiting) = Range(b.waiting) \cup {c}
         /\ NoTwice(Arrived(b, c, time).waiting)
         /\ Len(Arrived(b, c, time).waiting) <= b.count
         /\ Arrived(b, c, time).max_time >= time
         /\ b.waiting # <<>> => Arrived(b, c, time).max_time >= b.max_time
         /\ \/ Arrived(b, c, time).max_time = time
            \/ b.waiting # <<>> /\ Arrived(b, c, time).max_time = b.max_time
<1>1. b.waiting \in Seq(Cores) /\ b.count \in Nat /\ b.max_time \in Nat
  BY DEF SimBarrier, Time
<1>2. /\ Append(b.waiting, c) \in Seq(Cores) /\ Append(b.waiting, c) # <<>>
      /\ Len(Append(b.waiting, c)) = Len(b.waiting) + 1
      /\ Range(Append(b.waiting, c)) = Range(b.waiting) \cup {c}
      /\ NoTwice(Append(b.waiting, c))
  BY <1>1, AppendQueue
<1>3. Len(b.waiting) + 1 <= b.count
  BY <1>1, LenProperties
<1>4. /\ MaxTimeOf(b, time) \in Nat /\ MaxTimeOf(b, time) >= time
      /\ b.waiting # <<>> => MaxTimeOf(b, time) >= b.max_time
      /\ \/ MaxTimeOf(b, time) = time
         \/ b.waiting # <<>> /\ MaxTimeOf(b, time) = b.max_time
  BY <1>1 DEF MaxTimeOf
<1>5. /\ Arrived(b, c, time) \in SimBarrier
      /\ Arrived(b, c, time).count = b.count
      /\ Arrived(b, c, time).waiting = Append(b.waiting, c)
      /\ Arrived(b, c, time).max_time = MaxTimeOf(b, time)
  <2>1. PICK w \in Seq(Cores), m \in Nat : w = Append(b.waiting, c) /\ m = MaxTimeOf(b, time)
    BY <1>2, <1>4
  <2>2. Arrived(b, c, time) = [b EXCEPT !.waiting = w, !.max_time = m]
    BY <2>1 DEF Arrived
  <2>3. QED
    BY <2>1, <2>2 DEF SimBarrier, Time
<1>6. QED
  BY <1>1, <1>2, <1>3, <1>4, <1>5

\* Core c arrives at barrier k, which n becomes: all are the cores that are
\* then there, and they agree on the latest time.
ArrivesAt(c, k, n, all) ==
  /\ k \in DOMAIN barriers /\ n \in SimBarrier /\ n.count = barriers[k].count
  /\ n.waiting # <<>> /\ NoTwice(n.waiting) /\ Range(n.waiting) = all
  /\ Len(n.waiting) <= n.count /\ n.count > 0
  /\ all \subseteq Cores /\ all = BarrierQueue(k) \cup {c}
  /\ \A d \in BarrierQueue(k) : Blocked(d)
  /\ \A d \in all : /\ call[d] # None /\ call[d].op = "barrierWait" /\ call[d].obj = k
                    /\ reply[d] = <<>> /\ call[d].time <= n.max_time
  /\ \E d \in all : call[d].time = n.max_time

\* What the server does then: it lets all of them out with reply x, or c stalls.
LetsOut(c, k, n, all, x) ==
  /\ x = Rep("BARRIER_WAIT", n.max_time) /\ err' = err
  /\ barriers' \in Seq(SimBarrier) /\ DOMAIN barriers' = DOMAIN barriers
  /\ barriers'[k].count = n.count /\ barriers'[k].max_time = n.max_time
  /\ barriers'[k].waiting = IF Complete(n) THEN <<>> ELSE n.waiting
  /\ \A i \in DOMAIN barriers : i # k => barriers'[i] = barriers[i]
  /\ BarrierQueue(k)' = IF Complete(n) THEN {} ELSE all
  /\ \A i \in DOMAIN barriers : i # k => BarrierQueue(i)' = BarrierQueue(i)
  /\ reply' \in [Cores -> Seq(Reply)]
  /\ status' \in [Cores -> {"RUNNING", "STALLED"}]
  /\ Complete(n) => \A d \in all : Answered(d, x)
  /\ Complete(n) => \A d \in Cores \ all : Untouched(d)
  /\ ~Complete(n) => Stalls(c) /\ \A d \in Cores \ {c} : Untouched(d)

\* SimBarrier::wait
LEMMA Arrival ==
  ASSUME SyncInv, NEW c \in Cores, barrierWait(c)
  PROVE  \E k, n, all, x : ArrivesAt(c, k, n, all) /\ LetsOut(c, k, n, all, x)
<1>1. Takes(c, "barrierWait")
  BY DEF barrierWait
<1>2. PICK r \in Request :
        /\ r = pkt[c] /\ r = call[c] /\ r # None /\ r.op = "barrierWait"
        /\ r.obj \in DOMAIN barriers
  BY <1>1, TakenPacket DEF Names
<1>3. r.time \in Nat /\ Gains(r) = {} /\ Expected(r.op) = "BARRIER_WAIT"
  BY <1>2 DEF Request, Time, Gains, Expected
<1>4. PICK k \in DOMAIN barriers : k = r.obj
  BY <1>2
<1>5. PICK b \in SimBarrier :
        /\ b = barriers[k] /\ Len(b.waiting) < b.count /\ NoTwice(b.waiting)
        /\ BarrierQueue(k) = Range(b.waiting) /\ BarrierQueue(k) \subseteq Cores
        /\ \A d \in BarrierQueue(k) :
             /\ Blocked(d) /\ call[d].op = "barrierWait" /\ call[d].obj = k
             /\ call[d].time <= b.max_time
        /\ b.waiting # <<>> => \E d \in BarrierQueue(k) : call[d].time = b.max_time
  <2>1. barriers[k] \in SimBarrier /\ BarrierQueue(k) \subseteq Cores
    BY QueuesHoldCores DEF SyncInv
  <2>2. BarrierQueue(k) = Range(barriers[k].waiting)
    BY DEF BarrierQueue
  <2>3. QED
    BY <2>1, <2>2 DEF SyncInv, BarrierQueues
<1>6. /\ pkt' \in [Cores -> Request \cup {None}] /\ pkt'[c] = None
      /\ reply[c] = <<>> /\ status[c] = "RUNNING"
      /\ \A d \in Cores : d # c => pkt'[d] = pkt[d]
      /\ \A j \in DOMAIN mutexes : c \notin MuxQueue(j)
      /\ \A i \in DOMAIN conds : c \notin CondQueue(i)
      /\ \A i \in DOMAIN barriers : c \notin BarrierQueue(i)
  BY <1>1, TakenPacket
<1>7. PICK n \in SimBarrier :
        /\ n = Arrived(b, c, r.time) /\ n.count = b.count /\ n.waiting # <<>>
        /\ Range(n.waiting) = BarrierQueue(k) \cup {c} /\ NoTwice(n.waiting)
        /\ Len(n.waiting) <= n.count /\ n.max_time >= r.time
        /\ b.waiting # <<>> => n.max_time >= b.max_time
        /\ n.max_time = r.time \/ (b.waiting # <<>> /\ n.max_time = b.max_time)
  <2>1. c \notin Range(b.waiting)
    BY <1>5, <1>6
  <2>2. /\ Arrived(b, c, r.time) \in SimBarrier
        /\ Arrived(b, c, r.time).count = b.count
        /\ Arrived(b, c, r.time).waiting # <<>>
        /\ Range(Arrived(b, c, r.time).waiting) = Range(b.waiting) \cup {c}
        /\ NoTwice(Arrived(b, c, r.time).waiting)
        /\ Len(Arrived(b, c, r.time).waiting) <= b.count
        /\ Arrived(b, c, r.time).max_time >= r.time
        /\ b.waiting # <<>> => Arrived(b, c, r.time).max_time >= b.max_time
        /\ \/ Arrived(b, c, r.time).max_time = r.time
           \/ b.waiting # <<>> /\ Arrived(b, c, r.time).max_time = b.max_time
    BY <1>3, <1>5, <2>1, ArrivedBarrier
  <2>3. QED
    BY <1>5, <2>2
<1>8. PICK all : all = BarrierQueue(k) \cup {c}
  OBVIOUS
<1>9. /\ UNCHANGED clientVars /\ UNCHANGED <<mutexes, conds>>
      /\ call' = call /\ holds' = holds /\ clk' = clk
  BY DEF barrierWait, clientVars
<1>10. /\ err' = err \cup (MayStall({c})
                   \cup Failure("barrier_count", Len(n.waiting) <= n.count)
                   \cup (IF Complete(n) THEN MayResume(all \ {c}) ELSE {}))
       /\ IF Complete(n)
          THEN /\ barriers' = [barriers EXCEPT ![k] = [n EXCEPT !.waiting = <<>>]]
               /\ status' = SetStatus(all, "RUNNING")
               /\ Answer(Each(all, Rep("BARRIER_WAIT", n.max_time)))
          ELSE /\ barriers' = [barriers EXCEPT ![k] = n]
               /\ status' = SetStatus({c}, "STALLED")
               /\ UNCHANGED reply
  BY <1>2, <1>4, <1>5, <1>7, <1>8 DEF barrierWait, Check, Arrived
<1>11. err' = err
  <2>1. MayStall({c}) = {} /\ Failure("barrier_count", Len(n.waiting) <= n.count) = {}
    BY <1>6, <1>7 DEF MayStall, Failure
  <2>2. MayResume(all \ {c}) = {}
    BY <1>5, <1>8 DEF MayResume, Failure, Blocked
  <2>3. QED
    BY <1>10, <2>1, <2>2
<1>12. PICK nb \in SimBarrier :
         /\ barriers' = [barriers EXCEPT ![k] = nb] /\ nb.count = n.count
         /\ nb.max_time = n.max_time
         /\ nb.waiting = IF Complete(n) THEN <<>> ELSE n.waiting
  <2>1. <<>> \in Seq(Cores)
    OBVIOUS
  <2>2. /\ [n EXCEPT !.waiting = <<>>] \in SimBarrier
        /\ [n EXCEPT !.waiting = <<>>].count = n.count
        /\ [n EXCEPT !.waiting = <<>>].max_time = n.max_time
        /\ [n EXCEPT !.waiting = <<>>].waiting = <<>>
    BY <2>1 DEF SimBarrier
  <2>3. QED
    BY <1>10, <2>2
<1>13. /\ barriers' \in Seq(SimBarrier) /\ DOMAIN barriers' = DOMAIN barriers
       /\ barriers'[k] = nb
       /\ \A i \in DOMAIN barriers : i # k => barriers'[i] = barriers[i]
  <2>1. barriers \in Seq(SimBarrier) /\ k \in 1..Len(barriers) /\ DOMAIN barriers = 1..Len(barriers)
    BY LenProperties DEF SyncInv, TypeOK
  <2>2. QED
    BY <1>12, <2>1, ExceptSeq
<1>14. /\ BarrierQueue(k)' = IF Complete(n) THEN {} ELSE all
       /\ \A i \in DOMAIN barriers : i # k => BarrierQueue(i)' = BarrierQueue(i)
  <2>1. BarrierQueue(k)' = Range(nb.waiting)
    BY <1>13 DEF BarrierQueue
  <2>2. \A i \in DOMAIN barriers : i # k => BarrierQueue(i)' = BarrierQueue(i)
    BY <1>13 DEF BarrierQueue
  <2>3. QED
    BY <1>7, <1>8, <1>12, <2>1, <2>2, EmptyQueue
<1>15. all \subseteq Cores /\ \A d \in all : reply[d] = <<>>
  BY <1>5, <1>6, <1>8 DEF Blocked
<1>16. PICK x \in Reply : x = Rep("BARRIER_WAIT", n.max_time) /\ x.code = "BARRIER_WAIT"
  <2>1. n.max_time \in Nat
    BY DEF SimBarrier, Time
  <2>2. QED
    BY <2>1, Replies DEF Codes
<1>17. /\ reply' \in [Cores -> Seq(Reply)]
       /\ status' \in [Cores -> {"RUNNING", "STALLED"}]
       /\ Complete(n) => \A d \in all : Answered(d, x)
       /\ Complete(n) => \A d \in Cores \ all : Untouched(d)
       /\ ~Complete(n) => Stalls(c) /\ \A d \in Cores \ {c} : Untouched(d)
  <2>1. CASE Complete(n)
    <3>1. Answer(Each(all, x)) /\ status' = SetStatus(all, "RUNNING")
      BY <1>10, <1>16, <2>1
    <3>2. /\ reply' \in [Cores -> Seq(Reply)] /\ \A d \in all : reply'[d] = <<x>>
          /\ \A d \in Cores \ all : reply'[d] = reply[d]
      BY <1>15, <3>1, AnswerEach
    <3>3. /\ status' \in [Cores -> {"RUNNING", "STALLED"}]
          /\ \A d \in Cores : status'[d] = IF d \in all THEN "RUNNING" ELSE status[d]
      BY <3>1 DEF SetStatus, SyncInv, TypeOK
    <3>4. \A d \in all : /\ pkt'[d] = None /\ call[d] # None
                         /\ Expected(call[d].op) = "BARRIER_WAIT"
      <4>1. SUFFICES ASSUME NEW d \in all
                     PROVE  /\ pkt'[d] = None /\ call[d] # None
                            /\ Expected(call[d].op) = "BARRIER_WAIT"
        OBVIOUS
      <4>2. CASE d = c
        BY <1>2, <1>3, <1>6, <4>2
      <4>3. CASE d # c
        BY <1>3, <1>5, <1>2, <1>6, <1>8, <4>3 DEF Blocked
      <4>4. QED
        BY <4>2, <4>3
    <3>5. QED
      <4>1. \A d \in all : Answered(d, x)
        BY <1>15, <1>16, <3>2, <3>3, <3>4 DEF Answered
      <4>2. \A d \in Cores \ all : Untouched(d)
        BY <1>6, <1>8, <3>2, <3>3 DEF Untouched
      <4>3. QED
        BY <2>1, <3>2, <3>3, <4>1, <4>2
  <2>2. CASE ~Complete(n)
    <3>1. reply' = reply /\ status' = SetStatus({c}, "STALLED")
      BY <1>10, <2>2
    <3>2. QED
      BY <1>2, <1>6, <2>2, <3>1 DEF SetStatus, Stalls, Untouched, SyncInv, TypeOK
  <2>3. QED
    BY <2>1, <2>2
<1>18. \A d \in all : call[d] # None /\ call[d].op = "barrierWait" /\ call[d].obj = k
  BY <1>2, <1>4, <1>5, <1>8 DEF Blocked
<1>19. \A d \in all : call[d].time <= n.max_time
  <2>1. SUFFICES ASSUME NEW d \in all PROVE call[d].time <= n.max_time
    OBVIOUS
  <2>2. CASE d = c
    BY <1>2, <1>3, <1>7, <2>2 DEF SimBarrier, Time
  <2>3. CASE d # c
    <3>1. d \in BarrierQueue(k) /\ d \in Cores
      BY <1>5, <1>8, <2>3
    <3>2. b.waiting # <<>>
      BY <1>5, <3>1, EmptyQueue
    <3>3. call[d].time <= b.max_time /\ n.max_time >= b.max_time
      BY <1>5, <1>7, <3>1, <3>2
    <3>4. call[d].time \in Nat /\ b.max_time \in Nat /\ n.max_time \in Nat
      BY <1>18, <2>1, <3>1 DEF SyncInv, TypeOK, SimBarrier, Request, Time
    <3>5. QED
      BY <3>3, <3>4
  <2>4. QED
    BY <2>2, <2>3
<1>20. \E d \in all : call[d].time = n.max_time
  BY <1>2, <1>5, <1>7, <1>8
<1>21. n.count > 0
  <2>1. n.count \in Nat /\ n.waiting \in Seq(Cores)
    BY DEF SimBarrier
  <2>2. Len(n.waiting) \in Nat \ {0}
    BY <1>7, <2>1, LenProperties, EmptySeq
  <2>3. QED
    BY <1>7, <2>1, <2>2
<1>22. ArrivesAt(c, k, n, all)
  BY <1>5, <1>7, <1>8, <1>15, <1>18, <1>19, <1>20, <1>21 DEF ArrivesAt
<1>23. LetsOut(c, k, n, all, x)
  BY <1>11, <1>12, <1>13, <1>14, <1>16, <1>17 DEF LetsOut
<1>24. QED
  BY <1>22, <1>23

\* SyncServer::barrierWait
LEMMA BarrierWaitStep ==
  ASSUME SyncInv, NEW c \in Cores, barrierWait(c)
  PROVE  SyncInv'
<1>1. PICK k, n, all, x : ArrivesAt(c, k, n, all) /\ LetsOut(c, k, n, all, x)
  BY Arrival
<1>2. /\ pkt' \in [Cores -> Request \cup {None}] /\ pkt'[c] = None /\ pkt[c] # None
      /\ pkt[c].op = "barrierWait"
      /\ \A d \in Cores : d # c => pkt'[d] = pkt[d]
  <2>1. Takes(c, "barrierWait")
    BY DEF barrierWait
  <2>2. QED
    BY <2>1, TakenPacket
<1>3. /\ k \in DOMAIN barriers /\ n \in SimBarrier /\ n.waiting # <<>> /\ NoTwice(n.waiting)
      /\ Len(n.waiting) <= n.count /\ n.count > 0
  BY <1>1 DEF ArrivesAt
<1>4. /\ all \subseteq Cores /\ all = BarrierQueue(k) \cup {c}
      /\ \A d \in BarrierQueue(k) : Blocked(d)
  BY <1>1 DEF ArrivesAt
<1>5. /\ UNCHANGED clientVars /\ UNCHANGED <<mutexes, conds>>
      /\ call' = call /\ holds' = holds /\ clk' = clk
  BY DEF barrierWait, clientVars
<1>6. /\ barriers'[k].count = n.count /\ barriers'[k].max_time = n.max_time
      /\ barriers'[k].waiting = IF Complete(n) THEN <<>> ELSE n.waiting
  BY <1>1 DEF LetsOut
<1>7. /\ barriers' \in Seq(SimBarrier) /\ DOMAIN barriers' = DOMAIN barriers
      /\ \A i \in DOMAIN barriers : i # k => barriers'[i] = barriers[i]
      /\ err' = err
  BY <1>1 DEF LetsOut
<1>8. /\ BarrierQueue(k)' = IF Complete(n) THEN {} ELSE all
      /\ \A i \in DOMAIN barriers : i # k => BarrierQueue(i)' = BarrierQueue(i)
  BY <1>1 DEF LetsOut
<1>9. /\ reply' \in [Cores -> Seq(Reply)]
      /\ status' \in [Cores -> {"RUNNING", "STALLED"}]
      /\ Complete(n) => \A d \in all : Answered(d, x)
      /\ Complete(n) => \A d \in Cores \ all : Untouched(d)
      /\ ~Complete(n) => Stalls(c) /\ \A d \in Cores \ {c} : Untouched(d)
  BY <1>1 DEF LetsOut
<1>10. /\ \A d \in all : /\ call[d] # None /\ call[d].op = "barrierWait" /\ call[d].obj = k
                         /\ call[d].time <= n.max_time
       /\ \E d \in all : call[d].time = n.max_time
  BY <1>1 DEF ArrivesAt
<1>11. TypeOK'
  BY <1>2, <1>5, <1>7, <1>9 DEF SyncInv, TypeOK
<1>12. NoAssertionFails'
  BY <1>7 DEF SyncInv, NoAssertionFails
<1>13. IdsExist' /\ OneMux' /\ TimesAgree'
  BY <1>5, <1>7, ClientFrame
<1>14. \A d \in Cores : Untouched(d) \/ (\E y : Answered(d, y)) \/ Stalls(d)
  <2>1. CASE Complete(n)
    BY <1>9, <2>1
  <2>2. CASE ~Complete(n)
    BY <1>9, <2>2
  <2>3. QED
    BY <2>1, <2>2
<1>15. /\ MessagesMatch'
       /\ \A d \in Cores : d \notin all /\ Blocked(d) => Blocked(d)'
       /\ ~Complete(n) => \A d \in all : Blocked(d)'
  <2>1. /\ MessagesMatch'
        /\ \A d \in Cores : Untouched(d) /\ Blocked(d) => Blocked(d)'
        /\ \A d \in Cores : Stalls(d) => Blocked(d)'
    BY <1>5, <1>14, MessagesNext
  <2>2. \A d \in Cores : d \notin all /\ Blocked(d) => Blocked(d)'
    <3>1. \A d \in Cores : d \notin all => Untouched(d)
      BY <1>4, <1>9
    <3>2. QED
      BY <2>1, <3>1
  <2>3. ASSUME ~Complete(n), NEW d \in all PROVE Blocked(d)'
    <3>1. CASE d = c
      BY <1>9, <2>1, <2>3, <3>1
    <3>2. CASE d # c
      BY <1>4, <1>9, <2>1, <2>3, <3>2
    <3>3. QED
      BY <3>1, <3>2
  <2>4. QED
    BY <2>1, <2>2, <2>3
<1>16. /\ \A m : MuxQueue(m)' = MuxQueue(m)
       /\ \A i : CondQueue(i)' = CondQueue(i)
  BY <1>5 DEF MuxQueue, CondQueue
<1>17. MuxQueues'
  <2>1. ASSUME NEW m \in DOMAIN mutexes, NEW d \in MuxQueue(m)
        PROVE  Blocked(d)' /\ call'[d] = call[d]
    <3>1. d \in Cores /\ Blocked(d) /\ m \in Gains(call[d])
      BY QueuesHoldCores DEF SyncInv, MuxQueues
    <3>2. d \notin all
      BY <1>10, <3>1 DEF Gains
    <3>3. QED
      BY <1>5, <1>15, <3>1, <3>2
  <2>2. QED
    BY <1>5, <2>1, MuxFrame
<1>18. CondQueues'
  <2>1. ASSUME NEW i \in DOMAIN conds, NEW d \in CondQueue(i)
        PROVE  Blocked(d)' /\ call'[d] = call[d] /\ d \notin MuxQueue(call[d].mux)'
    <3>1. d \in Cores /\ Blocked(d) /\ call[d].op = "condWait" /\ d \notin MuxQueue(call[d].mux)
      BY QueuesHoldCores DEF SyncInv, CondQueues
    <3>2. d \notin all
      BY <1>10, <3>1
    <3>3. QED
      BY <1>5, <1>15, <1>16, <3>1, <3>2
  <2>2. QED
    BY <1>5, <2>1, CondFrame
<1>19. BarrierQueues'
  <2>1. SUFFICES ASSUME NEW i \in DOMAIN barriers
                 PROVE  /\ Len(barriers'[i].waiting) < barriers'[i].count
                        /\ NoTwice(barriers'[i].waiting)
                        /\ \A d \in BarrierQueue(i)' :
                             /\ Blocked(d)' /\ call'[d].op = "barrierWait" /\ call'[d].obj = i
                             /\ call'[d].time <= barriers'[i].max_time
                        /\ barriers'[i].waiting # <<>> =>
                             \E d \in BarrierQueue(i)' : call'[d].time = barriers'[i].max_time
    BY <1>7 DEF BarrierQueues
  <2>2. CASE i # k
    <3>1. /\ Len(barriers[i].waiting) < barriers[i].count
          /\ NoTwice(barriers[i].waiting)
          /\ \A d \in BarrierQueue(i) :
               /\ d \in Cores /\ Blocked(d) /\ call[d].op = "barrierWait" /\ call[d].obj = i
               /\ call[d].time <= barriers[i].max_time
          /\ barriers[i].waiting # <<>> =>
               \E d \in BarrierQueue(i) : call[d].time = barriers[i].max_time
      BY QueuesHoldCores DEF SyncInv, BarrierQueues
    <3>2. \A d \in BarrierQueue(i) : Blocked(d)'
      BY <1>15, <1>10, <2>2, <3>1
    <3>3. QED
      BY <1>5, <1>7, <1>8, <2>2, <3>1, <3>2
  <2>3. CASE i = k /\ Complete(n)
    <3>1. barriers'[k].waiting = <<>> /\ BarrierQueue(k)' = {} /\ Len(barriers'[k].waiting) = 0
      BY <1>6, <1>8, <2>3
    <3>2. QED
      BY <1>3, <1>6, <2>3, <3>1, EmptyQueue
  <2>4. CASE i = k /\ ~Complete(n)
    <3>1. barriers'[k].waiting = n.waiting /\ BarrierQueue(k)' = all
      BY <1>6, <1>8, <2>4
    <3>2. Len(n.waiting) < n.count
      <4>1. n.waiting \in Seq(Cores) /\ n.count \in Nat
        BY <1>3 DEF SimBarrier
      <4>2. Len(n.waiting) \in Nat
        BY <4>1, LenProperties
      <4>3. QED
        BY <1>3, <2>4, <4>1, <4>2 DEF Complete
    <3>3. QED
      BY <1>3, <1>5, <1>6, <1>15, <1>10, <2>4, <3>1, <3>2
  <2>5. QED
    BY <2>2, <2>3, <2>4
<1>20. StalledWaits'
  <2>1. SUFFICES ASSUME NEW d \in Cores, status'[d] = "STALLED"
                 PROVE  \/ \E j \in DOMAIN mutexes : d \in MuxQueue(j)
                        \/ \E i \in DOMAIN conds : d \in CondQueue(i)
                        \/ \E i \in DOMAIN barriers : d \in BarrierQueue(i)'
    BY <1>5, <1>7, <1>16 DEF StalledWaits
  <2>2. CASE Complete(n)
    <3>1. d \notin all /\ status[d] = "STALLED"
      BY <1>9, <2>1, <2>2 DEF Answered, Untouched
    <3>2. d \notin BarrierQueue(k)
      BY <1>4, <3>1
    <3>3. QED
      BY <1>8, <3>1, <3>2 DEF SyncInv, StalledWaits
  <2>3. CASE ~Complete(n)
    <3>1. CASE d \in all
      BY <1>3, <1>8, <2>3, <3>1
    <3>2. CASE d \notin all
      <4>1. status[d] = "STALLED" /\ d \notin BarrierQueue(k)
        BY <1>4, <1>9, <2>1, <2>3, <3>2 DEF Untouched
      <4>2. QED
        BY <1>8, <4>1 DEF SyncInv, StalledWaits
    <3>3. QED
      BY <3>1, <3>2
  <2>4. QED
    BY <2>2, <2>3
<1>21. MutualExclusion'
  <2>1. ASSUME NEW j \in DOMAIN mutexes, NEW d \in Cores
        PROVE  d \in Claims(j)' <=> d \in Claims(j)
    <3>1. CASE d \in all
      <4>1. d \in Claims(j) <=> j \in holds[d]
        <5>1. CASE d = c
          BY <1>2, <5>1, SenderClaims
        <5>2. CASE d # c
          <6>1. Blocked(d)
            BY <1>4, <3>1, <5>2
          <6>2. QED
            BY <6>1, EmptyQueue DEF Claims, Blocked
        <5>3. QED
          BY <5>1, <5>2
      <4>2. Gains(call[d]) = {}
        BY <1>10, <3>1 DEF Gains
      <4>3. CASE Answered(d, x)
        BY <1>5, <4>1, <4>2, <4>3, ClaimsOf DEF Answered
      <4>4. CASE Stalls(d)
        BY <1>5, <4>1, <4>4, ClaimsOf DEF Stalls
      <4>5. CASE Untouched(d)
        BY <1>5, <4>5, ClaimsOf DEF Untouched
      <4>6. QED
        BY <1>9, <3>1, <4>3, <4>4, <4>5
    <3>2. CASE d \notin all
      <4>1. Untouched(d)
        BY <1>4, <1>9, <3>2
      <4>2. QED
        BY <1>5, <4>1, ClaimsOf DEF Untouched
    <3>3. QED
      BY <3>1, <3>2
  <2>2. QED
    BY <1>5, <1>11, <2>1, ExclusionNow, ExclusionNext
<1>22. QED
  BY <1>11, <1>12, <1>13, <1>15, <1>17, <1>18, <1>19, <1>20, <1>21 DEF SyncInv

-----------------------------------------------------------------------------
(* The invariant *)

\* Nothing has been created and nobody waits.
LEMMA InitInv ==
  ASSUME Init
  PROVE  SyncInv
<1>1. <<>> \in Seq(SimMutex) /\ <<>> \in Seq(Seq(CondWaiter)) /\ <<>> \in Seq(SimBarrier)
      /\ <<>> \in Seq(Reply) /\ DOMAIN <<>> = {}
  OBVIOUS
<1>2. TypeOK
  BY <1>1 DEF Init, TypeOK
<1>3. NoAssertionFails /\ IdsExist /\ OneMux /\ TimesAgree
  BY DEF Init, NoAssertionFails, IdsExist, OneMux, TimesAgree
<1>4. MessagesMatch
  BY DEF Init, MessagesMatch
<1>5. DOMAIN mutexes = {} /\ DOMAIN conds = {} /\ DOMAIN barriers = {}
  BY <1>1 DEF Init
<1>6. MuxQueues /\ CondQueues /\ BarrierQueues /\ MutualExclusion
  BY <1>5 DEF MuxQueues, CondQueues, BarrierQueues, MutualExclusion
<1>7. StalledWaits
  BY DEF Init, StalledWaits
<1>8. QED
  BY <1>2, <1>3, <1>4, <1>6, <1>7 DEF SyncInv

\* A step that changes nothing.
LEMMA StutterStep ==
  ASSUME SyncInv, UNCHANGED vars
  PROVE  SyncInv'
<1>1. /\ clk' = clk /\ call' = call /\ holds' = holds /\ pkt' = pkt /\ reply' = reply
      /\ status' = status /\ mutexes' = mutexes /\ conds' = conds /\ barriers' = barriers
      /\ err' = err
  BY DEF vars, clientVars, serverVars
<1>2. TypeOK' /\ NoAssertionFails'
  BY <1>1 DEF SyncInv, TypeOK, NoAssertionFails
<1>3. IdsExist' /\ OneMux' /\ TimesAgree'
  BY <1>1 DEF SyncInv, IdsExist, Names, OneMux, TimesAgree
<1>4. MessagesMatch'
  BY <1>1 DEF SyncInv, MessagesMatch
<1>5. /\ \A m : MuxQueue(m)' = MuxQueue(m)
      /\ \A i : CondQueue(i)' = CondQueue(i)
      /\ \A i : BarrierQueue(i)' = BarrierQueue(i)
      /\ \A d : Blocked(d)' = Blocked(d)
      /\ \A m : Claims(m)' = Claims(m)
  BY <1>1 DEF MuxQueue, CondQueue, BarrierQueue, Blocked, Claims
<1>6. MuxQueues'
  BY <1>1, <1>5, MuxFrame DEF SyncInv, MuxQueues
<1>7. CondQueues'
  BY <1>1, <1>5, CondFrame DEF SyncInv, CondQueues
<1>8. BarrierQueues'
  BY <1>1, <1>5, BarrierFrame DEF SyncInv, BarrierQueues
<1>9. StalledWaits'
  BY <1>1, <1>5 DEF SyncInv, StalledWaits
<1>10. MutualExclusion'
  BY <1>1, <1>5 DEF SyncInv, MutualExclusion
<1>11. QED
  BY <1>2, <1>3, <1>4, <1>6, <1>7, <1>8, <1>9, <1>10 DEF SyncInv

\* Every step of a client and every handler of the server keeps the invariant.
LEMMA NextInv ==
  ASSUME SyncInv, [Next]_vars
  PROVE  SyncInv'
<1>1. CASE UNCHANGED vars
  BY <1>1, StutterStep
<1>2. CASE Next
  <2>1. PICK c \in Cores : Call(c) \/ Return(c) \/ Compute(c) \/ Handle(c)
    BY <1>2 DEF Next
  <2>2. CASE Call(c)
    BY <2>2, SendStep
  <2>3. CASE Return(c)
    BY <2>3, ReturnStep
  <2>4. CASE Compute(c)
    BY <2>4, ComputeStep
  <2>5. CASE Handle(c)
    BY <2>5, InitSteps, MutexLockStep, MutexUnlockStep, CondWaitStep, CondSignalStep,
       CondBroadcastStep, BarrierWaitStep DEF Handle
  <2>6. QED
    BY <2>1, <2>2, <2>3, <2>4, <2>5
<1>3. QED
  BY <1>1, <1>2

\* The invariant holds in every state that the clients and the server reach.
THEOREM SyncInvariant == Spec => []SyncInv
<1>1. Init => SyncInv
  BY InitInv
<1>2. SyncInv /\ [Next]_vars => SyncInv'
  BY NextInv
<1>3. QED
  BY <1>1, <1>2, PTL DEF Spec

\* At any time one client at most has a mutex, and the server takes it for the
\* owner (SimMutex::lock, unlock, SimCond::wait, signal and broadcast).
THEOREM OneOwnerOfMutex == Spec => []MutualExclusion
<1>1. SyncInv => MutualExclusion
  BY DEF SyncInv
<1>2. QED
  BY <1>1, SyncInvariant, PTL

-----------------------------------------------------------------------------
(* The queues *)

\* A queue that holds nobody twice is as long as it has members.
LEMMA QueueLength ==
  ASSUME NEW S, NEW s \in Seq(S), NoTwice(s)
  PROVE  Cardinality(Range(s)) = Len(s)
<1>1. DOMAIN s = 1..Len(s) /\ Len(s) \in Nat /\ s = [k \in 1..Len(s) |-> s[k]]
  BY LenProperties
<1>2. \A k \in 1..Len(s) : s[k] \in Range(s)
  BY <1>1 DEF Range
<1>3. s \in [1..Len(s) -> Range(s)]
  BY <1>1, <1>2
<1>4. \A y \in Range(s) : \E k \in 1..Len(s) : s[k] = y
  BY <1>1 DEF Range
<1>5. \A j, k \in 1..Len(s) : s[j] = s[k] => j = k
  BY <1>1 DEF NoTwice
<1>6. s \in Bijection(1..Len(s), Range(s))
  BY <1>3, <1>4, <1>5 DEF Bijection, Injection, Surjection, IsInjective
<1>7. ExistsBijection(1..Len(s), Range(s))
  BY <1>6 DEF ExistsBijection
<1>8. QED
  BY <1>1, <1>7, FS_CountingElements

\* The cores of the waiters, as the properties write them.
LEMMA CondCores ==
  ASSUME SyncInv, NEW i \in DOMAIN conds
  PROVE  CondQueue(i) = {w.core : w \in Range(conds[i])}
<1>1. conds[i] \in Seq(CondWaiter)
  BY Waiters
<1>2. DOMAIN CoresOf(conds[i]) = DOMAIN conds[i]
  BY <1>1, CoresOfSeq
<1>3. \A k \in DOMAIN conds[i] : CoresOf(conds[i])[k] = conds[i][k].core
  BY DEF CoresOf
<1>4. QED
  BY <1>2, <1>3 DEF CondQueue, Range

\* What the queues say of a core that is in one of them.
LEMMA QueuedCore ==
  ASSUME SyncInv, NEW c \in Cores
  PROVE  /\ \A q \in Queued(c) :
              \/ \E m \in DOMAIN mutexes : q = [mux |-> m] /\ c \in MuxQueue(m)
              \/ \E i \in DOMAIN conds : q = [cond |-> i] /\ c \in CondQueue(i)
              \/ \E i \in DOMAIN barriers : q = [barrier |-> i] /\ c \in BarrierQueue(i)
         /\ \A m \in DOMAIN mutexes : c \in MuxQueue(m) => Queued(c) # {}
         /\ \A i \in DOMAIN conds : c \in CondQueue(i) => Queued(c) # {}
         /\ \A i \in DOMAIN barriers : c \in BarrierQueue(i) => Queued(c) # {}
<1> DEFINE M == {m \in DOMAIN mutexes : c \in MuxQueue(m)}
           I == {i \in DOMAIN conds : c \in CondQueue(i)}
           B == {i \in DOMAIN barriers : c \in BarrierQueue(i)}
<1>1. Queued(c) = [mux : M] \cup [cond : I] \cup [barrier : B]
  <2>1. I = {i \in DOMAIN conds : c \in {w.core : w \in Range(conds[i])}}
    BY CondCores
  <2>2. QED
    BY <2>1 DEF Queued, MuxQueue, BarrierQueue
<1>2. \A q \in [mux : M] : \E m \in M : q = [mux |-> m]
  OBVIOUS
<1>3. \A q \in [cond : I] : \E i \in I : q = [cond |-> i]
  OBVIOUS
<1>4. \A q \in [barrier : B] : \E i \in B : q = [barrier |-> i]
  OBVIOUS
<1>5. \A m \in M : [mux |-> m] \in Queued(c)
  BY <1>1
<1>6. \A i \in I : [cond |-> i] \in Queued(c)
  BY <1>1
<1>7. \A i \in B : [barrier |-> i] \in Queued(c)
  BY <1>1
<1>8. QED
  BY <1>1, <1>2, <1>3, <1>4, <1>5, <1>6, <1>7

\* A core is in one queue at most, and blocked.
LEMMA OneQueue ==
  ASSUME SyncInv, NEW c \in Cores
  PROVE  /\ Queued(c) # {} => Blocked(c)
         /\ status[c] = "STALLED" => Queued(c) # {}
         /\ \A p, q \in Queued(c) : p = q
<1>1. \A m \in DOMAIN mutexes : c \in MuxQueue(m) => Blocked(c) /\ m \in Gains(call[c])
  BY DEF SyncInv, MuxQueues
<1>2. \A i \in DOMAIN conds : c \in CondQueue(i) =>
        /\ Blocked(c) /\ call[c].op = "condWait" /\ call[c].obj = i
        /\ c \notin MuxQueue(call[c].mux)
  BY DEF SyncInv, CondQueues
<1>3. \A i \in DOMAIN barriers : c \in BarrierQueue(i) =>
        Blocked(c) /\ call[c].op = "barrierWait" /\ call[c].obj = i
  BY DEF SyncInv, BarrierQueues
<1>4. Queued(c) # {} => Blocked(c)
  BY <1>1, <1>2, <1>3, QueuedCore
<1>5. status[c] = "STALLED" => Queued(c) # {}
  BY QueuedCore DEF SyncInv, StalledWaits
<1>6. \A m, k \in DOMAIN mutexes : c \in MuxQueue(m) /\ c \in MuxQueue(k) => m = k
  BY <1>1 DEF Gains
<1>7. \A m \in DOMAIN mutexes, i \in DOMAIN conds : ~(c \in MuxQueue(m) /\ c \in CondQueue(i))
  BY <1>1, <1>2 DEF Gains
<1>8. \A m \in DOMAIN mutexes, i \in DOMAIN barriers :
        ~(c \in MuxQueue(m) /\ c \in BarrierQueue(i))
  BY <1>1, <1>3 DEF Gains
<1>9. ASSUME NEW p \in Queued(c), NEW q \in Queued(c) PROVE p = q
  <2>1. CASE \E m \in DOMAIN mutexes : p = [mux |-> m] /\ c \in MuxQueue(m)
    BY <1>6, <1>7, <1>8, <2>1, QueuedCore
  <2>2. CASE \E i \in DOMAIN conds : p = [cond |-> i] /\ c \in CondQueue(i)
    BY <1>2, <1>3, <1>7, <2>2, QueuedCore
  <2>3. CASE \E i \in DOMAIN barriers : p = [barrier |-> i] /\ c \in BarrierQueue(i)
    BY <1>2, <1>3, <1>8, <2>3, QueuedCore
  <2>4. QED
    BY <2>1, <2>2, <2>3, QueuedCore
<1>10. QED
  BY <1>4, <1>5, <1>9

\* Every core is in one queue of the server at most, once, and is blocked in
\* the call that put it there.
THEOREM QueuesOfTheServer == Spec => []QueuesMatchCalls
<1>1. ASSUME SyncInv PROVE QueuesMatchCalls
  <2>1. ASSUME NEW c \in Cores PROVE Cardinality(Queued(c)) <= 1
    <3>1. CASE Queued(c) = {}
      BY <3>1, FS_EmptySet
    <3>2. CASE Queued(c) # {}
      <4>1. PICK q : q \in Queued(c)
        BY <3>2
      <4>2. Queued(c) = {q}
        BY <1>1, <4>1, OneQueue
      <4>3. Cardinality(Queued(c)) = 1
        BY <4>2, FS_Singleton
      <4>4. QED
        BY <4>3
    <3>3. QED
      BY <3>1, <3>2
  <2>2. ASSUME NEW m \in DOMAIN mutexes
        PROVE  /\ \A c \in Range(mutexes[m].waiting) : call[c] # None /\ m \in Gains(call[c])
               /\ Cardinality(Range(mutexes[m].waiting)) = Len(mutexes[m].waiting)
    <3>1. mutexes[m].waiting \in Seq(Cores) /\ NoTwice(mutexes[m].waiting)
      BY <1>1, QueuesHoldCores DEF SyncInv, MuxQueues, SimMutex
    <3>2. Cardinality(Range(mutexes[m].waiting)) = Len(mutexes[m].waiting)
      BY <3>1, QueueLength
    <3>3. QED
      BY <1>1, <3>2 DEF SyncInv, MuxQueues, MuxQueue, Blocked
  <2>3. ASSUME NEW i \in DOMAIN conds
        PROVE  /\ \A w \in Range(conds[i]) :
                    /\ call[w.core] # None /\ call[w.core].op = "condWait"
                    /\ call[w.core].obj = i /\ call[w.core].mux = w.mux
               /\ Cardinality({w.core : w \in Range(conds[i])}) = Len(conds[i])
    <3>1. PICK w \in Seq(CondWaiter) :
            /\ w = conds[i] /\ NoTwice(CoresOf(w)) /\ Range(CoresOf(w)) = CondQueue(i)
            /\ \A j \in DOMAIN w : w[j].core \in CondQueue(i) /\ w[j].mux = call[w[j].core].mux
      BY <1>1, Waiters
    <3>2. PICK s \in Seq(Cores) : s = CoresOf(w) /\ Len(s) = Len(w) /\ NoTwice(s)
      BY <3>1, CoresOfSeq
    <3>3. Cardinality(Range(s)) = Len(s)
      BY <3>2, QueueLength
    <3>4. Cardinality({x.core : x \in Range(conds[i])}) = Len(conds[i])
      BY <1>1, <3>1, <3>2, <3>3, CondCores
    <3>5. \A d \in CondQueue(i) : /\ call[d] # None /\ call[d].op = "condWait"
                                  /\ call[d].obj = i
      BY <1>1 DEF SyncInv, CondQueues, Blocked
    <3>6. \A x \in Range(w) : x.core \in CondQueue(i) /\ x.mux = call[x.core].mux
      BY <3>1 DEF Range
    <3>7. QED
      BY <3>1, <3>4, <3>5, <3>6
  <2>4. \A i \in DOMAIN barriers : \A c \in Range(barriers[i].waiting) :
          call[c] # None /\ call[c].op = "barrierWait" /\ call[c].obj = i
    BY <1>1 DEF SyncInv, BarrierQueues, BarrierQueue, Blocked
  <2>5. TypeOK /\ NoAssertionFails
    BY <1>1 DEF SyncInv
  <2>6. QED
    BY <2>1, <2>2, <2>3, <2>4, <2>5 DEF QueuesMatchCalls
<1>2. QED
  BY <1>1, SyncInvariant, PTL

\* A blocked client has its request under way, waits in a queue, or has one
\* reply under way, and the thread manager knows which clients are blocked.
THEOREM EveryCallIsAnsweredOnce == Spec => []OneAnswer
<1>1. ASSUME SyncInv PROVE OneAnswer
  <2>1. \A c \in Cores : Queued(c) # {} => Blocked(c)
    BY <1>1, OneQueue
  <2>2. \A c \in Cores : status[c] = "STALLED" => Queued(c) # {}
    BY <1>1, OneQueue
  <2>3. StatusAgrees
    BY <2>1, <2>2 DEF StatusAgrees, Blocked
  <2>4. ASSUME NEW c \in Cores PROVE Len(reply[c]) <= 1
    <3>1. CASE reply[c] = <<>>
      BY <3>1
    <3>2. CASE reply[c] # <<>>
      <4>1. PICK n : n = Len(reply[c])
        OBVIOUS
      <4>2. n = 1
        BY <1>1, <3>2, <4>1, Zenon DEF SyncInv, MessagesMatch
      <4>3. QED
        BY <4>1, <4>2
    <3>3. QED
      BY <3>1, <3>2
  <2>5. ASSUME NEW c \in Cores, call[c] = None
        PROVE  pkt[c] = None /\ reply[c] = <<>> /\ Queued(c) = {}
    BY <1>1, <2>1, <2>5 DEF SyncInv, MessagesMatch, Blocked
  <2>6. ASSUME NEW c \in Cores, call[c] # None
        PROVE  Cardinality({x \in {"pkt", "queue", "reply"} :
                 CASE x = "pkt" -> pkt[c] # None
                   [] x = "queue" -> Queued(c) # {}
                   [] x = "reply" -> reply[c] # <<>>}) = 1
    <3> DEFINE X == {x \in {"pkt", "queue", "reply"} :
                       CASE x = "pkt" -> pkt[c] # None
                         [] x = "queue" -> Queued(c) # {}
                         [] x = "reply" -> reply[c] # <<>>}
    <3>1. CASE pkt[c] # None
      <4>1. reply[c] = <<>> /\ Queued(c) = {}
        BY <1>1, <2>1, <3>1 DEF SyncInv, MessagesMatch, Blocked
      <4>2. X = {"pkt"}
        BY <3>1, <4>1
      <4>3. QED
        BY <4>2, FS_Singleton
    <3>2. CASE pkt[c] = None /\ reply[c] # <<>>
      <4>1. Queued(c) = {}
        BY <2>1, <3>2 DEF Blocked
      <4>2. X = {"reply"}
        BY <3>2, <4>1
      <4>3. QED
        BY <4>2, FS_Singleton
    <3>3. CASE pkt[c] = None /\ reply[c] = <<>>
      <4>1. Queued(c) # {}
        BY <1>1, <2>2, <2>6, <3>3 DEF SyncInv, MessagesMatch
      <4>2. X = {"queue"}
        BY <3>3, <4>1
      <4>3. QED
        BY <4>2, FS_Singleton
    <3>4. QED
      BY <3>1, <3>2, <3>3
  <2>7. QED
    BY <2>3, <2>4, <2>5, <2>6 DEF OneAnswer
<1>2. QED
  BY <1>1, SyncInvariant, PTL

-----------------------------------------------------------------------------
(* Clocks and barriers *)

\* SyncClient::mutexLock, condWait and barrierWait: the clock of a client that
\* returns is not behind the time in the reply, whatever the frequencies.
LEMMA ReturnCatchesUp ==
  ASSUME SyncInv, NEW c \in Cores, Return(c)
  PROVE  /\ clk'[c] >= clk[c]
         /\ Head(reply[c]).code \in {"MUTEX_LOCK", "BARRIER_WAIT"} =>
              ToGlobal(c, clk'[c]) >= Head(reply[c]).val
         /\ \A d \in Cores : d # c => clk'[d] = clk[d]
<1>1. PICK r \in Reply : r = Head(reply[c])
  <2>1. reply[c] \in Seq(Reply) /\ reply[c] # <<>>
    BY DEF Return, SyncInv, TypeOK
  <2>2. Head(reply[c]) \in Reply
    BY <2>1
  <2>3. QED
    BY <2>2
<1>2. PICK k \in Nat, t \in Nat, v \in Nat :
        k = clk[c] /\ t = call[c].time /\ v = r.val /\ t = ToGlobal(c, k)
  <2>1. clk[c] \in Nat /\ call[c] \in Request /\ r.val \in Nat /\ call[c] # None
    BY DEF Return, SyncInv, TypeOK, Reply
  <2>2. call[c].time \in Nat /\ call[c].time = ToGlobal(c, clk[c])
    BY <2>1 DEF SyncInv, TimesAgree, Request, Time
  <2>3. QED
    BY <2>1, <2>2
<1>3. clk' = [clk EXCEPT ![c] = IF r.code \in {"MUTEX_LOCK", "BARRIER_WAIT"} /\ v > t
                                THEN @ + ToCore(c, v - t) ELSE @]
  BY <1>1, <1>2 DEF Return, AdvanceClock
<1>4. /\ clk'[c] = IF r.code \in {"MUTEX_LOCK", "BARRIER_WAIT"} /\ v > t
                   THEN k + ToCore(c, v - t) ELSE k
      /\ \A d \in Cores : d # c => clk'[d] = clk[d]
  BY <1>2, <1>3 DEF SyncInv, TypeOK
<1>5. v > t => ToCore(c, v - t) \in Nat /\ ToGlobal(c, k + ToCore(c, v - t)) >= v
  BY <1>2, CatchesUp
<1>6. CASE r.code \in {"MUTEX_LOCK", "BARRIER_WAIT"} /\ v > t
  BY <1>1, <1>2, <1>4, <1>5, <1>6
<1>7. CASE ~(r.code \in {"MUTEX_LOCK", "BARRIER_WAIT"} /\ v > t)
  BY <1>1, <1>2, <1>4, <1>7
<1>8. QED
  BY <1>6, <1>7

\* The server never touches the clock or the call of a client.
LEMMA HandlersLeaveClients ==
  ASSUME NEW c \in Cores, Handle(c)
  PROVE  UNCHANGED clientVars
BY DEF Handle, mutexInit, mutexLock, mutexUnlock, condInit, condWait, condSignal,
       condBroadcast, barrierInit, barrierWait

\* What ClocksFollow says of one step.
FollowsStep ==
  \A c \in Cores :
    /\ clk'[c] >= clk[c]
    /\ call[c] # None /\ call'[c] = None
         /\ Head(reply[c]).code \in {"MUTEX_LOCK", "BARRIER_WAIT"}
       => ToGlobal(c, clk'[c]) >= Head(reply[c]).val

\* Every step of the specification is one that ClocksFollow allows.
LEMMA FollowsNext ==
  ASSUME SyncInv, Next
  PROVE  FollowsStep
<1>1. \A d \in Cores : clk[d] \in Nat
  BY DEF SyncInv, TypeOK
<1>2. PICK c \in Cores : Call(c) \/ Return(c) \/ Compute(c) \/ Handle(c)
  BY DEF Next
<1>3. CASE Call(c)
  <2>1. clk' = clk /\ call[c] = None
    BY <1>3 DEF Call, Send
  <2>2. \A d \in Cores : d # c => call'[d] = call[d]
    <3>1. PICK r : call' = [call EXCEPT ![c] = r]
      BY <1>3 DEF Call, Send
    <3>2. QED
      BY <3>1 DEF SyncInv, TypeOK
  <2>3. QED
    BY <1>1, <2>1, <2>2 DEF FollowsStep
<1>4. CASE Return(c)
  <2>1. \A d \in Cores : d # c => call'[d] = call[d]
    BY <1>4 DEF Return, SyncInv, TypeOK
  <2>2. QED
    BY <1>1, <1>4, <2>1, ReturnCatchesUp DEF FollowsStep
<1>5. CASE Compute(c)
  <2>1. call' = call /\ clk' = [clk EXCEPT ![c] = @ + 1]
    BY <1>5 DEF Compute
  <2>2. QED
    BY <1>1, <2>1 DEF FollowsStep, SyncInv, TypeOK
<1>6. CASE Handle(c)
  BY <1>1, <1>6, HandlersLeaveClients DEF FollowsStep, clientVars
<1>7. QED
  BY <1>2, <1>3, <1>4, <1>5, <1>6

\* A client that returns has caught up with the time in its reply, and clocks
\* never go back: the two roundings between core and global cycles never lose
\* one, whatever the frequencies (sync_client.cc, convertCycleCount).
THEOREM ClocksCatchUp == Spec => ClocksFollow
<1>1. SyncInv /\ [Next]_vars => [FollowsStep]_vars
  BY FollowsNext
<1>2. QED
  BY <1>1, SyncInvariant, PTL DEF Spec, ClocksFollow, FollowsStep

\* What BarrierHolds says of one step.
ReleasesStep ==
  Released # {} =>
    \E i \in DOMAIN barriers :
      /\ Cardinality(Released) = barriers[i].count
      /\ \A c \in Released :
           /\ call[c].obj = i
           /\ \A d \in Released : reply'[c][1].val >= call[d].time
           /\ \E d \in Released : reply'[c][1].val = call[d].time

\* SimBarrier::wait releases nobody or as many cores as the barrier counts.
LEMMA BarrierReleases ==
  ASSUME SyncInv, NEW c \in Cores, barrierWait(c)
  PROVE  ReleasesStep
<1>1. PICK k, n, all, x : ArrivesAt(c, k, n, all) /\ LetsOut(c, k, n, all, x)
  BY Arrival
<1>2. CASE ~Complete(n)
  <2>1. \A d \in Cores : reply[d] = <<>> => reply'[d] = <<>>
    BY <1>1, <1>2 DEF LetsOut, Stalls, Untouched
  <2>2. QED
    BY <2>1 DEF ReleasesStep, Released
<1>3. CASE Complete(n)
  <2>1. /\ k \in DOMAIN barriers /\ n \in SimBarrier /\ n.count = barriers[k].count
        /\ NoTwice(n.waiting) /\ Range(n.waiting) = all /\ all \subseteq Cores
        /\ \A d \in all : /\ call[d] # None /\ call[d].op = "barrierWait" /\ call[d].obj = k
                          /\ reply[d] = <<>> /\ call[d].time <= n.max_time
        /\ \E d \in all : call[d].time = n.max_time
    BY <1>1 DEF ArrivesAt
  <2>2. /\ \A d \in all : reply'[d] = <<x>>
        /\ \A d \in Cores \ all : reply'[d] = reply[d]
        /\ x.val = n.max_time
    BY <1>1, <1>3 DEF LetsOut, Answered, Untouched, Rep
  <2>3. Released = all
    <3>1. \A d \in all : reply'[d] # <<>>
      BY <2>2
    <3>2. QED
      BY <2>1, <2>2, <3>1 DEF Released
  <2>4. n.waiting \in Seq(Cores) /\ n.max_time \in Nat
    BY <2>1 DEF SimBarrier, Time
  <2>5. Cardinality(all) = Len(n.waiting)
    BY <2>1, <2>4, QueueLength
  <2>6. Len(n.waiting) = n.count
    BY <1>3 DEF Complete
  <2>7. \A d \in all : call[d].time \in Nat
    BY <2>1 DEF SyncInv, TypeOK, Request, Time
  <2>8. \A d \in all : reply'[d][1].val = n.max_time
    BY <2>2
  <2>9. /\ Cardinality(all) = barriers[k].count
        /\ \A d \in all :
             /\ call[d].obj = k
             /\ \A e \in all : reply'[d][1].val >= call[e].time
             /\ \E e \in all : reply'[d][1].val = call[e].time
    BY <2>1, <2>4, <2>5, <2>6, <2>7, <2>8
  <2>10. QED
    BY <2>1, <2>3, <2>9 DEF ReleasesStep
<1>4. QED
  BY <1>2, <1>3

\* A core whose reply has another code is not let out of a barrier.
LEMMA OtherCode ==
  ASSUME SyncInv', NEW d \in Cores, call'[d] = call[d],
         reply'[d] # <<>> => reply'[d][1].code # "BARRIER_WAIT"
  PROVE  d \notin Released
<1>1. reply'[d] # <<>> => reply'[d][1].code = Expected(call'[d].op)
  BY DEF SyncInv, MessagesMatch
<1>2. QED
  BY <1>1 DEF Released, Expected

\* The first of the replies that a handler sends to a core.
LEMMA FirstReply ==
  ASSUME SyncInv, NEW d \in Cores, reply[d] = <<>>, NEW W, NEW c, NEW x, NEW y
  PROVE  /\ Answer(Each(W, x)) /\ reply'[d] # <<>> => reply'[d][1] = x
         /\ Answer(One(c, x)) /\ reply'[d] # <<>> => reply'[d][1] = x
         /\ Answer(Both(Each(W, x), One(c, y))) /\ reply'[d] # <<>> => reply'[d][1] \in {x, y}
<1>1. /\ <<>> \o <<>> = <<>> /\ <<>> \o <<x>> = <<x>> /\ <<>> \o <<y>> = <<y>>
      /\ <<>> \o (<<>> \o <<>>) = <<>> /\ <<>> \o (<<x>> \o <<>>) = <<x>>
      /\ <<>> \o (<<>> \o <<y>>) = <<y>> /\ <<>> \o (<<x>> \o <<y>>) = <<x, y>>
  <2>1. /\ <<>> \in Seq({x, y}) /\ <<x>> \in Seq({x, y}) /\ <<y>> \in Seq({x, y})
        /\ <<x, y>> \in Seq({x, y})
    OBVIOUS
  <2>2. \A s \in Seq({x, y}) : <<>> \o s = s /\ s \o <<>> = s
    BY ConcatEmptySeq
  <2>3. <<x>> \o <<y>> = <<x, y>>
    <3>1. /\ <<x>> \o <<y>> \in Seq({x, y}) /\ Len(<<x>> \o <<y>>) = 2
          /\ (<<x>> \o <<y>>)[1] = x /\ (<<x>> \o <<y>>)[2] = y
      BY <2>1, ConcatProperties
    <3>2. PICK s \in Seq({x, y}), u \in Seq({x, y}) : s = <<x>> \o <<y>> /\ u = <<x, y>>
      BY <2>1, <3>1
    <3>3. Len(u) = 2 /\ u[1] = x /\ u[2] = y
      BY <3>2
    <3>4. Len(s) = 2 /\ s[1] = x /\ s[2] = y
      BY <3>1, <3>2
    <3>5. \A k \in 1..2 : k = 1 \/ k = 2
      OBVIOUS
    <3>6. \A k \in 1..Len(s) : s[k] = u[k]
      BY <3>3, <3>4, <3>5
    <3>7. QED
      BY <3>2, <3>3, <3>4, <3>6, SeqEqual
  <2>4. QED
    BY <2>1, <2>2, <2>3
<1>2. /\ Each(W, x)[d] \in {<<>>, <<x>>} /\ One(c, x)[d] \in {<<>>, <<x>>}
      /\ One(c, y)[d] \in {<<>>, <<y>>}
      /\ Both(Each(W, x), One(c, y))[d] = Each(W, x)[d] \o One(c, y)[d]
  BY DEF Each, One, Both
<1>3. \A out : Answer(out) => reply'[d] = <<>> \o out[d]
  BY DEF Answer
<1>4. QED
  <2>1. ASSUME Answer(Each(W, x)), reply'[d] # <<>> PROVE reply'[d][1] = x
    BY <1>1, <1>2, <1>3, <2>1
  <2>2. ASSUME Answer(One(c, x)), reply'[d] # <<>> PROVE reply'[d][1] = x
    BY <1>1, <1>2, <1>3, <2>2
  <2>3. ASSUME Answer(Both(Each(W, x), One(c, y))), reply'[d] # <<>>
        PROVE  reply'[d][1] \in {x, y}
    <3>1. reply'[d] = <<>> \o (Each(W, x)[d] \o One(c, y)[d])
      BY <1>2, <1>3, <2>3
    <3>2. reply'[d] \in {<<>>, <<x>>, <<y>>, <<x, y>>}
      BY <1>1, <1>2, <3>1
    <3>3. <<x>>[1] = x /\ <<y>>[1] = y /\ <<x, y>>[1] = x
      OBVIOUS
    <3>4. QED
      BY <2>3, <3>2, <3>3
  <2>4. QED
    BY <2>1, <2>2, <2>3

\* No other step lets anybody out of a barrier.
LEMMA OthersReleaseNobody ==
  ASSUME SyncInv, SyncInv', NEW c \in Cores,
         \/ Call(c) \/ Return(c) \/ Compute(c)
         \/ mutexInit(c) \/ mutexLock(c) \/ mutexUnlock(c) \/ condInit(c) \/ condWait(c)
         \/ condSignal(c) \/ condBroadcast(c) \/ barrierInit(c)
  PROVE  Released = {}
<1>1. CASE Call(c) \/ Compute(c)
  BY <1>1 DEF Call, Send, Compute, Released
<1>2. CASE Return(c)
  <2>1. reply[c] # <<>> /\ \A d \in Cores : d # c => reply'[d] = reply[d]
    BY <1>2 DEF Return, SyncInv, TypeOK
  <2>2. QED
    BY <2>1 DEF Released
<1>3. CASE \/ mutexInit(c) \/ mutexLock(c) \/ mutexUnlock(c) \/ condInit(c) \/ condWait(c)
           \/ condSignal(c) \/ condBroadcast(c) \/ barrierInit(c)
  <2>1. call' = call
    BY <1>3, HandlersLeaveClients DEF Handle, clientVars
  <2>2. \A code, val : Rep(code, val).code = code
    BY DEF Rep
  <2>3. SUFFICES ASSUME NEW d \in Cores, reply[d] = <<>>, reply'[d] # <<>>
                 PROVE  reply'[d][1].code # "BARRIER_WAIT"
    BY <2>1, OtherCode DEF Released
  <2>4. CASE mutexInit(c) \/ condInit(c) \/ barrierInit(c)
    <3>1. \E id : Answer(One(c, Rep("ID", id)))
      BY <2>4 DEF mutexInit, condInit, barrierInit
    <3>2. PICK id : Answer(One(c, Rep("ID", id)))
      BY <3>1
    <3>3. reply'[d][1] = Rep("ID", id)
      BY <2>3, <3>2, FirstReply
    <3>4. QED
      BY <2>2, <3>3
  <2>5. CASE mutexLock(c)
    <3>1. PICK x : x = Rep("MUTEX_LOCK", pkt[c].time)
      OBVIOUS
    <3>2. Answer(One(c, x)) \/ reply' = reply
      BY <2>5, <3>1 DEF mutexLock
    <3>3. reply'[d][1] = x
      BY <2>3, <3>2, FirstReply
    <3>4. QED
      BY <2>2, <3>1, <3>3
  <2>6. CASE condWait(c)
    <3>1. \E W, time : Answer(Each(W, Rep("MUTEX_LOCK", time)))
      BY <2>6 DEF condWait
    <3>2. PICK W, time : Answer(Each(W, Rep("MUTEX_LOCK", time)))
      BY <3>1
    <3>3. reply'[d][1] = Rep("MUTEX_LOCK", time)
      BY <2>3, <3>2, FirstReply
    <3>4. QED
      BY <2>2, <3>3
  <2>7. CASE mutexUnlock(c) \/ condSignal(c) \/ condBroadcast(c)
    <3>1. \E W, time, code : /\ code # "BARRIER_WAIT"
                             /\ Answer(Both(Each(W, Rep("MUTEX_LOCK", time)), One(c, Rep(code, 0))))
      <4>1. CASE mutexUnlock(c)
        BY <4>1 DEF mutexUnlock
      <4>2. CASE condSignal(c)
        BY <4>2 DEF condSignal, Wake
      <4>3. CASE condBroadcast(c)
        BY <4>3 DEF condBroadcast, Wake
      <4>4. QED
        BY <2>7, <4>1, <4>2, <4>3
    <3>2. PICK W, time, code : /\ code # "BARRIER_WAIT"
                               /\ Answer(Both(Each(W, Rep("MUTEX_LOCK", time)), One(c, Rep(code, 0))))
      BY <3>1
    <3>3. reply'[d][1] \in {Rep("MUTEX_LOCK", time), Rep(code, 0)}
      BY <2>3, <3>2, FirstReply
    <3>4. QED
      BY <2>2, <3>2, <3>3
  <2>8. QED
    BY <1>3, <2>4, <2>5, <2>6, <2>7
<1>4. QED
  BY <1>1, <1>2, <1>3

\* A barrier lets its waiters out together, as many as it was created for and
\* with the latest of their times, and no clock goes on with an earlier one
\* (SimBarrier::wait, SyncClient::barrierWait).
THEOREM BarriersHold == Spec => BarrierHolds
<1>1. ASSUME SyncInv, SyncInv', [Next]_vars PROVE [ReleasesStep]_vars
  <2>1. CASE UNCHANGED vars
    BY <2>1
  <2>2. CASE Next
    <3>1. PICK c \in Cores : Call(c) \/ Return(c) \/ Compute(c) \/ Handle(c)
      BY <2>2 DEF Next
    <3>2. CASE barrierWait(c)
      BY <1>1, <3>2, BarrierReleases
    <3>3. CASE ~barrierWait(c)
      <4>1. Released = {}
        BY <1>1, <3>1, <3>3, OthersReleaseNobody DEF Handle
      <4>2. QED
        BY <4>1 DEF ReleasesStep
    <3>4. QED
      BY <3>2, <3>3
  <2>3. QED
    BY <1>1, <2>1, <2>2
<1>2. SyncInv /\ SyncInv' /\ [Next]_vars => [ReleasesStep]_vars
  BY <1>1
<1>3. Spec => [][ReleasesStep]_vars
  BY <1>2, SyncInvariant, PTL DEF Spec
<1>4. QED
  BY <1>3, ClocksCatchUp DEF BarrierHolds, ReleasesStep
=============================================================================
