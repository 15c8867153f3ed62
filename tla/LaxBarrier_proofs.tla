------------------------- MODULE LaxBarrier_proofs -------------------------
(***************************************************************************)
(* The lax barrier for any finite set of cores, any quantum and any length *)
(* of the instructions.                                                    *)
(***************************************************************************)
EXTENDS LaxBarrier, FiniteSetTheorems, WellFoundedInduction, TLAPS

-----------------------------------------------------------------------------
(* Least and greatest numbers *)

\* A set of natural numbers has a least element, which Min returns.
LEMMA MinNat ==
  ASSUME NEW S \in SUBSET Nat, S # {}
  PROVE  Min(S) \in S /\ \A x \in S : Min(S) <= x
<1>1. PICK m \in S : \A x \in S : <<x, m>> \notin OpToRel(<, Nat)
  BY NatLessThanWellFounded, WFMin, Zenon
<1>2. \A x \in S : m <= x
  <2>1. TAKE x \in S
  <2>2. ~(x < m)
    BY <1>1, <2>1, Zenon DEF OpToRel
  <2> QED
    BY <2>1, <2>2
<1> QED
  BY <1>2, Zenon DEF Min

\* A finite set of natural numbers has a greatest element: a smallest one
\* without would, when one of its numbers is taken away, still have none.
LEMMA MaxNat ==
  ASSUME NEW S \in SUBSET Nat, S # {}, IsFiniteSet(S)
  PROVE  Max(S) \in S /\ \A x \in S : x <= Max(S)
<1> DEFINE Greatest(T) == \E m \in T : \A x \in T : x <= m
           Bad == {T \in SUBSET S : T # {} /\ ~Greatest(T)}
           Sizes == {Cardinality(T) : T \in Bad}
<1>1. Bad = {}
  <2> SUFFICES ASSUME Bad # {} PROVE FALSE
    OBVIOUS
  <2>1. \A T \in SUBSET S : IsFiniteSet(T) /\ Cardinality(T) \in Nat
    BY FS_Subset, FS_CardinalityType
  <2>2. Sizes \in SUBSET Nat /\ Sizes # {}
    BY <2>1
  <2>3. PICK T \in Bad : Cardinality(T) = Min(Sizes)
    BY <2>2, MinNat
  <2>4. PICK x \in T : TRUE
    BY <2>3
  <2>5. /\ T \ {x} \in SUBSET S /\ Cardinality(T) \in Nat
        /\ Cardinality(T \ {x}) = Cardinality(T) - 1
    BY <2>1, <2>3, <2>4, FS_RemoveElement
  <2>6. T \ {x} \notin Bad
    <3>1. ASSUME T \ {x} \in Bad PROVE FALSE
      <4> DEFINE n == Cardinality(T \ {x})
      <4> HIDE DEF Bad
      <4>1. n \in Sizes
        BY <3>1, Zenon
      <4> HIDE DEF Sizes, n
      <4>2. Min(Sizes) <= n
        BY <4>1, <2>2, MinNat
      <4> QED
        BY <4>2, <2>3, <2>5 DEF n
    <3> QED
      BY <3>1
  <2>7. T \ {x} # {}
    <3>1. ASSUME T = {x} PROVE FALSE
      <4>1. x \in Nat /\ x <= x
        BY <2>3, <2>4
      <4> QED
        BY <2>3, <3>1, <4>1
    <3> QED
      BY <2>4, <3>1
  <2>8. PICK m \in T \ {x} : \A y \in T \ {x} : y <= m
    BY <2>5, <2>6, <2>7
  <2>9. x \in Nat /\ m \in Nat /\ T \in SUBSET Nat /\ m \in T
    BY <2>3, <2>4, <2>8
  <2>10. CASE x <= m
    BY <2>3, <2>8, <2>9, <2>10
  <2>11. CASE ~(x <= m)
    <3>1. \A y \in T : y <= x
      BY <2>8, <2>9, <2>11
    <3> QED
      BY <2>3, <2>4, <3>1
  <2> QED
    BY <2>10, <2>11
<1>2. PICK m \in S : \A x \in S : x <= m
  BY <1>1
<1>3. \A x \in S : m >= x
  BY <1>2
<1>4. Max(S) \in S /\ \A x \in S : Max(S) >= x
  BY <1>3, Zenon DEF Max
<1> QED
  BY <1>4

-----------------------------------------------------------------------------
(* Clocks *)

\* What division by a positive number gives.
LEMMA DivBounds ==
  ASSUME NEW a \in Nat, NEW b \in Nat \ {0}
  PROVE  /\ a \div b \in Nat
         /\ b * (a \div b) <= a /\ a < b * (a \div b) + b
  OBVIOUS

\* It is the only number between those bounds.
LEMMA DivUnique ==
  ASSUME NEW a \in Nat, NEW b \in Nat \ {0}, NEW q \in Nat,
         b * q <= a, a < b * q + b
  PROVE  a \div b = q
<1>1. a \div b \in Nat /\ b * (a \div b) <= a /\ a < b * (a \div b) + b
  BY DivBounds
<1>2. ASSUME NEW x \in Nat, NEW y \in Nat, x < y
      PROVE  b * x + b <= b * y
  <2>1. b * (x + 1) = b * x + b
    OBVIOUS
  <2>2. b * (y - (x + 1)) >= 0
    BY <1>2
  <2>3. b * (y - (x + 1)) = b * y - b * (x + 1)
    BY <1>2
  <2> QED
    BY <2>1, <2>2, <2>3
<1>3. ~(a \div b < q) /\ ~(q < a \div b)
  BY <1>1, <1>2
<1> QED
  BY <1>1, <1>3

\* A multiple leaves no remainder, and conversely.
LEMMA Multiples ==
  ASSUME NEW b \in Nat \ {0}, NEW n \in Nat
  PROVE  /\ n % b = 0 => n = b * (n \div b)
         /\ \A k \in Nat : n = b * k => n % b = 0
<1>1. n = b * (n \div b) + (n % b)
  OBVIOUS
<1>2. ASSUME NEW k \in Nat, n = b * k PROVE n % b = 0
  <2>1. n \div b = k
    BY <1>2, DivUnique
  <2> QED
    BY <1>1, <1>2, <2>1
<1> QED
  BY <1>1, <1>2

\* Products keep the order.
LEMMA TimesOrder ==
  ASSUME NEW u \in Nat, NEW x \in Nat, NEW y \in Nat, x <= y
  PROVE  u * x <= u * y
<1>1. u * (y - x) >= 0 /\ u * (y - x) = u * y - u * x
  OBVIOUS
<1> QED
  BY <1>1

\* A number of cycles of a core in cycles of a clock k times slower.
Slower(n, k) == (n + k - 1) \div k

\* It is the least number of the slower cycles that covers n.
LEMMA SlowerBounds ==
  ASSUME NEW n \in Nat, NEW k \in Nat \ {0}
  PROVE  /\ Slower(n, k) \in Nat
         /\ k * Slower(n, k) <= n + k - 1 /\ n <= k * Slower(n, k)
<1>1. n + k - 1 \in Nat
  OBVIOUS
<1> DEFINE m == n + k - 1
           q == m \div k
<1> HIDE DEF m
<1>2. q \in Nat /\ k * q <= m /\ m < k * q + k
  BY <1>1, DivBounds DEF m
<1> QED
  BY <1>2 DEF Slower, m

\* No other number of slower cycles is within these bounds.
LEMMA SlowerUnique ==
  ASSUME NEW n \in Nat, NEW k \in Nat \ {0}, NEW q \in Nat,
         k * q <= n + k - 1, n <= k * q
  PROVE  Slower(n, k) = q
  BY DivUnique, n + k - 1 \in Nat, n + k - 1 < k * q + k DEF Slower

\* The clocks of a core whose frequency is k times the global one.
LEMMA Conversions ==
  ASSUME NEW c \in Cores, NEW k \in Nat \ {0}, Freq[c] = Unit * k,
         NEW n \in Nat
  PROVE  ToGlobal(c, n) = Slower(n, k) /\ ToCore(c, n) = n * k
<1> DEFINE q == Slower(n, k)
<1>1. Unit \in Nat \ {0} /\ Unit * k \in Nat \ {0} /\ q \in Nat
  BY ClockAssumption, SlowerBounds
<1>2. k * q <= n + k - 1 /\ n <= k * q
  BY SlowerBounds
<1> HIDE DEF q
<1>3. /\ Unit * (k * q) <= Unit * (n + k - 1) /\ Unit * n <= Unit * (k * q)
      /\ k * q \in Nat
  BY <1>1, <1>2, TimesOrder
<1>4. /\ Unit * (n + k - 1) = n * Unit + Unit * k - Unit
      /\ Unit * (k * q) = (Unit * k) * q /\ Unit * n = n * Unit
      /\ n * Unit \in Nat
  BY <1>1
<1>5. ToGlobal(c, n) = q
  <2> DEFINE b == Unit * k
             a == n * Unit + b - 1
  <2>1. a \in Nat /\ b \in Nat \ {0} /\ b * q <= a /\ a < b * q + b
    BY <1>1, <1>3, <1>4
  <2> HIDE DEF a, b
  <2>2. a \div b = q
    BY <2>1, <1>1, DivUnique
  <2> QED
    BY <2>2 DEF a, b, ToGlobal, convertCycleCount
<1>6. ToCore(c, n) = n * k
  <2> DEFINE a == n * (Unit * k) + Unit - 1
             m == n * k
  <2>1. m \in Nat /\ n * (Unit * k) = Unit * m /\ Unit * m \in Nat
    BY <1>1
  <2>2. a \in Nat /\ Unit * m <= a /\ a < Unit * m + Unit
    BY <1>1, <2>1
  <2> HIDE DEF a, m
  <2>3. a \div Unit = m
    BY <2>1, <2>2, <1>1, DivUnique
  <2> QED
    BY <2>3 DEF a, m, ToCore, convertCycleCount
<1> QED
  BY <1>5, <1>6 DEF q

\* A core's clock in global cycles: instructions add at most their own
\* length, and skipping d global cycles adds exactly d.
LEMMA Clock ==
  ASSUME Parameters, NEW c \in Cores, NEW n \in Nat, NEW d \in Nat
  PROVE  /\ ToGlobal(c, n) \in Nat /\ ToCore(c, d) \in Nat
         /\ ToGlobal(c, 0) = 0
         /\ ToGlobal(c, n + ToCore(c, d)) = ToGlobal(c, n) + d
         /\ \A m \in 0..d : ToGlobal(c, n + m) <= ToGlobal(c, n) + ToGlobal(c, d)
         /\ ToGlobal(c, n) <= ToGlobal(c, n + d)
<1>1. PICK k \in Nat \ {0} : Freq[c] = Unit * k
  <2> DEFINE q == Freq[c] \div Unit
  <2>1. Freq[c] \in Nat \ {0} /\ Unit \in Nat \ {0} /\ Freq[c] % Unit = 0
    BY ClockAssumption DEF Parameters
  <2>2. Freq[c] = Unit * q /\ q \in Nat
    BY <2>1, Multiples, DivBounds
  <2> HIDE DEF q
  <2>3. q # 0
    BY <2>1, <2>2
  <2> QED
    BY <2>2, <2>3
<1>2. \A m \in Nat : ToGlobal(c, m) = Slower(m, k) /\ ToCore(c, m) = m * k
  BY <1>1, Conversions
<1>3. \A m \in Nat : /\ Slower(m, k) \in Nat
                     /\ k * Slower(m, k) <= m + k - 1 /\ m <= k * Slower(m, k)
  BY SlowerBounds
<1>4. Slower(0, k) = 0
  BY SlowerUnique
<1>5. Slower(n + d * k, k) = Slower(n, k) + d
  <2> DEFINE q == Slower(n, k)
             m == n + d * k
  <2>1. q \in Nat /\ k * q <= n + k - 1 /\ n <= k * q
    BY <1>3
  <2> HIDE DEF q
  <2>2. k * (q + d) = k * q + d * k /\ d * k \in Nat
    BY <2>1
  <2>3. m \in Nat /\ k * (q + d) <= m + k - 1 /\ m <= k * (q + d)
    BY <2>1, <2>2
  <2> HIDE DEF m
  <2>4. Slower(m, k) = q + d
    BY <2>1, <2>3, SlowerUnique
  <2> QED
    BY <2>4 DEF q, m
<1>6. ASSUME NEW m \in 0..d
      PROVE  Slower(n + m, k) <= Slower(n, k) + Slower(d, k)
  <2> DEFINE q == Slower(n, k) + Slower(d, k)
             x == Slower(n + m, k)
  <2>1. k * q = k * Slower(n, k) + k * Slower(d, k) /\ q \in Nat /\ x \in Nat
    BY <1>3
  <2>2. n + m <= k * q /\ k * x <= n + m + k - 1
    BY <1>3, <2>1
  <2> HIDE DEF q, x
  <2>3. ASSUME q + 1 <= x PROVE FALSE
    <3>1. k * (q + 1) <= k * x
      BY <2>1, <2>3, TimesOrder
    <3>2. k * (q + 1) = k * q + k
      BY <2>1
    <3> QED
      BY <3>1, <3>2, <2>1, <2>2
  <2> QED
    BY <2>1, <2>3 DEF q, x
<1>7. d * k \in Nat /\ n + d * k \in Nat
  OBVIOUS
<1>8. ToGlobal(c, n + ToCore(c, d)) = ToGlobal(c, n) + d
  <2>1. ToCore(c, d) = d * k /\ ToGlobal(c, n) = Slower(n, k)
    BY <1>2
  <2>2. ToGlobal(c, n + d * k) = Slower(n + d * k, k)
    BY <1>2, <1>7
  <2> QED
    BY <1>5, <2>1, <2>2, Zenon
<1>9. \A m \in 0..d : ToGlobal(c, n + m) <= ToGlobal(c, n) + ToGlobal(c, d)
  <2> TAKE m \in 0..d
  <2>1. ToGlobal(c, n) = Slower(n, k) /\ ToGlobal(c, d) = Slower(d, k)
    BY <1>2
  <2>2. n + m \in Nat /\ ToGlobal(c, n + m) = Slower(n + m, k)
    BY <1>2
  <2> QED
    BY <1>6, <2>1, <2>2
<1>10. ToGlobal(c, n) <= ToGlobal(c, n + d)
  <2> DEFINE q == Slower(n, k)
             x == Slower(n + d, k)
  <2>1. /\ q \in Nat /\ x \in Nat
        /\ k * q <= n + k - 1 /\ n + d <= k * x
    BY <1>3
  <2>2. ToGlobal(c, n) = q /\ ToGlobal(c, n + d) = x
    BY <1>2
  <2> HIDE DEF q, x
  <2>3. ASSUME x + 1 <= q PROVE FALSE
    <3>1. k * (x + 1) <= k * q
      BY <2>1, <2>3, TimesOrder
    <3>2. k * (x + 1) = k * x + k
      BY <2>1
    <3> QED
      BY <3>1, <3>2, <2>1
  <2> QED
    BY <2>1, <2>2, <2>3
<1> QED
  BY <1>2, <1>3, <1>4, <1>7, <1>8, <1>9, <1>10

-----------------------------------------------------------------------------
(* The barrier time *)

\* The point to which a released client may run is not past a barrier that its
\* clock has not reached.
LEMMA NextSyncBound ==
  ASSUME NEW b \in Nat \ {0}, NEW n \in Nat, n % b = 0,
         NEW t \in Nat, t < n
  PROVE  /\ (t \div b) * b + b \in Nat
         /\ (t \div b) * b + b <= n
<1> DEFINE q == t \div b
           k == n \div b
<1>1. q \in Nat /\ k \in Nat /\ b * q <= t /\ n = b * k
  BY DivBounds, Multiples
<1> HIDE DEF q, k
<1>2. ASSUME k <= q PROVE FALSE
  BY <1>1, <1>2, TimesOrder
<1>3. b * (q + 1) <= b * k
  BY <1>1, <1>2, TimesOrder
<1>4. b * (q + 1) = q * b + b
  BY <1>1
<1> QED
  BY <1>1, <1>3, <1>4 DEF q

\* What isBarrierReached and barrierRelease do when exactly the threads whose
\* recorded clock is not below the barrier have acquired it: the barrier moves
\* only when every thread that runs has acquired it, not further than a
\* quantum past the slowest of them, and then somebody is released.
LEMMA SignalEffect ==
  ASSUME Parameters, next \in Nat, next % Interval = 0,
         NEW st, NEW loc \in [Cores -> Nat], NEW acq \in [Cores -> BOOLEAN],
         \A c \in Cores : (acq[c] = TRUE) <=> (loc[c] >= next),
         NEW sig, sig = signal(st, loc, acq)
  PROVE  /\ sig.next \in Nat /\ sig.next % Interval = 0 /\ sig.next >= next
         /\ \A c \in Cores : c \in sig.released <=> acq[c] /\ loc[c] < sig.next
         /\ sig.released = {} => sig.next = next
         /\ sig.next # next =>
              \A c \in Cores : st[c] = "RUNNING" =>
                                 acq[c] /\ loc[c] + Interval >= sig.next
<1>1. CASE ~isBarrierReached(st, loc)
  <2>1. sig = [next |-> next, released |-> {}]
    BY <1>1 DEF signal
  <2>2. {c \in Cores : acq[c] /\ loc[c] < next} = {}
    OBVIOUS
  <2> QED
    BY <2>1, <2>2
<1>2. CASE isBarrierReached(st, loc)
  <2> DEFINE C == {d \in Cores : acq[d]}
             S == {loc[c] : c \in C}
             first == Min(S)
             q == (first - next) \div Interval
             n == Advanced(loc, acq)
  <2>1. S \in SUBSET Nat /\ S # {}
    BY <1>2 DEF isBarrierReached
  <2>2. first \in S /\ \A x \in S : first <= x
    <3> HIDE DEF S
    <3> QED
      BY <2>1, MinNat
  <2>3. PICK f \in Cores : acq[f] /\ loc[f] = first
    BY <2>2
  <2>4. \A c \in Cores : acq[c] => first <= loc[c]
    BY <2>2
  <2>5. first \in Nat /\ first >= next /\ first - next \in Nat
    BY <2>3
  <2> HIDE DEF first, S
  <2>6. n = next + Interval * (q + 1)
    BY <2>5 DEF Advanced, first, S
  <2>7. /\ q \in Nat /\ Interval * q <= first - next
        /\ first - next < Interval * q + Interval
    BY <2>5, DivBounds DEF Parameters
  <2> HIDE DEF q
  <2>8. Interval * (q + 1) = Interval * q + Interval /\ Interval * q \in Nat
    BY <2>7 DEF Parameters
  <2>9. n \in Nat /\ n > first /\ n <= first + Interval /\ n > next
    BY <2>5, <2>6, <2>7, <2>8 DEF Parameters
  <2>10. n % Interval = 0
    <3> DEFINE k == next \div Interval
    <3>1. next = Interval * k /\ k \in Nat
      BY Multiples, DivBounds DEF Parameters
    <3> HIDE DEF k
    <3>2. n = Interval * (k + (q + 1))
      BY <2>6, <2>7, <3>1 DEF Parameters
    <3> HIDE DEF n
    <3> QED
      BY <2>7, <2>9, <3>1, <3>2, Multiples DEF Parameters
  <2> HIDE DEF n
  <2>11. sig = [next |-> n, released |-> Below(loc, acq, n)]
    BY <1>2 DEF signal, n
  <2>12. f \in Below(loc, acq, n)
    BY <2>3, <2>9 DEF Below
  <2>13. \A c \in Cores : st[c] = "RUNNING" => acq[c] /\ loc[c] + Interval >= n
    <3> SUFFICES ASSUME NEW c \in Cores, st[c] = "RUNNING"
                 PROVE  acq[c] /\ loc[c] + Interval >= n
      OBVIOUS
    <3>1. ~(loc[c] < next)
      BY <1>2 DEF isBarrierReached
    <3>2. acq[c] /\ first <= loc[c] /\ loc[c] \in Nat
      BY <2>4, <3>1
    <3> QED
      BY <2>5, <2>9, <3>2 DEF Parameters
  <2> QED
    BY <2>9, <2>10, <2>11, <2>12, <2>13 DEF Below
<1> QED
  BY <1>1, <1>2

-----------------------------------------------------------------------------
(* The inductive invariant *)

\* The global cycles of the longest instruction.
Longest == Max({ToGlobal(e, MaxStep) : e \in Cores})

\* The request of c is on its way, and c waits where it sent it.
Asks(c) == /\ pkt[c] # None /\ pkt[c].time = Now(c)
           /\ reply[c] = None /\ status[c] = "RUNNING" /\ ~acquired[c]
\* The server has handled the request and c has not been answered.
Holds(c, st) == pkt[c] = None /\ reply[c] = None /\ status[c] = st
\* The answer is on its way.
Answered(c) == /\ pkt[c] = None /\ reply[c] # None
               /\ status[c] = "RUNNING" /\ ~acquired[c]

\* Where the request of each thread is, for what the thread is doing.
ThreadInv(c) ==
  /\ pc[c] = "run" => Holds(c, "RUNNING") /\ ~acquired[c]
  /\ pc[c] = "sync" =>
       \/ Asks(c) /\ pkt[c].op = "sync"
       \/ Holds(c, "RUNNING") /\ acquired[c] /\ local[c] = Now(c)
       \/ Answered(c) /\ reply[c] = Release /\ Now(c) < next
  /\ pc[c] = "call" =>
       \/ Asks(c) /\ pkt[c].op \notin {"sync", "exit"}
       \/ Holds(c, "STALLED") /\ ~acquired[c]
       \/ Answered(c)
  /\ pc[c] = "done" =>
       \/ Asks(c) /\ pkt[c].op = "exit"
       \/ Holds(c, "IDLE") /\ ~acquired[c]

\* Nobody is further than the longest instruction past the barrier.
UpperBound(c) ==
  /\ Now(c) < next + Longest
  /\ reply[c] # None => reply[c].time < next + Longest

\* A thread that runs and has not been left behind is at most a quantum below
\* the barrier, or will be when it gets its answer.
LowerBound(c) ==
  status[c] = "RUNNING" /\ c \notin behind =>
    \/ Now(c) + Interval >= next
    \/ pc[c] = "call" /\ reply[c] # None /\ reply[c].time + Interval >= next

CoreInv(c) ==
  /\ ThreadInv(c) /\ UpperBound(c) /\ LowerBound(c)
  /\ nextSync[c] <= next
  /\ acquired[c] <=> local[c] >= next

BarrierInv == TypeOK /\ \A c \in Cores : CoreInv(c)

\* The values of a function on a finite set are finitely many.
LEMMA FiniteValues ==
  ASSUME NEW S, IsFiniteSet(S), NEW f
  PROVE  IsFiniteSet({f[x] : x \in S})
<1> DEFINE T == {f[x] : x \in S}
           g == [x \in S |-> f[x]]
<1>1. g \in Surjection(S, T)
  BY DEF Surjection
<1> QED
  BY <1>1, FS_Surjection

\* The longest instruction is as long as any.
LEMMA LongestInstruction ==
  ASSUME Parameters, NEW c \in Cores
  PROVE  Longest \in Nat /\ ToGlobal(c, MaxStep) <= Longest
<1> DEFINE S == {ToGlobal(e, MaxStep) : e \in Cores}
<1>1. \A e \in Cores : ToGlobal(e, MaxStep) \in Nat
  BY Clock, MaxStep \in Nat DEF Parameters
<1>2. S \in SUBSET Nat /\ S # {}
  BY <1>1
<1>3. IsFiniteSet(S)
  <2> DEFINE f == [e \in Cores |-> ToGlobal(e, MaxStep)]
  <2>1. S = {f[e] : e \in Cores}
    OBVIOUS
  <2> HIDE DEF f, S
  <2> QED
    BY <2>1, FiniteValues DEF Parameters
<1>4. ToGlobal(c, MaxStep) \in S
  OBVIOUS
<1> HIDE DEF S
<1>5. Max(S) \in S /\ \A x \in S : x <= Max(S)
  BY <1>2, <1>3, MaxNat
<1> QED
  BY <1>2, <1>4, <1>5 DEF S, Longest

\* The clock of a core is a number.
LEMMA NowType ==
  ASSUME Parameters, TypeOK, NEW c \in Cores
  PROVE  clk[c] \in Nat /\ Now(c) \in Nat
<1>1. clk[c] \in Nat
  BY DEF TypeOK
<1> QED
  BY <1>1, Clock DEF Now

\* A core that a step leaves alone.
LEMMA CoreFrame ==
  ASSUME NEW d \in Cores, CoreInv(d), next' = next,
         clk'[d] = clk[d], nextSync'[d] = nextSync[d], pc'[d] = pc[d],
         pkt'[d] = pkt[d], reply'[d] = reply[d], status'[d] = status[d],
         local'[d] = local[d], acquired'[d] = acquired[d],
         d \in behind <=> d \in behind'
  PROVE  CoreInv(d)'
<1>1. Now(d)' = Now(d) /\ Longest' = Longest
  BY DEF Now, Longest
<1> QED
  BY <1>1 DEF CoreInv, ThreadInv, UpperBound, LowerBound, Asks, Holds, Answered

\* The parameters satisfy the invariant when the program starts.
LEMMA BarrierInit == Parameters /\ Init => BarrierInv
<1> SUFFICES ASSUME Parameters, Init PROVE BarrierInv
  OBVIOUS
<1>1. TypeOK
  <2>1. Interval % Interval = 0 /\ Interval \in Nat
    BY Multiples, Interval = Interval * 1 DEF Parameters
  <2> QED
    BY <2>1 DEF Init, TypeOK
<1>2. ASSUME NEW c \in Cores PROVE CoreInv(c)
  <2>1. Now(c) = 0
    BY Clock DEF Now, Init
  <2>2. Longest \in Nat
    BY LongestInstruction
  <2>3. pc[c] = "run" /\ Holds(c, "RUNNING") /\ acquired[c] = FALSE
    BY DEF Init, Holds
  <2>4. local[c] = 0 /\ nextSync[c] = next /\ next = Interval /\ Interval \in Nat \ {0}
    BY DEF Init, Parameters
  <2>5. ThreadInv(c)
    BY <2>3 DEF ThreadInv
  <2>6. UpperBound(c) /\ LowerBound(c)
    BY <2>1, <2>2, <2>3, <2>4 DEF UpperBound, LowerBound, Holds
  <2> QED
    BY <2>3, <2>4, <2>5, <2>6 DEF CoreInv
<1> QED
  BY <1>1, <1>2 DEF BarrierInv

\* Clients: an instruction does not end further than its length past the
\* barrier, and a call is sent from where the thread is.
LEMMA ComputeStep ==
  ASSUME Parameters, BarrierInv, NEW c \in Cores, Compute(c)
  PROVE  BarrierInv'
<1>1. PICK n \in 1..MaxStep : clk' = [clk EXCEPT ![c] = @ + n]
  BY DEF Compute
<1>2. /\ pc[c] = "run" /\ Now(c) < nextSync[c] /\ CoreInv(c) /\ TypeOK
      /\ UNCHANGED <<nextSync, pc, pkt, reply, status, next, local, acquired, behind>>
  BY DEF Compute, BarrierInv, barrierVars
<1>3. clk[c] \in Nat /\ Now(c) \in Nat /\ clk'[c] = clk[c] + n
  BY <1>1, <1>2, NowType DEF TypeOK
<1>4. TypeOK'
  BY <1>1, <1>2, <1>3 DEF TypeOK, Parameters
<1>5. ASSUME NEW d \in Cores, d # c PROVE CoreInv(d)'
  BY <1>1, <1>2, <1>5, CoreFrame DEF BarrierInv, TypeOK
<1>6. CoreInv(c)'
  <2>1. n \in 0..MaxStep /\ MaxStep \in Nat
    BY DEF Parameters
  <2>2. ToGlobal(c, clk[c] + n) <= ToGlobal(c, clk[c]) + ToGlobal(c, MaxStep)
    BY <1>3, <2>1, Clock
  <2>3. Now(c)' = ToGlobal(c, clk[c] + n) /\ Longest' = Longest
    BY <1>3 DEF Now, Longest
  <2>4. Longest \in Nat /\ ToGlobal(c, MaxStep) <= Longest /\ ToGlobal(c, MaxStep) \in Nat
    BY <2>1, LongestInstruction, Clock
  <2>5. Now(c)' \in Nat /\ Now(c)' <= Now(c) + Longest
    <3>1. ToGlobal(c, clk[c] + n) \in Nat
      BY <1>3, Clock
    <3> QED
      BY <1>3, <2>2, <2>3, <2>4, <3>1 DEF Now
  <2>6. Now(c) + Longest < next + Longest
    BY <1>2, <1>3, <2>4 DEF CoreInv, TypeOK
  <2>7. UpperBound(c)'
    BY <1>2, <1>3, <2>3, <2>4, <2>5, <2>6 DEF UpperBound, CoreInv, TypeOK, ThreadInv, Holds
  <2>8. Now(c)' >= Now(c)
    <3>1. ToGlobal(c, clk[c]) <= ToGlobal(c, clk[c] + n)
      BY <1>3, <2>1, n \in Nat, Clock
    <3> QED
      BY <3>1, <2>3 DEF Now
  <2>9. LowerBound(c)'
    BY <1>2, <1>3, <2>5, <2>8 DEF LowerBound, CoreInv, TypeOK, Parameters
  <2> QED
    BY <1>2, <2>7, <2>9 DEF CoreInv, ThreadInv, Holds
<1> QED
  BY <1>4, <1>5, <1>6 DEF BarrierInv

\* A core that sends to the server keeps the invariant.
LEMMA SendStep ==
  ASSUME Parameters, BarrierInv, NEW c \in Cores, pc[c] = "run",
         NEW op \in AllOps \cup {"sync"}, Send(c, op),
         NEW to \in {"sync", "call", "done"}, pc' = [pc EXCEPT ![c] = to],
         to = "sync" <=> op = "sync", to = "done" <=> op = "exit",
         UNCHANGED <<clk, nextSync, reply, status, barrierVars>>
  PROVE  BarrierInv'
<1>1. CoreInv(c) /\ TypeOK /\ Now(c) \in Nat
  BY NowType DEF BarrierInv
<1>2. UNCHANGED <<clk, nextSync, reply, status, next, local, acquired, behind>>
  BY DEF barrierVars
<1>3. pkt' = [pkt EXCEPT ![c] = [op |-> op, time |-> Now(c)]]
  BY DEF Send
<1>4. [op |-> op, time |-> Now(c)] \in [op : AllOps \cup {"sync"}, time : Nat]
  BY <1>1
<1>5. TypeOK'
  BY <1>1, <1>2, <1>3, <1>4 DEF TypeOK
<1>6. ASSUME NEW d \in Cores, d # c PROVE CoreInv(d)'
  BY <1>1, <1>2, <1>3, <1>6, CoreFrame DEF BarrierInv, TypeOK
<1>7. CoreInv(c)'
  <2>1. Now(c)' = Now(c) /\ Longest' = Longest
    BY <1>2 DEF Now, Longest
  <2>2. pkt'[c] # None /\ pkt'[c].op = op /\ pkt'[c].time = Now(c) /\ pc'[c] = to
    BY <1>1, <1>3, <1>4 DEF TypeOK, Parameters
  <2>3. Asks(c)'
    BY <1>1, <1>2, <2>1, <2>2 DEF Asks, CoreInv, ThreadInv, Holds
  <2>4. ThreadInv(c)'
    BY <2>2, <2>3 DEF ThreadInv
  <2>5. UpperBound(c)' /\ LowerBound(c)'
    BY <1>1, <1>2, <2>1 DEF CoreInv, ThreadInv, Holds, UpperBound, LowerBound
  <2> QED
    BY <1>1, <1>2, <2>4, <2>5 DEF CoreInv
<1> QED
  BY <1>5, <1>6, <1>7 DEF BarrierInv

\* A core that the barrier releases keeps it too.
LEMMA ReleasedStep ==
  ASSUME Parameters, BarrierInv, NEW c \in Cores, Released(c)
  PROVE  BarrierInv'
<1>1. CoreInv(c) /\ TypeOK /\ Now(c) \in Nat
  BY NowType DEF BarrierInv
<1>2. /\ pc[c] = "sync" /\ reply[c] = Release
      /\ reply' = [reply EXCEPT ![c] = None] /\ pc' = [pc EXCEPT ![c] = "run"]
      /\ nextSync' = [nextSync EXCEPT ![c] = NextSync(Now(c))]
      /\ UNCHANGED <<clk, pkt, status, next, local, acquired, behind>>
  BY DEF Released, barrierVars
<1>3. reply[c] # None
  BY <1>2, Release \in [kind : {"release", "reply"}, time : Nat] DEF Parameters, Release
<1>4. Now(c) < next /\ Answered(c)
  BY <1>1, <1>2, <1>3 DEF CoreInv, ThreadInv, Asks, Holds
<1>5. NextSync(Now(c)) \in Nat /\ NextSync(Now(c)) <= next
  BY <1>1, <1>4, NextSyncBound DEF NextSync, Parameters, TypeOK
<1>6. TypeOK'
  BY <1>1, <1>2, <1>5 DEF TypeOK
<1>7. ASSUME NEW d \in Cores, d # c PROVE CoreInv(d)'
  BY <1>1, <1>2, <1>7, CoreFrame DEF BarrierInv, TypeOK
<1>8. CoreInv(c)'
  <2>1. Now(c)' = Now(c) /\ Longest' = Longest
    BY <1>2 DEF Now, Longest
  <2>2. pc'[c] = "run" /\ reply'[c] = None /\ nextSync'[c] = NextSync(Now(c))
    BY <1>1, <1>2 DEF TypeOK
  <2>3. ThreadInv(c)'
    BY <1>2, <1>4, <2>2 DEF ThreadInv, Answered, Holds
  <2>4. UpperBound(c)' /\ LowerBound(c)'
    BY <1>1, <1>2, <2>1, <2>2 DEF CoreInv, UpperBound, LowerBound
  <2> QED
    BY <1>1, <1>2, <1>5, <2>2, <2>3, <2>4 DEF CoreInv
<1> QED
  BY <1>6, <1>7, <1>8 DEF BarrierInv

\* A reply moves the clock to its time at the latest.
LEMMA ReturnStep ==
  ASSUME Parameters, BarrierInv, NEW c \in Cores, Return(c)
  PROVE  BarrierInv'
<1> DEFINE t == reply[c].time
           add == IF t > Now(c) THEN ToCore(c, t - Now(c)) ELSE 0
<1>1. CoreInv(c) /\ TypeOK /\ Now(c) \in Nat /\ clk[c] \in Nat
  BY NowType DEF BarrierInv
<1>2. /\ pc[c] = "call" /\ reply[c] # None
      /\ reply' = [reply EXCEPT ![c] = None] /\ pc' = [pc EXCEPT ![c] = "run"]
      /\ clk' = [clk EXCEPT ![c] = IF t > Now(c)
                                   THEN @ + ToCore(c, t - Now(c)) ELSE @]
      /\ UNCHANGED <<nextSync, pkt, status, next, local, acquired, behind>>
  BY DEF Return, barrierVars
<1>3. t \in Nat /\ Answered(c)
  BY <1>1, <1>2 DEF TypeOK, CoreInv, ThreadInv, Asks, Holds
<1> HIDE DEF t
<1>4. /\ add \in Nat
      /\ ToGlobal(c, clk[c] + add) = IF t > Now(c) THEN t ELSE Now(c)
  <2>1. CASE t > Now(c)
    <3>1. t - Now(c) \in Nat /\ Now(c) + (t - Now(c)) = t
      BY <1>1, <1>3, <2>1
    <3>2. ToCore(c, t - Now(c)) \in Nat
      BY <1>1, <3>1, Clock
    <3>3. ToGlobal(c, clk[c] + ToCore(c, t - Now(c))) = ToGlobal(c, clk[c]) + (t - Now(c))
      BY <1>1, <3>1, Clock
    <3> QED
      BY <2>1, <3>1, <3>2, <3>3 DEF Now
  <2>2. CASE ~(t > Now(c))
    BY <1>1, <2>2 DEF Now
  <2> QED
    BY <2>1, <2>2
<1>5. clk' = [clk EXCEPT ![c] = @ + add]
  <2>1. CASE t > Now(c)
    BY <1>2, <2>1
  <2>2. CASE ~(t > Now(c))
    <3>1. add = 0 /\ clk[c] + 0 = clk[c]
      BY <1>1, <2>2
    <3> QED
      BY <1>2, <2>2, <3>1
  <2> QED
    BY <2>1, <2>2
<1> HIDE DEF add
<1>6. clk'[c] = clk[c] + add /\ clk[c] + add \in Nat
  BY <1>1, <1>4, <1>5 DEF TypeOK
<1>7. Now(c)' = IF t > Now(c) THEN t ELSE Now(c)
  BY <1>4, <1>6 DEF Now
<1>8. TypeOK'
  BY <1>1, <1>2, <1>5, <1>6 DEF TypeOK
<1>9. ASSUME NEW d \in Cores, d # c PROVE CoreInv(d)'
  BY <1>1, <1>2, <1>5, <1>9, CoreFrame DEF BarrierInv, TypeOK
<1>10. CoreInv(c)'
  <2>1. Longest' = Longest
    BY DEF Longest
  <2>2. pc'[c] = "run" /\ reply'[c] = None
    BY <1>1, <1>2 DEF TypeOK
  <2>3. ThreadInv(c)'
    BY <1>2, <1>3, <2>2 DEF ThreadInv, Answered, Holds
  <2>4. UpperBound(c)'
    BY <1>1, <1>2, <1>7, <2>1, <2>2 DEF CoreInv, UpperBound, t
  <2>5. LowerBound(c)'
    BY <1>1, <1>2, <1>3, <1>7, <2>2 DEF CoreInv, LowerBound, t, TypeOK, Parameters
  <2> QED
    BY <1>1, <1>2, <2>3, <2>4, <2>5 DEF CoreInv
<1> QED
  BY <1>8, <1>9, <1>10 DEF BarrierInv

-----------------------------------------------------------------------------
(* The server *)

\* A signal with the clocks and waiters as they are, for the threads that run
\* according to st: the others keep their place, and nobody who runs is left
\* more than a quantum below the new barrier.
LEMMA SignalKeeps ==
  ASSUME Parameters, BarrierInv, NEW st, NEW sig,
         sig = signal(st, local, acquired), NEW d \in Cores
  PROVE  /\ sig.next \in Nat /\ sig.next % Interval = 0 /\ sig.next >= next
         /\ d \in sig.released <=> acquired[d] /\ local[d] < sig.next
         /\ sig.released = {} => sig.next = next
         /\ sig.next # next /\ st[d] = "RUNNING" =>
              acquired[d] /\ Now(d) + Interval >= sig.next
<1>1. TypeOK
  BY DEF BarrierInv
<1>2. \A c \in Cores : (acquired[c] = TRUE) <=> (local[c] >= next)
  BY <1>1 DEF BarrierInv, CoreInv, TypeOK
<1>3. /\ next \in Nat /\ next % Interval = 0
      /\ local \in [Cores -> Nat] /\ acquired \in [Cores -> BOOLEAN]
  BY <1>1 DEF TypeOK
<1>4. acquired[d] => local[d] = Now(d)
  BY DEF BarrierInv, CoreInv, ThreadInv, TypeOK, Asks, Holds, Answered
<1>5. /\ sig.next \in Nat /\ sig.next % Interval = 0 /\ sig.next >= next
      /\ \A c \in Cores : c \in sig.released <=> acquired[c] /\ local[c] < sig.next
      /\ sig.released = {} => sig.next = next
      /\ sig.next # next =>
           \A c \in Cores : st[c] = "RUNNING" =>
                              acquired[c] /\ local[c] + Interval >= sig.next
  BY <1>2, <1>3, SignalEffect, Zenon
<1> QED
  BY <1>4, <1>5

\* A stop of thread c that resumes the threads in S at a time not before c's.
LEMMA StopStep ==
  ASSUME Parameters, BarrierInv, NEW c \in Cores,
         Asks(c), pkt' = [pkt EXCEPT ![c] = None],
         NEW v, NEW S \in SUBSET Cores, NEW time \in Nat,
         \/ v = "STALLED" /\ pc[c] = "call"
         \/ v = "IDLE" /\ pc[c] = "done" /\ c \notin S,
         S \subseteq Stalled \cup {c},
         time >= Now(c), time < next + Longest,
         Stop(c, v, S, time)
  PROVE  BarrierInv'
<1> DEFINE st == Set(status, {c}, v)
           sig == signal(st, local, acquired)
<1>1. /\ next' = sig.next
      /\ acquired' = [d \in Cores |-> acquired[d] /\ d \notin sig.released]
      /\ reply' = [d \in Cores |-> IF d \in sig.released THEN Release
                                    ELSE IF d \in S THEN Response(time)
                                    ELSE reply[d]]
      /\ behind' = (behind \ {c}) \cup Left(c, S, sig.released # {})
      /\ status' = [d \in Cores |-> IF d \in S THEN "RUNNING"
                                     ELSE IF d = c THEN v ELSE status[d]]
      /\ UNCHANGED <<clk, nextSync, pc, local>>
  BY DEF Stop, Barrier, Answer, Set, clientVars
<1>2. \A d \in Cores : st[d] = IF d = c THEN v ELSE status[d]
  BY DEF Set
<1> HIDE DEF st
<1>3. \A d \in Cores :
        /\ sig.next \in Nat /\ sig.next % Interval = 0 /\ sig.next >= next
        /\ d \in sig.released <=> acquired[d] /\ local[d] < sig.next
        /\ sig.released = {} => sig.next = next
        /\ sig.next # next /\ st[d] = "RUNNING" =>
             acquired[d] /\ Now(d) + Interval >= sig.next
  BY SignalKeeps
<1> HIDE DEF sig
<1>4. TypeOK /\ CoreInv(c) /\ Now(c) \in Nat /\ Longest \in Nat
  BY NowType, LongestInstruction DEF BarrierInv
<1>5. /\ Release \in [kind : {"release", "reply"}, time : Nat]
      /\ Response(time) \in [kind : {"release", "reply"}, time : Nat]
      /\ Release # None /\ Response(time) # None
      /\ Release.time = 0 /\ Response(time).time = time
  BY DEF Release, Response, Parameters
<1>6. \A d \in S : d # c => pc[d] = "call" /\ ~acquired[d] /\ pkt[d] = None
  BY DEF BarrierInv, CoreInv, ThreadInv, Stalled, Asks, Holds, Answered, TypeOK
<1>7. TypeOK'
  <2>1. reply' \in [Cores -> {None} \cup [kind : {"release", "reply"}, time : Nat]]
    BY <1>1, <1>4, <1>5 DEF TypeOK
  <2>2. /\ acquired' \in [Cores -> BOOLEAN] /\ behind' \subseteq Cores
        /\ pkt' \in [Cores -> {None} \cup [op : AllOps \cup {"sync"}, time : Nat]]
    BY <1>1, <1>4 DEF TypeOK, Left
  <2>3. status' \in [Cores -> {"RUNNING", "STALLED", "IDLE"}]
    BY <1>1, <1>4 DEF TypeOK
  <2> QED
    BY <1>1, <1>3, <1>4, <2>1, <2>2, <2>3 DEF TypeOK
<1>8. ASSUME NEW d \in Cores PROVE CoreInv(d)'
  <2>1. Now(d)' = Now(d) /\ Longest' = Longest
    BY <1>1 DEF Now, Longest
  <2>2. CoreInv(d) /\ Now(d) \in Nat /\ local[d] \in Nat /\ nextSync[d] \in Nat
    BY <1>4, NowType DEF BarrierInv, TypeOK
  <2>3. /\ sig.next \in Nat /\ sig.next >= next /\ next \in Nat
        /\ d \in sig.released <=> acquired[d] /\ local[d] < sig.next
        /\ sig.next # next /\ st[d] = "RUNNING" =>
             acquired[d] /\ Now(d) + Interval >= sig.next
    BY <1>3, <1>4 DEF TypeOK
  <2>4. /\ nextSync'[d] <= next'
        /\ acquired'[d] <=> local'[d] >= next'
    <3>1. acquired[d] <=> local[d] >= next
      BY <2>2 DEF CoreInv
    <3>2. acquired'[d] <=> acquired[d] /\ d \notin sig.released
      BY <1>1
    <3>3. local[d] >= sig.next <=> acquired[d] /\ d \notin sig.released
      BY <2>2, <2>3, <3>1
    <3> QED
      BY <1>1, <2>2, <2>3, <3>2, <3>3 DEF CoreInv
  <2>5. UpperBound(d)'
    <3>1. Now(d) < sig.next + Longest /\ time < sig.next + Longest
      BY <1>4, <2>2, <2>3 DEF CoreInv, UpperBound
    <3>2. reply'[d] \in {Release, Response(time), reply[d]}
      BY <1>1
    <3>3. reply[d] # None => reply[d].time \in Nat /\ reply[d].time < sig.next + Longest
      BY <1>4, <2>2, <2>3 DEF CoreInv, UpperBound, TypeOK
    <3> QED
      BY <1>1, <1>4, <1>5, <2>1, <2>2, <2>3, <3>1, <3>2, <3>3 DEF UpperBound
  <2>6. ThreadInv(d)' /\ LowerBound(d)'
    <3>1. CASE d \in sig.released
      <4>1. acquired[d] /\ local[d] < sig.next /\ local[d] >= next /\ d # c /\ d \notin S
        BY <2>2, <2>3, <1>6, <3>1 DEF CoreInv, Asks
      <4>2. pc[d] = "sync" /\ Holds(d, "RUNNING") /\ local[d] = Now(d)
        BY <2>2, <4>1, <1>4 DEF CoreInv, ThreadInv, Asks, Holds, Answered, TypeOK
      <4>3. Now(d) + Interval >= sig.next
        <5>1. sig.next # next /\ st[d] = "RUNNING"
          BY <1>2, <2>2, <2>3, <4>1, <4>2 DEF Holds
        <5> QED
          BY <2>3, <5>1
      <4>4. /\ reply'[d] = Release /\ status'[d] = "RUNNING" /\ ~acquired'[d]
            /\ pkt'[d] = None /\ pc'[d] = "sync" /\ next' = sig.next
        BY <1>1, <1>4, <3>1, <4>1, <4>2 DEF Holds, TypeOK
      <4>5. Answered(d)'
        BY <1>5, <4>4 DEF Answered
      <4> QED
        BY <2>1, <4>1, <4>2, <4>3, <4>4, <4>5 DEF ThreadInv, LowerBound
    <3>2. CASE d \in S
      <4>1. d \notin sig.released /\ pc[d] = "call" /\ ~acquired[d]
        BY <1>6, <2>3, <3>2 DEF Asks
      <4>2. /\ reply'[d] = Response(time) /\ status'[d] = "RUNNING" /\ ~acquired'[d]
            /\ pkt'[d] = None /\ pc'[d] = "call" /\ next' = sig.next
        BY <1>1, <1>4, <1>6, <3>2, <4>1 DEF TypeOK
      <4>3. Answered(d)'
        BY <1>5, <4>2 DEF Answered
      <4>4. ASSUME d \notin behind' PROVE time + Interval >= sig.next
        <5>1. sig.released = {} /\ c \notin behind
          BY <1>1, <3>2, <4>4 DEF Left
        <5>2. Now(c) + Interval >= next /\ sig.next = next
          BY <1>3, <1>4, <5>1 DEF CoreInv, LowerBound, Asks
        <5> QED
          BY <1>4, <2>3, <5>2 DEF Parameters
      <4> QED
        BY <1>5, <4>2, <4>3, <4>4 DEF ThreadInv, LowerBound
    <3>3. CASE d \notin sig.released /\ d \notin S /\ d = c
      <4>1. /\ reply'[d] = None /\ status'[d] = v /\ ~acquired'[d]
            /\ pkt'[d] = None /\ pc'[d] = pc[d]
        BY <1>1, <1>4, <3>3 DEF Asks, TypeOK
      <4> QED
        BY <4>1, <3>3 DEF ThreadInv, LowerBound, Holds
    <3>4. CASE d \notin sig.released /\ d \notin S /\ d # c
      <4>1. /\ reply'[d] = reply[d] /\ status'[d] = status[d] /\ pkt'[d] = pkt[d]
            /\ acquired'[d] <=> acquired[d]
            /\ pc'[d] = pc[d] /\ next' = sig.next /\ local'[d] = local[d]
            /\ d \in behind => d \in behind'
        BY <1>1, <1>4, <3>4 DEF TypeOK
      <4>2. ThreadInv(d)'
        BY <2>1, <2>2, <2>3, <4>1
        DEF CoreInv, ThreadInv, Asks, Holds, Answered
      <4>3. LowerBound(d)'
        <5>1. CASE sig.next = next
          BY <2>1, <2>2, <4>1, <5>1 DEF CoreInv, LowerBound
        <5>2. CASE sig.next # next
          BY <1>2, <2>1, <2>3, <3>4, <4>1, <5>2 DEF LowerBound
        <5> QED
          BY <5>1, <5>2
      <4> QED
        BY <4>2, <4>3
    <3> QED
      BY <3>1, <3>2, <3>3, <3>4
  <2> QED
    BY <2>4, <2>5, <2>6 DEF CoreInv
<1> QED
  BY <1>7, <1>8 DEF BarrierInv

\* barrierWait: the release of a client that asks too early, or a signal with
\* the clock of the client recorded.
LEMMA BarrierWaitStep ==
  ASSUME Parameters, BarrierInv, NEW c \in Cores, barrierWait(c)
  PROVE  BarrierInv'
<1> DEFINE time == pkt[c].time
           loc == [local EXCEPT ![c] = time]
           acq == [acquired EXCEPT ![c] = TRUE]
           sig == signal(status, loc, acq)
<1>1. TypeOK /\ CoreInv(c) /\ Now(c) \in Nat /\ Longest \in Nat
  BY NowType, LongestInstruction DEF BarrierInv
<1>2. pkt[c] # None /\ pkt[c].op = "sync" /\ pkt' = [pkt EXCEPT ![c] = None]
  BY DEF barrierWait, Takes
<1>3. pc[c] = "sync" /\ Asks(c) /\ time = Now(c)
  BY <1>1, <1>2 DEF CoreInv, ThreadInv, Asks, Holds, Answered, TypeOK
<1> HIDE DEF time
<1>4. UNCHANGED <<clk, nextSync, pc, status>>
  BY DEF barrierWait, clientVars
<1>5. /\ Release \in [kind : {"release", "reply"}, time : Nat]
      /\ Release # None /\ Release.time = 0
  BY DEF Release, Parameters
<1>6. \A d \in Cores : Now(d)' = Now(d) /\ Longest' = Longest
  BY <1>4 DEF Now, Longest
<1>7. CASE time < next
  <2>1. reply' = [reply EXCEPT ![c] = Release] /\ UNCHANGED <<next, local, acquired, behind>>
    BY <1>7 DEF barrierWait, barrierVars, time
  <2>2. TypeOK'
    BY <1>1, <1>2, <1>4, <1>5, <2>1 DEF TypeOK
  <2>3. ASSUME NEW d \in Cores, d # c PROVE CoreInv(d)'
    BY <1>1, <1>2, <1>4, <2>1, <2>3, CoreFrame DEF BarrierInv, TypeOK
  <2>4. CoreInv(c)'
    <3>1. reply'[c] = Release /\ pkt'[c] = None
      BY <1>1, <1>2, <2>1 DEF TypeOK
    <3>2. ThreadInv(c)'
      BY <1>3, <1>4, <1>5, <1>6, <1>7, <2>1, <3>1 DEF ThreadInv, Answered, Asks
    <3>3. UpperBound(c)'
      BY <1>1, <1>5, <1>6, <2>1, <3>1 DEF CoreInv, UpperBound, TypeOK
    <3>4. LowerBound(c)'
      BY <1>1, <1>3, <1>4, <1>6, <2>1 DEF CoreInv, LowerBound
    <3> QED
      BY <1>1, <1>4, <2>1, <3>2, <3>3, <3>4 DEF CoreInv
  <2> QED
    BY <2>2, <2>3, <2>4 DEF BarrierInv
<1>8. CASE ~(time < next)
  <2>1. /\ local' = loc /\ next' = sig.next
        /\ acquired' = [d \in Cores |-> acq[d] /\ d \notin sig.released]
        /\ reply' = [d \in Cores |-> IF d \in sig.released THEN Release ELSE reply[d]]
        /\ behind' = behind \ {c}
    BY <1>8 DEF barrierWait, Barrier, Answer, time
  <2>2. /\ next \in Nat /\ next % Interval = 0
        /\ loc \in [Cores -> Nat] /\ acq \in [Cores -> BOOLEAN]
        /\ loc[c] = Now(c) /\ acq[c] = TRUE
    BY <1>1, <1>3 DEF TypeOK
  <2>3. \A d \in Cores : d # c => loc[d] = local[d] /\ acq[d] = acquired[d]
    BY <1>1 DEF TypeOK
  <2> HIDE DEF loc, acq
  <2>4. \A d \in Cores : (acq[d] = TRUE) <=> (loc[d] >= next)
    <3> TAKE d \in Cores
    <3>1. CASE d = c
      BY <1>1, <1>3, <1>8, <2>2, <3>1
    <3>2. CASE d # c
      BY <1>1, <2>3, <3>2 DEF BarrierInv, CoreInv, TypeOK
    <3> QED
      BY <3>1, <3>2
  <2>5. /\ sig.next \in Nat /\ sig.next % Interval = 0 /\ sig.next >= next
        /\ \A d \in Cores : d \in sig.released <=> acq[d] /\ loc[d] < sig.next
        /\ sig.next # next =>
             \A d \in Cores : status[d] = "RUNNING" =>
                                acq[d] /\ loc[d] + Interval >= sig.next
    <3>1. sig = signal(status, loc, acq)
      OBVIOUS
    <3>2. /\ next \in Nat /\ next % Interval = 0
          /\ loc \in [Cores -> Nat] /\ acq \in [Cores -> BOOLEAN]
      BY <2>2
    <3> HIDE DEF sig
    <3>3. sig.next \in Nat /\ sig.next % Interval = 0 /\ sig.next >= next
      BY <2>4, <3>1, <3>2, SignalEffect, Zenon
    <3>4. \A d \in Cores : d \in sig.released <=> acq[d] /\ loc[d] < sig.next
      BY <2>4, <3>1, <3>2, SignalEffect, Zenon
    <3>5. sig.next # next =>
            \A d \in Cores : status[d] = "RUNNING" =>
                               acq[d] /\ loc[d] + Interval >= sig.next
      <4> SUFFICES ASSUME sig.next # next, NEW d \in Cores, status[d] = "RUNNING"
                   PROVE  acq[d] /\ loc[d] + Interval >= sig.next
        OBVIOUS
      <4> QED
        BY <2>4, <3>1, <3>2, SignalEffect, Zenon
    <3> QED
      BY <3>3, <3>4, <3>5
  <2> HIDE DEF sig
  <2>6. TypeOK'
    <3>1. reply' \in [Cores -> {None} \cup [kind : {"release", "reply"}, time : Nat]]
      BY <1>1, <1>5, <2>1 DEF TypeOK
    <3>2. /\ acquired' \in [Cores -> BOOLEAN] /\ behind' \subseteq Cores
          /\ pkt' \in [Cores -> {None} \cup [op : AllOps \cup {"sync"}, time : Nat]]
      BY <1>1, <1>2, <2>1, <2>2 DEF TypeOK
    <3> QED
      BY <1>1, <1>4, <2>1, <2>2, <2>5, <3>1, <3>2 DEF TypeOK
  <2>7. ASSUME NEW d \in Cores PROVE CoreInv(d)'
    <3>1. CoreInv(d) /\ Now(d) \in Nat /\ loc[d] \in Nat /\ nextSync[d] \in Nat
      BY <1>1, <2>2, NowType DEF BarrierInv, TypeOK
    <3>2. /\ d \in sig.released <=> acq[d] /\ loc[d] < sig.next
          /\ sig.next # next /\ status[d] = "RUNNING" =>
               acq[d] /\ loc[d] + Interval >= sig.next
          /\ acq[d] <=> loc[d] >= next
      BY <2>4, <2>5
    <3>3. acq[d] => /\ pc[d] = "sync" /\ pkt'[d] = None /\ reply[d] = None
                    /\ status[d] = "RUNNING" /\ loc[d] = Now(d)
      <4>1. CASE d = c
        BY <1>1, <1>2, <1>3, <2>2, <4>1 DEF Asks, TypeOK
      <4>2. CASE d # c
        BY <1>1, <1>2, <2>3, <3>1, <4>2
        DEF CoreInv, ThreadInv, Asks, Holds, Answered, TypeOK
      <4> QED
        BY <4>1, <4>2
    <3>4. ~acq[d] => d # c /\ ~acquired[d] /\ pkt'[d] = pkt[d]
      BY <1>1, <1>2, <2>2, <2>3 DEF TypeOK
    <3>5. /\ nextSync'[d] <= next'
          /\ acquired'[d] <=> local'[d] >= next'
      <4>1. acquired'[d] <=> acq[d] /\ d \notin sig.released
        BY <2>1
      <4>2. loc[d] >= sig.next <=> acq[d] /\ d \notin sig.released
        BY <2>2, <2>5, <3>1, <3>2
      <4> QED
        BY <1>4, <2>1, <2>2, <2>5, <3>1, <4>1, <4>2 DEF CoreInv
    <3>6. UpperBound(d)'
      <4>1. Now(d) < sig.next + Longest
        BY <1>1, <2>2, <2>5, <3>1 DEF CoreInv, UpperBound
      <4>2. reply[d] # None => reply[d].time \in Nat /\ reply[d].time < sig.next + Longest
        BY <1>1, <2>2, <2>5, <3>1 DEF CoreInv, UpperBound, TypeOK
      <4>3. reply'[d] \in {Release, reply[d]}
        BY <2>1
      <4> QED
        BY <1>1, <1>5, <1>6, <2>1, <2>5, <3>1, <4>1, <4>2, <4>3 DEF UpperBound
    <3>7. ThreadInv(d)' /\ LowerBound(d)'
      <4>1. CASE acq[d] /\ d \in sig.released
        <5>1. /\ reply'[d] = Release /\ status'[d] = "RUNNING" /\ ~acquired'[d]
              /\ pkt'[d] = None /\ pc'[d] = "sync" /\ next' = sig.next
          BY <1>4, <2>1, <3>3, <4>1
        <5>2. Answered(d)'
          BY <1>5, <5>1 DEF Answered
        <5>3. Now(d) < sig.next /\ Now(d) + Interval >= sig.next
          BY <2>2, <2>5, <3>1, <3>2, <3>3, <4>1
        <5> QED
          BY <1>6, <5>1, <5>2, <5>3 DEF ThreadInv, LowerBound
      <4>2. CASE acq[d] /\ d \notin sig.released
        <5>1. /\ reply'[d] = None /\ status'[d] = "RUNNING" /\ acquired'[d]
              /\ pkt'[d] = None /\ pc'[d] = "sync" /\ next' = sig.next
              /\ local'[d] = Now(d)
          BY <1>4, <2>1, <3>3, <4>2
        <5>2. Now(d) >= sig.next
          BY <2>5, <3>1, <3>2, <3>3, <4>2
        <5> QED
          BY <1>6, <2>5, <3>1, <5>1, <5>2 DEF ThreadInv, LowerBound, Holds, Parameters
      <4>3. CASE ~acq[d]
        <5>1. /\ reply'[d] = reply[d] /\ status'[d] = status[d] /\ pkt'[d] = pkt[d]
              /\ ~acquired'[d] /\ ~acquired[d] /\ pc'[d] = pc[d] /\ next' = sig.next
              /\ d \in behind => d \in behind'
          BY <1>4, <2>1, <3>2, <3>4, <4>3
        <5>2. ThreadInv(d)'
          BY <1>6, <2>2, <2>5, <3>1, <5>1
          DEF CoreInv, ThreadInv, Asks, Holds, Answered
        <5>3. LowerBound(d)'
          BY <1>6, <3>1, <3>2, <4>3, <5>1 DEF CoreInv, LowerBound
        <5> QED
          BY <5>2, <5>3
      <4> QED
        BY <4>1, <4>2, <4>3
    <3> QED
      BY <3>5, <3>6, <3>7 DEF CoreInv
  <2> QED
    BY <2>6, <2>7 DEF BarrierInv
<1> QED
  BY <1>7, <1>8

\* mutexUnlock, condSignal.
LEMMA UnlockStep ==
  ASSUME Parameters, BarrierInv, NEW c \in Cores, Unlock(c)
  PROVE  BarrierInv'
<1>1. TypeOK /\ CoreInv(c) /\ Now(c) \in Nat /\ Longest \in Nat
  BY NowType, LongestInstruction DEF BarrierInv
<1>2. pkt[c] # None /\ pkt[c].op = "unlock" /\ pkt' = [pkt EXCEPT ![c] = None]
  BY DEF Unlock, Takes
<1>3. pc[c] = "call" /\ Asks(c) /\ pkt[c].time = Now(c)
  BY <1>1, <1>2 DEF CoreInv, ThreadInv, Asks, Holds, Answered, TypeOK
<1>4. PICK S \in OneStalled :
        /\ status' = Set(status, S, "RUNNING")
        /\ reply' = [d \in Cores |-> IF d \in S \cup {c}
                                      THEN Response(pkt[c].time) ELSE reply[d]]
        /\ behind' = behind \cup Left(c, S, FALSE)
  BY DEF Unlock
<1>5. UNCHANGED <<clk, nextSync, pc, next, local, acquired>>
  BY DEF Unlock, clientVars
<1>6. /\ S \subseteq Cores /\ c \notin S
      /\ \A d \in S : pc[d] = "call" /\ ~acquired[d] /\ pkt[d] = None
  BY <1>1, <1>3
  DEF OneStalled, Stalled, BarrierInv, CoreInv, ThreadInv, Asks, Holds, Answered, TypeOK
<1> DEFINE time == Now(c)
<1>7. /\ Response(time) \in [kind : {"release", "reply"}, time : Nat]
      /\ Response(time) # None /\ Response(time).time = time
  BY <1>1 DEF Response, Parameters
<1>8. TypeOK'
  <2>1. status' \in [Cores -> {"RUNNING", "STALLED", "IDLE"}]
    BY <1>1, <1>4 DEF TypeOK, Set
  <2>2. reply' \in [Cores -> {None} \cup [kind : {"release", "reply"}, time : Nat]]
    BY <1>1, <1>3, <1>4, <1>7 DEF TypeOK
  <2> QED
    BY <1>1, <1>2, <1>4, <1>5, <1>6, <2>1, <2>2 DEF TypeOK, Left
<1>9. ASSUME NEW d \in Cores PROVE CoreInv(d)'
  <2>1. Now(d)' = Now(d) /\ Longest' = Longest /\ CoreInv(d) /\ Now(d) \in Nat
    BY <1>1, <1>5, NowType DEF Now, Longest, BarrierInv
  <2>2. CASE d \in S \cup {c}
    <3>1. /\ reply'[d] = Response(time) /\ status'[d] = "RUNNING" /\ ~acquired'[d]
          /\ pkt'[d] = None /\ pc'[d] = "call"
      BY <1>1, <1>2, <1>3, <1>4, <1>5, <1>6, <2>2 DEF TypeOK, Set, Asks
    <3>2. ThreadInv(d)'
      BY <1>7, <3>1 DEF ThreadInv, Answered
    <3>3. UpperBound(d)'
      BY <1>1, <1>5, <1>7, <2>1, <3>1 DEF UpperBound, CoreInv
    <3>4. d \notin behind' => c \notin behind
      BY <1>4, <2>2 DEF Left
    <3>5. c \notin behind => time + Interval >= next
      BY <1>1, <1>3 DEF CoreInv, LowerBound, Asks
    <3>6. LowerBound(d)'
      BY <1>5, <1>7, <3>1, <3>4, <3>5 DEF LowerBound
    <3> QED
      BY <1>5, <2>1, <3>2, <3>3, <3>6 DEF CoreInv
  <2>3. CASE d \notin S \cup {c}
    <3>1. /\ reply'[d] = reply[d] /\ status'[d] = status[d] /\ pkt'[d] = pkt[d]
          /\ d \in behind <=> d \in behind'
      BY <1>1, <1>2, <1>4, <2>3 DEF TypeOK, Set, Left
    <3> QED
      BY <1>5, <2>1, <3>1, CoreFrame
  <2> QED
    BY <2>2, <2>3
<1> QED
  BY <1>8, <1>9 DEF BarrierInv

\* The threads that a stop of c may resume, at the time of c's request.
LEMMA StopCases ==
  ASSUME Parameters, BarrierInv, NEW c \in Cores, NEW op, Takes(c, op),
         op \in AllOps
  PROVE  /\ Asks(c) /\ pkt' = [pkt EXCEPT ![c] = None]
         /\ pc[c] = IF op = "exit" THEN "done" ELSE "call"
         /\ pkt[c].time = Now(c) /\ Now(c) \in Nat /\ Now(c) < next + Longest
         /\ Stalled \subseteq Cores
         /\ \A S \in OneStalled : S \subseteq Stalled
         /\ c \notin Stalled
<1>1. TypeOK /\ CoreInv(c) /\ Now(c) \in Nat
  BY NowType DEF BarrierInv
<1>2. pkt[c] # None /\ pkt[c].op = op /\ pkt' = [pkt EXCEPT ![c] = None] /\ op # "sync"
  BY DEF Takes, AllOps
<1>3. Asks(c) /\ pc[c] = IF op = "exit" THEN "done" ELSE "call"
  BY <1>1, <1>2 DEF CoreInv, ThreadInv, Asks, Holds, Answered, TypeOK
<1> QED
  BY <1>1, <1>2, <1>3 DEF CoreInv, UpperBound, Asks, Stalled, OneStalled

\* So does the server when it handles a message.
LEMMA HandleStep ==
  ASSUME Parameters, BarrierInv, NEW c \in Cores, Handle(c)
  PROVE  BarrierInv'
<1>1. CASE barrierWait(c)
  BY <1>1, BarrierWaitStep
<1>2. CASE Block(c)
  <2>1. Takes(c, "block") /\ Stop(c, "STALLED", {}, 0)
    BY <1>2 DEF Block
  <2>2. /\ Asks(c) /\ pkt' = [pkt EXCEPT ![c] = None] /\ pc[c] = "call"
        /\ Now(c) \in Nat /\ Now(c) < next + Longest
    BY <2>1, StopCases DEF AllOps
  <2>3. Stop(c, "STALLED", {}, Now(c))
    BY <2>1 DEF Stop, Answer
  <2>4. Now(c) >= Now(c) /\ {} \subseteq Stalled \cup {c} /\ {} \in SUBSET Cores
    BY <2>2
  <2> QED
    BY <2>2, <2>3, <2>4, StopStep
<1>3. CASE CondWait(c)
  <2>1. Takes(c, "condWait")
    BY <1>3 DEF CondWait
  <2>2. PICK S \in OneStalled : Stop(c, "STALLED", S, pkt[c].time)
    BY <1>3 DEF CondWait
  <2>3. /\ Asks(c) /\ pkt' = [pkt EXCEPT ![c] = None] /\ pc[c] = "call"
        /\ pkt[c].time = Now(c) /\ Now(c) \in Nat /\ Now(c) < next + Longest
        /\ S \subseteq Stalled /\ S \in SUBSET Cores
    BY <2>1, StopCases DEF AllOps
  <2>4. Now(c) >= Now(c) /\ Stop(c, "STALLED", S, Now(c))
    BY <2>2, <2>3
  <2> QED
    BY <2>3, <2>4, StopStep
<1>4. CASE BarrierLast(c)
  <2>1. Takes(c, "barrier")
    BY <1>4 DEF BarrierLast
  <2>2. PICK S \in SUBSET Stalled :
          Stop(c, "STALLED", S \cup {c}, Max({Now(d) : d \in S \cup {c}}))
    BY <1>4 DEF BarrierLast
  <2>3. /\ Asks(c) /\ pkt' = [pkt EXCEPT ![c] = None] /\ pc[c] = "call"
        /\ Stalled \subseteq Cores
    BY <2>1, StopCases DEF AllOps
  <2> DEFINE R == S \cup {c}
             T == {Now(d) : d \in R}
             f == [d \in R |-> Now(d)]
             time == Max(T)
  <2>4. R \in SUBSET Cores /\ c \in R /\ R \subseteq Stalled \cup {c}
    BY <2>3
  <2>5. \A d \in R : Now(d) \in Nat /\ Now(d) < next + Longest
    BY <2>4, NowType DEF BarrierInv, CoreInv, UpperBound
  <2> HIDE DEF R
  <2>6. T \in SUBSET Nat /\ Now(c) \in T
    BY <2>4, <2>5
  <2>7. IsFiniteSet(T)
    <3>1. IsFiniteSet(R)
      BY <2>4, FS_Subset DEF Parameters
    <3>2. T = {f[d] : d \in R}
      OBVIOUS
    <3> HIDE DEF T, f
    <3> QED
      BY <3>1, <3>2, FiniteValues
  <2>8. time \in T /\ \A x \in T : x <= time
    <3> HIDE DEF T
    <3> QED
      BY <2>6, <2>7, MaxNat
  <2>9. time \in Nat /\ time >= Now(c) /\ time < next + Longest
    BY <2>5, <2>6, <2>8
  <2>10. Stop(c, "STALLED", R, time)
    BY <2>2 DEF R
  <2> HIDE DEF time
  <2> QED
    BY <2>3, <2>4, <2>9, <2>10, StopStep
<1>5. CASE ThreadExit(c)
  <2>1. Takes(c, "exit")
    BY <1>5 DEF ThreadExit
  <2>2. PICK S \in OneStalled : Stop(c, "IDLE", S, pkt[c].time)
    BY <1>5 DEF ThreadExit, OneStalled
  <2>3. /\ Asks(c) /\ pkt' = [pkt EXCEPT ![c] = None] /\ pc[c] = "done"
        /\ pkt[c].time = Now(c) /\ Now(c) \in Nat /\ Now(c) < next + Longest
        /\ S \subseteq Stalled /\ S \in SUBSET Cores /\ c \notin S
    BY <2>1, StopCases DEF AllOps
  <2>4. Now(c) >= Now(c) /\ Stop(c, "IDLE", S, Now(c))
    BY <2>2, <2>3
  <2> QED
    BY <2>3, <2>4, StopStep
<1>6. CASE Unlock(c)
  BY <1>6, UnlockStep
<1> QED
  BY <1>1, <1>2, <1>3, <1>4, <1>5, <1>6 DEF Handle

\* Every step keeps the invariant.
LEMMA BarrierStep == Parameters /\ BarrierInv /\ [Next]_vars => BarrierInv'
<1> SUFFICES ASSUME Parameters, BarrierInv, [Next]_vars PROVE BarrierInv'
  OBVIOUS
<1>1. ASSUME NEW c \in Cores,
             Advance(c) \/ Released(c) \/ Call(c) \/ Return(c) \/ Handle(c)
      PROVE  BarrierInv'
  <2>1. CASE Compute(c)
    BY <2>1, ComputeStep
  <2>2. CASE synchronize(c)
    <3>1. /\ pc[c] = "run" /\ Send(c, "sync") /\ pc' = [pc EXCEPT ![c] = "sync"]
          /\ UNCHANGED <<clk, nextSync, reply, status, barrierVars>>
      BY <2>2 DEF synchronize
    <3> QED
      BY <3>1, SendStep
  <2>3. CASE Exit(c)
    <3>1. /\ pc[c] = "run" /\ Send(c, "exit") /\ pc' = [pc EXCEPT ![c] = "done"]
          /\ UNCHANGED <<clk, nextSync, reply, status, barrierVars>>
      BY <2>3 DEF Exit
    <3> QED
      BY <3>1, SendStep DEF AllOps
  <2>4. CASE Call(c)
    <3>1. PICK op \in Ops :
            Send(c, op) /\ pc' = [pc EXCEPT ![c] = IF op = "exit" THEN "done" ELSE "call"]
      BY <2>4 DEF Call
    <3>2. pc[c] = "run" /\ UNCHANGED <<clk, nextSync, reply, status, barrierVars>>
      BY <2>4 DEF Call
    <3>3. op \in AllOps /\ op # "sync"
      BY DEF Parameters, AllOps
    <3> DEFINE to == IF op = "exit" THEN "done" ELSE "call"
    <3>4. to \in {"sync", "call", "done"} /\ to # "sync" /\ (to = "done" <=> op = "exit")
      OBVIOUS
    <3>5. pc' = [pc EXCEPT ![c] = to]
      BY <3>1
    <3> HIDE DEF to
    <3> QED
      BY <3>1, <3>2, <3>3, <3>4, <3>5, SendStep
  <2> QED
    BY <1>1, <2>1, <2>2, <2>3, <2>4, ReleasedStep, ReturnStep, HandleStep DEF Advance
<1>2. CASE UNCHANGED vars
  <2>1. UNCHANGED <<clk, nextSync, pc, pkt, reply, status, next, local, acquired, behind>>
    BY <1>2 DEF vars, clientVars, barrierVars
  <2>2. TypeOK'
    BY <2>1 DEF BarrierInv, TypeOK
  <2> QED
    BY <2>1, <2>2, CoreFrame DEF BarrierInv
<1> QED
  BY <1>1, <1>2 DEF Next

-----------------------------------------------------------------------------
(* The theorems *)

\* The invariant is inductive.
THEOREM BarrierInvariant == Parameters /\ Spec => []BarrierInv
<1> SUFFICES ASSUME Parameters PROVE Spec => []BarrierInv
  OBVIOUS
<1>1. Init => BarrierInv
  BY BarrierInit
<1>2. BarrierInv /\ [Next]_vars => BarrierInv'
  BY BarrierStep
<1> QED
  BY <1>1, <1>2, PTL DEF Spec

\* The threads that wait at the barrier (barrierWait,
\* lax_barrier_sync_server.cc) are blocked in synchronize and run for the
\* thread manager, whoever stalls, resumes or exits meanwhile; the loop of
\* barrierRelease ends; no client runs to a later point than the server's
\* barrier; and two threads that execute differ by less than a quantum and
\* the longest instruction, unless one was resumed after the release.
THEOREM SkewIsBounded == Parameters /\ Spec => []BoundedSkew
<1> SUFFICES ASSUME Parameters PROVE Spec => []BoundedSkew
  OBVIOUS
<1>1. BarrierInv => BoundedSkew
  <2> SUFFICES ASSUME BarrierInv PROVE BoundedSkew
    OBVIOUS
  <2>1. TypeOK /\ \A c \in Cores : CoreInv(c)
    BY DEF BarrierInv
  <2>2. WaitersRun
    BY <2>1 DEF WaitersRun, TypeOK, CoreInv, ThreadInv, Asks, Holds, Answered
  <2>3. ReleaseEnds /\ ClientsAgree
    BY <2>1 DEF ReleaseEnds, ClientsAgree, CoreInv
  <2>4. ASSUME NEW c \in Executing, NEW d \in Executing \ behind
        PROVE  Now(c) < Now(d) + Interval + Longest
    <3>1. /\ c \in Cores /\ d \in Cores /\ d \notin behind
          /\ status[d] = "RUNNING" /\ ~(pc[d] = "call" /\ reply[d] # None)
      BY DEF Executing
    <3>2. Now(c) < next + Longest /\ Now(d) + Interval >= next
      BY <2>1, <3>1 DEF CoreInv, UpperBound, LowerBound
    <3>3. Now(c) \in Nat /\ Now(d) \in Nat /\ Longest \in Nat /\ next \in Nat
      BY <2>1, <3>1, NowType, LongestInstruction DEF TypeOK
    <3> QED
      BY <3>2, <3>3 DEF Parameters
  <2> QED
    BY <2>1, <2>2, <2>3, <2>4 DEF BoundedSkew, Longest
<1>2. Spec => []BarrierInv
  BY BarrierInvariant
<1> QED
  BY <1>1, <1>2, PTL
=============================================================================
