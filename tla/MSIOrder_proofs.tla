--------------------------- MODULE MSIOrder_proofs ---------------------------
(***************************************************************************)
(* The order of the messages of the MSI protocol: AssertInv, the invariant *)
(* from which MSIAssertions_proofs derives that no assertion fails, and    *)
(* the proof that the steps of the caches keep it.                         *)
(*                                                                         *)
(* MSICoherence_proofs says what a tile and the messages about a line may  *)
(* be; the assertions also depend on the order of these messages, on the   *)
(* requests that are waiting, and on what the directory waits for.         *)
(***************************************************************************)
EXTENDS MSICoherence_proofs

-----------------------------------------------------------------------------
(* The inductive invariant *)

\* In the channel q a message of R comes before one of S; before two of S.
After(q, R, S) == \E i, j \in 1..Len(q) : i < j /\ q[i] \in R /\ q[j] \in S
After2(q, R, S) ==
  \E i, j, k \in 1..Len(q) :
    i < j /\ j < k /\ q[i] \in R /\ q[j] \in S /\ q[k] \in S

ShRep(a) == OfType({"SH_REP"}, a)
\* What the directory asks of a tile: to give up a shared line, to give up or
\* to write back a modified one.
InvCall(a) == OfType({"INV_REQ"}, a)
Recall(a) == OfType({"FLUSH_REQ", "WB_REQ"}, a)
WbCall(a) == OfType({"WB_REQ"}, a)
\* What an L2 cache asks of the directory.
Request(a) ==
  {m \in ShmemMsg : m.src = "L2" /\ m.addr = a /\ m.type \in {"EX_REQ", "SH_REQ"}}
ShRequest(a) ==
  {m \in ShmemMsg : m.src = "L2" /\ m.addr = a /\ m.type = "SH_REQ"}
\* What an L1 cache asks for other than the access r.
Foreign(r) ==
  {m \in ShmemMsg : /\ m.src \in Comps
                    /\ ~(m.src = r.comp /\ m.addr = r.addr /\ m.type = ReqType(r.op))}

\* The requests of t in the queue of a line.
Waiting(t) == [type : {"EX_REQ", "SH_REQ"}, tile : {t}]
ShWaiting(t) == [type : {"SH_REQ"}, tile : {t}]
Requested(a, t) == In(Up(a, t), Request(a))
Queued(a, t) == In(queue[a], Waiting(t))

\* The home of a has a request for it, and waits for replies.
Served(a) == work[Home[a]] # None /\ work[Home[a]].addr = a
Awaits(a) == queue[a] # <<>> /\ ~Served(a)

DownInv(a, t) ==
  /\ l2[t][a].st = "M" => /\ ~In(Down(a, t), InvCall(a))
                          /\ ~After(Down(a, t), Recall(a), Recall(a))
  /\ l2[t][a].st = "S" => ~In(Down(a, t), Recall(a))
  /\ ~After(Down(a, t), ExRep(a), InvCall(a))
  /\ ~After(Down(a, t), ShRep(a), Recall(a))
  /\ ~After2(Down(a, t), ExRep(a), Recall(a))
\* A recall of the kind S will find the line modified.
Recalled(a, t, S) ==
  \/ l2[t][a].st = "M" /\ In(Down(a, t), S)
  \/ After(Down(a, t), ExRep(a), S)
RecallInv(a, t) ==
  /\ Recalled(a, t, Recall(a)) \/ WrittenBack(a, t) => Awaits(a)
  /\ Recalled(a, t, WbCall(a)) \/ WrittenBack(a, t) =>
       Head(queue[a]).type = "SH_REQ"
UpInv(a, t) ==
  /\ ~After(Up(a, t), Gone(a), WbRep(a))
  /\ ~After(Up(a, t), Request(a), Gone(a))
  /\ ~After(Up(a, t), Request(a), Request(a))
AskInv(a, t) ==
  /\ Requested(a, t) \/ Queued(a, t) \/ Granted(a, t) =>
       outst[t] # None /\ outst[t].addr = a
  /\ ~(Requested(a, t) /\ Queued(a, t)) /\ ~(Requested(a, t) /\ Granted(a, t))
  /\ ~(Queued(a, t) /\ Granted(a, t))
  /\ ~After(queue[a], Waiting(t), Waiting(t))
  /\ Queued(a, t) => ~Left(a, t)
  /\ \/ In(Up(a, t), ShRequest(a)) \/ In(queue[a], ShWaiting(t))
     \/ In(Down(a, t), ShRep(a))
     => app[t].acc.op = "READ"
HoldInv(a, t) ==
  /\ t \in EntryOf(a).sharers =>
       l2[t][a].st # "I" \/ Granted(a, t) \/ Left(a, t)
  /\ t \in EntryOf(a).hw => t \in EntryOf(a).sharers
RequestInv(t) ==
  /\ outst[t] # None => /\ outst[t].addr = app[t].acc.addr
                        /\ outst[t].comp = app[t].acc.comp
                        /\ l2[t][outst[t].addr].st = "I"
  /\ app[t].pc = "wait" => ~In(chan[<<t, t>>], Foreign(app[t].acc))
  /\ \A c \in Comps, a \in Addrs : In(chan[<<t, t>>], FromL1(c, a)) =>
       ~L2Hit(t, app[t].acc)
  /\ appSem[t] > 0 => L1Hit(t, app[t].acc)
LocInv(t, a) ==
  \A c \in Comps : l2[t][a].st # "I" /\ l2[t][a].loc = c =>
    \/ l1[t][c][a].st # "I"
    \/ l2[t][a].st = "S" /\ In(chan[<<t, t>>], FromL1(c, a))
QueueInv(a) ==
  \A i \in 1..Len(queue[a]) :
    queue[a][i].type = "NULLIFY_REQ" => i = 1 /\ repl[a] # None
ServeInv(h) ==
  work[h] # None =>
    /\ queue[work[h].addr] # <<>>
    /\ Head(queue[work[h].addr]).type = "NULLIFY_REQ" =>
         EntryOf(work[h].addr).st = "U"
    /\ work[h].buf # None =>
         \/ EntryOf(work[h].addr).st = "U"
         \/ Head(queue[work[h].addr]).type = "SH_REQ"
\* What concerns line a and tile u; the application of u; and all of it.
PairInv(a, u) ==
  DownInv(a, u) /\ RecallInv(a, u) /\ UpInv(a, u) /\ AskInv(a, u) /\ HoldInv(a, u)
ThreadInv(u) == RequestInv(u) /\ \A a \in Addrs : LocInv(u, a)
AssertInv ==
  /\ \A a \in Addrs, u \in Tiles : PairInv(a, u)
  /\ \A u \in Tiles : ThreadInv(u)
  /\ \A a \in Addrs : QueueInv(a)
  /\ \A h \in Tiles : ServeInv(h)

-----------------------------------------------------------------------------
(* The order of messages *)

\* What comes before what in a short sequence.
LEMMA OrderShort ==
  ASSUME NEW R, NEW S
  PROVE  /\ ~After(<<>>, R, S) /\ ~After2(<<>>, R, S)
         /\ \A m : ~After(<<m>>, R, S) /\ ~After2(<<m>>, R, S)
         /\ \A m, n : /\ After(<<m, n>>, R, S) => m \in R /\ n \in S
                      /\ ~After2(<<m, n>>, R, S)
<1>1. ~After(<<>>, R, S) /\ ~After2(<<>>, R, S)
  BY DEF After, After2
<1>2. ASSUME NEW m PROVE ~After(<<m>>, R, S) /\ ~After2(<<m>>, R, S)
  BY DEF After, After2
<1>3. ASSUME NEW m, NEW n
      PROVE  /\ After(<<m, n>>, R, S) => m \in R /\ n \in S
             /\ ~After2(<<m, n>>, R, S)
  <2>1. Len(<<m, n>>) = 2 /\ <<m, n>>[1] = m /\ <<m, n>>[2] = n
    OBVIOUS
  <2>2. \A i, j \in 1..2 : i < j => i = 1 /\ j = 2
    OBVIOUS
  <2>3. \A i, j, k \in 1..2 : ~(i < j /\ j < k)
    OBVIOUS
  <2>4. After(<<m, n>>, R, S) => m \in R /\ n \in S
    BY <2>1, <2>2 DEF After
  <2>5. ~After2(<<m, n>>, R, S)
    BY <2>1, <2>3 DEF After2
  <2> QED BY <2>4, <2>5
<1> QED BY <1>1, <1>2, <1>3

\* The order of messages in a channel to which messages were appended.
LEMMA OrderConcat ==
  ASSUME NEW D, NEW q \in Seq(D), NEW r \in Seq(D), NEW R, NEW S
  PROVE  /\ In(q \o r, S) <=> In(q, S) \/ In(r, S)
         /\ After(q \o r, R, S) <=> \/ After(q, R, S) \/ After(r, R, S)
                                    \/ In(q, R) /\ In(r, S)
         /\ After2(q \o r, R, S) <=> \/ After2(q, R, S) \/ After2(r, R, S)
                                     \/ After(q, R, S) /\ In(r, S)
                                     \/ In(q, R) /\ After(r, S, S)
<1> DEFINE u == q \o r
           n == Len(q)
<1>1. /\ u \in Seq(D) /\ Len(u) = n + Len(r)
      /\ \A i \in 1..(n + Len(r)) : u[i] = IF i <= n THEN q[i] ELSE r[i - n]
      /\ n \in Nat /\ Len(r) \in Nat
  BY ConcatProperties, LenProperties
<1>2. \A i \in 1..n : i \in 1..Len(u) /\ u[i] = q[i] /\ i <= n
  BY <1>1
<1>3. \A i \in 1..Len(r) : i + n \in 1..Len(u) /\ u[i + n] = r[i] /\ i + n > n
  BY <1>1
<1>4. \A i \in 1..Len(u) :
        \/ i \in 1..n /\ u[i] = q[i] /\ i <= n
        \/ i - n \in 1..Len(r) /\ u[i] = r[i - n] /\ i > n
  BY <1>1
<1>5. \A i, j \in Int : /\ i < j => i - n < j - n /\ i + n < j + n
                        /\ i <= n /\ j > n => i < j
                        /\ i > n /\ i < j => j > n
  BY <1>1
<1>6. 1..n \subseteq Int /\ 1..Len(r) \subseteq Int /\ 1..Len(u) \subseteq Int
  BY <1>1
<1> HIDE DEF u, n
<1>7. In(u, S) <=> In(q, S) \/ In(r, S)
  BY <1>2, <1>3, <1>4 DEF In, n
<1>8. After(u, R, S) <=> \/ After(q, R, S) \/ After(r, R, S)
                         \/ In(q, R) /\ In(r, S)
  <2>1. ASSUME After(u, R, S)
        PROVE  After(q, R, S) \/ After(r, R, S) \/ (In(q, R) /\ In(r, S))
    <3>1. PICK i \in 1..Len(u), j \in 1..Len(u) :
            i < j /\ u[i] \in R /\ u[j] \in S
      BY <2>1 DEF After
    <3>2. CASE j \in 1..n /\ u[j] = q[j] /\ j <= n
      <4>1. i \in 1..n /\ u[i] = q[i]
        BY <1>4, <1>5, <1>6, <3>1, <3>2
      <4>2. /\ i \in 1..Len(q) /\ j \in 1..Len(q) /\ i < j
            /\ q[i] \in R /\ q[j] \in S
        BY <3>1, <3>2, <4>1 DEF n
      <4> QED BY <4>2, Zenon DEF After
    <3>3. CASE j - n \in 1..Len(r) /\ u[j] = r[j - n] /\ j > n
      <4>1. CASE i \in 1..n /\ u[i] = q[i] /\ i <= n
        BY <3>1, <3>3, <4>1 DEF In, n
      <4>2. CASE i - n \in 1..Len(r) /\ u[i] = r[i - n] /\ i > n
        <5>1. i - n < j - n
          BY <1>5, <1>6, <3>1
        <5>2. r[i - n] \in R /\ r[j - n] \in S
          BY <3>1, <3>3, <4>2
        <5> QED BY <3>3, <4>2, <5>1, <5>2, Zenon DEF After
      <4> QED BY <1>4, <4>1, <4>2
    <3> QED BY <1>4, <3>2, <3>3
  <2>2. After(q, R, S) => After(u, R, S)
    BY <1>2 DEF After, n
  <2>3. After(r, R, S) => After(u, R, S)
    BY <1>3, <1>5, <1>6 DEF After
  <2>4. In(q, R) /\ In(r, S) => After(u, R, S)
    BY <1>2, <1>3, <1>5, <1>6 DEF After, In, n
  <2> QED BY <2>1, <2>2, <2>3, <2>4
<1>9. After2(u, R, S) <=> \/ After2(q, R, S) \/ After2(r, R, S)
                          \/ After(q, R, S) /\ In(r, S)
                          \/ In(q, R) /\ After(r, S, S)
  <2>1. ASSUME After2(u, R, S)
        PROVE  \/ After2(q, R, S) \/ After2(r, R, S)
               \/ After(q, R, S) /\ In(r, S)
               \/ In(q, R) /\ After(r, S, S)
    <3>1. PICK i \in 1..Len(u), j \in 1..Len(u), k \in 1..Len(u) :
            i < j /\ j < k /\ u[i] \in R /\ u[j] \in S /\ u[k] \in S
      BY <2>1 DEF After2
    <3>2. CASE i > n
      <4>1. /\ j > n /\ k > n /\ i - n < j - n /\ j - n < k - n
        BY <1>5, <1>6, <3>1, <3>2
      <4>2. /\ i - n \in 1..Len(r) /\ u[i] = r[i - n]
            /\ j - n \in 1..Len(r) /\ u[j] = r[j - n]
            /\ k - n \in 1..Len(r) /\ u[k] = r[k - n]
        BY <1>1, <1>4, <1>6, <3>2, <4>1
      <4> QED BY <3>1, <4>1, <4>2 DEF After2
    <3>3. CASE i <= n /\ j > n
      <4>1. k > n /\ j - n < k - n
        BY <1>5, <1>6, <3>1, <3>3
      <4>2. /\ i \in 1..n /\ u[i] = q[i]
            /\ j - n \in 1..Len(r) /\ u[j] = r[j - n]
            /\ k - n \in 1..Len(r) /\ u[k] = r[k - n]
        BY <1>1, <1>4, <1>6, <3>3, <4>1
      <4> QED BY <3>1, <4>1, <4>2 DEF In, After, n
    <3>4. CASE i <= n /\ j <= n /\ k > n
      <4>1. /\ i \in 1..n /\ u[i] = q[i] /\ j \in 1..n /\ u[j] = q[j]
            /\ k - n \in 1..Len(r) /\ u[k] = r[k - n]
        BY <1>1, <1>4, <1>6, <3>4
      <4>2. /\ i \in 1..Len(q) /\ j \in 1..Len(q) /\ i < j
            /\ q[i] \in R /\ q[j] \in S /\ r[k - n] \in S
        BY <3>1, <4>1 DEF n
      <4> QED BY <4>1, <4>2, Zenon DEF In, After
    <3>5. CASE i <= n /\ j <= n /\ k <= n
      <4>1. /\ i \in 1..n /\ u[i] = q[i] /\ j \in 1..n /\ u[j] = q[j]
            /\ k \in 1..n /\ u[k] = q[k]
        BY <1>1, <1>4, <1>6, <3>5
      <4> QED BY <3>1, <4>1 DEF After2, n
    <3> QED BY <1>1, <1>6, <3>2, <3>3, <3>4, <3>5
  <2>2. After2(q, R, S) => After2(u, R, S)
    BY <1>2 DEF After2, n
  <2>3. After2(r, R, S) => After2(u, R, S)
    BY <1>3, <1>5, <1>6 DEF After2
  <2>4. After(q, R, S) /\ In(r, S) => After2(u, R, S)
    BY <1>2, <1>3, <1>5, <1>6 DEF After, After2, In, n
  <2>5. ASSUME In(q, R), After(r, S, S) PROVE After2(u, R, S)
    <3>1. PICK i \in 1..n : q[i] \in R
      BY <2>5 DEF In, n
    <3>2. PICK j \in 1..Len(r), k \in 1..Len(r) :
            j < k /\ r[j] \in S /\ r[k] \in S
      BY <2>5 DEF After
    <3>3. /\ i \in 1..Len(u) /\ j + n \in 1..Len(u) /\ k + n \in 1..Len(u)
          /\ u[i] \in R /\ u[j + n] \in S /\ u[k + n] \in S
          /\ i < j + n /\ j + n < k + n
      BY <1>2, <1>3, <1>5, <1>6, <3>1, <3>2
    <3> QED BY <3>3, Zenon DEF After2
  <2> QED BY <2>1, <2>2, <2>3, <2>4, <2>5
<1> QED BY <1>7, <1>8, <1>9 DEF u

\* The order of messages in a channel and in what is left of it when the
\* first one was received.
LEMMA OrderTail ==
  ASSUME NEW D, NEW q \in Seq(D), q # <<>>, NEW R, NEW S
  PROVE  /\ In(q, S) <=> Head(q) \in S \/ In(Tail(q), S)
         /\ After(q, R, S) <=> \/ After(Tail(q), R, S)
                               \/ Head(q) \in R /\ In(Tail(q), S)
         /\ After2(q, R, S) <=> \/ After2(Tail(q), R, S)
                                \/ Head(q) \in R /\ After(Tail(q), S, S)
<1> DEFINE h == <<Head(q)>>
           u == Tail(q)
<1>1. q = h \o u /\ h \in Seq(D) /\ u \in Seq(D)
  <2>1. Head(q) \in D /\ u \in Seq(D) /\ Len(u) = Len(q) - 1
        /\ \A i \in 1..Len(u) : u[i] = q[i + 1]
    BY HeadTailProperties
  <2>2. Head(q) = q[1] /\ Len(q) \in Nat /\ Len(q) # 0
    BY HeadTailProperties, EmptySeq, LenProperties
  <2> HIDE DEF u
  <2>3. h \in Seq(D) /\ Len(h) = 1 /\ h[1] = Head(q)
    BY <2>1
  <2> HIDE DEF h
  <2>4. /\ h \o u \in Seq(D) /\ Len(h \o u) = 1 + Len(u)
        /\ \A i \in 1..(1 + Len(u)) :
             (h \o u)[i] = IF i <= 1 THEN h[i] ELSE u[i - 1]
    <3>1. Len(h) \in Nat /\ Len(u) \in Nat
      BY <2>1, <2>3, LenProperties
    <3>2. /\ h \o u \in Seq(D) /\ Len(h \o u) = Len(h) + Len(u)
          /\ \A i \in 1..(Len(h) + Len(u)) :
               (h \o u)[i] = IF i <= Len(h) THEN h[i] ELSE u[i - Len(h)]
      <4>1. h \in Seq(D) /\ u \in Seq(D)
        BY <2>1, <2>3
      <4> QED BY <4>1, ConcatProperties
    <3> QED BY <2>3, <3>1, <3>2
  <2>5. Len(h \o u) = Len(q) /\ \A i \in 1..Len(q) : (h \o u)[i] = q[i]
    BY <2>1, <2>2, <2>3, <2>4
  <2> QED BY <2>1, <2>3, <2>4, <2>5, SeqEqual
<1>2. /\ In(h, S) <=> Head(q) \in S
      /\ In(h, R) <=> Head(q) \in R
      /\ ~After(h, R, S) /\ ~After2(h, R, S)
  BY InSingle, OrderShort
<1> HIDE DEF h, u
<1>3. /\ In(h \o u, S) <=> In(h, S) \/ In(u, S)
      /\ After(h \o u, R, S) <=> \/ After(h, R, S) \/ After(u, R, S)
                                 \/ In(h, R) /\ In(u, S)
      /\ After2(h \o u, R, S) <=> \/ After2(h, R, S) \/ After2(u, R, S)
                                  \/ After(h, R, S) /\ In(u, S)
                                  \/ In(h, R) /\ After(u, S, S)
  BY <1>1, OrderConcat
<1> QED BY <1>1, <1>2, <1>3 DEF u

\* Who comes before or after another message is in the channel.
LEMMA OrderIn ==
  ASSUME NEW q, NEW R, NEW S
  PROVE  /\ After(q, R, S) => In(q, R) /\ In(q, S)
         /\ After2(q, R, S) => After(q, R, S) /\ After(q, S, S)
<1>1. After(q, R, S) => In(q, R) /\ In(q, S)
  BY DEF After, In
<1>2. After2(q, R, S) => After(q, R, S) /\ After(q, S, S)
  BY Zenon DEF After, After2
<1> QED BY <1>1, <1>2

\* Larger kinds of messages.
LEMMA OrderMono ==
  ASSUME NEW q, NEW R, NEW S, NEW T, S \subseteq T
  PROVE  /\ In(q, S) => In(q, T)
         /\ After(q, R, S) => After(q, R, T)
         /\ After(q, S, R) => After(q, T, R)
BY Zenon DEF In, After

\* Of the messages of the kind K, r has those of q and then those of o.
Grows(q, r, o, K) ==
  \A R, S \in SUBSET K :
    /\ In(r, S) <=> In(q, S) \/ In(o, S)
    /\ After(r, R, S) <=> \/ After(q, R, S) \/ After(o, R, S)
                          \/ In(q, R) /\ In(o, S)
    /\ After2(r, R, S) <=> \/ After2(q, R, S) \/ After2(o, R, S)
                           \/ After(q, R, S) /\ In(o, S)
                           \/ In(q, R) /\ After(o, S, S)
\* It has those of q without the first one.
Loses(q, r, K) ==
  \A R, S \in SUBSET K :
    /\ In(q, S) <=> Head(q) \in S \/ In(r, S)
    /\ After(q, R, S) <=> \/ After(r, R, S)
                          \/ Head(q) \in R /\ In(r, S)
    /\ After2(q, R, S) <=> \/ After2(r, R, S)
                           \/ Head(q) \in R /\ After(r, S, S)
\* It has those of q.
Keeps(q, r, K) ==
  \A R, S \in SUBSET K :
    /\ In(r, S) <=> In(q, S)
    /\ After(r, R, S) <=> After(q, R, S)
    /\ After2(r, R, S) <=> After2(q, R, S)

\* Messages of another kind do not matter.
LEMMA Irrelevant ==
  ASSUME NEW K, NEW o, ~In(o, K), NEW R \in SUBSET K, NEW S \in SUBSET K
  PROVE  ~In(o, S) /\ ~After(o, R, S) /\ ~After2(o, R, S)
<1>1. ~In(o, S)
  BY OrderMono
<1>2. ~After(o, R, S) /\ ~After2(o, R, S)
  BY <1>1, OrderIn
<1> QED BY <1>1, <1>2

\* What receiving and sending do to a channel.
LEMMA ChannelMoves ==
  ASSUME NEW q \in Seq(ShmemMsg), NEW o \in Seq(ShmemMsg), NEW K
  PROVE  /\ Grows(q, q \o o, o, K)
         /\ ~In(o, K) => Keeps(q, q \o o, K)
         /\ q # <<>> => /\ Head(q) \notin K => Grows(q, Tail(q) \o o, o, K)
                        /\ Head(q) \notin K /\ ~In(o, K) =>
                             Keeps(q, Tail(q) \o o, K)
                        /\ ~In(o, K) => Loses(q, Tail(q) \o o, K)
<1>1. ASSUME NEW p \in Seq(ShmemMsg) PROVE Grows(p, p \o o, o, K)
  BY <1>1, OrderConcat DEF Grows
<1>2. ASSUME NEW p \in Seq(ShmemMsg), ~In(o, K) PROVE Keeps(p, p \o o, K)
  <2> SUFFICES ASSUME NEW R \in SUBSET K, NEW S \in SUBSET K
               PROVE  /\ In(p \o o, S) <=> In(p, S)
                      /\ After(p \o o, R, S) <=> After(p, R, S)
                      /\ After2(p \o o, R, S) <=> After2(p, R, S)
    BY DEF Keeps
  <2>1. ~In(o, S) /\ ~After(o, R, S) /\ ~After2(o, R, S) /\ ~After(o, S, S)
    BY <1>2, Irrelevant
  <2> QED BY <1>1, <2>1 DEF Grows
<1>3. ASSUME q # <<>> PROVE Loses(q, Tail(q), K) /\ Tail(q) \in Seq(ShmemMsg)
  BY <1>3, OrderTail, HeadTailProperties DEF Loses
<1>4. ASSUME q # <<>>, Head(q) \notin K PROVE Grows(q, Tail(q) \o o, o, K)
  <2> SUFFICES ASSUME NEW R \in SUBSET K, NEW S \in SUBSET K
               PROVE  /\ In(Tail(q) \o o, S) <=> In(q, S) \/ In(o, S)
                      /\ After(Tail(q) \o o, R, S) <=>
                           \/ After(q, R, S) \/ After(o, R, S)
                           \/ In(q, R) /\ In(o, S)
                      /\ After2(Tail(q) \o o, R, S) <=>
                           \/ After2(q, R, S) \/ After2(o, R, S)
                           \/ After(q, R, S) /\ In(o, S)
                           \/ In(q, R) /\ After(o, S, S)
    BY DEF Grows
  <2>1. Head(q) \notin R /\ Head(q) \notin S
    BY <1>4
  <2>2. Loses(q, Tail(q), K) /\ Grows(Tail(q), Tail(q) \o o, o, K)
    BY <1>1, <1>3, <1>4
  <2> QED BY <2>1, <2>2 DEF Loses, Grows
<1>5. ASSUME q # <<>>, ~In(o, K) PROVE Loses(q, Tail(q) \o o, K)
  <2>1. Loses(q, Tail(q), K) /\ Keeps(Tail(q), Tail(q) \o o, K)
    BY <1>2, <1>3, <1>5
  <2> SUFFICES ASSUME NEW R \in SUBSET K, NEW S \in SUBSET K
               PROVE  /\ In(q, S) <=> Head(q) \in S \/ In(Tail(q) \o o, S)
                      /\ After(q, R, S) <=>
                           \/ After(Tail(q) \o o, R, S)
                           \/ Head(q) \in R /\ In(Tail(q) \o o, S)
                      /\ After2(q, R, S) <=>
                           \/ After2(Tail(q) \o o, R, S)
                           \/ Head(q) \in R /\ After(Tail(q) \o o, S, S)
    BY DEF Loses
  <2> QED BY <2>1 DEF Loses, Keeps
<1>6. ASSUME q # <<>>, Head(q) \notin K, ~In(o, K)
      PROVE  Keeps(q, Tail(q) \o o, K)
  <2>1. Loses(q, Tail(q) \o o, K)
    BY <1>5, <1>6
  <2> SUFFICES ASSUME NEW R \in SUBSET K, NEW S \in SUBSET K
               PROVE  /\ In(Tail(q) \o o, S) <=> In(q, S)
                      /\ After(Tail(q) \o o, R, S) <=> After(q, R, S)
                      /\ After2(Tail(q) \o o, R, S) <=> After2(q, R, S)
    BY DEF Keeps
  <2>2. Head(q) \notin R /\ Head(q) \notin S
    BY <1>6
  <2> QED BY <2>1, <2>2 DEF Loses
<1> QED BY <1>1, <1>2, <1>4, <1>5, <1>6

\* What it does to the channel from x to y when t sends out.
LEMMA SendLink ==
  ASSUME NetworkOK, NEW t \in Tiles, NEW out \in Outgoing, Send(t, out),
         NEW x \in Tiles, NEW y \in Tiles, NEW K
  PROVE  /\ x = t => Grows(chan[<<x, y>>], chan'[<<x, y>>], out[y], K)
         /\ (x = t => ~In(out[y], K)) =>
              Keeps(chan[<<x, y>>], chan'[<<x, y>>], K)
<1>1. chan[<<x, y>>] \in Seq(ShmemMsg) /\ out[y] \in Seq(ShmemMsg)
  BY DEF NetworkOK, Outgoing
<1>2. CASE x = t
  <2>1. chan'[<<x, y>>] = chan[<<x, y>>] \o out[y]
    BY <1>2 DEF Send
  <2> QED BY <1>1, <1>2, <2>1, ChannelMoves
<1>3. CASE x # t
  <2>1. chan'[<<x, y>>] = chan[<<x, y>>]
    BY <1>3 DEF Send
  <2> QED BY <1>3, <2>1 DEF Keeps
<1> QED BY <1>2, <1>3

\* When t has taken a message from s, too.
LEMMA DeliverLink ==
  ASSUME NetworkOK, NEW s \in Tiles, NEW t \in Tiles, chan[<<s, t>>] # <<>>,
         NEW out \in Outgoing, Deliver(s, t, out),
         NEW x \in Tiles, NEW y \in Tiles, NEW K
  PROVE  /\ x = t /\ (x = s /\ y = t => Head(chan[<<s, t>>]) \notin K) =>
              Grows(chan[<<x, y>>], chan'[<<x, y>>], out[y], K)
         /\ /\ x = t => ~In(out[y], K)
            /\ x = s /\ y = t => Head(chan[<<s, t>>]) \notin K
            => Keeps(chan[<<x, y>>], chan'[<<x, y>>], K)
         /\ x = s /\ y = t /\ (x = t => ~In(out[y], K)) =>
              Loses(chan[<<x, y>>], chan'[<<x, y>>], K)
<1> DEFINE q == chan[<<x, y>>]
           o == IF x = t THEN out[y] ELSE <<>>
<1>1. /\ q \in Seq(ShmemMsg) /\ out[y] \in Seq(ShmemMsg)
      /\ <<>> \in Seq(ShmemMsg)
  BY DEF NetworkOK, Outgoing
<1>2. o \in Seq(ShmemMsg) /\ (x = t => o = out[y])
  BY <1>1
<1>3. (x = t => ~In(out[y], K)) => ~In(o, K)
  BY InSingle
<1>4. CASE x = s /\ y = t
  <2>1. chan'[<<x, y>>] = Tail(q) \o o /\ q # <<>> /\ q = chan[<<s, t>>]
    BY <1>4 DEF Deliver
  <2> HIDE DEF q, o
  <2> QED BY <1>1, <1>2, <1>3, <1>4, <2>1, ChannelMoves DEF q
<1>5. CASE ~(x = s /\ y = t)
  <2>1. chan'[<<x, y>>] = q \o o
    BY <1>5 DEF Deliver
  <2> HIDE DEF q, o
  <2> QED BY <1>1, <1>2, <1>3, <1>5, <2>1, ChannelMoves DEF q
<1> QED BY <1>4, <1>5

-----------------------------------------------------------------------------
(* What a step leaves alone *)

\* What the home of a receives from caches.
Answer(a) ==
  {m \in ShmemMsg :
     /\ m.addr = a
     /\ \/ m.type \in {"INV_REP", "FLUSH_REP", "WB_REP"}
        \/ m.src = "L2" /\ m.type \in {"EX_REQ", "SH_REQ"}}
L1Msg == {m \in ShmemMsg : m.src \in Comps}

\* The kinds of messages that a home sends, and of those it receives.
LEMMA Kinds ==
  ASSUME NEW a
  PROVE  /\ Rep(a) \in SUBSET FromHome(a) /\ ExRep(a) \in SUBSET FromHome(a)
         /\ ShRep(a) \in SUBSET FromHome(a)
         /\ InvCall(a) \in SUBSET FromHome(a)
         /\ Recall(a) \in SUBSET FromHome(a)
         /\ WbCall(a) \in SUBSET FromHome(a)
         /\ Gone(a) \in SUBSET Answer(a) /\ FlushRep(a) \in SUBSET Answer(a)
         /\ WbRep(a) \in SUBSET Answer(a) /\ Request(a) \in SUBSET Answer(a)
         /\ ShRequest(a) \in SUBSET Answer(a)
<1>1. /\ Rep(a) \in SUBSET FromHome(a) /\ ExRep(a) \in SUBSET FromHome(a)
      /\ ShRep(a) \in SUBSET FromHome(a) /\ InvCall(a) \in SUBSET FromHome(a)
      /\ Recall(a) \in SUBSET FromHome(a) /\ WbCall(a) \in SUBSET FromHome(a)
  BY DEF Rep, ExRep, ShRep, InvCall, Recall, WbCall, FromHome, OfType
<1>2. /\ Gone(a) \in SUBSET Answer(a) /\ FlushRep(a) \in SUBSET Answer(a)
      /\ WbRep(a) \in SUBSET Answer(a) /\ Request(a) \in SUBSET Answer(a)
      /\ ShRequest(a) \in SUBSET Answer(a)
  BY DEF Gone, FlushRep, WbRep, Request, ShRequest, Answer, OfType
<1> QED BY <1>1, <1>2

\* Some kinds are part of others.
LEMMA Subkinds ==
  ASSUME NEW a, NEW q
  PROVE  /\ In(q, ShRep(a)) => In(q, Rep(a))
         /\ In(q, ExRep(a)) => In(q, Rep(a))
         /\ In(q, WbCall(a)) => In(q, Recall(a))
         /\ In(q, ShRequest(a)) => In(q, Request(a))
         /\ In(q, FlushRep(a)) => In(q, Gone(a))
<1>1. /\ ShRep(a) \subseteq Rep(a) /\ ExRep(a) \subseteq Rep(a)
      /\ WbCall(a) \subseteq Recall(a) /\ ShRequest(a) \subseteq Request(a)
      /\ FlushRep(a) \subseteq Gone(a)
  BY DEF Rep, ExRep, ShRep, Recall, WbCall, Request, ShRequest, FlushRep,
         Gone, OfType
<1> QED BY <1>1, OrderMono

\* The messages about a between its home and u stay as they are.
SameLink(a, u) ==
  /\ Keeps(Down(a, u), Down(a, u)', FromHome(a))
  /\ Keeps(Up(a, u), Up(a, u)', Answer(a))

\* Channels that nobody touches.
LEMMA SameChannelsSameLink ==
  ASSUME UNCHANGED chan, NEW a, NEW u
  PROVE  SameLink(a, u)
BY DEF SameLink, Keeps, Down, Up

\* What is known of the messages on the way down when they are kept.
LEMMA DownKept ==
  ASSUME NEW a, NEW q, NEW r, Keeps(q, r, FromHome(a))
  PROVE  /\ In(r, Rep(a)) <=> In(q, Rep(a))
         /\ In(r, ExRep(a)) <=> In(q, ExRep(a))
         /\ In(r, ShRep(a)) <=> In(q, ShRep(a))
         /\ In(r, InvCall(a)) <=> In(q, InvCall(a))
         /\ In(r, Recall(a)) <=> In(q, Recall(a))
         /\ In(r, WbCall(a)) <=> In(q, WbCall(a))
         /\ After(r, ExRep(a), InvCall(a)) <=> After(q, ExRep(a), InvCall(a))
         /\ After(r, ShRep(a), Recall(a)) <=> After(q, ShRep(a), Recall(a))
         /\ After(r, ExRep(a), Recall(a)) <=> After(q, ExRep(a), Recall(a))
         /\ After(r, ExRep(a), WbCall(a)) <=> After(q, ExRep(a), WbCall(a))
         /\ After(r, Recall(a), Recall(a)) <=> After(q, Recall(a), Recall(a))
         /\ After2(r, ExRep(a), Recall(a)) <=> After2(q, ExRep(a), Recall(a))
BY Kinds DEF Keeps

\* The same of the messages on the way up.
LEMMA UpKept ==
  ASSUME NEW a, NEW q, NEW r, Keeps(q, r, Answer(a))
  PROVE  /\ In(r, Gone(a)) <=> In(q, Gone(a))
         /\ In(r, FlushRep(a)) <=> In(q, FlushRep(a))
         /\ In(r, WbRep(a)) <=> In(q, WbRep(a))
         /\ In(r, Request(a)) <=> In(q, Request(a))
         /\ In(r, ShRequest(a)) <=> In(q, ShRequest(a))
         /\ After(r, Gone(a), WbRep(a)) <=> After(q, Gone(a), WbRep(a))
         /\ After(r, Request(a), Gone(a)) <=> After(q, Request(a), Gone(a))
         /\ After(r, Request(a), Request(a)) <=> After(q, Request(a), Request(a))
BY Kinds DEF Keeps

\* The messages stay, and so does the line in the cache.
LEMMA OrderFrame ==
  ASSUME NEW a, NEW u, SameLink(a, u), l2'[u][a].st = l2[u][a].st
  PROVE  /\ DownInv(a, u) => DownInv(a, u)'
         /\ UpInv(a, u) => UpInv(a, u)'
         /\ Recalled(a, u, Recall(a))' <=> Recalled(a, u, Recall(a))
         /\ Recalled(a, u, WbCall(a))' <=> Recalled(a, u, WbCall(a))
         /\ WrittenBack(a, u)' <=> WrittenBack(a, u)
<1> DEFINE q == Down(a, u)
           r == Up(a, u)
<1>1. Keeps(q, q', FromHome(a)) /\ Keeps(r, r', Answer(a))
  BY DEF SameLink
<1>2. DownInv(a, u) => DownInv(a, u)'
  BY <1>1, DownKept DEF DownInv
<1>3. UpInv(a, u) => UpInv(a, u)'
  BY <1>1, UpKept DEF UpInv
<1>4. /\ Recalled(a, u, Recall(a))' <=> Recalled(a, u, Recall(a))
      /\ Recalled(a, u, WbCall(a))' <=> Recalled(a, u, WbCall(a))
  BY <1>1, DownKept DEF Recalled
<1>5. WrittenBack(a, u)' <=> WrittenBack(a, u)
  BY <1>1, UpKept DEF WrittenBack
<1> QED BY <1>2, <1>3, <1>4, <1>5

\* What a tile has asked for stays.
LEMMA AskFrame ==
  ASSUME NEW a, NEW u, SameLink(a, u), AskInv(a, u), queue'[a] = queue[a],
         outst[u] # None /\ outst[u].addr = a =>
           outst'[u] = outst[u] /\ app'[u] = app[u]
  PROVE  AskInv(a, u)'
<1> DEFINE q == Down(a, u)
           r == Up(a, u)
<1>1. Keeps(q, q', FromHome(a)) /\ Keeps(r, r', Answer(a))
  BY DEF SameLink
<1>2. /\ Granted(a, u)' <=> Granted(a, u)
      /\ In(Down(a, u), ShRep(a))' <=> In(Down(a, u), ShRep(a))
      /\ In(Down(a, u), ShRep(a)) => Granted(a, u)
  BY <1>1, DownKept, Subkinds DEF Granted
<1>3. /\ Left(a, u)' <=> Left(a, u)
      /\ Requested(a, u)' <=> Requested(a, u)
      /\ In(Up(a, u), ShRequest(a))' <=> In(Up(a, u), ShRequest(a))
      /\ In(Up(a, u), ShRequest(a)) => Requested(a, u)
  BY <1>1, UpKept, Subkinds DEF Left, Requested
<1>4. In(queue[a], ShWaiting(u)) => Queued(a, u)
  <2>1. ShWaiting(u) \subseteq Waiting(u)
    BY DEF ShWaiting, Waiting
  <2> QED BY <2>1, OrderMono DEF Queued
<1>5. Queued(a, u)' <=> Queued(a, u)
  BY DEF Queued
<1>6. Requested(a, u) \/ Queued(a, u) \/ Granted(a, u) =>
        outst'[u] = outst[u] /\ app'[u] = app[u]
  BY DEF AskInv
<1> QED BY <1>2, <1>3, <1>4, <1>5, <1>6 DEF AskInv

\* The sharers of a line keep what they have of it.
LEMMA HoldFrame ==
  ASSUME NEW a, NEW u, SameLink(a, u), HoldInv(a, u),
         l2'[u][a].st = l2[u][a].st,
         u \in EntryOf(a)'.sharers => u \in EntryOf(a).sharers,
         u \in EntryOf(a)'.hw => u \in EntryOf(a)'.sharers
  PROVE  HoldInv(a, u)'
<1> DEFINE q == Down(a, u)
           r == Up(a, u)
<1>1. Keeps(q, q', FromHome(a)) /\ Keeps(r, r', Answer(a))
  BY DEF SameLink
<1>2. Granted(a, u)' <=> Granted(a, u)
  BY <1>1, DownKept DEF Granted
<1>3. Left(a, u)' <=> Left(a, u)
  BY <1>1, UpKept DEF Left
<1> QED BY <1>2, <1>3 DEF HoldInv

\* What concerns line a and tile u stays when neither is touched.
LEMMA PairFrame ==
  ASSUME NEW a \in Addrs, NEW u \in Tiles, PairInv(a, u), SameLink(a, u),
         l2'[u][a].st = l2[u][a].st, queue'[a] = queue[a],
         Served(a)' <=> Served(a), EntryOf(a)' = EntryOf(a),
         outst[u] # None /\ outst[u].addr = a =>
           outst'[u] = outst[u] /\ app'[u] = app[u]
  PROVE  PairInv(a, u)'
<1>1. DownInv(a, u)' /\ UpInv(a, u)'
  BY OrderFrame DEF PairInv
<1>2. RecallInv(a, u)'
  <2>1. Awaits(a)' <=> Awaits(a)
    BY DEF Awaits
  <2>2. RecallInv(a, u)
    BY DEF PairInv
  <2>3. /\ Recalled(a, u, Recall(a))' <=> Recalled(a, u, Recall(a))
        /\ Recalled(a, u, WbCall(a))' <=> Recalled(a, u, WbCall(a))
        /\ WrittenBack(a, u)' <=> WrittenBack(a, u)
    BY OrderFrame
  <2> QED BY <2>1, <2>2, <2>3 DEF RecallInv
<1>3. AskInv(a, u)'
  BY AskFrame DEF PairInv
<1>4. HoldInv(a, u)'
  <2>1. HoldInv(a, u)
    BY DEF PairInv
  <2>2. /\ u \in EntryOf(a)'.sharers => u \in EntryOf(a).sharers
        /\ u \in EntryOf(a)'.hw => u \in EntryOf(a)'.sharers
    BY <2>1 DEF HoldInv
  <2> QED BY <2>1, <2>2, HoldFrame
<1> QED BY <1>1, <1>2, <1>3, <1>4 DEF PairInv

\* The kinds of messages that an L1 cache sends.
LEMMA L1Kinds ==
  /\ \A c \in Comps : \A a : FromL1(c, a) \in SUBSET L1Msg
  /\ \A r : Foreign(r) \in SUBSET L1Msg
<1>1. \A c \in Comps : \A a : FromL1(c, a) \in SUBSET L1Msg
  BY DEF FromL1, L1Msg
<1>2. \A r : Foreign(r) \in SUBSET L1Msg
  BY DEF Foreign, L1Msg
<1> QED BY <1>1, <1>2

\* What concerns the application of u stays when its tile is not touched.
LEMMA ThreadFrame ==
  ASSUME NEW u \in Tiles, ThreadInv(u),
         Keeps(chan[<<u, u>>], chan'[<<u, u>>], L1Msg),
         l1'[u] = l1[u], l2'[u] = l2[u], app'[u] = app[u],
         outst'[u] = outst[u], appSem'[u] = appSem[u]
  PROVE  ThreadInv(u)'
<1>1. \A S \in SUBSET L1Msg : In(chan'[<<u, u>>], S) <=> In(chan[<<u, u>>], S)
  BY DEF Keeps
<1>2. /\ \A c \in Comps, a \in Addrs :
           In(chan'[<<u, u>>], FromL1(c, a)) <=> In(chan[<<u, u>>], FromL1(c, a))
      /\ \A r : In(chan'[<<u, u>>], Foreign(r)) <=> In(chan[<<u, u>>], Foreign(r))
  BY <1>1, L1Kinds
<1>3. \A r : (L1Hit(u, r)' <=> L1Hit(u, r)) /\ (L2Hit(u, r)' <=> L2Hit(u, r))
  BY DEF L1Hit, L2Hit
<1>4. RequestInv(u)'
  BY <1>2, <1>3 DEF ThreadInv, RequestInv
<1>5. ASSUME NEW a \in Addrs PROVE LocInv(u, a)'
  BY <1>2 DEF ThreadInv, LocInv
<1> QED BY <1>4, <1>5 DEF ThreadInv

\* What the directory at h serves stays.
LEMMA ServeFrame ==
  ASSUME NEW g, ServeInv(g), work'[g] = work[g],
         work[g] # None => /\ queue'[work[g].addr] = queue[work[g].addr]
                           /\ EntryOf(work[g].addr)' = EntryOf(work[g].addr)
  PROVE  ServeInv(g)'
<1>1. CASE work[g] = None
  BY <1>1 DEF ServeInv
<1>2. CASE work[g] # None
  <2> DEFINE a == work[g].addr
  <2>1. queue'[a] = queue[a] /\ EntryOf(a)' = EntryOf(a)
    BY <1>2
  <2>2. work'[g].addr = a /\ work'[g].buf = work[g].buf
    OBVIOUS
  <2> QED BY <1>2, <2>1, <2>2 DEF ServeInv
<1> QED BY <1>1, <1>2

-----------------------------------------------------------------------------
(* Steps of the application threads *)

\* While the application of a tile accesses its caches nothing is outstanding.
LEMMA NothingAsked ==
  ASSUME TypeOK, HandoverInv, NEW t \in Tiles, app[t].pc # "wait" \/ appSem[t] > 0
  PROVE  /\ outst[t] = None
         /\ \A c \in Comps : \A a : ~In(chan[<<t, t>>], FromL1(c, a))
         /\ appSem[t] \in {0, 1} /\ (app[t].pc # "wait" => appSem[t] = 0)
<1>1. appSem[t] \in Nat /\ simSem[t] \in Nat
  BY DEF TypeOK, ThreadsOK
<1>2. /\ appSem[t] + simSem[t] <= 1
      /\ appSem[t] = 1 => app[t].pc = "wait" /\ sim[t] = "waitApp"
      /\ outst[t] # None => app[t].pc = "wait" /\ sim[t] = "recv"
  BY DEF HandoverInv, Handover
<1>3. appSem[t] \in {0, 1} /\ (app[t].pc # "wait" => appSem[t] = 0)
  BY <1>1, <1>2
<1>4. outst[t] = None
  BY <1>1, <1>2, <1>3
<1>5. L1Requests(t) = {}
  BY <1>1 DEF HandoverInv
<1>6. \A c \in Comps : \A a : ~In(chan[<<t, t>>], FromL1(c, a))
  BY <1>5 DEF L1Requests, In, FromL1
<1> QED BY <1>3, <1>4, <1>6

\* The application of t leaves the directories, the lines of the L2 caches
\* and what the caches tell the directories alone.
LEMMA AppSide ==
  ASSUME AssertInv, NEW t \in Tiles, outst[t] = None, ThreadInv(t)',
         UNCHANGED <<outst, queue, way, repl, work>>,
         \A a \in Addrs, u \in Tiles : SameLink(a, u),
         \A u \in Tiles, a \in Addrs : l2'[u][a].st = l2[u][a].st,
         \A u \in Tiles \ {t} :
           /\ app'[u] = app[u] /\ l1'[u] = l1[u] /\ l2'[u] = l2[u]
           /\ appSem'[u] = appSem[u]
           /\ Keeps(chan[<<u, u>>], chan'[<<u, u>>], L1Msg)
  PROVE  AssertInv'
<1>1. \A a : EntryOf(a)' = EntryOf(a) /\ (Served(a)' <=> Served(a))
  BY DEF EntryOf, Served
<1>2. ASSUME NEW a \in Addrs, NEW u \in Tiles PROVE PairInv(a, u)'
  <2>1. outst[u] # None => u # t
    OBVIOUS
  <2> QED BY <1>1, <2>1, PairFrame DEF AssertInv
<1>3. ASSUME NEW u \in Tiles PROVE ThreadInv(u)'
  <2>1. CASE u = t
    BY <2>1
  <2>2. CASE u # t
    BY <2>2, ThreadFrame DEF AssertInv
  <2> QED BY <2>1, <2>2
<1>4. ASSUME NEW a \in Addrs PROVE QueueInv(a)'
  BY DEF AssertInv, QueueInv
<1>5. ASSUME NEW h \in Tiles PROVE ServeInv(h)'
  BY <1>1, ServeFrame DEF AssertInv
<1> QED BY <1>2, <1>3, <1>4, <1>5 DEF AssertInv

\* A channel that is the same keeps everything.
LEMMA KeepsAll ==
  ASSUME NEW q, NEW r, r = q, NEW K
  PROVE  Keeps(q, r, K)
BY DEF Keeps

\* The caches of t are L1 and L2 before the access, and nothing is asked for.
LEMMA AccessSide ==
  ASSUME TypeOK, AssertInv, NEW t \in Tiles, outst[t] = None,
         \A c \in Comps, a \in Addrs : ~In(chan[<<t, t>>], FromL1(c, a)),
         NEW r \in Access, NEW L1 \in L1Caches, NEW L2 \in L2Cache,
         accessCache(t, r, L1, L2), Return(t, r), appSem'[t] = 0,
         \A u \in Tiles \ {t} : appSem'[u] = appSem[u],
         \A b \in Addrs : L2[b].st = l2[t][b].st,
         \A c \in Comps, b \in Addrs :
           L2[b].st # "I" /\ L2[b].loc = c => L1[c][b].st # "I",
         UNCHANGED <<chan, outst, dirVars>>
  PROVE  AssertInv'
<1>1. AccessDone(t, r, L1, L2)
  BY AccessCacheEffect DEF TypeOK
<1>2. /\ \A u \in Tiles \ {t} : l1'[u] = l1[u] /\ l2'[u] = l2[u]
      /\ \A c \in Comps, b \in Addrs : l1'[t][c][b].st = L1[c][b].st
      /\ \A b \in Addrs : l2'[t][b].st = L2[b].st /\ l2'[t][b].loc = L2[b].loc
  BY <1>1 DEF AccessDone
<1>3. /\ \A u \in Tiles \ {t} : app'[u] = app[u]
      /\ app'[t].pc # "wait"
  BY DEF Return, TypeOK, ThreadsOK
<1>4. RequestInv(t)'
  <2>1. /\ outst'[t] = None /\ app'[t].pc # "wait" /\ appSem'[t] = 0
        /\ \A c \in Comps, a \in Addrs : ~In(chan'[<<t, t>>], FromL1(c, a))
    BY <1>3
  <2> QED BY <2>1 DEF RequestInv
<1>5. ASSUME NEW b \in Addrs PROVE LocInv(t, b)'
  BY <1>2 DEF LocInv
<1>6. ThreadInv(t)'
  BY <1>4, <1>5 DEF ThreadInv
<1>7. \A u \in Tiles, b \in Addrs : l2'[u][b].st = l2[u][b].st
  BY <1>2
<1>8. UNCHANGED <<outst, queue, way, repl, work>>
  BY DEF dirVars
<1>9. UNCHANGED chan
  OBVIOUS
<1>10. ASSUME NEW u \in Tiles
       PROVE  Keeps(chan[<<u, u>>], chan'[<<u, u>>], L1Msg)
  <2>1. chan'[<<u, u>>] = chan[<<u, u>>]
    BY <1>9
  <2> QED BY <2>1, KeepsAll
<1>11. \A a \in Addrs, u \in Tiles : SameLink(a, u)
  BY <1>9, SameChannelsSameLink
<1> QED BY <1>2, <1>3, <1>6, <1>7, <1>8, <1>10, <1>11, AppSide

\* An access that hits in the L1 cache.
LEMMA HitSide ==
  ASSUME TypeOK, HandoverInv, AssertInv, NEW t \in Tiles,
         app[t].pc # "wait" \/ appSem[t] > 0,
         NEW r \in Access, accessCache(t, r, l1[t], l2[t]), Return(t, r),
         appSem'[t] = 0, \A u \in Tiles \ {t} : appSem'[u] = appSem[u],
         UNCHANGED <<chan, outst, dirVars>>
  PROVE  AssertInv'
<1>1. l1[t] \in L1Caches /\ l2[t] \in L2Cache
  BY DEF TypeOK, CachesOK, L1Caches, L2Cache
<1>2. /\ outst[t] = None
      /\ \A c \in Comps, a \in Addrs : ~In(chan[<<t, t>>], FromL1(c, a))
  BY NothingAsked
<1>3. \A c \in Comps, b \in Addrs :
        l2[t][b].st # "I" /\ l2[t][b].loc = c => l1[t][c][b].st # "I"
  BY <1>2 DEF AssertInv, ThreadInv, LocInv
<1> QED BY <1>1, <1>2, <1>3, AccessSide

\* An access that hits in the L2 cache.
LEMMA L2HitSide ==
  ASSUME TypeOK, HandoverInv, AssertInv, NEW t \in Tiles, NEW r \in Accesses,
         AppL2Hit(t, r)
  PROVE  AssertInv'
<1> DEFINE c == r.comp
           a == r.addr
           inv == [l1[t] EXCEPT ![r.comp][r.addr] = InvalidL1]
<1>1. r \in Access /\ c \in Comps /\ a \in Addrs
  BY AccessesType DEF Access
<1>2. l1[t] \in L1Caches /\ l2[t] \in L2Cache /\ l2[t][a] \in L2Line
  BY <1>1 DEF TypeOK, CachesOK, L1Caches, L2Cache
<1>3. inv \in L1Caches
  BY <1>1, <1>2, InvalidLines DEF L1Caches
<1>4. PICK victim \in Victims(inv[c], L1Ways) :
        accessCache(t, r, L1After(inv, c, a, l2[t][a], victim),
          [ClearCachedLoc(l2[t], victim) EXCEPT ![a].loc = c])
  BY DEF AppL2Hit
<1>5. /\ app[t].pc = "idle" /\ L2Hit(t, r) /\ Return(t, r)
      /\ UNCHANGED <<chan, appSem, outst, dirVars>>
  BY DEF AppL2Hit
<1> DEFINE N1 == L1After(inv, c, a, l2[t][a], victim)
           N2 == [ClearCachedLoc(l2[t], victim) EXCEPT ![a].loc = c]
<1>6. \A d \in Comps, b \in Addrs :
        ~(d = c /\ b = a) => inv[d][b] = l1[t][d][b]
  BY <1>1, <1>2 DEF L1Caches
<1>7. N1 \in L1Caches
  BY <1>1, <1>2, <1>3, L1AfterType
<1>8. ClearCachedLoc(l2[t], victim) \in L2Cache
  BY <1>2, ClearCachedLocType
<1>9. N2 \in L2Cache
  BY <1>1, <1>8 DEF L2Cache, L2Line
<1>10. \A b \in Addrs :
         /\ N2[b].st = l2[t][b].st
         /\ b = a => N2[b].loc = c
         /\ b # a /\ b # victim => N2[b].loc = l2[t][b].loc
         /\ b # a /\ b = victim => N2[b].loc = None
  BY <1>1, <1>2 DEF ClearCachedLoc, L2Cache, L2Line
<1>11. \A d \in Comps, b \in Addrs :
         N1[d][b] = IF d # c THEN inv[d][b]
                    ELSE IF b = a THEN [st |-> l2[t][a].st, val |-> l2[t][a].val]
                    ELSE IF b = victim THEN InvalidL1 ELSE inv[d][b]
  <2> HIDE DEF inv, c, a
  <2> QED BY <1>1, <1>2, <1>3, L1AfterEffect
<1> HIDE DEF inv, N1, N2
<1>12. /\ outst[t] = None /\ appSem[t] = 0
       /\ \A d \in Comps, b \in Addrs : ~In(chan[<<t, t>>], FromL1(d, b))
  BY <1>5, NothingAsked
<1>13. ASSUME NEW d \in Comps, NEW b \in Addrs, N2[b].st # "I", N2[b].loc = d
       PROVE  N1[d][b].st # "I"
  <2>1. d # None
    BY NoneAssumption DEF NoneAssumption
  <2>2. CASE b = a
    <3>1. d = c /\ N1[d][b].st = l2[t][a].st
      BY <1>1, <1>10, <1>11, <1>13, <2>2
    <3> QED BY <1>1, <1>10, <1>13, <2>2, <3>1
  <2>3. CASE b # a
    <3>1. b # victim /\ l2[t][b].loc = d /\ l2[t][b].st # "I"
      BY <1>10, <1>13, <2>1, <2>3
    <3>2. N1[d][b] = l1[t][d][b]
      BY <1>6, <1>11, <2>3, <3>1
    <3> QED BY <1>12, <3>1, <3>2 DEF AssertInv, ThreadInv, LocInv
  <2> QED BY <2>2, <2>3
<1>14. accessCache(t, r, N1, N2)
  BY <1>4 DEF N1, N2
<1>15. /\ \A b \in Addrs : N2[b].st = l2[t][b].st
       /\ appSem'[t] = 0 /\ \A u \in Tiles \ {t} : appSem'[u] = appSem[u]
  BY <1>5, <1>10, <1>12
<1> QED BY <1>1, <1>5, <1>7, <1>9, <1>12, <1>13, <1>14, <1>15, AccessSide

\* A message to a tile, as the others see it.
LEMMA ToOne ==
  ASSUME NEW t \in Tiles, NEW m \in ShmemMsg
  PROVE  /\ To(t, <<m>>) \in Outgoing
         /\ \A y \in Tiles : \A S : In(To(t, <<m>>)[y], S) <=> y = t /\ m \in S
         /\ \A y \in Tiles : \A R, S : /\ ~After(To(t, <<m>>)[y], R, S)
                                       /\ ~After2(To(t, <<m>>)[y], R, S)
<1>1. To(t, <<m>>) \in Outgoing
  BY OutgoingType
<1>2. ASSUME NEW y \in Tiles, NEW R, NEW S
      PROVE  /\ In(To(t, <<m>>)[y], S) <=> y = t /\ m \in S
             /\ ~After(To(t, <<m>>)[y], R, S) /\ ~After2(To(t, <<m>>)[y], R, S)
  <2>1. To(t, <<m>>)[y] = IF y = t THEN <<m>> ELSE <<>>
    BY DEF To
  <2>2. ~In(<<>>, S) /\ (In(<<m>>, S) <=> m \in S)
    BY InSingle
  <2>3. /\ ~After(<<>>, R, S) /\ ~After2(<<>>, R, S)
        /\ ~After(<<m>>, R, S) /\ ~After2(<<m>>, R, S)
    BY OrderShort
  <2> QED BY <2>1, <2>2, <2>3
<1> QED BY <1>1, <1>2

\* An access that misses in both caches.
LEMMA MissSide ==
  ASSUME TypeOK, HandoverInv, AssertInv, NEW t \in Tiles, NEW r \in Accesses,
         AppMiss(t, r)
  PROVE  AssertInv'
<1> DEFINE m == Msg(ReqType(r.op), r.comp, r.addr, None)
           out == To(t, <<m>>)
<1>1. r \in Access /\ r.comp \in Comps /\ r.addr \in Addrs
  BY AccessesType DEF Access
<1>2. /\ m \in ShmemMsg /\ m.type \in {"EX_REQ", "SH_REQ"} /\ m.src = r.comp
      /\ m.addr = r.addr /\ m.type = ReqType(r.op)
  BY <1>1 DEF Msg, ReqType, ShmemMsg, ControlMsg, MsgSource
<1>3. /\ l1' = [l1 EXCEPT ![t][r.comp][r.addr] = InvalidL1] /\ Send(t, out)
      /\ app' = [app EXCEPT ![t] = [pc |-> "wait", acc |-> r]]
      /\ UNCHANGED <<l2, appSem, outst, queue, way, repl, work>>
      /\ app[t].pc = "idle" /\ ~L2Hit(t, r)
  BY DEF AppMiss, dirVars
<1>4. NetworkOK
  BY DEF TypeOK
<1>5. /\ out \in Outgoing
      /\ \A y \in Tiles : \A S : In(out[y], S) <=> y = t /\ m \in S
  BY <1>2, ToOne
<1> HIDE DEF m, out
<1>6. /\ outst[t] = None /\ appSem[t] = 0
      /\ \A c \in Comps : \A a : ~In(chan[<<t, t>>], FromL1(c, a))
  BY <1>3, NothingAsked
<1>7. ASSUME NEW a \in Addrs, NEW u \in Tiles PROVE SameLink(a, u)
  <2>1. m \notin FromHome(a) /\ m \notin Answer(a)
    BY <1>1, <1>2 DEF FromHome, Answer, OfType, Comps
  <2>2. Home[a] \in Tiles
    BY MSIAssumption DEF MSIAssumption
  <2>3. \A y \in Tiles : ~In(out[y], FromHome(a)) /\ ~In(out[y], Answer(a))
    BY <1>5, <2>1
  <2>4. Keeps(Down(a, u), Down(a, u)', FromHome(a))
    BY <1>3, <1>4, <1>5, <2>2, <2>3, SendLink DEF Down
  <2>5. Keeps(Up(a, u), Up(a, u)', Answer(a))
    BY <1>3, <1>4, <1>5, <2>2, <2>3, SendLink DEF Up
  <2> QED BY <2>4, <2>5 DEF SameLink
<1>8. ASSUME NEW u \in Tiles \ {t}
      PROVE  /\ app'[u] = app[u] /\ l1'[u] = l1[u]
             /\ Keeps(chan[<<u, u>>], chan'[<<u, u>>], L1Msg)
  <2>1. app'[u] = app[u] /\ l1'[u] = l1[u]
    BY <1>3 DEF TypeOK, ThreadsOK, CachesOK
  <2> QED BY <1>3, <1>4, <1>5, <2>1, SendLink
<1>9. \A S : In(chan'[<<t, t>>], S) <=> In(chan[<<t, t>>], S) \/ m \in S
  BY <1>3, <1>4, <1>5, SendIn
<1>10. /\ app'[t] = [pc |-> "wait", acc |-> r]
       /\ \A c \in Comps, a \in Addrs :
            l1'[t][c][a] = IF c = r.comp /\ a = r.addr THEN InvalidL1
                           ELSE l1[t][c][a]
  BY <1>1, <1>3 DEF TypeOK, ThreadsOK, CachesOK
<1>11. RequestInv(t)'
  <2>1. m \notin Foreign(r)
    BY <1>2 DEF Foreign
  <2>2. ~In(chan[<<t, t>>], Foreign(r))
    <3> SUFFICES ASSUME In(chan[<<t, t>>], Foreign(r)) PROVE FALSE
      OBVIOUS
    <3>1. PICK i \in 1..Len(chan[<<t, t>>]) : chan[<<t, t>>][i] \in Foreign(r)
      BY DEF In
    <3> DEFINE n == chan[<<t, t>>][i]
    <3>2. n \in FromL1(n.src, n.addr) /\ n.src \in Comps
      BY <3>1 DEF Foreign, FromL1
    <3>3. In(chan[<<t, t>>], FromL1(n.src, n.addr))
      BY <3>2 DEF In
    <3> QED BY <1>6, <3>2, <3>3
  <2>3. ~In(chan'[<<t, t>>], Foreign(r))
    BY <1>9, <2>1, <2>2
  <2>4. ~L2Hit(t, r)'
    BY <1>3 DEF L2Hit
  <2>5. app'[t].acc = r /\ outst'[t] = None /\ ~(appSem'[t] > 0)
    BY <1>3, <1>6, <1>10
  <2> QED BY <2>3, <2>4, <2>5 DEF RequestInv
<1>12. ASSUME NEW a \in Addrs PROVE LocInv(t, a)'
  <2> SUFFICES ASSUME NEW c \in Comps, l2[t][a].st # "I", l2[t][a].loc = c
               PROVE  \/ l1'[t][c][a].st # "I"
                      \/ l2[t][a].st = "S" /\ In(chan'[<<t, t>>], FromL1(c, a))
    BY <1>3 DEF LocInv
  <2>1. l1[t][c][a].st # "I"
    BY <1>6 DEF AssertInv, ThreadInv, LocInv
  <2>2. CASE c = r.comp /\ a = r.addr
    <3>1. m \in FromL1(c, a)
      BY <1>2, <2>2 DEF FromL1
    <3>2. l2[t][a].st = "S"
      <4>1. l2[t][a].st \in {"S", "M"}
        BY DEF TypeOK, CachesOK, L2Line
      <4> QED BY <1>3, <2>2, <4>1 DEF L2Hit, operationPermissible
    <3> QED BY <1>9, <3>1, <3>2
  <2>3. CASE ~(c = r.comp /\ a = r.addr)
    BY <1>10, <2>1, <2>3
  <2> QED BY <2>2, <2>3
<1>13. ThreadInv(t)'
  BY <1>11, <1>12 DEF ThreadInv
<1> QED BY <1>3, <1>6, <1>7, <1>8, <1>13, AppSide

\* The steps of an application thread keep the invariant.
LEMMA AppStepAssert ==
  ASSUME TypeOK, HandoverInv, AssertInv, NEW t \in Tiles, AppStep(t)
  PROVE  AssertInv'
<1>0. \A u \in Tiles : appSem[u] \in Nat
  BY DEF TypeOK, ThreadsOK
<1>1. ASSUME NEW r \in Accesses, AppL1Hit(t, r) PROVE AssertInv'
  <2>1. /\ accessCache(t, r, l1[t], l2[t]) /\ Return(t, r) /\ app[t].pc # "wait"
        /\ UNCHANGED <<chan, appSem, outst, dirVars>>
    BY <1>1 DEF AppL1Hit
  <2>2. appSem[t] = 0
    BY <2>1, NothingAsked
  <2> QED BY <2>1, <2>2, HitSide, AccessesType
<1>2. ASSUME NEW r \in Accesses, AppL2Hit(t, r) PROVE AssertInv'
  BY <1>2, L2HitSide
<1>3. ASSUME NEW r \in Accesses, AppMiss(t, r) PROVE AssertInv'
  BY <1>3, MissSide
<1>4. ASSUME AppResume(t) PROVE AssertInv'
  <2> DEFINE r == app[t].acc
  <2>1. r \in Access
    BY <1>4 DEF AppResume, TypeOK, ThreadsOK, AppState
  <2>2. /\ accessCache(t, r, l1[t], l2[t]) /\ Return(t, r) /\ appSem[t] > 0
        /\ appSem' = [appSem EXCEPT ![t] = @ - 1]
        /\ UNCHANGED <<chan, outst, dirVars>>
    BY <1>4 DEF AppResume
  <2>3. appSem[t] \in {0, 1}
    BY <2>2, NothingAsked
  <2>4. appSem'[t] = 0 /\ \A u \in Tiles \ {t} : appSem'[u] = appSem[u]
    BY <2>2, <2>3 DEF TypeOK, ThreadsOK
  <2> QED BY <2>1, <2>2, <2>4, HitSide
<1>5. ASSUME NEW v \in Values, AppUnlock(t, v) PROVE AssertInv'
  <2> DEFINE r == [app[t].acc EXCEPT !.op = "WRITE", !.sig = "NONE", !.val = v]
  <2>1. app[t].acc \in Access /\ app[t].pc = "locked"
    BY <1>5 DEF AppUnlock, TypeOK, ThreadsOK, AppState
  <2>2. r \in Access
    BY <2>1 DEF Access
  <2>3. /\ accessCache(t, r, l1[t], l2[t]) /\ Return(t, r)
        /\ UNCHANGED <<chan, appSem, outst, dirVars>>
    BY <1>5 DEF AppUnlock
  <2>4. appSem[t] = 0
    BY <2>1, NothingAsked
  <2> QED BY <2>1, <2>2, <2>3, <2>4, HitSide
<1> QED BY <1>1, <1>2, <1>3, <1>4, <1>5 DEF AppStep

-----------------------------------------------------------------------------
(* Steps of the L2 caches *)

\* Of the messages of the kind K, r has only what q has, in the same order.
Shrinks(q, r, K) ==
  \A R, S \in SUBSET K :
    /\ In(r, S) => In(q, S)
    /\ After(r, R, S) => After(q, R, S)
    /\ After2(r, R, S) => After2(q, R, S)

\* A channel that loses its first message has no more than before.
LEMMA LosesShrinks ==
  ASSUME NEW q, NEW r, NEW K, Loses(q, r, K) \/ Keeps(q, r, K)
  PROVE  Shrinks(q, r, K)
BY DEF Loses, Keeps, Shrinks

\* What the home has said to a tile without the line.
LEMMA DownShrinks ==
  ASSUME NEW a, NEW t, Shrinks(Down(a, t), Down(a, t)', FromHome(a)),
         DownInv(a, t), l2'[t][a].st = "I"
  PROVE  /\ DownInv(a, t)'
         /\ Recalled(a, t, Recall(a))' => Recalled(a, t, Recall(a))
         /\ Recalled(a, t, WbCall(a))' => Recalled(a, t, WbCall(a))
         /\ Granted(a, t)' => Granted(a, t)
         /\ In(Down(a, t), ShRep(a))' => In(Down(a, t), ShRep(a))
<1> DEFINE q == Down(a, t)
           r == Down(a, t)'
<1>1. /\ After(r, ExRep(a), InvCall(a)) => After(q, ExRep(a), InvCall(a))
      /\ After(r, ShRep(a), Recall(a)) => After(q, ShRep(a), Recall(a))
      /\ After(r, ExRep(a), Recall(a)) => After(q, ExRep(a), Recall(a))
      /\ After(r, ExRep(a), WbCall(a)) => After(q, ExRep(a), WbCall(a))
      /\ After2(r, ExRep(a), Recall(a)) => After2(q, ExRep(a), Recall(a))
      /\ In(r, Rep(a)) => In(q, Rep(a))
      /\ In(r, ShRep(a)) => In(q, ShRep(a))
  BY Kinds DEF Shrinks
<1>2. DownInv(a, t)'
  BY <1>1 DEF DownInv
<1>3. /\ Recalled(a, t, Recall(a))' => Recalled(a, t, Recall(a))
      /\ Recalled(a, t, WbCall(a))' => Recalled(a, t, WbCall(a))
  BY <1>1 DEF Recalled
<1>4. Granted(a, t)' => Granted(a, t)
  BY <1>1 DEF Granted
<1> QED BY <1>1, <1>2, <1>3, <1>4

\* What has grown of what a tile tells the home.
LEMMA UpGrows ==
  ASSUME NEW a, NEW t, NEW o, Grows(Up(a, t), Up(a, t)', o, Answer(a))
  PROVE  /\ Left(a, t)' <=> Left(a, t) \/ In(o, Gone(a))
         /\ WrittenBack(a, t)' <=> WrittenBack(a, t) \/ In(o, WbRep(a))
         /\ Requested(a, t)' <=> Requested(a, t) \/ In(o, Request(a))
         /\ In(Up(a, t), ShRequest(a))' <=>
              In(Up(a, t), ShRequest(a)) \/ In(o, ShRequest(a))
         /\ After(Up(a, t), Gone(a), WbRep(a))' <=>
              \/ After(Up(a, t), Gone(a), WbRep(a))
              \/ After(o, Gone(a), WbRep(a))
              \/ Left(a, t) /\ In(o, WbRep(a))
         /\ After(Up(a, t), Request(a), Gone(a))' <=>
              \/ After(Up(a, t), Request(a), Gone(a))
              \/ After(o, Request(a), Gone(a))
              \/ Requested(a, t) /\ In(o, Gone(a))
         /\ After(Up(a, t), Request(a), Request(a))' <=>
              \/ After(Up(a, t), Request(a), Request(a))
              \/ After(o, Request(a), Request(a))
              \/ Requested(a, t) /\ In(o, Request(a))
BY Kinds DEF Grows, Left, WrittenBack, Requested

\* A tile that is not asking for a line has no request, and no line, under way.
NotAsking(a, t) == ~Requested(a, t) /\ ~Queued(a, t) /\ ~Granted(a, t)

\* A tile asks for the line that is outstanding and for no other.
LEMMA AsksOnce ==
  ASSUME NEW a, NEW t, AskInv(a, t), outst[t] = None \/ outst[t].addr # a
  PROVE  NotAsking(a, t)
BY DEF AskInv, NotAsking

\* Who does not ask for a line does not ask to share it either.
LEMMA NotAskingKinds ==
  ASSUME NEW a, NEW t, NotAsking(a, t)
  PROVE  /\ ~In(Up(a, t), ShRequest(a)) /\ ~In(queue[a], ShWaiting(t))
         /\ ~In(Down(a, t), ShRep(a))
<1>1. ~In(Up(a, t), ShRequest(a)) /\ ~In(Down(a, t), ShRep(a))
  BY Subkinds DEF NotAsking, Requested, Granted
<1>2. ShWaiting(t) \subseteq Waiting(t)
  BY DEF ShWaiting, Waiting
<1>3. ~In(queue[a], ShWaiting(t))
  BY <1>2, OrderMono DEF NotAsking, Queued
<1> QED BY <1>1, <1>3

\* A line leaves a tile that is not asking for it; n tells the home.
LEMMA LineLeaves ==
  ASSUME NEW a \in Addrs, NEW t \in Tiles, PairInv(a, t), NotAsking(a, t),
         Shrinks(Down(a, t), Down(a, t)', FromHome(a)), NEW o,
         Grows(Up(a, t), Up(a, t)', o, Answer(a)), In(o, Gone(a)),
         ~In(o, WbRep(a)), ~In(o, Request(a)),
         l2'[t][a].st = "I", queue'[a] = queue[a], Served(a)' <=> Served(a),
         EntryOf(a)' = EntryOf(a)
  PROVE  PairInv(a, t)'
<1>1. /\ DownInv(a, t) /\ RecallInv(a, t) /\ UpInv(a, t) /\ AskInv(a, t)
      /\ HoldInv(a, t)
  BY DEF PairInv
<1>2. /\ DownInv(a, t)'
      /\ Recalled(a, t, Recall(a))' => Recalled(a, t, Recall(a))
      /\ Recalled(a, t, WbCall(a))' => Recalled(a, t, WbCall(a))
      /\ Granted(a, t)' => Granted(a, t)
  BY <1>1, DownShrinks
<1>3. /\ Left(a, t)' /\ (WrittenBack(a, t)' <=> WrittenBack(a, t))
      /\ Requested(a, t)' <=> Requested(a, t)
      /\ UpInv(a, t)'
  <2>1. ~After(o, Gone(a), WbRep(a)) /\ ~After(o, Request(a), Gone(a))
        /\ ~After(o, Request(a), Request(a))
    BY OrderIn
  <2>2. ~Requested(a, t)
    BY DEF NotAsking
  <2> QED BY <1>1, <2>1, <2>2, UpGrows DEF UpInv
<1>4. RecallInv(a, t)'
  <2>1. Awaits(a)' <=> Awaits(a)
    BY DEF Awaits
  <2> QED BY <1>1, <1>2, <1>3, <2>1 DEF RecallInv
<1>5. NotAsking(a, t)'
  <2>1. Queued(a, t)' <=> Queued(a, t)
    BY DEF Queued
  <2> QED BY <1>2, <1>3, <2>1 DEF NotAsking
<1>6. AskInv(a, t)'
  <2>1. /\ ~In(Up(a, t), ShRequest(a))' /\ ~In(queue[a], ShWaiting(t))'
        /\ ~In(Down(a, t), ShRep(a))'
    <3>1. ~In(Up(a, t), ShRequest(a))' /\ ~In(Down(a, t), ShRep(a))'
      BY <1>5, Subkinds DEF NotAsking, Requested, Granted
    <3>2. ~In(queue[a], ShWaiting(t))
      BY NotAskingKinds
    <3> QED BY <3>1, <3>2
  <2> QED BY <1>1, <1>5, <2>1 DEF AskInv, NotAsking
<1>7. HoldInv(a, t)'
  BY <1>1, <1>3 DEF HoldInv
<1> QED BY <1>2, <1>3, <1>4, <1>6, <1>7 DEF PairInv

\* A tile without a copy asks for the line with o, giving up a shared copy
\* first.
LEMMA LineAsked ==
  ASSUME NEW a \in Addrs, NEW t \in Tiles, PairInv(a, t), NotAsking(a, t),
         Keeps(Down(a, t), Down(a, t)', FromHome(a)), NEW o,
         Grows(Up(a, t), Up(a, t)', o, Answer(a)),
         ~In(o, WbRep(a)), ~After(o, Request(a), Gone(a)),
         ~After(o, Request(a), Request(a)),
         In(o, ShRequest(a)) => app[t].acc.op = "READ",
         l2[t][a].st # "I" => In(o, Gone(a)),
         l2'[t][a].st = "I", queue'[a] = queue[a], Served(a)' <=> Served(a),
         EntryOf(a)' = EntryOf(a), outst'[t] # None, outst'[t].addr = a,
         app'[t] = app[t]
  PROVE  PairInv(a, t)'
<1>1. /\ DownInv(a, t) /\ RecallInv(a, t) /\ UpInv(a, t) /\ AskInv(a, t)
      /\ HoldInv(a, t) /\ ~Requested(a, t) /\ ~Queued(a, t) /\ ~Granted(a, t)
  BY DEF PairInv, NotAsking
<1>2. /\ DownInv(a, t)'
      /\ Recalled(a, t, Recall(a))' => Recalled(a, t, Recall(a))
      /\ Recalled(a, t, WbCall(a))' => Recalled(a, t, WbCall(a))
      /\ Granted(a, t)' => Granted(a, t)
      /\ In(Down(a, t), ShRep(a))' => In(Down(a, t), ShRep(a))
  BY <1>1, DownShrinks, LosesShrinks
<1>3. /\ Left(a, t)' <=> Left(a, t) \/ In(o, Gone(a))
      /\ WrittenBack(a, t)' <=> WrittenBack(a, t)
      /\ In(Up(a, t), ShRequest(a))' <=>
           In(Up(a, t), ShRequest(a)) \/ In(o, ShRequest(a))
      /\ UpInv(a, t)'
  <2>1. ~After(o, Gone(a), WbRep(a))
    BY OrderIn
  <2>2. UpInv(a, t)'
    BY <1>1, <2>1, UpGrows DEF UpInv
  <2> QED BY <2>2, UpGrows
<1>4. RecallInv(a, t)'
  <2>1. Awaits(a)' <=> Awaits(a)
    BY DEF Awaits
  <2> QED BY <1>1, <1>2, <1>3, <2>1 DEF RecallInv
<1>5. AskInv(a, t)'
  <2>1. ~Queued(a, t)' /\ ~Granted(a, t)'
    BY <1>1, <1>2 DEF Queued
  <2>2. /\ ~In(Up(a, t), ShRequest(a)) /\ ~In(queue[a], ShWaiting(t))'
        /\ ~In(Down(a, t), ShRep(a))'
    <3>1. /\ ~In(Up(a, t), ShRequest(a)) /\ ~In(queue[a], ShWaiting(t))
          /\ ~In(Down(a, t), ShRep(a))
      BY NotAskingKinds
    <3> QED BY <1>2, <3>1
  <2>3. ~After(queue[a], Waiting(t), Waiting(t))'
    BY <1>1 DEF AskInv
  <2> QED BY <1>3, <2>1, <2>2, <2>3 DEF AskInv
<1>6. HoldInv(a, t)'
  BY <1>1, <1>3 DEF HoldInv
<1> QED BY <1>2, <1>3, <1>4, <1>5, <1>6 DEF PairInv

\* The reply at the head of the channel brings the line.
LEMMA LineFilled ==
  ASSUME NEW a \in Addrs, NEW t \in Tiles, PairInv(a, t), NEW m,
         m = Head(Down(a, t)), m \in Rep(a), Granted(a, t),
         Loses(Down(a, t), Down(a, t)', FromHome(a)),
         Keeps(Up(a, t), Up(a, t)', Answer(a)), ~Granted(a, t)',
         l2'[t][a].st = IF m.type = "EX_REP" THEN "M" ELSE "S",
         queue'[a] = queue[a], Served(a)' <=> Served(a), EntryOf(a)' = EntryOf(a)
  PROVE  PairInv(a, t)'
<1> DEFINE q == Down(a, t)
           r == Down(a, t)'
<1>1. /\ DownInv(a, t) /\ RecallInv(a, t) /\ UpInv(a, t) /\ AskInv(a, t)
      /\ HoldInv(a, t)
  BY DEF PairInv
<1>2. /\ m \in ExRep(a) <=> m.type = "EX_REP"
      /\ m \in ShRep(a) <=> m.type # "EX_REP"
  BY DEF Rep, ExRep, ShRep, OfType
<1>3. /\ After(q, ExRep(a), InvCall(a)) <=>
           After(r, ExRep(a), InvCall(a)) \/ (m \in ExRep(a) /\ In(r, InvCall(a)))
      /\ After(q, ShRep(a), Recall(a)) <=>
           After(r, ShRep(a), Recall(a)) \/ (m \in ShRep(a) /\ In(r, Recall(a)))
      /\ After(q, ExRep(a), Recall(a)) <=>
           After(r, ExRep(a), Recall(a)) \/ (m \in ExRep(a) /\ In(r, Recall(a)))
      /\ After(q, ExRep(a), WbCall(a)) <=>
           After(r, ExRep(a), WbCall(a)) \/ (m \in ExRep(a) /\ In(r, WbCall(a)))
      /\ After2(q, ExRep(a), Recall(a)) <=>
           \/ After2(r, ExRep(a), Recall(a))
           \/ m \in ExRep(a) /\ After(r, Recall(a), Recall(a))
  BY Kinds DEF Loses
<1>4. DownInv(a, t)'
  BY <1>1, <1>2, <1>3 DEF DownInv
<1>5. /\ Recalled(a, t, Recall(a))' => Recalled(a, t, Recall(a))
      /\ Recalled(a, t, WbCall(a))' => Recalled(a, t, WbCall(a))
  BY <1>2, <1>3 DEF Recalled
<1>6. /\ WrittenBack(a, t)' <=> WrittenBack(a, t)
      /\ Requested(a, t)' <=> Requested(a, t)
      /\ UpInv(a, t)'
  BY <1>1, UpKept DEF WrittenBack, Requested, UpInv
<1>7. RecallInv(a, t)'
  <2>1. Awaits(a)' <=> Awaits(a)
    BY DEF Awaits
  <2> QED BY <1>1, <1>5, <1>6, <2>1 DEF RecallInv
<1>8. AskInv(a, t)'
  <2>1. ~Requested(a, t) /\ ~Queued(a, t)
    BY <1>1 DEF AskInv
  <2>2. NotAsking(a, t)'
    BY <1>6, <2>1 DEF NotAsking, Queued
  <2>3. /\ ~In(Up(a, t), ShRequest(a))' /\ ~In(queue[a], ShWaiting(t))'
        /\ ~In(Down(a, t), ShRep(a))'
    <3>1. ~In(Up(a, t), ShRequest(a))' /\ ~In(Down(a, t), ShRep(a))'
      BY <2>2, Subkinds DEF NotAsking, Requested, Granted
    <3>2. ShWaiting(t) \subseteq Waiting(t)
      BY DEF ShWaiting, Waiting
    <3>3. ~In(queue[a], ShWaiting(t))
      BY <2>1, <3>2, OrderMono DEF Queued
    <3> QED BY <3>1, <3>3
  <2> QED BY <1>1, <2>2, <2>3 DEF AskInv, NotAsking
<1>9. HoldInv(a, t)'
  BY <1>1 DEF HoldInv
<1> QED BY <1>4, <1>6, <1>7, <1>8, <1>9 DEF PairInv

\* A modified line is written back with o and stays, shared.
LEMMA LineWrittenBack ==
  ASSUME NEW a \in Addrs, NEW t \in Tiles, PairInv(a, t), NotAsking(a, t),
         ~Left(a, t), l2[t][a].st = "M", NEW m, m = Head(Down(a, t)),
         m \in WbCall(a), Loses(Down(a, t), Down(a, t)', FromHome(a)), NEW o,
         Grows(Up(a, t), Up(a, t)', o, Answer(a)),
         ~In(o, Gone(a)), ~In(o, Request(a)),
         l2'[t][a].st = "S", queue'[a] = queue[a], Served(a)' <=> Served(a),
         EntryOf(a)' = EntryOf(a)
  PROVE  PairInv(a, t)'
<1> DEFINE q == Down(a, t)
           r == Down(a, t)'
<1>1. /\ DownInv(a, t) /\ RecallInv(a, t) /\ UpInv(a, t) /\ AskInv(a, t)
      /\ HoldInv(a, t)
  BY DEF PairInv
<1>2. m \in Recall(a)
  BY DEF Recall, WbCall, OfType
<1>3. /\ After(q, Recall(a), Recall(a)) <=>
           After(r, Recall(a), Recall(a)) \/ (m \in Recall(a) /\ In(r, Recall(a)))
      /\ In(q, WbCall(a)) <=> m \in WbCall(a) \/ In(r, WbCall(a))
      /\ Shrinks(q, r, FromHome(a))
  BY Kinds, LosesShrinks DEF Loses
<1>4. /\ After(r, ExRep(a), InvCall(a)) => After(q, ExRep(a), InvCall(a))
      /\ After(r, ShRep(a), Recall(a)) => After(q, ShRep(a), Recall(a))
      /\ After2(r, ExRep(a), Recall(a)) => After2(q, ExRep(a), Recall(a))
      /\ In(r, Rep(a)) => In(q, Rep(a))
  BY <1>3, Kinds DEF Shrinks
<1>5. DownInv(a, t)'
  BY <1>1, <1>2, <1>3, <1>4 DEF DownInv
<1>6. /\ ~(Requested(a, t)') /\ UpInv(a, t)'
  <2>1. ~After(o, Gone(a), WbRep(a)) /\ ~After(o, Request(a), Gone(a))
        /\ ~After(o, Request(a), Request(a))
    BY OrderIn
  <2>2. ~Requested(a, t)
    BY DEF NotAsking
  <2> QED BY <1>1, <2>1, <2>2, UpGrows DEF UpInv
<1>7. RecallInv(a, t)'
  <2>1. Awaits(a)' <=> Awaits(a)
    BY DEF Awaits
  <2>2. Recalled(a, t, WbCall(a)) /\ Recalled(a, t, Recall(a))
    BY <1>3, Subkinds DEF Recalled
  <2> QED BY <1>1, <2>1, <2>2 DEF RecallInv
<1>8. AskInv(a, t)'
  <2>1. ~Granted(a, t)' /\ ~Queued(a, t)'
    BY <1>4 DEF NotAsking, Granted, Queued
  <2>2. /\ ~In(Up(a, t), ShRequest(a))' /\ ~In(queue[a], ShWaiting(t))'
        /\ ~In(Down(a, t), ShRep(a))'
    <3>1. ~In(Up(a, t), ShRequest(a))' /\ ~In(Down(a, t), ShRep(a))'
      BY <1>6, <2>1, Subkinds DEF Requested, Granted
    <3>2. ~In(queue[a], ShWaiting(t))
      BY NotAskingKinds
    <3> QED BY <3>1, <3>2
  <2> QED BY <1>1, <1>6, <2>1, <2>2 DEF AskInv
<1>9. HoldInv(a, t)'
  BY <1>1 DEF HoldInv
<1> QED BY <1>5, <1>6, <1>7, <1>8, <1>9 DEF PairInv

\* A tile without the line drops what the home asks of it.
LEMMA CallDropped ==
  ASSUME NEW a \in Addrs, NEW t \in Tiles, PairInv(a, t), l2[t][a].st = "I",
         Head(Down(a, t)) \notin Rep(a),
         Loses(Down(a, t), Down(a, t)', FromHome(a)),
         Keeps(Up(a, t), Up(a, t)', Answer(a)),
         l2'[t][a].st = "I", queue'[a] = queue[a], Served(a)' <=> Served(a),
         EntryOf(a)' = EntryOf(a), outst'[t] = outst[t], app'[t] = app[t]
  PROVE  PairInv(a, t)'
<1>1. /\ DownInv(a, t) /\ RecallInv(a, t) /\ UpInv(a, t) /\ AskInv(a, t)
      /\ HoldInv(a, t)
  BY DEF PairInv
<1>2. /\ DownInv(a, t)'
      /\ Recalled(a, t, Recall(a))' => Recalled(a, t, Recall(a))
      /\ Recalled(a, t, WbCall(a))' => Recalled(a, t, WbCall(a))
      /\ Granted(a, t)' => Granted(a, t)
      /\ In(Down(a, t), ShRep(a))' => In(Down(a, t), ShRep(a))
  BY <1>1, DownShrinks, LosesShrinks
<1>3. Granted(a, t) => Granted(a, t)'
  BY Kinds DEF Loses, Granted
<1>4. /\ WrittenBack(a, t)' <=> WrittenBack(a, t)
      /\ Requested(a, t)' <=> Requested(a, t)
      /\ Left(a, t)' <=> Left(a, t)
      /\ In(Up(a, t), ShRequest(a))' <=> In(Up(a, t), ShRequest(a))
      /\ UpInv(a, t)'
  BY <1>1, UpKept DEF WrittenBack, Requested, Left, UpInv
<1>5. RecallInv(a, t)'
  <2>1. Awaits(a)' <=> Awaits(a)
    BY DEF Awaits
  <2> QED BY <1>1, <1>2, <1>4, <2>1 DEF RecallInv
<1>6. AskInv(a, t)'
  <2>1. Queued(a, t)' <=> Queued(a, t)
    BY DEF Queued
  <2> QED BY <1>1, <1>2, <1>4, <2>1 DEF AskInv
<1>7. HoldInv(a, t)'
  BY <1>1, <1>3, <1>4 DEF HoldInv
<1> QED BY <1>2, <1>4, <1>5, <1>6, <1>7 DEF PairInv

\* No handler of the simulation thread sends a message of an L1 cache.
LEMMA SimNoL1 ==
  ASSUME NEW out \in SimOutgoing, NEW y \in Tiles
  PROVE  ~In(out[y], L1Msg)
<1> SUFFICES ASSUME In(out[y], L1Msg) PROVE FALSE
  OBVIOUS
<1>1. PICK i \in 1..Len(out[y]) : out[y][i] \in L1Msg
  BY DEF In
<1> DEFINE n == out[y][i]
<1>2. n \in FromL1(n.src, n.addr) /\ n.src \in Comps
  BY <1>1 DEF L1Msg, FromL1
<1>3. In(out[y], FromL1(n.src, n.addr))
  BY <1>2 DEF In
<1> QED BY <1>2, <1>3, SimMsgsType

\* What an L2 cache sends is not what a home sends.
LEMMA CacheNotHome ==
  ASSUME NEW b \in Addrs, NEW m, ForHome(b, m), NEW a
  PROVE  m \notin FromHome(a) /\ (a # b => m \notin Answer(a))
<1>1. m \notin FromHome(a)
  BY ForHomeKind
<1>2. a # b => m \notin Answer(a)
  BY DEF ForHome, Answer
<1> QED BY <1>1, <1>2

\* The packet at the head of a channel from a tile to itself is from an L1
\* cache only when it is the request of the access that waits.
LEMMA HeadOfL1 ==
  ASSUME TypeOK, HandoverInv, NEW t \in Tiles, ThreadInv(t), NEW m,
         Receives(t, t, m), m \in L1Msg
  PROVE  /\ app[t].pc = "wait" /\ outst[t] = None /\ appSem[t] = 0
         /\ m.src = app[t].acc.comp /\ m.addr = app[t].acc.addr
         /\ m.type = ReqType(app[t].acc.op)
         /\ In(chan[<<t, t>>], FromL1(m.src, m.addr))
<1>1. /\ chan[<<t, t>>] # <<>> /\ m = Head(chan[<<t, t>>]) /\ m \in ShmemMsg
      /\ m.src \in Comps
  BY DEF Receives, L1Msg
<1>2. chan[<<t, t>>] \in Seq(ShmemMsg)
  BY DEF TypeOK, NetworkOK
<1>3. \A S : m \in S => In(chan[<<t, t>>], S)
  BY <1>1, <1>2, InTail
<1>4. 1 \in L1Requests(t)
  <2>1. Len(chan[<<t, t>>]) \in Nat /\ Len(chan[<<t, t>>]) # 0
        /\ Head(chan[<<t, t>>]) = chan[<<t, t>>][1]
    BY <1>1, <1>2, HeadTailProperties, LenProperties, EmptySeq
  <2> QED BY <1>1, <2>1 DEF L1Requests
<1>5. app[t].pc = "wait" /\ outst[t] = None /\ appSem[t] = 0
  BY <1>4 DEF HandoverInv
<1>6. m \notin Foreign(app[t].acc)
  BY <1>3, <1>5 DEF ThreadInv, RequestInv
<1>7. m \in FromL1(m.src, m.addr)
  BY <1>1 DEF FromL1
<1> QED BY <1>1, <1>3, <1>5, <1>6, <1>7 DEF Foreign

\* What happens on the channels of t when its L2 cache takes a packet from s
\* and sends out.
LEMMA CacheLink ==
  ASSUME NetworkOK, NEW s \in Tiles, NEW t \in Tiles, chan[<<s, t>>] # <<>>,
         NEW out \in Outgoing, Deliver(s, t, out), NEW b \in Addrs,
         \A y \in Tiles : ~In(out[y], FromHome(b)),
         Head(chan[<<s, t>>]) \notin Answer(b)
  PROVE  /\ Grows(Up(b, t), Up(b, t)', out[Home[b]], Answer(b))
         /\ ~In(out[Home[b]], Answer(b)) => Keeps(Up(b, t), Up(b, t)', Answer(b))
         /\ Head(chan[<<s, t>>]) \notin FromHome(b) =>
              Keeps(Down(b, t), Down(b, t)', FromHome(b))
         /\ s = Home[b] => Loses(Down(b, t), Down(b, t)', FromHome(b))
         /\ \A u \in Tiles \ {t} : SameLink(b, u)
<1> DEFINE h == Home[b]
<1>1. h \in Tiles
  BY MSIAssumption DEF MSIAssumption
<1> HIDE DEF h
<1>2. Grows(chan[<<t, h>>], chan'[<<t, h>>], out[h], Answer(b))
  BY <1>1, DeliverLink
<1>3. ~In(out[h], Answer(b)) => Keeps(chan[<<t, h>>], chan'[<<t, h>>], Answer(b))
  BY <1>1, DeliverLink
<1>4. Head(chan[<<s, t>>]) \notin FromHome(b) =>
        Keeps(chan[<<h, t>>], chan'[<<h, t>>], FromHome(b))
  BY <1>1, DeliverLink
<1>5. s = h => Loses(chan[<<h, t>>], chan'[<<h, t>>], FromHome(b))
  BY <1>1, DeliverLink
<1>6. ASSUME NEW u \in Tiles \ {t} PROVE SameLink(b, u)
  <2>1. Keeps(chan[<<h, u>>], chan'[<<h, u>>], FromHome(b))
    BY <1>1, DeliverLink
  <2>2. Keeps(chan[<<u, h>>], chan'[<<u, h>>], Answer(b))
    BY <1>1, DeliverLink
  <2> QED BY <2>1, <2>2 DEF SameLink, Down, Up, h
<1> QED BY <1>2, <1>3, <1>4, <1>5, <1>6 DEF Down, Up, h

\* A step of the L2 cache at t keeps the invariant when it does so for t.
LEMMA CacheSide ==
  ASSUME TypeOK, AssertInv, NEW s \in Tiles, NEW t \in Tiles,
         chan[<<s, t>>] # <<>>, NEW out \in SimOutgoing, Deliver(s, t, out),
         \A y \in Tiles, b \in Addrs : ~In(out[y], FromHome(b)),
         \A b \in Addrs : Head(chan[<<s, t>>]) \notin Answer(b),
         UNCHANGED <<app, queue, way, repl, work>>,
         \A u \in Tiles \ {t} :
           /\ l1'[u] = l1[u] /\ l2'[u] = l2[u] /\ outst'[u] = outst[u]
           /\ appSem'[u] = appSem[u],
         \A b \in Addrs : PairInv(b, t)', ThreadInv(t)'
  PROVE  AssertInv'
<1>1. \A a : EntryOf(a)' = EntryOf(a) /\ (Served(a)' <=> Served(a))
  BY DEF EntryOf, Served
<1>2. NetworkOK /\ out \in Outgoing
  BY SimMsgsType DEF TypeOK
<1>3. ASSUME NEW b \in Addrs, NEW u \in Tiles PROVE PairInv(b, u)'
  <2>1. CASE u = t
    BY <2>1
  <2>2. CASE u # t
    <3>1. SameLink(b, u)
      BY <1>2, <2>2, CacheLink
    <3>2. l2'[u][b].st = l2[u][b].st /\ queue'[b] = queue[b] /\ PairInv(b, u)
          /\ outst'[u] = outst[u] /\ app'[u] = app[u]
      BY <2>2 DEF AssertInv
    <3> QED BY <1>1, <3>1, <3>2, PairFrame
  <2> QED BY <2>1, <2>2
<1>4. ASSUME NEW u \in Tiles PROVE ThreadInv(u)'
  <2>1. CASE u = t
    BY <2>1
  <2>2. CASE u # t
    <3>1. Keeps(chan[<<u, u>>], chan'[<<u, u>>], L1Msg)
      BY <1>2, <2>2, DeliverLink
    <3> QED BY <2>2, <3>1, ThreadFrame DEF AssertInv
  <2> QED BY <2>1, <2>2
<1>5. ASSUME NEW a \in Addrs PROVE QueueInv(a)'
  BY DEF AssertInv, QueueInv
<1>6. ASSUME NEW h \in Tiles PROVE ServeInv(h)'
  BY <1>1, ServeFrame DEF AssertInv
<1> QED BY <1>3, <1>4, <1>5, <1>6 DEF AssertInv

\* A line that a step of the L2 cache at t does not touch.
LEMMA OtherPair ==
  ASSUME TypeOK, AssertInv, NEW s \in Tiles, NEW t \in Tiles,
         chan[<<s, t>>] # <<>>, NEW out \in Outgoing, Deliver(s, t, out),
         NEW b \in Addrs, \A y \in Tiles : ~In(out[y], FromHome(b)),
         ~In(out[Home[b]], Answer(b)),
         Head(chan[<<s, t>>]) \notin Answer(b),
         Head(chan[<<s, t>>]) \notin FromHome(b),
         UNCHANGED <<app, queue, way, repl, work>>,
         l2'[t][b].st = l2[t][b].st,
         outst[t] # None /\ outst[t].addr = b => outst'[t] = outst[t]
  PROVE  PairInv(b, t)'
<1>1. EntryOf(b)' = EntryOf(b) /\ (Served(b)' <=> Served(b))
  BY DEF EntryOf, Served
<1>2. NetworkOK /\ PairInv(b, t)
  BY DEF TypeOK, AssertInv
<1>3. SameLink(b, t)
  BY <1>2, CacheLink DEF SameLink
<1> QED BY <1>1, <1>2, <1>3, PairFrame

\* What t has asked for finds no hit in its L2 cache.
LEMMA AskedMisses ==
  ASSUME TypeOK, HandoverInv, NEW t \in Tiles, ThreadInv(t), NEW m,
         Receives(t, t, m), m.src \in Comps
  PROVE  /\ m.addr \in Addrs /\ m.type \in {"EX_REQ", "SH_REQ"}
         /\ m.type = "SH_REQ" <=> app[t].acc.op = "READ"
         /\ m.src = app[t].acc.comp /\ m.addr = app[t].acc.addr
         /\ outst[t] = None /\ appSem[t] = 0
         /\ l2[t][m.addr].st \in {"I", "S"}
         /\ m.type = "SH_REQ" => l2[t][m.addr].st = "I"
<1>1. m \in ShmemMsg /\ m.addr \in Addrs /\ m \in L1Msg
  BY ReceivesType DEF TypeOK, L1Msg
<1>2. /\ outst[t] = None /\ appSem[t] = 0
      /\ m.src = app[t].acc.comp /\ m.addr = app[t].acc.addr
      /\ m.type = ReqType(app[t].acc.op)
      /\ In(chan[<<t, t>>], FromL1(m.src, m.addr))
  BY <1>1, HeadOfL1
<1>3. ~L2Hit(t, app[t].acc)
  BY <1>1, <1>2 DEF ThreadInv, RequestInv
<1>4. l2[t][m.addr].st \in {"I", "S", "M"}
  BY <1>1 DEF TypeOK, CachesOK, L2Line
<1> QED BY <1>1, <1>2, <1>3, <1>4 DEF L2Hit, operationPermissible, ReqType

\* handleMsgFromL1Cache keeps the invariant.
LEMMA FromL1Assert ==
  ASSUME TypeOK, HandoverInv, AssertInv, NEW t \in Tiles, L2RecvFromL1(t)
  PROVE  AssertInv'
<1> DEFINE m == Head(chan[<<t, t>>])
<1>0. PICK a \in Addrs : a = m.addr
  <2>1. Receives(t, t, m)
    BY DEF L2RecvFromL1
  <2> QED BY <2>1, ReceivesType DEF TypeOK
<1> DEFINE upgrade == m.type = "EX_REQ" /\ l2[t][a].st = "S"
           req == Msg(m.type, "L2", a, None)
           inv == Msg("INV_REP", "L2", a, None)
           o == IF upgrade THEN <<inv, req>> ELSE <<req>>
           out == To(Home[a], o)
<1>1. /\ Receives(t, t, m) /\ m.src \in Comps /\ m.type \in {"EX_REQ", "SH_REQ"}
      /\ outst' = [outst EXCEPT ![t] = [addr |-> a, comp |-> m.src]]
      /\ l2' = IF upgrade THEN [l2 EXCEPT ![t][a] = InvalidL2] ELSE l2
      /\ Deliver(t, t, out)
      /\ UNCHANGED <<l1, app, appSem, queue, way, repl, work>>
  BY <1>0 DEF L2RecvFromL1, dirVars
<1>2. /\ chan[<<t, t>>] # <<>> /\ m \in ShmemMsg /\ a \in Addrs
      /\ sim[t] = "recv"
  BY <1>1, ReceivesType DEF TypeOK, Receives
<1>3. NetworkOK /\ CachesOK /\ ThreadInv(t)
  BY DEF TypeOK, AssertInv
<1>4. /\ m.type = "SH_REQ" <=> app[t].acc.op = "READ"
      /\ m.src = app[t].acc.comp /\ m.addr = app[t].acc.addr
      /\ outst[t] = None /\ appSem[t] = 0 /\ l2[t][a].st \in {"I", "S"}
      /\ m.type = "SH_REQ" => l2[t][a].st = "I"
  <2> HIDE DEF m
  <2> QED BY <1>0, <1>1, <1>3, AskedMisses
<1>5. ForHome(a, req) /\ ForHome(a, inv)
  BY <1>1, <1>2 DEF ForHome, Msg, ShmemMsg, ControlMsg, MsgSource
<1>6. /\ inv \in Gone(a) /\ inv \notin WbRep(a) /\ inv \notin Request(a)
      /\ inv \notin ShRequest(a)
      /\ req \notin Gone(a) /\ req \notin WbRep(a) /\ req \in Request(a)
      /\ req \in ShRequest(a) <=> m.type = "SH_REQ"
  BY <1>1, <1>5 DEF ForHome, Msg, Gone, WbRep, Request, ShRequest, OfType
<1>7. \A b \in Addrs : m \notin Answer(b) /\ m \notin FromHome(b)
  BY <1>1 DEF Answer, FromHome, OfType, Comps
<1>8. /\ out \in SimOutgoing
      /\ \A y \in Tiles : out[y] = IF y = Home[a] THEN o ELSE <<>>
  <2>1. req \in SimMsg /\ inv \in SimMsg
    BY <1>5, ForHomeKind
  <2>2. out \in SimOutgoing
    <3> HIDE DEF req, inv, upgrade
    <3> QED BY <2>1, SimOutgoingType
  <2> QED BY <2>2 DEF To
<1>9. Home[a] \in Tiles
  BY <1>2, MSIAssumption DEF MSIAssumption
<1>10. /\ \A S : In(o, S) <=> req \in S \/ (upgrade /\ inv \in S)
       /\ \A R, S : After(o, R, S) => inv \in R /\ req \in S
       /\ \A S : ~In(<<>>, S)
  <2> HIDE DEF req, inv, upgrade
  <2>1. CASE upgrade
    <3>1. o = <<inv, req>>
      BY <2>1
    <3> QED BY <2>1, <3>1, InSingle, OrderShort
  <2>2. CASE ~upgrade
    <3>1. o = <<req>>
      BY <2>2
    <3> QED BY <2>2, <3>1, InSingle, OrderShort
  <2> QED BY <2>1, <2>2
<1>11. /\ \A u \in Tiles \ {t} : l2'[u] = l2[u] /\ outst'[u] = outst[u]
       /\ outst'[t] = [addr |-> a, comp |-> m.src]
       /\ \A b \in Addrs : l2'[t][b] = IF upgrade /\ b = a THEN InvalidL2 ELSE l2[t][b]
  BY <1>1, <1>2, <1>3 DEF CachesOK, TypeOK, ThreadsOK
<1>13. \A b : EntryOf(b)' = EntryOf(b) /\ (Served(b)' <=> Served(b))
  BY <1>1 DEF EntryOf, Served
<1> HIDE DEF m, req, inv, o, out
<1>12. l2'[t][a].st = "I" /\ (l2[t][a].st # "I" => upgrade)
  BY <1>1, <1>4, <1>11 DEF InvalidL2
<1> HIDE DEF upgrade
<1>14. \A y \in Tiles, b \in Addrs : ~In(out[y], FromHome(b))
  BY <1>2, <1>5, <1>8, <1>10, CacheNotHome
<1>15. out \in Outgoing
  BY <1>8, SimMsgsType
<1>16. \A b \in Addrs : Head(chan[<<t, t>>]) \notin Answer(b)
  BY <1>7 DEF m
<1>17. ASSUME NEW b \in Addrs PROVE PairInv(b, t)'
  <2>1. CASE b = a
    <3>1. PairInv(a, t) /\ NotAsking(a, t)
      BY <1>2, <1>4, AsksOnce DEF AssertInv, PairInv
    <3>2. /\ Grows(Up(a, t), Up(a, t)', out[Home[a]], Answer(a))
          /\ Keeps(Down(a, t), Down(a, t)', FromHome(a))
      <4>1. /\ Head(chan[<<t, t>>]) \notin FromHome(a)
            /\ Head(chan[<<t, t>>]) \notin Answer(a)
            /\ \A y \in Tiles : ~In(out[y], FromHome(a))
        BY <1>7, <1>14 DEF m
      <4> QED BY <1>1, <1>2, <1>3, <1>15, <4>1, CacheLink
    <3>3. Grows(Up(a, t), Up(a, t)', o, Answer(a))
      BY <1>8, <1>9, <3>2
    <3>4. /\ ~In(o, WbRep(a)) /\ ~After(o, Request(a), Gone(a))
          /\ ~After(o, Request(a), Request(a))
          /\ In(o, ShRequest(a)) => app[t].acc.op = "READ"
          /\ l2[t][a].st # "I" => In(o, Gone(a))
      BY <1>4, <1>6, <1>10, <1>12
    <3>5. outst'[t] # None /\ outst'[t].addr = a
      <4>1. outst'[t] \in [addr : Addrs, comp : Comps]
        BY <1>1, <1>11
      <4> QED BY <1>11, <4>1, NoneAssumption DEF NoneAssumption
    <3>6. queue'[a] = queue[a] /\ app'[t] = app[t]
      BY <1>1
    <3>7. PairInv(a, t)'
      BY <1>2, <1>12, <1>13, <3>1, <3>2, <3>3, <3>4, <3>5, <3>6, LineAsked
    <3> QED BY <2>1, <3>7
  <2>2. CASE b # a
    <3>1. ~In(out[Home[b]], Answer(b))
      <4>1. Home[b] \in Tiles
        BY MSIAssumption DEF MSIAssumption
      <4> QED BY <1>2, <1>5, <1>8, <1>10, <2>2, <4>1, CacheNotHome
    <3>2. Head(chan[<<t, t>>]) \notin FromHome(b)
      BY <1>7 DEF m
    <3>3. l2'[t][b].st = l2[t][b].st
      BY <1>11, <2>2
    <3> QED BY <1>1, <1>2, <1>4, <1>14, <1>15, <1>16, <3>1, <3>2, <3>3, OtherPair
  <2> QED BY <2>1, <2>2
<1>18. Loses(chan[<<t, t>>], chan'[<<t, t>>], L1Msg)
  <2>1. ~In(out[t], L1Msg)
    BY <1>8, SimNoL1
  <2> QED BY <1>1, <1>2, <1>3, <1>15, <2>1, DeliverLink
<1>19. RequestInv(t)'
  <2>1. RequestInv(t)
    BY <1>3 DEF ThreadInv
  <2>2. /\ outst'[t].addr = app'[t].acc.addr /\ outst'[t].comp = app'[t].acc.comp
        /\ l2'[t][outst'[t].addr].st = "I"
    BY <1>0, <1>1, <1>4, <1>11, <1>12
  <2>3. app'[t].pc = "wait" => ~In(chan'[<<t, t>>], Foreign(app'[t].acc))
    BY <1>1, <1>18, <2>1, L1Kinds DEF RequestInv, Loses
  <2>4. ~L2Hit(t, app[t].acc)'
    BY <1>0, <1>1, <1>4, <1>12 DEF L2Hit, operationPermissible
  <2>5. ~(appSem'[t] > 0)
    BY <1>1, <1>4
  <2> QED BY <2>2, <2>3, <2>4, <2>5 DEF RequestInv
<1>20. ASSUME NEW b \in Addrs PROVE LocInv(t, b)'
  <2> SUFFICES ASSUME NEW c \in Comps, l2'[t][b].st # "I", l2'[t][b].loc = c
               PROVE  \/ l1'[t][c][b].st # "I"
                      \/ l2'[t][b].st = "S" /\ In(chan'[<<t, t>>], FromL1(c, b))
    BY DEF LocInv
  <2>1. b # a /\ l2'[t][b] = l2[t][b] /\ l1'[t] = l1[t]
    BY <1>1, <1>11, <1>12
  <2>2. m \notin FromL1(c, b)
    BY <1>0, <2>1 DEF FromL1
  <2>3. In(chan[<<t, t>>], FromL1(c, b)) => In(chan'[<<t, t>>], FromL1(c, b))
    BY <1>18, <2>2, L1Kinds DEF Loses, m
  <2>4. LocInv(t, b)
    BY <1>3 DEF ThreadInv
  <2> QED BY <2>1, <2>3, <2>4 DEF LocInv
<1>21. ThreadInv(t)'
  BY <1>19, <1>20 DEF ThreadInv
<1>22. UNCHANGED <<app, queue, way, repl, work>>
       /\ \A u \in Tiles \ {t} : /\ l1'[u] = l1[u] /\ l2'[u] = l2[u]
                                 /\ outst'[u] = outst[u] /\ appSem'[u] = appSem[u]
  BY <1>1, <1>11
<1> QED BY <1>1, <1>2, <1>8, <1>14, <1>16, <1>17, <1>21, <1>22, CacheSide

\* The messages of the L1 caches of t stay when its simulation thread takes
\* another packet.
LEMMA L1Waits ==
  ASSUME TypeOK, HandoverInv, NEW s \in Tiles, NEW t \in Tiles, ThreadInv(t),
         NEW m, Receives(s, t, m), m.type \notin {"EX_REQ", "SH_REQ"} \/ m.src = "L2",
         NEW out \in SimOutgoing, Deliver(s, t, out)
  PROVE  \A u \in Tiles : Keeps(chan[<<u, u>>], chan'[<<u, u>>], L1Msg)
<1> SUFFICES ASSUME NEW u \in Tiles
             PROVE  Keeps(chan[<<u, u>>], chan'[<<u, u>>], L1Msg)
  OBVIOUS
<1>1. /\ chan[<<s, t>>] # <<>> /\ m = Head(chan[<<s, t>>])
      /\ NetworkOK /\ out \in Outgoing
  BY SimMsgsType DEF Receives, TypeOK
<1>2. ~In(out[u], L1Msg)
  BY SimNoL1
<1>3. s = t => m \notin L1Msg
  <2> SUFFICES ASSUME s = t, m \in L1Msg PROVE FALSE
    OBVIOUS
  <2>1. Receives(t, t, m)
    OBVIOUS
  <2>2. m.type = ReqType(app[t].acc.op) /\ m.src # "L2"
    BY <2>1, HeadOfL1 DEF L1Msg, Comps
  <2> QED BY <2>2 DEF ReqType
<1> QED BY <1>1, <1>2, <1>3, DeliverLink

\* The L2 cache at t gives up a line, or the right to write it.
LEMMA ThreadYields ==
  ASSUME TypeOK, HandoverInv, NEW s \in Tiles, NEW t \in Tiles, ThreadInv(t),
         sim[t] = "recv", Keeps(chan[<<t, t>>], chan'[<<t, t>>], L1Msg),
         UNCHANGED <<app, outst, appSem>>,
         \A b \in Addrs : \/ l2'[t][b].st \in {l2[t][b].st, "I"}
                          \/ l2[t][b].st = "M" /\ l2'[t][b].st = "S",
         \A c \in Comps, b \in Addrs :
           l2'[t][b].st # "I" => /\ l2[t][b].loc = l2'[t][b].loc
                                 /\ l1[t][c][b].st # "I" => l1'[t][c][b].st # "I"
  PROVE  ThreadInv(t)'
<1>1. /\ \A c \in Comps, a \in Addrs :
           In(chan'[<<t, t>>], FromL1(c, a)) <=> In(chan[<<t, t>>], FromL1(c, a))
      /\ \A r : In(chan'[<<t, t>>], Foreign(r)) <=> In(chan[<<t, t>>], Foreign(r))
  BY L1Kinds DEF Keeps
<1>2. ~(appSem'[t] > 0)
  BY DEF HandoverInv
<1>3. ASSUME NEW c \in Comps, NEW a \in Addrs, In(chan[<<t, t>>], FromL1(c, a))
      PROVE  ~L2Hit(t, app[t].acc)'
  <2>1. app[t].pc = "wait"
    BY <1>3, NoL1Request
  <2>2. app[t].acc.addr \in Addrs
    BY <2>1 DEF TypeOK, ThreadsOK, AppState, Access
  <2>3. ~L2Hit(t, app[t].acc)
    BY <1>3 DEF ThreadInv, RequestInv
  <2> QED BY <2>2, <2>3 DEF L2Hit, operationPermissible
<1>4. outst[t] # None => l2'[t][outst[t].addr].st = "I"
  <2> SUFFICES ASSUME outst[t] # None PROVE l2'[t][outst[t].addr].st = "I"
    OBVIOUS
  <2>1. l2[t][outst[t].addr].st = "I" /\ outst[t].addr \in Addrs
    BY DEF TypeOK, ThreadsOK, ThreadInv, RequestInv
  <2> QED BY <2>1
<1>5. RequestInv(t)'
  BY <1>1, <1>2, <1>3, <1>4 DEF ThreadInv, RequestInv
<1>6. ASSUME NEW b \in Addrs PROVE LocInv(t, b)'
  <2> SUFFICES ASSUME NEW c \in Comps, l2'[t][b].st # "I", l2'[t][b].loc = c
               PROVE  \/ l1'[t][c][b].st # "I"
                      \/ l2'[t][b].st = "S" /\ In(chan'[<<t, t>>], FromL1(c, b))
    BY DEF LocInv
  <2>1. l2[t][b].loc = c /\ l2[t][b].st # "I"
        /\ (l2[t][b].st = "S" => l2'[t][b].st = "S")
    OBVIOUS
  <2>2. l1[t][c][b].st # "I" => l1'[t][c][b].st # "I"
    OBVIOUS
  <2> QED BY <1>1, <2>1, <2>2 DEF ThreadInv, LocInv
<1> QED BY <1>5, <1>6 DEF ThreadInv

\* A request that the L2 cache drops.
LEMMA DropAssert ==
  ASSUME TypeOK, HandoverInv, CohInv, AssertInv, NEW s \in Tiles, NEW t \in Tiles,
         NEW m, Receives(s, t, m), m.type \in {"INV_REQ", "FLUSH_REQ", "WB_REQ"},
         NEW a \in Addrs, a = m.addr, l2[t][a].st = "I",
         Deliver(s, t, Nothing), UNCHANGED <<cacheVars, syncVars, dirVars>>
  PROVE  AssertInv'
<1>1. /\ chan[<<s, t>>] # <<>> /\ m = Head(chan[<<s, t>>]) /\ m \in ShmemMsg
      /\ sim[t] = "recv"
  BY ReceivesType DEF TypeOK, Receives
<1>2. UNCHANGED <<l1, l2, app, appSem, outst, queue, way, repl, work>>
  BY DEF cacheVars, syncVars, dirVars
<1>3. NetworkOK /\ NetInv /\ ThreadInv(t)
  BY DEF CohInv, TypeOK, AssertInv
<1>4. s = Home[a] /\ Home[a] \in Tiles
  <2>1. m.type \in {"EX_REP", "SH_REP", "INV_REQ", "FLUSH_REQ", "WB_REQ"}
    OBVIOUS
  <2> QED BY <1>3, <2>1, HeadRouted
<1>5. /\ Nothing \in SimOutgoing /\ Nothing \in Outgoing
      /\ \A y \in Tiles : \A S : ~In(Nothing[y], S)
  BY SendsNothing DEF CacheSends
<1>6. \A b \in Addrs : Head(chan[<<s, t>>]) \notin Answer(b)
  BY <1>1 DEF Answer
<1>7. ASSUME NEW b \in Addrs PROVE PairInv(b, t)'
  <2>h. Home[b] \in Tiles
    BY MSIAssumption DEF MSIAssumption
  <2>1. CASE b = a
    <3>1. EntryOf(b)' = EntryOf(b) /\ (Served(b)' <=> Served(b))
      BY <1>2 DEF EntryOf, Served
    <3>2. /\ Keeps(Up(b, t), Up(b, t)', Answer(b))
          /\ Loses(Down(b, t), Down(b, t)', FromHome(b))
      <4>1. s = Home[b] /\ ~In(Nothing[Home[b]], Answer(b))
            /\ \A y \in Tiles : ~In(Nothing[y], FromHome(b))
        BY <1>4, <1>5, <2>h, <2>1
      <4> QED BY <1>1, <1>3, <1>5, <1>6, <4>1, CacheLink
    <3>3. Head(Down(b, t)) \notin Rep(b)
      BY <1>1, <1>4, <2>1 DEF Down, Rep, OfType
    <3>4. /\ PairInv(b, t) /\ l2[t][b].st = "I" /\ l2'[t][b].st = "I"
          /\ queue'[b] = queue[b] /\ outst'[t] = outst[t] /\ app'[t] = app[t]
      BY <1>2, <2>1 DEF AssertInv
    <3> QED BY <3>1, <3>2, <3>3, <3>4, CallDropped
  <2>2. CASE b # a
    <3>1. /\ Head(chan[<<s, t>>]) \notin FromHome(b)
          /\ ~In(Nothing[Home[b]], Answer(b))
      BY <1>1, <1>5, <2>h, <2>2 DEF FromHome, OfType
    <3> QED BY <1>1, <1>2, <1>5, <1>6, <3>1, OtherPair
  <2> QED BY <2>1, <2>2
<1>8. Keeps(chan[<<t, t>>], chan'[<<t, t>>], L1Msg)
  BY <1>3, <1>5, L1Waits
<1>9. ThreadInv(t)'
  BY <1>2, <1>3, <1>8, ThreadFrame
<1> QED BY <1>1, <1>2, <1>5, <1>6, <1>7, <1>9, CacheSide

\* A tile gives up a line that the directory asks for.
LEMMA RecallAssert ==
  ASSUME TypeOK, HandoverInv, CohInv, AssertInv, NEW s \in Tiles, NEW t \in Tiles,
         NEW m, Receives(s, t, m), m.type \in {"INV_REQ", "FLUSH_REQ"},
         NEW a \in Addrs, a = m.addr, NEW n, ForHome(a, n), n \in Gone(a),
         l2[t][a].st # "I",
         l1' = [l1 EXCEPT ![t] = InvalidateInL1(t, a)],
         l2' = [l2 EXCEPT ![t][a] = InvalidL2],
         Deliver(s, t, To(s, <<n>>)), UNCHANGED <<latest, syncVars, dirVars>>
  PROVE  AssertInv'
<1>1. /\ chan[<<s, t>>] # <<>> /\ m = Head(chan[<<s, t>>]) /\ m \in ShmemMsg
      /\ sim[t] = "recv"
  BY ReceivesType DEF TypeOK, Receives
<1>2. UNCHANGED <<app, appSem, outst, queue, way, repl, work>>
  BY DEF syncVars, dirVars
<1>3. NetworkOK /\ NetInv /\ ThreadInv(t) /\ CachesOK
  BY DEF CohInv, TypeOK, AssertInv
<1>4. s = Home[a] /\ Home[a] \in Tiles
  <2>1. m.type \in {"EX_REP", "SH_REP", "INV_REQ", "FLUSH_REQ", "WB_REQ"}
    OBVIOUS
  <2> QED BY <1>3, <2>1, HeadRouted
<1> DEFINE out == To(s, <<n>>)
<1>5. n \in SimMsg /\ n \in ShmemMsg
  BY ForHomeKind DEF ForHome
<1>6. /\ out \in SimOutgoing /\ out \in Outgoing
      /\ \A y \in Tiles : \A S : In(out[y], S) <=> y = s /\ n \in S
  BY <1>5, SimOutgoingType, ToOne
<1>7. /\ \A u \in Tiles \ {t} : l1'[u] = l1[u] /\ l2'[u] = l2[u]
      /\ l1'[t] = InvalidateInL1(t, a)
      /\ \A b \in Addrs : l2'[t][b] = IF b = a THEN InvalidL2 ELSE l2[t][b]
  BY <1>3 DEF CachesOK
<1> HIDE DEF out
<1>8. \A y \in Tiles, b \in Addrs : ~In(out[y], FromHome(b))
  BY <1>6, CacheNotHome
<1>9. \A b \in Addrs : Head(chan[<<s, t>>]) \notin Answer(b)
  BY <1>1 DEF Answer
<1>10. Deliver(s, t, out)
  BY DEF out
<1>11. outst[t] = None \/ outst[t].addr # a
  BY <1>3 DEF ThreadInv, RequestInv
<1>12. ASSUME NEW b \in Addrs PROVE PairInv(b, t)'
  <2>h. Home[b] \in Tiles
    BY MSIAssumption DEF MSIAssumption
  <2>1. CASE b = a
    <3>1. EntryOf(b)' = EntryOf(b) /\ (Served(b)' <=> Served(b))
      BY <1>2 DEF EntryOf, Served
    <3>2. /\ Grows(Up(b, t), Up(b, t)', out[Home[b]], Answer(b))
          /\ Loses(Down(b, t), Down(b, t)', FromHome(b))
      <4>1. s = Home[b] /\ \A y \in Tiles : ~In(out[y], FromHome(b))
        BY <1>4, <1>8, <2>1
      <4> QED BY <1>1, <1>3, <1>6, <1>9, <1>10, <4>1, CacheLink
    <3>3. Shrinks(Down(b, t), Down(b, t)', FromHome(b))
      BY <3>2, LosesShrinks
    <3>4. /\ In(out[Home[b]], Gone(b)) /\ ~In(out[Home[b]], WbRep(b))
          /\ ~In(out[Home[b]], Request(b))
      <4>1. n \in Gone(b) /\ n \notin WbRep(b) /\ n \notin Request(b)
        BY <2>1 DEF Gone, WbRep, Request, OfType
      <4> QED BY <1>4, <1>6, <2>1, <4>1
    <3>5. PairInv(b, t) /\ NotAsking(b, t)
      BY <1>11, <2>1, AsksOnce DEF AssertInv, PairInv
    <3>6. l2'[t][b].st = "I" /\ queue'[b] = queue[b]
      BY <1>2, <1>7, <2>1 DEF InvalidL2
    <3> QED BY <3>1, <3>2, <3>3, <3>4, <3>5, <3>6, LineLeaves
  <2>2. CASE b # a
    <3>1. /\ Head(chan[<<s, t>>]) \notin FromHome(b)
          /\ ~In(out[Home[b]], Answer(b)) /\ l2'[t][b].st = l2[t][b].st
      <4>1. n \notin Answer(b)
        BY <2>2, CacheNotHome
      <4> QED BY <1>1, <1>6, <1>7, <2>h, <2>2, <4>1 DEF FromHome, OfType
    <3> QED BY <1>1, <1>2, <1>6, <1>8, <1>9, <1>10, <3>1, OtherPair
  <2> QED BY <2>1, <2>2
<1>13. Keeps(chan[<<t, t>>], chan'[<<t, t>>], L1Msg)
  BY <1>3, <1>6, <1>10, L1Waits
<1>14. ThreadInv(t)'
  <2>1. \A b \in Addrs : l2'[t][b].st \in {l2[t][b].st, "I"}
    BY <1>7 DEF InvalidL2
  <2>2. ASSUME NEW c \in Comps, NEW b \in Addrs, l2'[t][b].st # "I"
        PROVE  l2[t][b].loc = l2'[t][b].loc /\ l1'[t][c][b] = l1[t][c][b]
    <3>1. b # a /\ l2'[t][b] = l2[t][b]
      BY <1>7, <2>2 DEF InvalidL2
    <3> QED BY <1>3, <1>7, <3>1, InvalidateEffect
  <2> QED BY <1>1, <1>2, <1>3, <1>13, <2>1, <2>2, ThreadYields
<1> QED BY <1>1, <1>2, <1>6, <1>7, <1>8, <1>9, <1>10, <1>12, <1>14, CacheSide

\* The state of a line is set.
LEMMA SetL2State ==
  ASSUME NEW L \in L2Cache, NEW a \in Addrs, NEW b \in Addrs
  PROVE  /\ [L EXCEPT ![a].st = "S"][b].loc = L[b].loc
         /\ [L EXCEPT ![a].st = "S"][b].st = IF b = a THEN "S" ELSE L[b].st
<1>1. L[a] \in L2Line /\ L[b] \in L2Line
  BY DEF L2Cache
<1>2. [L EXCEPT ![a].st = "S"][b] = IF b = a THEN [L[a] EXCEPT !.st = "S"] ELSE L[b]
  BY DEF L2Cache
<1>3. CASE b = a
  BY <1>1, <1>2, <1>3 DEF L2Line
<1>4. CASE b # a
  BY <1>2, <1>4
<1> QED BY <1>3, <1>4

\* The L1 caches when the state of one line becomes shared.
LEMMA SetL1State ==
  ASSUME NEW L \in L1Caches, NEW a \in Addrs, NEW loc \in Comps,
         NEW c \in Comps, NEW b \in Addrs
  PROVE  [L EXCEPT ![loc][a].st = "S"][c][b].st =
           IF c = loc /\ b = a THEN "S" ELSE L[c][b].st
<1>1. L[loc][a] \in L1Line
  BY DEF L1Caches
<1>2. [L EXCEPT ![loc][a].st = "S"][c][b] =
        IF c = loc /\ b = a THEN [L[loc][a] EXCEPT !.st = "S"] ELSE L[c][b]
  BY DEF L1Caches
<1>3. CASE c = loc /\ b = a
  BY <1>1, <1>2, <1>3 DEF L1Line
<1>4. CASE ~(c = loc /\ b = a)
  BY <1>2, <1>4
<1> QED BY <1>3, <1>4

\* A modified line is written back and stays, shared, in both caches.
LEMMA WriteBackAssert ==
  ASSUME TypeOK, HandoverInv, CohInv, AssertInv, NEW s \in Tiles, NEW t \in Tiles,
         NEW m, Receives(s, t, m), m.type = "WB_REQ", NEW a \in Addrs, a = m.addr,
         NEW n, ForHome(a, n), n \in WbRep(a), l2[t][a].st = "M",
         l1' = IF l2[t][a].loc = None THEN l1
               ELSE [l1 EXCEPT ![t][l2[t][a].loc][a].st = "S"],
         l2' = [l2 EXCEPT ![t][a].st = "S"],
         Deliver(s, t, To(s, <<n>>)), UNCHANGED <<latest, syncVars, dirVars>>
  PROVE  AssertInv'
<1>1. /\ chan[<<s, t>>] # <<>> /\ m = Head(chan[<<s, t>>]) /\ m \in ShmemMsg
      /\ sim[t] = "recv"
  BY ReceivesType DEF TypeOK, Receives
<1>2. UNCHANGED <<app, appSem, outst, queue, way, repl, work>>
  BY DEF syncVars, dirVars
<1>3. NetworkOK /\ NetInv /\ ThreadInv(t) /\ CachesOK /\ LinkInv(a, t)
  BY DEF CohInv, TypeOK, AssertInv, TokenInv
<1>4. s = Home[a] /\ Home[a] \in Tiles
  <2>1. m.type \in {"EX_REP", "SH_REP", "INV_REQ", "FLUSH_REQ", "WB_REQ"}
    OBVIOUS
  <2>2. m.type \in {"EX_REP", "SH_REP", "INV_REQ", "FLUSH_REQ", "WB_REQ"}
          => s = Home[m.addr]
    BY <1>3, HeadRouted
  <2> QED BY <2>1, <2>2, MSIAssumption DEF MSIAssumption
<1> DEFINE out == To(s, <<n>>)
<1>5. n \in SimMsg /\ n \in ShmemMsg
  BY ForHomeKind DEF ForHome
<1>6. /\ out \in SimOutgoing /\ out \in Outgoing
      /\ \A y \in Tiles : \A S : In(out[y], S) <=> y = s /\ n \in S
  BY <1>5, SimOutgoingType, ToOne
<1>7. /\ \A u \in Tiles \ {t} : l1'[u] = l1[u] /\ l2'[u] = l2[u]
      /\ \A b \in Addrs : /\ l2'[t][b].loc = l2[t][b].loc
                          /\ l2'[t][b].st = IF b = a THEN "S" ELSE l2[t][b].st
      /\ \A c \in Comps, b \in Addrs :
           l1[t][c][b].st # "I" => l1'[t][c][b].st # "I"
  <2>1. l1[t] \in L1Caches /\ l2[t] \in L2Cache
    BY <1>3 DEF CachesOK, L1Caches, L2Cache
  <2> DEFINE N2 == [l2[t] EXCEPT ![a].st = "S"]
  <2>2. l2'[t] = N2 /\ \A u \in Tiles \ {t} : l2'[u] = l2[u]
    BY <1>3 DEF CachesOK
  <2>3. \A b \in Addrs : /\ N2[b].loc = l2[t][b].loc
                         /\ N2[b].st = IF b = a THEN "S" ELSE l2[t][b].st
    BY <2>1, SetL2State
  <2> HIDE DEF N2
  <2>4. ASSUME NEW b \in Addrs
        PROVE  /\ l2'[t][b].loc = l2[t][b].loc
               /\ l2'[t][b].st = IF b = a THEN "S" ELSE l2[t][b].st
    BY <2>2, <2>3
  <2>5. /\ \A u \in Tiles \ {t} : l1'[u] = l1[u]
        /\ \A c \in Comps, b \in Addrs :
             l1[t][c][b].st # "I" => l1'[t][c][b].st # "I"
    <3>1. CASE l2[t][a].loc = None
      BY <3>1
    <3>2. CASE l2[t][a].loc # None
      <4>1. PICK loc \in Comps : loc = l2[t][a].loc
        BY <1>3, <3>2 DEF CachesOK, L2Line
      <4> DEFINE N1 == [l1[t] EXCEPT ![loc][a].st = "S"]
      <4>2. l1'[t] = N1 /\ \A u \in Tiles \ {t} : l1'[u] = l1[u]
        BY <1>3, <3>2, <4>1 DEF CachesOK
      <4>3. \A c \in Comps, b \in Addrs :
              N1[c][b].st = IF c = loc /\ b = a THEN "S" ELSE l1[t][c][b].st
        BY <2>1, SetL1State
      <4> HIDE DEF N1
      <4>4. ASSUME NEW c \in Comps, NEW b \in Addrs, l1[t][c][b].st # "I"
            PROVE  l1'[t][c][b].st # "I"
        <5>1. l1'[t][c][b] = N1[c][b]
          BY <4>2
        <5>2. N1[c][b].st # "I"
          BY <4>3, <4>4
        <5> QED BY <5>1, <5>2
      <4> QED BY <4>2, <4>4
    <3> QED BY <3>1, <3>2
  <2> QED BY <2>2, <2>4, <2>5
<1> HIDE DEF out
<1>8. \A y \in Tiles, b \in Addrs : ~In(out[y], FromHome(b))
  BY <1>6, CacheNotHome
<1>9. \A b \in Addrs : Head(chan[<<s, t>>]) \notin Answer(b)
  BY <1>1 DEF Answer
<1>10. Deliver(s, t, out)
  BY DEF out
<1>11. outst[t] = None \/ outst[t].addr # a
  BY <1>3 DEF ThreadInv, RequestInv
<1>12. ASSUME NEW b \in Addrs PROVE PairInv(b, t)'
  <2>h. Home[b] \in Tiles
    BY MSIAssumption DEF MSIAssumption
  <2>1. CASE b = a
    <3>1. EntryOf(b)' = EntryOf(b) /\ (Served(b)' <=> Served(b))
      BY <1>2 DEF EntryOf, Served
    <3>2. /\ Grows(Up(b, t), Up(b, t)', out[Home[b]], Answer(b))
          /\ Loses(Down(b, t), Down(b, t)', FromHome(b))
      <4>1. s = Home[b] /\ \A y \in Tiles : ~In(out[y], FromHome(b))
        BY <1>4, <1>8, <2>1
      <4> QED BY <1>1, <1>3, <1>6, <1>9, <1>10, <4>1, CacheLink
    <3>3. m = Head(Down(b, t)) /\ m \in WbCall(b)
      BY <1>1, <1>4, <2>1 DEF Down, WbCall, OfType
    <3>4. ~In(out[Home[b]], Gone(b)) /\ ~In(out[Home[b]], Request(b))
      <4>1. n \notin Gone(b) /\ n \notin Request(b)
        BY <2>1 DEF Gone, WbRep, Request, OfType
      <4> QED BY <1>4, <1>6, <2>1, <4>1
    <3>5. PairInv(b, t) /\ NotAsking(b, t)
      BY <1>11, <2>1, AsksOnce DEF AssertInv, PairInv
    <3>6. /\ l2[t][b].st = "M" /\ l2'[t][b].st = "S" /\ queue'[b] = queue[b]
          /\ ~Left(b, t)
      BY <1>2, <1>3, <1>7, <2>1 DEF LinkInv
    <3> QED BY <3>1, <3>2, <3>3, <3>4, <3>5, <3>6, LineWrittenBack
  <2>2. CASE b # a
    <3>1. /\ Head(chan[<<s, t>>]) \notin FromHome(b)
          /\ ~In(out[Home[b]], Answer(b)) /\ l2'[t][b].st = l2[t][b].st
      <4>1. n \notin Answer(b)
        BY <2>2, CacheNotHome
      <4> QED BY <1>1, <1>6, <1>7, <2>h, <2>2, <4>1 DEF FromHome, OfType
    <3> QED BY <1>1, <1>2, <1>6, <1>8, <1>9, <1>10, <3>1, OtherPair
  <2> QED BY <2>1, <2>2
<1>13. Keeps(chan[<<t, t>>], chan'[<<t, t>>], L1Msg)
  BY <1>3, <1>6, <1>10, L1Waits
<1>14. ThreadInv(t)'
  <2>1. \A b \in Addrs : \/ l2'[t][b].st \in {l2[t][b].st, "I"}
                         \/ l2[t][b].st = "M" /\ l2'[t][b].st = "S"
    BY <1>7
  <2> QED BY <1>1, <1>2, <1>3, <1>7, <1>13, <2>1, ThreadYields
<1> QED BY <1>1, <1>2, <1>6, <1>7, <1>8, <1>9, <1>10, <1>12, <1>14, CacheSide

\* The caches N1 and N2 after a fill: where the L2 cache says an L1 cache has a
\* line, it has it.
Located(t, a, c, new, e, N1, N2) ==
  /\ N1[c][a].st = new.st
  /\ \A b \in Addrs : N2[b].st = IF b = a THEN new.st
                                 ELSE IF b = e THEN "I" ELSE l2[t][b].st
  /\ \A d \in Comps, b \in Addrs :
       N2[b].st # "I" /\ N2[b].loc = d => N1[d][b].st # "I"

\* After a line was inserted, the L1 cache that an L2 tag names has the line.
LEMMA FilledLocs ==
  ASSUME TypeOK, CacheInv, NEW t \in Tiles, NEW a \in Addrs, NEW c \in Comps,
         l2[t][a].st = "I", NEW new \in L2Line, new.loc = c, new.st # "I",
         NEW e \in Victims(l2[t], L2Ways), NEW M1,
         M1 = IF e = None THEN l1[t] ELSE InvalidateInL1(t, e),
         NEW e1 \in Victims(M1[c], L1Ways),
         \A d \in Comps, b \in Addrs :
           l2[t][b].st # "I" /\ l2[t][b].loc = d => l1[t][d][b].st # "I"
  PROVE  Located(t, a, c, new, e, L1After(M1, c, a, new, e1),
                 ClearCachedLoc(Insert(l2[t], a, new, e, InvalidL2), e1))
<1> DEFINE N1 == L1After(M1, c, a, new, e1)
           M2 == Insert(l2[t], a, new, e, InvalidL2)
           N2 == ClearCachedLoc(M2, e1)
<1>1. CachesOK /\ l1[t] \in L1Caches /\ l2[t] \in L2Cache
  BY DEF TypeOK, CachesOK, L1Caches, L2Cache
<1>2. /\ e # None => e \in Addrs /\ l2[t][e].st # "I" /\ e # a
      /\ \A b \in Addrs : b # None
  BY VictimsValid, MSIAssumption DEF MSIAssumption
<1>3. M1 \in L1Caches
  BY <1>1, <1>2, InvalidateInL1Type
<1>4. \A d \in Comps, b \in Addrs : b # e => M1[d][b] = l1[t][d][b]
  <2>1. CASE e = None
    BY <2>1
  <2>2. CASE e # None
    BY <1>1, <1>2, <2>2, InvalidateEffect
  <2> QED BY <2>1, <2>2
<1>5. \A d \in Comps, b \in Addrs :
        N1[d][b] = IF d # c THEN M1[d][b]
                   ELSE IF b = a THEN [st |-> new.st, val |-> new.val]
                   ELSE IF b = e1 THEN InvalidL1 ELSE M1[d][b]
  BY <1>3, L1AfterEffect
<1>6. \A b \in Addrs : M2[b] = IF b = a THEN new
                               ELSE IF b = e THEN InvalidL2 ELSE l2[t][b]
  BY DEF Insert
<1>7. M2 \in L2Cache
  BY <1>1, InvalidLines DEF Insert, L2Cache
<1>8. N2 = ClearCachedLoc(M2, e1)
  OBVIOUS
<1> HIDE DEF M2, N1, N2
<1>9. \A b \in Addrs : /\ N2[b].st = M2[b].st
                       /\ N2[b].loc = IF b = e1 THEN None ELSE M2[b].loc
  <2> SUFFICES ASSUME NEW b \in Addrs
               PROVE  /\ N2[b].st = M2[b].st
                      /\ N2[b].loc = IF b = e1 THEN None ELSE M2[b].loc
    OBVIOUS
  <2>1. M2[b] \in L2Line
    BY <1>7 DEF L2Cache
  <2>2. N2[b] = IF b = e1 THEN [M2[b] EXCEPT !.loc = None] ELSE M2[b]
    BY <1>8 DEF ClearCachedLoc
  <2> QED BY <2>1, <2>2 DEF L2Line
<1>10. \A b \in Addrs : N2[b].st = IF b = a THEN new.st
                                   ELSE IF b = e THEN "I" ELSE l2[t][b].st
  BY <1>6, <1>9 DEF InvalidL2
<1>11. ASSUME NEW d \in Comps, NEW b \in Addrs, N2[b].st # "I", N2[b].loc = d
       PROVE  N1[d][b].st # "I"
  <2>1. b # e1 /\ M2[b].loc = d
    <3>1. d # None
      BY NoneAssumption DEF NoneAssumption
    <3> QED BY <1>9, <1>11, <3>1
  <2>2. CASE b = a
    BY <1>5, <1>6, <2>1, <2>2
  <2>3. CASE b # a
    <3>1. b # e /\ l2[t][b].st # "I" /\ l2[t][b].loc = d
      BY <1>6, <1>10, <1>11, <2>1, <2>3
    <3>2. N1[d][b] = l1[t][d][b]
      BY <1>4, <1>5, <2>1, <2>3, <3>1
    <3> QED BY <3>1, <3>2
  <2> QED BY <2>2, <2>3
<1>12. N1[c][a].st = new.st
  BY <1>5
<1> QED BY <1>10, <1>11, <1>12 DEF Located, N1, N2, M2

\* processExRepFromDramDirectory, processShRepFromDramDirectory.
LEMMA FillAssert ==
  ASSUME TypeOK, HandoverInv, CohInv, CohInv', AssertInv,
         NEW s \in Tiles, NEW t \in Tiles,
         NEW m, Receives(s, t, m), m.type \in {"EX_REP", "SH_REP"},
         NEW a \in Addrs, a = m.addr, outst[t] # None, outst[t].addr = a,
         NEW c, c = outst[t].comp, NEW new,
         new = [st |-> IF m.type = "EX_REP" THEN "M" ELSE "S", loc |-> c,
                val |-> m.val],
         InsertInHierarchy(s, t, a, c, new), outst' = [outst EXCEPT ![t] = None],
         appSem' = [appSem EXCEPT ![t] = @ + 1],
         UNCHANGED <<latest, app, lock, dirVars>>
  PROVE  AssertInv'
<1>1. /\ chan[<<s, t>>] # <<>> /\ m = Head(chan[<<s, t>>]) /\ m \in ShmemMsg
  BY ReceivesType DEF TypeOK, Receives
<1>2. UNCHANGED <<app, queue, way, repl, work>>
  BY DEF dirVars
<1>3. CacheInv /\ TokenInv /\ NetInv /\ NetworkOK /\ CachesOK /\ ThreadInv(t)
  BY DEF CohInv, TypeOK, AssertInv
<1>4. s = Home[a] /\ Home[a] \in Tiles
  BY <1>3, HeadRouted
<1>5. c \in Comps
  BY <1>3, OutstKind
<1>6. m.val \in Values
  BY <1>1 DEF ShmemMsg, DataMsg, ControlMsg
<1>7. /\ new \in L2Line /\ new.loc = c /\ new.st # "I"
      /\ new.st = IF m.type = "EX_REP" THEN "M" ELSE "S"
  BY <1>5, <1>6 DEF L2Line
<1>8. m \in Rep(a)
  BY <1>1 DEF Rep, OfType
<1>31. m = Head(Down(a, t))
  BY <1>1, <1>4 DEF Down
<1>9. l2[t][a].st = "I" /\ Granted(a, t)
  <2>1. chan[<<s, t>>] \in Seq(ShmemMsg)
    BY <1>3 DEF NetworkOK
  <2>2. Granted(a, t)
    BY <1>1, <1>4, <1>8, <2>1, InTail DEF Granted, Down
  <2>3. LinkInv(a, t)
    BY <1>3 DEF TokenInv
  <2> QED BY <2>2, <2>3 DEF LinkInv
<1> DEFINE M1(e) == IF e = None THEN l1[t] ELSE InvalidateInL1(t, e)
           M2(e) == Insert(l2[t], a, new, e, InvalidL2)
           out(e) == IF e = None THEN Nothing
                     ELSE To(Home[e], <<EvictionMsg(e, l2[t][e])>>)
<1>10. PICK e \in Victims(l2[t], L2Ways) :
         \E e1 \in Victims(M1(e)[c], L1Ways) :
           /\ l1' = [l1 EXCEPT ![t] = L1After(M1(e), c, a, new, e1)]
           /\ l2' = [l2 EXCEPT ![t] = ClearCachedLoc(M2(e), e1)]
           /\ Deliver(s, t, out(e))
  BY DEF InsertInHierarchy
<1>11. PICK e1 \in Victims(M1(e)[c], L1Ways) :
         /\ l1' = [l1 EXCEPT ![t] = L1After(M1(e), c, a, new, e1)]
         /\ l2' = [l2 EXCEPT ![t] = ClearCachedLoc(M2(e), e1)]
         /\ Deliver(s, t, out(e))
  BY <1>10
<1> DEFINE N1 == L1After(M1(e), c, a, new, e1)
           N2 == ClearCachedLoc(M2(e), e1)
           o == out(e)
           n == EvictionMsg(e, l2[t][e])
<1>12. \A d \in Comps, b \in Addrs : ~In(chan[<<t, t>>], FromL1(d, b))
  BY NoL1Request
<1>13. Located(t, a, c, new, e, N1, N2)
  <2> HIDE DEF N1, N2
  <2>1. \A d \in Comps, b \in Addrs :
          l2[t][b].st # "I" /\ l2[t][b].loc = d => l1[t][d][b].st # "I"
    BY <1>3, <1>12 DEF ThreadInv, LocInv
  <2>2. M1(e) = IF e = None THEN l1[t] ELSE InvalidateInL1(t, e)
    OBVIOUS
  <2> HIDE DEF M1
  <2> QED BY <1>3, <1>5, <1>7, <1>9, <2>1, <2>2, FilledLocs DEF N1, N2
<1>30. /\ N1[c][a].st = new.st
       /\ \A b \in Addrs : N2[b].st = IF b = a THEN new.st
                                      ELSE IF b = e THEN "I" ELSE l2[t][b].st
       /\ \A d \in Comps, b \in Addrs :
            N2[b].st # "I" /\ N2[b].loc = d => N1[d][b].st # "I"
  <2> HIDE DEF N1, N2
  <2> QED BY <1>13 DEF Located
<1>14. /\ l1'[t] = N1 /\ l2'[t] = N2 /\ Deliver(s, t, o)
       /\ \A u \in Tiles \ {t} : l1'[u] = l1[u] /\ l2'[u] = l2[u]
  BY <1>3, <1>11 DEF CachesOK
<1>15. e # None => e \in Addrs /\ l2[t][e].st # "I" /\ e # a
  BY <1>9, VictimsValid
<1>16. e # None => ForHome(e, n) /\ n \in Gone(e)
  <2> HIDE DEF n
  <2> QED BY <1>3, <1>15, EvictionLeaves DEF n
<1>17. /\ CacheSends(t, o)
       /\ \A y \in Tiles : \A S : In(o[y], S) <=> e # None /\ y = Home[e] /\ n \in S
  <2> HIDE DEF n
  <2>1. CASE e = None
    <3>1. o = Nothing
      BY <2>1
    <3> HIDE DEF o
    <3> QED BY <2>1, <3>1, SendsNothing
  <2>2. CASE e # None
    <3>1. o = To(Home[e], <<n>>)
      BY <2>2 DEF n
    <3> HIDE DEF o
    <3>2. /\ CacheSends(t, To(Home[e], <<n>>))
          /\ \A y \in Tiles : \A S :
               In(To(Home[e], <<n>>)[y], S) <=> y = Home[e] /\ n \in S
      BY <1>15, <1>16, <2>2, SendsOne
    <3> QED BY <2>2, <3>1, <3>2
  <2> QED BY <2>1, <2>2
<1> HIDE DEF N1, N2, o, n, M1, M2, out
<1>18. o \in SimOutgoing /\ o \in Outgoing
  BY <1>17 DEF CacheSends
<1>19. \A y \in Tiles, b \in Addrs : ~In(o[y], FromHome(b))
  BY <1>15, <1>16, <1>17, CacheNotHome
<1>20. \A b \in Addrs : Head(chan[<<s, t>>]) \notin Answer(b)
  BY <1>1 DEF Answer
<1>21. \A b \in Addrs : l2'[t][b].st = IF b = a THEN new.st
                                       ELSE IF b = e THEN "I" ELSE l2[t][b].st
  BY <1>30, <1>14
<1>22. \A b \in Addrs : b # e => ~In(o[Home[b]], Answer(b))
  <2> SUFFICES ASSUME NEW b \in Addrs, b # e PROVE ~In(o[Home[b]], Answer(b))
    OBVIOUS
  <2>1. Home[b] \in Tiles
    BY MSIAssumption DEF MSIAssumption
  <2>2. e # None => n \notin Answer(b)
    BY <1>15, <1>16, CacheNotHome
  <2> QED BY <1>17, <2>1, <2>2
<1>23. ASSUME NEW b \in Addrs PROVE PairInv(b, t)'
  <2>1. EntryOf(b)' = EntryOf(b) /\ (Served(b)' <=> Served(b))
    BY <1>2 DEF EntryOf, Served
  <2>2. PairInv(b, t) /\ queue'[b] = queue[b] /\ Home[b] \in Tiles
    BY <1>2, MSIAssumption DEF AssertInv, MSIAssumption
  <2>3. \A y \in Tiles : ~In(o[y], FromHome(b))
    BY <1>19
  <2>4. CASE b = a
    <3>1. b # e /\ s = Home[b]
      BY <1>4, <1>15, <2>4, MSIAssumption DEF MSIAssumption
    <3>2. /\ Keeps(Up(b, t), Up(b, t)', Answer(b))
          /\ Loses(Down(b, t), Down(b, t)', FromHome(b))
      BY <1>1, <1>3, <1>14, <1>18, <1>20, <1>22, <2>3, <3>1, CacheLink
    <3>3. l2'[t][b].st = IF m.type = "EX_REP" THEN "M" ELSE "S"
      BY <1>7, <1>21, <2>4
    <3>4. ~Granted(b, t)'
      <4>1. LinkInv(b, t)'
        BY DEF CohInv, TokenInv
      <4> QED BY <3>3, <4>1 DEF LinkInv
    <3>5. m = Head(Down(b, t)) /\ m \in Rep(b) /\ Granted(b, t)
      BY <1>8, <1>31, <1>9, <2>4
    <3> QED BY <2>1, <2>2, <3>2, <3>3, <3>4, <3>5, LineFilled
  <2>5. CASE b # a /\ b = e
    <3>1. /\ In(o[Home[b]], Gone(b)) /\ ~In(o[Home[b]], WbRep(b))
          /\ ~In(o[Home[b]], Request(b))
      <4>1. b # None
        BY MSIAssumption DEF MSIAssumption
      <4>2. n \in Gone(b) /\ n \notin WbRep(b) /\ n \notin Request(b)
        BY <1>16, <2>5, <4>1 DEF Gone, WbRep, Request, OfType
      <4> QED BY <1>17, <2>2, <2>5, <4>1, <4>2
    <3>2. Head(chan[<<s, t>>]) \notin FromHome(b)
      BY <1>1, <2>5 DEF FromHome, OfType
    <3>3. /\ Grows(Up(b, t), Up(b, t)', o[Home[b]], Answer(b))
          /\ Keeps(Down(b, t), Down(b, t)', FromHome(b))
      BY <1>1, <1>3, <1>14, <1>18, <1>20, <2>3, <3>2, CacheLink
    <3>4. Shrinks(Down(b, t), Down(b, t)', FromHome(b))
      BY <3>3, LosesShrinks
    <3>5. NotAsking(b, t)
      BY <2>2, <2>5, AsksOnce DEF PairInv
    <3>6. l2'[t][b].st = "I"
      BY <1>21, <2>5
    <3> QED BY <2>1, <2>2, <3>1, <3>3, <3>4, <3>5, <3>6, LineLeaves
  <2>6. CASE b # a /\ b # e
    <3>1. Head(chan[<<s, t>>]) \notin FromHome(b)
      BY <1>1, <2>6 DEF FromHome, OfType
    <3>2. l2'[t][b].st = l2[t][b].st /\ ~In(o[Home[b]], Answer(b))
      BY <1>21, <1>22, <2>6
    <3> QED BY <1>1, <1>2, <1>14, <1>18, <1>20, <2>3, <2>6, <3>1, <3>2, OtherPair
  <2> QED BY <2>4, <2>5, <2>6
<1>24. Keeps(chan[<<t, t>>], chan'[<<t, t>>], L1Msg)
  BY <1>3, <1>14, <1>18, L1Waits
<1>25. /\ outst'[t] = None /\ \A u \in Tiles \ {t} : outst'[u] = outst[u]
       /\ \A u \in Tiles \ {t} : appSem'[u] = appSem[u]
  BY DEF TypeOK, ThreadsOK
<1>26. RequestInv(t)'
  <2>1. RequestInv(t)
    BY <1>3 DEF ThreadInv
  <2>2. app'[t].pc = "wait" => ~In(chan'[<<t, t>>], Foreign(app'[t].acc))
    BY <1>2, <1>24, <2>1, L1Kinds DEF RequestInv, Keeps
  <2>3. \A d \in Comps, b \in Addrs : ~In(chan'[<<t, t>>], FromL1(d, b))
    BY <1>12, <1>24, L1Kinds DEF Keeps
  <2>4. L1Hit(t, app[t].acc)'
    <3>1. app'[t].acc.addr = a /\ app'[t].acc.comp = c
      BY <1>2, <2>1 DEF RequestInv
    <3>2. l1'[t][c][a].st = new.st
      BY <1>30, <1>14
    <3>3. m.type # "EX_REP" => app'[t].acc.op = "READ"
      <4> SUFFICES ASSUME m.type # "EX_REP" PROVE app'[t].acc.op = "READ"
        OBVIOUS
      <4>1. m \in ShRep(a)
        BY <1>8 DEF Rep, ShRep, OfType
      <4>2. In(Down(a, t), ShRep(a))
        <5>1. chan[<<s, t>>] \in Seq(ShmemMsg)
          BY <1>3 DEF NetworkOK
        <5> QED BY <1>1, <1>4, <4>1, <5>1, InTail DEF Down
      <4>3. AskInv(a, t)
        BY DEF AssertInv, PairInv
      <4> QED BY <1>2, <4>2, <4>3 DEF AskInv
    <3> QED BY <1>7, <3>1, <3>2, <3>3 DEF L1Hit, operationPermissible
  <2> QED BY <1>25, <2>2, <2>3, <2>4 DEF RequestInv
<1>27. ASSUME NEW b \in Addrs PROVE LocInv(t, b)'
  BY <1>30, <1>14 DEF LocInv
<1>28. ThreadInv(t)'
  BY <1>26, <1>27 DEF ThreadInv
<1> QED BY <1>1, <1>2, <1>14, <1>18, <1>19, <1>20, <1>23, <1>25, <1>28, CacheSide

\* The steps of an L2 cache keep the invariant.
LEMMA L2StepAssert ==
  ASSUME TypeOK, HandoverInv, CohInv, CohInv', AssertInv,
         NEW s \in Tiles, NEW t \in Tiles,
         \/ L2RecvFromL1(t) \/ SimResume(t) \/ L2RecvReply(s, t)
         \/ L2RecvInvReq(s, t) \/ L2RecvFlushReq(s, t) \/ L2RecvWbReq(s, t),
         err' = {}
  PROVE  AssertInv'
<1>1. ASSUME L2RecvFromL1(t) PROVE AssertInv'
  BY <1>1, FromL1Assert
<1>2. ASSUME SimResume(t) PROVE AssertInv'
  <2>1. /\ UNCHANGED <<l1, l2, app, appSem, outst>> /\ UNCHANGED chan
        /\ UNCHANGED <<outst, queue, way, repl, work>>
    BY <1>2 DEF SimResume, cacheVars, dirVars
  <2>2. outst[t] = None
    BY <1>2 DEF SimResume, HandoverInv, Handover
  <2>3. ASSUME NEW u \in Tiles
        PROVE  Keeps(chan[<<u, u>>], chan'[<<u, u>>], L1Msg)
    <3>1. chan'[<<u, u>>] = chan[<<u, u>>]
      BY <2>1
    <3> QED BY <3>1, KeepsAll
  <2>4. ThreadInv(t)'
    BY <2>1, <2>3, ThreadFrame DEF AssertInv
  <2>5. \A a \in Addrs, u \in Tiles : SameLink(a, u)
    BY <2>1, SameChannelsSameLink
  <2> QED BY <2>1, <2>2, <2>3, <2>4, <2>5, AppSide
<1> DEFINE m == Head(chan[<<s, t>>])
<1>3. ASSUME L2RecvReply(s, t) PROVE AssertInv'
  <2>1. Receives(s, t, m) /\ m.type \in {"EX_REP", "SH_REP"}
    BY <1>3 DEF L2RecvReply
  <2>2. PICK a \in Addrs : a = m.addr
    BY <2>1, ReceivesType DEF TypeOK
  <2>3. outst[t] # None /\ outst[t].addr = a
    BY <1>3, <2>2 DEF L2RecvReply, Check, Failure
  <2> DEFINE new == [st |-> IF m.type = "EX_REP" THEN "M" ELSE "S",
                     loc |-> outst[t].comp, val |-> m.val]
  <2>4. /\ InsertInHierarchy(s, t, a, outst[t].comp, new)
        /\ outst' = [outst EXCEPT ![t] = None]
        /\ appSem' = [appSem EXCEPT ![t] = @ + 1]
        /\ UNCHANGED <<latest, app, lock, dirVars>>
    BY <1>3, <2>2, <2>3 DEF L2RecvReply
  <2> HIDE DEF m
  <2> QED BY <2>1, <2>2, <2>3, <2>4, FillAssert
<1>4. ASSUME L2RecvInvReq(s, t) PROVE AssertInv'
  <2>1. Receives(s, t, m) /\ m.type = "INV_REQ"
    BY <1>4 DEF L2RecvInvReq
  <2>2. PICK a \in Addrs : a = m.addr
    BY <2>1, ReceivesType DEF TypeOK
  <2>3. UNCHANGED <<latest, syncVars, dirVars>>
    BY <1>4 DEF L2RecvInvReq
  <2>4. CASE l2[t][a].st = "I"
    <3>1. Deliver(s, t, Nothing) /\ UNCHANGED <<l1, l2>>
      BY <1>4, <2>2, <2>4 DEF L2RecvInvReq
    <3>2. UNCHANGED <<cacheVars, syncVars, dirVars>>
      BY <2>3, <3>1 DEF cacheVars
    <3> HIDE DEF m
    <3> QED BY <2>1, <2>2, <2>4, <3>1, <3>2, DropAssert
  <2>5. CASE l2[t][a].st # "I"
    <3> DEFINE n == Msg("INV_REP", "L2", a, None)
    <3>1. /\ l1' = [l1 EXCEPT ![t] = InvalidateInL1(t, a)]
          /\ l2' = [l2 EXCEPT ![t][a] = InvalidL2]
          /\ Deliver(s, t, To(s, <<n>>))
      BY <1>4, <2>2, <2>5 DEF L2RecvInvReq
    <3>2. ForHome(a, n) /\ n \in Gone(a)
      BY DEF ForHome, Msg, ShmemMsg, ControlMsg, MsgSource, Gone, OfType
    <3> HIDE DEF m, n
    <3> QED BY <2>1, <2>2, <2>3, <2>5, <3>1, <3>2, RecallAssert
  <2> QED BY <2>4, <2>5
<1>5. ASSUME L2RecvFlushReq(s, t) PROVE AssertInv'
  <2>1. Receives(s, t, m) /\ m.type = "FLUSH_REQ"
    BY <1>5 DEF L2RecvFlushReq
  <2>2. PICK a \in Addrs : a = m.addr
    BY <2>1, ReceivesType DEF TypeOK
  <2>3. UNCHANGED <<latest, syncVars, dirVars>>
    BY <1>5 DEF L2RecvFlushReq
  <2>4. CASE l2[t][a].st = "I"
    <3>1. Deliver(s, t, Nothing) /\ UNCHANGED <<l1, l2>>
      BY <1>5, <2>2, <2>4 DEF L2RecvFlushReq
    <3>2. UNCHANGED <<cacheVars, syncVars, dirVars>>
      BY <2>3, <3>1 DEF cacheVars
    <3> HIDE DEF m
    <3> QED BY <2>1, <2>2, <2>4, <3>1, <3>2, DropAssert
  <2>5. CASE l2[t][a].st # "I"
    <3> DEFINE n == EvictionMsg(a, l2[t][a])
    <3>1. l2[t][a].st = "M"
      BY <1>5, <2>2, <2>5 DEF L2RecvFlushReq, Check, Failure
    <3>2. /\ l1' = [l1 EXCEPT ![t] = InvalidateInL1(t, a)]
          /\ l2' = [l2 EXCEPT ![t][a] = InvalidL2]
          /\ Deliver(s, t, To(s, <<n>>))
      BY <1>5, <2>2, <2>5, <3>1 DEF L2RecvFlushReq, EvictionMsg
    <3> HIDE DEF m, n
    <3>3. ForHome(a, n) /\ n \in Gone(a)
      BY <2>5, EvictionLeaves DEF n, CohInv
    <3> QED BY <2>1, <2>2, <2>3, <2>5, <3>2, <3>3, RecallAssert
  <2> QED BY <2>4, <2>5
<1>6. ASSUME L2RecvWbReq(s, t) PROVE AssertInv'
  <2>1. Receives(s, t, m) /\ m.type = "WB_REQ"
    BY <1>6 DEF L2RecvWbReq
  <2>2. PICK a \in Addrs : a = m.addr
    BY <2>1, ReceivesType DEF TypeOK
  <2>3. UNCHANGED <<latest, syncVars, dirVars>>
    BY <1>6 DEF L2RecvWbReq
  <2>4. CASE l2[t][a].st = "I"
    <3>1. Deliver(s, t, Nothing) /\ UNCHANGED <<l1, l2>>
      BY <1>6, <2>2, <2>4 DEF L2RecvWbReq
    <3>2. UNCHANGED <<cacheVars, syncVars, dirVars>>
      BY <2>3, <3>1 DEF cacheVars
    <3> HIDE DEF m
    <3> QED BY <2>1, <2>2, <2>4, <3>1, <3>2, DropAssert
  <2>5. CASE l2[t][a].st # "I"
    <3> DEFINE n == DataReply("WB_REP", a, l2[t][a])
    <3>1. l2[t][a].st = "M"
      BY <1>6, <2>2, <2>5 DEF L2RecvWbReq, Check, Failure
    <3>2. /\ l1' = IF l2[t][a].loc = None THEN l1
                   ELSE [l1 EXCEPT ![t][l2[t][a].loc][a].st = "S"]
          /\ l2' = [l2 EXCEPT ![t][a].st = "S"]
          /\ Deliver(s, t, To(s, <<n>>))
      BY <1>6, <2>2, <2>5 DEF L2RecvWbReq
    <3>3. l2[t][a].val \in Values /\ l2[t][a].val = latest[a]
      <4>1. l2[t][a] \in L2Line
        BY DEF TypeOK, CachesOK
      <4> QED BY <2>5, <4>1 DEF L2Line, CohInv, CacheInv, CopiesAreCurrent
    <3>4. ForHome(a, n) /\ n \in WbRep(a)
      BY <3>3 DEF ForHome, DataReply, Msg, ShmemMsg, DataMsg, MsgSource, WbRep, OfType
    <3> HIDE DEF m, n
    <3> QED BY <2>1, <2>2, <2>3, <3>1, <3>2, <3>4, WriteBackAssert
  <2> QED BY <2>4, <2>5
<1> QED BY <1>1, <1>2, <1>3, <1>4, <1>5, <1>6

=============================================================================
