------------------------ MODULE MSICoherence_proofs ------------------------
(***************************************************************************)
(* Proofs that the MSI protocol keeps its caches coherent, for every       *)
(* number of tiles, lines and ways and every directory scheme, as long as  *)
(* none of its assertions has failed: a failed assertion ends the          *)
(* simulation.                                                             *)
(*                                                                         *)
(* The argument counts what a tile has of a line.  Between a tile and the  *)
(* home of a line there is at most one token: a valid copy in the L2       *)
(* cache, or a reply of the directory on its way to the tile, or an        *)
(* invalidation or flush reply on its way back.  A tile with a token is a  *)
(* sharer, and the token of a modified line belongs to the owner.          *)
(***************************************************************************)
EXTENDS MSI_proofs, FiniteSetTheorems

\* Lines are either fetched or accessed as data (see README, hazards).
SplitLines == InstrAddrs \cap DataAddrs = {}

-----------------------------------------------------------------------------
(* The inductive invariant *)

\* A message of the set S is in the channel q; at most one is.
In(q, S) == \E i \in 1..Len(q) : q[i] \in S
Once(q, S) == \A i, j \in 1..Len(q) : q[i] \in S /\ q[j] \in S => i = j

OfType(T, a) == {m \in ShmemMsg : m.type \in T /\ m.addr = a}
ExRep(a) == OfType({"EX_REP"}, a)
Rep(a) == OfType({"EX_REP", "SH_REP"}, a)
FlushRep(a) == OfType({"FLUSH_REP"}, a)
Gone(a) == OfType({"INV_REP", "FLUSH_REP"}, a)
WbRep(a) == OfType({"WB_REP"}, a)
\* What the home of a sends to caches, and what only it receives.
FromHome(a) ==
  OfType({"EX_REP", "SH_REP", "INV_REQ", "FLUSH_REQ", "WB_REQ"}, a)
ToHome(a) ==
  OfType({"INV_REP", "FLUSH_REP", "WB_REP"}, a)
  \cup {m \in ShmemMsg : m.src = "L2" /\ m.addr = a}
FromL1(c, a) == {m \in ShmemMsg : m.src = c /\ m.addr = a}
\* Data of a that are not the last ones written.
Stale(a, v) == {m \in ShmemMsg : m.addr = a /\ m.val \notin {v, None}}

\* The channels between a tile and the home of a line.
Down(a, t) == chan[<<Home[a], t>>]
Up(a, t) == chan[<<t, Home[a]>>]

\* A reply that grants the line, and that grants it for writing.
Granted(a, t) == In(Down(a, t), Rep(a))
GrantedEx(a, t) == In(Down(a, t), ExRep(a))
\* The tile has given up the line; with its data; or only the right to write.
Left(a, t) == In(Up(a, t), Gone(a))
Flushed(a, t) == In(Up(a, t), FlushRep(a))
WrittenBack(a, t) == In(Up(a, t), WbRep(a))

\* What tile t may have of line a.
LinkInv(a, t) ==
  /\ Once(Down(a, t), Rep(a)) /\ Once(Up(a, t), Gone(a))
  /\ Once(Up(a, t), WbRep(a))
  /\ Granted(a, t) => /\ l2[t][a].st = "I"
                      /\ ~Left(a, t) /\ ~WrittenBack(a, t)
  /\ Left(a, t) => l2[t][a].st = "I"
  /\ WrittenBack(a, t) => /\ l2[t][a].st # "M" /\ ~Flushed(a, t)
                          /\ t \in EntryOf(a).sharers
  /\ l2[t][a].st # "I" \/ Granted(a, t) \/ Left(a, t) => t \in EntryOf(a).sharers
  /\ \/ l2[t][a].st = "M" \/ GrantedEx(a, t)
     \/ Flushed(a, t) \/ WrittenBack(a, t)
     => EntryOf(a).st = "M"
  /\ EntryOf(a).st = "M" /\ EntryOf(a).owner = t =>
       \/ l2[t][a].st = "M" \/ GrantedEx(a, t)
       \/ Flushed(a, t) \/ WrittenBack(a, t)

\* The sharers of an entry fit its state.
EntryInv(a) ==
  /\ EntryOf(a).st = "M" => EntryOf(a).sharers = {EntryOf(a).owner}
  /\ EntryOf(a).st = "U" => EntryOf(a).sharers = {}

\* Messages about a line travel between its home and the caches.
RouteInv(s, t, a) ==
  /\ In(chan[<<s, t>>], FromHome(a)) => s = Home[a]
  /\ In(chan[<<s, t>>], ToHome(a)) => t = Home[a]
  /\ ~In(chan[<<s, t>>], Stale(a, latest[a]))

\* The L1 cache c only has lines of its kind, and has given up one that it
\* has asked for.
Kind(c) == IF c = "ICACHE" THEN InstrAddrs ELSE DataAddrs
KindInv(t, c, a) ==
  /\ l1[t][c][a].st # "I" => a \in Kind(c)
  /\ In(chan[<<t, t>>], FromL1(c, a)) => a \in Kind(c) /\ l1[t][c][a].st = "I"
  /\ outst[t] # None /\ outst[t].comp = c /\ outst[t].addr = a => a \in Kind(c)

\* What a directory handler has in its hands.
WorkInv(h) ==
  work[h] # None =>
    /\ lock[h] = "sim" /\ Home[work[h].addr] = h
    /\ work[h].buf # None => /\ work[h].buf = latest[work[h].addr]
                             /\ EntryOf(work[h].addr).st # "M"

\* An exclusive request is about to take the data that a flush has brought.
Passing(a) ==
  /\ work[Home[a]] # None /\ work[Home[a]].addr = a
  /\ work[Home[a]].buf # None /\ TakesData(a)
MemInv(a) == EntryOf(a).st # "M" /\ ~Passing(a) => dram[a] = latest[a]

\* An atomic instruction keeps its tile and its line.
AtomicInv(t) ==
  app[t].pc = "locked" =>
    /\ lock[t] = "app"
    /\ l1[t][app[t].acc.comp][app[t].acc.addr].st = "M"

CacheInv ==
  /\ Inclusion /\ CopiesAreCurrent
  /\ \A t \in Tiles, c \in Comps, a \in Addrs : KindInv(t, c, a)
  /\ \A t \in Tiles : AtomicInv(t)
DirInv == OneEntryPerLine /\ \A a \in Addrs : EntryInv(a)
TokenInv == \A a \in Addrs, t \in Tiles : LinkInv(a, t)
NetInv == \A s \in Tiles, t \in Tiles, a \in Addrs : RouteInv(s, t, a)
DataInv == (\A a \in Addrs : MemInv(a)) /\ \A h \in Tiles : WorkInv(h)

CohInv == CacheInv /\ DirInv /\ TokenInv /\ NetInv /\ DataInv

-----------------------------------------------------------------------------
(* Messages in channels *)

\* What is in the short sequences that the handlers send.
LEMMA InSingle ==
  ASSUME NEW S
  PROVE  /\ ~In(<<>>, S) /\ Once(<<>>, S)
         /\ \A m : (In(<<m>>, S) <=> m \in S) /\ Once(<<m>>, S)
         /\ \A m, n : (In(<<m, n>>, S) <=> m \in S \/ n \in S)
         /\ \A m, n : m \notin S \/ n \notin S => Once(<<m, n>>, S)
<1>1. ~In(<<>>, S) /\ Once(<<>>, S)
  BY DEF In, Once
<1>2. ASSUME NEW m PROVE (In(<<m>>, S) <=> m \in S) /\ Once(<<m>>, S)
  BY DEF In, Once
<1>3. ASSUME NEW m, NEW n
      PROVE  /\ In(<<m, n>>, S) <=> m \in S \/ n \in S
             /\ m \notin S \/ n \notin S => Once(<<m, n>>, S)
  <2>1. /\ Len(<<m, n>>) = 2 /\ <<m, n>>[1] = m /\ <<m, n>>[2] = n
    OBVIOUS
  <2>2. \A i : i \in 1..2 <=> i = 1 \/ i = 2
    OBVIOUS
  <2> HIDE <2>2
  <2>3. In(<<m, n>>, S) <=> m \in S \/ n \in S
    BY <2>1, <2>2 DEF In
  <2>4. m \notin S \/ n \notin S => Once(<<m, n>>, S)
    BY <2>1, <2>2 DEF Once
  <2> QED BY <2>3, <2>4
<1> QED BY <1>1, <1>2, <1>3

\* What is in a channel after messages were appended to it.
LEMMA InConcat ==
  ASSUME NEW q \in Seq(ShmemMsg), NEW r \in Seq(ShmemMsg), NEW S
  PROVE  /\ In(q \o r, S) <=> In(q, S) \/ In(r, S)
         /\ Once(q, S) /\ Once(r, S) /\ ~(In(q, S) /\ In(r, S)) => Once(q \o r, S)
<1>1. /\ q \o r \in Seq(ShmemMsg) /\ Len(q \o r) = Len(q) + Len(r)
      /\ \A i \in 1..(Len(q) + Len(r)) :
           (q \o r)[i] = IF i <= Len(q) THEN q[i] ELSE r[i - Len(q)]
      /\ Len(q) \in Nat /\ Len(r) \in Nat
  BY ConcatProperties, LenProperties
<1>2. \A i \in 1..Len(q) : i \in 1..Len(q \o r) /\ (q \o r)[i] = q[i]
  BY <1>1
<1>3. \A i \in 1..Len(r) :
        i + Len(q) \in 1..Len(q \o r) /\ (q \o r)[i + Len(q)] = r[i]
  BY <1>1
<1>4. \A i \in 1..Len(q \o r) :
        \/ i \in 1..Len(q) /\ (q \o r)[i] = q[i]
        \/ i - Len(q) \in 1..Len(r) /\ (q \o r)[i] = r[i - Len(q)]
  BY <1>1
<1>5. In(q \o r, S) <=> In(q, S) \/ In(r, S)
  BY <1>2, <1>3, <1>4 DEF In
<1>6. ASSUME Once(q, S), Once(r, S), ~(In(q, S) /\ In(r, S))
      PROVE  Once(q \o r, S)
  <2> SUFFICES ASSUME NEW i \in 1..Len(q \o r), NEW j \in 1..Len(q \o r),
                      (q \o r)[i] \in S, (q \o r)[j] \in S
               PROVE  i = j
    BY DEF Once
  <2>1. CASE i \in 1..Len(q) /\ (q \o r)[i] = q[i]
    <3>1. In(q, S) /\ ~In(r, S)
      BY <1>6, <2>1 DEF In
    <3>2. j \in 1..Len(q) /\ (q \o r)[j] = q[j]
      BY <1>4, <3>1 DEF In
    <3> QED BY <1>6, <2>1, <3>2 DEF Once
  <2>2. CASE i - Len(q) \in 1..Len(r) /\ (q \o r)[i] = r[i - Len(q)]
    <3>1. In(r, S) /\ ~In(q, S)
      BY <1>6, <2>2 DEF In
    <3>2. j - Len(q) \in 1..Len(r) /\ (q \o r)[j] = r[j - Len(q)]
      BY <1>4, <3>1 DEF In
    <3>3. i - Len(q) = j - Len(q)
      BY <1>6, <2>2, <3>2 DEF Once
    <3> QED BY <1>1, <3>3
  <2> QED BY <1>4, <2>1, <2>2
<1> QED BY <1>5, <1>6

\* What is left in a channel whose first message was received.
LEMMA InTail ==
  ASSUME NEW q \in Seq(ShmemMsg), q # <<>>, NEW S
  PROVE  /\ Head(q) \in S => In(q, S)
         /\ In(q, S) /\ Head(q) \notin S => In(Tail(q), S)
         /\ In(Tail(q), S) => In(q, S)
         /\ Once(q, S) => Once(Tail(q), S)
         /\ Once(q, S) /\ Head(q) \in S => ~In(Tail(q), S)
<1>1. /\ Tail(q) \in Seq(ShmemMsg) /\ Len(Tail(q)) = Len(q) - 1
      /\ \A i \in 1..Len(Tail(q)) : Tail(q)[i] = q[i + 1]
      /\ Len(q) \in Nat /\ Len(q) # 0 /\ Head(q) = q[1]
  BY HeadTailProperties, EmptySeq, LenProperties
<1>2. 1 \in 1..Len(q)
  BY <1>1
<1>3. \A i \in 1..Len(Tail(q)) :
        i + 1 \in 1..Len(q) /\ i + 1 # 1 /\ Tail(q)[i] = q[i + 1]
  BY <1>1
<1>4. \A i \in 1..Len(q) :
        i # 1 => i - 1 \in 1..Len(Tail(q)) /\ Tail(q)[i - 1] = q[i]
  BY <1>1
<1>5. Head(q) \in S => In(q, S)
  BY <1>1, <1>2 DEF In
<1>6. In(q, S) /\ Head(q) \notin S => In(Tail(q), S)
  BY <1>1, <1>4 DEF In
<1>7. In(Tail(q), S) => In(q, S)
  BY <1>3 DEF In
<1>8. ASSUME Once(q, S) PROVE Once(Tail(q), S)
  <2> SUFFICES ASSUME NEW i \in 1..Len(Tail(q)), NEW j \in 1..Len(Tail(q)),
                      Tail(q)[i] \in S, Tail(q)[j] \in S
               PROVE  i = j
    BY DEF Once
  <2>1. i + 1 = j + 1
    BY <1>3, <1>8 DEF Once
  <2> QED BY <2>1
<1>9. ASSUME Once(q, S), Head(q) \in S, In(Tail(q), S) PROVE FALSE
  <2>1. PICK i \in 1..Len(Tail(q)) : Tail(q)[i] \in S
    BY <1>9 DEF In
  <2>2. i + 1 = 1
    BY <1>1, <1>2, <1>3, <1>9, <2>1 DEF Once
  <2> QED BY <2>2, <1>3
<1> QED BY <1>5, <1>6, <1>7, <1>8, <1>9

\* What is in the channel from x to y after t has sent out.
LEMMA SendIn ==
  ASSUME NetworkOK, NEW t \in Tiles, NEW out \in Outgoing, Send(t, out),
         NEW x \in Tiles, NEW y \in Tiles, NEW S
  PROVE  /\ In(chan'[<<x, y>>], S)
              <=> In(chan[<<x, y>>], S) \/ (x = t /\ In(out[y], S))
         /\ Once(chan[<<x, y>>], S) /\ (x = t => ~In(out[y], S)) =>
              Once(chan'[<<x, y>>], S)
         /\ Once(chan[<<x, y>>], S) /\ ~In(chan[<<x, y>>], S)
            /\ (x = t => Once(out[y], S)) => Once(chan'[<<x, y>>], S)
<1> DEFINE q == chan[<<x, y>>]
<1>1. q \in Seq(ShmemMsg) /\ out[y] \in Seq(ShmemMsg)
  BY DEF NetworkOK, Outgoing
<1>2. x # t => chan'[<<x, y>>] = q
  BY DEF Send
<1>3. x = t => chan'[<<x, y>>] = q \o out[y]
  BY DEF Send
<1>4. ~In(out[y], S) => Once(out[y], S)
  BY DEF In, Once
<1> HIDE DEF q
<1>5. CASE x = t
  <2>1. /\ In(q \o out[y], S) <=> In(q, S) \/ In(out[y], S)
        /\ Once(q, S) /\ Once(out[y], S) /\ ~(In(q, S) /\ In(out[y], S))
             => Once(q \o out[y], S)
    BY <1>1, InConcat
  <2> QED BY <1>3, <1>4, <1>5, <2>1 DEF q
<1>6. CASE x # t
  BY <1>2, <1>6 DEF q
<1> QED BY <1>5, <1>6

\* The same after t has taken a packet from s and sent out.
Delivered(s, t, out, x, y, S) ==
  /\ In(chan'[<<x, y>>], S) => In(chan[<<x, y>>], S) \/ (x = t /\ In(out[y], S))
  /\ x = t /\ In(out[y], S) => In(chan'[<<x, y>>], S)
  /\ (x = s /\ y = t => Head(chan[<<s, t>>]) \notin S) =>
       (In(chan[<<x, y>>], S) => In(chan'[<<x, y>>], S))
  /\ x = s /\ y = t /\ Head(chan[<<s, t>>]) \in S /\ Once(chan[<<x, y>>], S)
       => (In(chan'[<<x, y>>], S) => x = t /\ In(out[y], S))
  /\ Once(chan[<<x, y>>], S) /\ (x = t => ~In(out[y], S)) =>
       Once(chan'[<<x, y>>], S)
  /\ Once(chan[<<x, y>>], S) /\ ~In(chan[<<x, y>>], S)
     /\ (x = t => Once(out[y], S)) => Once(chan'[<<x, y>>], S)

\* Delivered is what Deliver does to every channel.
LEMMA DeliverIn ==
  ASSUME NetworkOK, NEW s \in Tiles, NEW t \in Tiles, chan[<<s, t>>] # <<>>,
         NEW out \in Outgoing, Deliver(s, t, out),
         NEW x \in Tiles, NEW y \in Tiles, NEW S
  PROVE  Delivered(s, t, out, x, y, S)
<1> DEFINE q == chan[<<x, y>>]
           u == IF x = s /\ y = t THEN Tail(q) ELSE q
           v == IF x = t THEN out[y] ELSE <<>>
<1>1. q \in Seq(ShmemMsg) /\ v \in Seq(ShmemMsg)
  BY DEF NetworkOK, Outgoing
<1>2. chan'[<<x, y>>] = u \o v
  BY DEF Deliver
<1>3. x = s /\ y = t => q # <<>> /\ q = chan[<<s, t>>]
  OBVIOUS
<1>4. u \in Seq(ShmemMsg)
  BY <1>1, <1>3, HeadTailProperties
<1>5. /\ In(u, S) => In(q, S)
      /\ Once(q, S) => Once(u, S)
      /\ (x = s /\ y = t => Head(q) \notin S) => (In(q, S) => In(u, S))
      /\ x = s /\ y = t /\ Head(q) \in S /\ Once(q, S) => ~In(u, S)
  <2>1. CASE x = s /\ y = t
    BY <1>1, <1>3, <2>1, InTail
  <2>2. CASE ~(x = s /\ y = t)
    BY <2>2
  <2> QED BY <2>1, <2>2
<1>6. /\ In(v, S) <=> x = t /\ In(out[y], S)
      /\ (x = t => Once(out[y], S)) => Once(v, S)
      /\ (x = t => ~In(out[y], S)) => Once(v, S)
  <2>1. ~In(out[y], S) => Once(out[y], S)
    BY DEF In, Once
  <2>2. ~In(<<>>, S) /\ Once(<<>>, S)
    BY InSingle
  <2> QED BY <2>1, <2>2
<1> HIDE DEF q, u, v
<1>7. /\ In(u \o v, S) <=> In(u, S) \/ In(v, S)
      /\ Once(u, S) /\ Once(v, S) /\ ~(In(u, S) /\ In(v, S)) => Once(u \o v, S)
  BY <1>1, <1>4, InConcat
<1>8. x = s /\ y = t => Head(q) = Head(chan[<<s, t>>])
  BY DEF q
<1> QED BY <1>2, <1>5, <1>6, <1>7, <1>8 DEF q, Delivered

\* A kind of message that is neither taken nor sent stays as it is.
LEMMA DeliverSame ==
  ASSUME NetworkOK, NEW s \in Tiles, NEW t \in Tiles, chan[<<s, t>>] # <<>>,
         NEW out \in Outgoing, Deliver(s, t, out),
         NEW x \in Tiles, NEW y \in Tiles, NEW S,
         x = s /\ y = t => Head(chan[<<s, t>>]) \notin S,
         x = t => ~In(out[y], S)
  PROVE  /\ In(chan'[<<x, y>>], S) <=> In(chan[<<x, y>>], S)
         /\ Once(chan[<<x, y>>], S) => Once(chan'[<<x, y>>], S)
<1>1. Delivered(s, t, out, x, y, S)
  BY DeliverIn
<1> QED BY <1>1 DEF Delivered

-----------------------------------------------------------------------------
(* What a tile has of a line *)

Token(a) ==
  OfType({"EX_REP", "SH_REP", "INV_REP", "FLUSH_REP", "WB_REP"}, a)

\* A channel without tokens has none of the special kinds.
LEMMA TokenSets ==
  ASSUME NEW a, NEW q, ~In(q, Token(a))
  PROVE  /\ ~In(q, Rep(a)) /\ ~In(q, ExRep(a)) /\ ~In(q, Gone(a))
         /\ ~In(q, FlushRep(a)) /\ ~In(q, WbRep(a))
<1>1. /\ Rep(a) \subseteq Token(a) /\ ExRep(a) \subseteq Token(a)
      /\ Gone(a) \subseteq Token(a) /\ FlushRep(a) \subseteq Token(a)
      /\ WbRep(a) \subseteq Token(a)
  BY DEF Rep, ExRep, Gone, FlushRep, WbRep, Token, OfType
<1> QED BY <1>1 DEF In

\* No token of line a moves in the channels between u and its home.
SameTokens(a, u) ==
  /\ Granted(a, u)' <=> Granted(a, u)
  /\ GrantedEx(a, u)' <=> GrantedEx(a, u)
  /\ Left(a, u)' <=> Left(a, u)
  /\ Flushed(a, u)' <=> Flushed(a, u)
  /\ WrittenBack(a, u)' <=> WrittenBack(a, u)
  /\ Once(Down(a, u), Rep(a)) => Once(Down(a, u)', Rep(a))
  /\ Once(Up(a, u), Gone(a)) => Once(Up(a, u)', Gone(a))
  /\ Once(Up(a, u), WbRep(a)) => Once(Up(a, u)', WbRep(a))

\* A step that leaves the channels alone moves no token.
LEMMA SameChannelsSameTokens ==
  ASSUME UNCHANGED chan, NEW a, NEW u
  PROVE  SameTokens(a, u)
BY DEF SameTokens, Granted, GrantedEx, Left, Flushed, WrittenBack, Down, Up

\* Sending no token of a moves none.
LEMMA QuietSend ==
  ASSUME NetworkOK, NEW t \in Tiles, NEW out \in Outgoing, Send(t, out),
         NEW a \in Addrs, NEW u \in Tiles,
         \A y \in Tiles : (t = Home[a] /\ y = u) \/ (t = u /\ y = Home[a]) =>
           ~In(out[y], Token(a))
  PROVE  SameTokens(a, u)
<1>1. Home[a] \in Tiles
  BY MSIAssumption DEF MSIAssumption
<1>2. /\ t = Home[a] => ~In(out[u], Token(a))
      /\ t = u => ~In(out[Home[a]], Token(a))
  BY <1>1
<1>3. /\ t = Home[a] => ~In(out[u], Rep(a)) /\ ~In(out[u], ExRep(a))
      /\ t = u => /\ ~In(out[Home[a]], Gone(a)) /\ ~In(out[Home[a]], WbRep(a))
                  /\ ~In(out[Home[a]], FlushRep(a))
  BY <1>2, TokenSets
<1>4. Granted(a, u)' <=> Granted(a, u)
  BY <1>1, <1>3, SendIn DEF Granted, Down
<1>5. GrantedEx(a, u)' <=> GrantedEx(a, u)
  BY <1>1, <1>3, SendIn DEF GrantedEx, Down
<1>6. Left(a, u)' <=> Left(a, u)
  BY <1>1, <1>3, SendIn DEF Left, Up
<1>7. Flushed(a, u)' <=> Flushed(a, u)
  BY <1>1, <1>3, SendIn DEF Flushed, Up
<1>8. WrittenBack(a, u)' <=> WrittenBack(a, u)
  BY <1>1, <1>3, SendIn DEF WrittenBack, Up
<1>9. Once(Down(a, u), Rep(a)) => Once(Down(a, u)', Rep(a))
  BY <1>1, <1>3, SendIn DEF Down
<1>10. /\ Once(Up(a, u), Gone(a)) => Once(Up(a, u)', Gone(a))
       /\ Once(Up(a, u), WbRep(a)) => Once(Up(a, u)', WbRep(a))
  BY <1>1, <1>3, SendIn DEF Up
<1> QED BY <1>4, <1>5, <1>6, <1>7, <1>8, <1>9, <1>10 DEF SameTokens

\* Neither does receiving and sending something that is no token of a.
LEMMA QuietDeliver ==
  ASSUME NetworkOK, NEW s \in Tiles, NEW t \in Tiles, chan[<<s, t>>] # <<>>,
         NEW out \in Outgoing, Deliver(s, t, out),
         NEW a \in Addrs, NEW u \in Tiles,
         \/ Head(chan[<<s, t>>]) \notin Token(a)
         \/ ~((s = Home[a] /\ t = u) \/ (s = u /\ t = Home[a])),
         \A y \in Tiles : (t = Home[a] /\ y = u) \/ (t = u /\ y = Home[a]) =>
           ~In(out[y], Token(a))
  PROVE  SameTokens(a, u)
<1> DEFINE m == Head(chan[<<s, t>>])
<1>1. Home[a] \in Tiles
  BY MSIAssumption DEF MSIAssumption
<1>2. /\ t = Home[a] => ~In(out[u], Token(a))
      /\ t = u => ~In(out[Home[a]], Token(a))
  BY <1>1
<1>3. /\ t = Home[a] => ~In(out[u], Rep(a)) /\ ~In(out[u], ExRep(a))
      /\ t = u => /\ ~In(out[Home[a]], Gone(a)) /\ ~In(out[Home[a]], WbRep(a))
                  /\ ~In(out[Home[a]], FlushRep(a))
  BY <1>2, TokenSets
<1>m. /\ s = Home[a] /\ t = u => m \notin Rep(a) /\ m \notin ExRep(a)
      /\ s = u /\ t = Home[a] =>
           m \notin Gone(a) /\ m \notin FlushRep(a) /\ m \notin WbRep(a)
  BY DEF Token, Rep, ExRep, Gone, FlushRep, WbRep, OfType
<1> HIDE DEF m
<1>d. ASSUME NEW x \in Tiles, NEW y \in Tiles, NEW S,
             x = s /\ y = t => m \notin S, x = t => ~In(out[y], S)
      PROVE  /\ In(chan'[<<x, y>>], S) <=> In(chan[<<x, y>>], S)
             /\ Once(chan[<<x, y>>], S) => Once(chan'[<<x, y>>], S)
  BY <1>d, DeliverSame DEF m
<1>4. /\ Granted(a, u)' <=> Granted(a, u)
      /\ Once(Down(a, u), Rep(a)) => Once(Down(a, u)', Rep(a))
  BY <1>1, <1>3, <1>m, <1>d DEF Granted, Down
<1>5. GrantedEx(a, u)' <=> GrantedEx(a, u)
  BY <1>1, <1>3, <1>m, <1>d DEF GrantedEx, Down
<1>6. /\ Left(a, u)' <=> Left(a, u)
      /\ Once(Up(a, u), Gone(a)) => Once(Up(a, u)', Gone(a))
  BY <1>1, <1>3, <1>m, <1>d DEF Left, Up
<1>7. Flushed(a, u)' <=> Flushed(a, u)
  BY <1>1, <1>3, <1>m, <1>d DEF Flushed, Up
<1>8. /\ WrittenBack(a, u)' <=> WrittenBack(a, u)
      /\ Once(Up(a, u), WbRep(a)) => Once(Up(a, u)', WbRep(a))
  BY <1>1, <1>3, <1>m, <1>d DEF WrittenBack, Up
<1> QED BY <1>4, <1>5, <1>6, <1>7, <1>8 DEF SameTokens

\* Nothing happens to the tile's token, nor to the entry of the line.
LEMMA LinkFrame ==
  ASSUME NEW a, NEW u, LinkInv(a, u), SameTokens(a, u),
         l2'[u][a].st = l2[u][a].st, EntryOf(a)' = EntryOf(a)
  PROVE  LinkInv(a, u)'
BY DEF LinkInv, SameTokens

\* A tile gives up its copy: an invalidation or, with the data of a modified
\* line, a flush reply takes its place.
LEMMA LinkLeaves ==
  ASSUME NetworkOK, NEW s \in Tiles, NEW t \in Tiles, chan[<<s, t>>] # <<>>,
         NEW out \in Outgoing, Deliver(s, t, out), NEW a \in Addrs,
         Head(chan[<<s, t>>]) \notin Token(a), LinkInv(a, t),
         l2[t][a].st # "I", l2'[t][a].st = "I", EntryOf(a)' = EntryOf(a),
         In(out[Home[a]], Gone(a)), Once(out[Home[a]], Gone(a)),
         In(out[Home[a]], FlushRep(a)) <=> l2[t][a].st = "M",
         ~In(out[Home[a]], WbRep(a)), ~In(out[t], Rep(a))
  PROVE  LinkInv(a, t)'
<1> DEFINE m == Head(chan[<<s, t>>])
           h == Home[a]
<1>1. h \in Tiles
  BY MSIAssumption DEF MSIAssumption
<1>2. /\ m \notin Rep(a) /\ m \notin ExRep(a) /\ m \notin Gone(a)
      /\ m \notin FlushRep(a) /\ m \notin WbRep(a)
  BY DEF Token, Rep, ExRep, Gone, FlushRep, WbRep, OfType
<1>3. ~In(out[t], ExRep(a))
  BY DEF In, ExRep, Rep, OfType
<1> HIDE DEF h
<1>4. /\ Granted(a, t)' <=> Granted(a, t)
      /\ Once(Down(a, t), Rep(a)) => Once(Down(a, t)', Rep(a))
  <2>1. h = t => ~In(out[t], Rep(a))
    OBVIOUS
  <2>2. /\ In(chan'[<<h, t>>], Rep(a)) <=> In(chan[<<h, t>>], Rep(a))
        /\ Once(chan[<<h, t>>], Rep(a)) => Once(chan'[<<h, t>>], Rep(a))
    BY <1>1, <1>2, <2>1, DeliverSame
  <2> QED BY <2>2 DEF Granted, Down, h
<1>5. GrantedEx(a, t)' <=> GrantedEx(a, t)
  <2>1. In(chan'[<<h, t>>], ExRep(a)) <=> In(chan[<<h, t>>], ExRep(a))
    BY <1>1, <1>2, <1>3, DeliverSame
  <2> QED BY <2>1 DEF GrantedEx, Down, h
<1>6. /\ WrittenBack(a, t)' <=> WrittenBack(a, t)
      /\ Once(Up(a, t), WbRep(a)) => Once(Up(a, t)', WbRep(a))
  <2>1. ~In(out[h], WbRep(a))
    BY DEF h
  <2>2. /\ In(chan'[<<t, h>>], WbRep(a)) <=> In(chan[<<t, h>>], WbRep(a))
        /\ Once(chan[<<t, h>>], WbRep(a)) => Once(chan'[<<t, h>>], WbRep(a))
    BY <1>1, <1>2, <2>1, DeliverSame
  <2> QED BY <2>2 DEF WrittenBack, Up, h
<1>7. Left(a, t)' /\ Once(Up(a, t)', Gone(a))
  <2>1. Delivered(s, t, out, t, h, Gone(a))
    BY <1>1, DeliverIn
  <2>2. ~In(chan[<<t, h>>], Gone(a)) /\ Once(chan[<<t, h>>], Gone(a))
    BY DEF LinkInv, Left, Up, h
  <2> QED BY <2>1, <2>2 DEF Delivered, Left, Up, h
<1>8. Flushed(a, t)' <=> l2[t][a].st = "M"
  <2>1. Delivered(s, t, out, t, h, FlushRep(a))
    BY <1>1, DeliverIn
  <2>2. ~In(chan[<<t, h>>], FlushRep(a))
    BY DEF LinkInv, Left, Up, h, In, FlushRep, Gone, OfType
  <2> QED BY <1>2, <2>1, <2>2 DEF Delivered, Flushed, Up, h
<1>9. (Flushed(a, t) => Left(a, t)) /\ (GrantedEx(a, t) => Granted(a, t))
  BY DEF Flushed, Left, GrantedEx, Granted, In, FlushRep, Gone, ExRep, Rep, OfType
<1> QED BY <1>4, <1>5, <1>6, <1>7, <1>8, <1>9 DEF LinkInv

\* A reply of the directory becomes a copy.
LEMMA LinkFills ==
  ASSUME NetworkOK, NEW t \in Tiles, NEW a \in Addrs, chan[<<Home[a], t>>] # <<>>,
         NEW out \in Outgoing, Deliver(Home[a], t, out), NEW m,
         m = Head(chan[<<Home[a], t>>]), m \in Rep(a), LinkInv(a, t),
         l2'[t][a].st = IF m.type = "EX_REP" THEN "M" ELSE "S",
         EntryOf(a)' = EntryOf(a),
         \A y \in Tiles : ~In(out[y], Token(a))
  PROVE  LinkInv(a, t)'
<1> DEFINE h == Home[a]
<1>1. h \in Tiles
  BY MSIAssumption DEF MSIAssumption
<1>2. /\ m \notin Gone(a) /\ m \notin FlushRep(a) /\ m \notin WbRep(a)
      /\ m \in ExRep(a) <=> m.type = "EX_REP"
  BY DEF Rep, ExRep, Gone, FlushRep, WbRep, OfType
<1>3. /\ ~In(out[t], Rep(a)) /\ ~In(out[t], ExRep(a)) /\ ~In(out[h], Gone(a))
      /\ ~In(out[h], FlushRep(a)) /\ ~In(out[h], WbRep(a))
  BY <1>1, TokenSets
<1> HIDE DEF h
<1>c. Deliver(h, t, out) /\ chan[<<h, t>>] # <<>> /\ m = Head(chan[<<h, t>>])
  BY DEF h
<1>4. ~Granted(a, t)' /\ Once(Down(a, t)', Rep(a)) /\ Granted(a, t)
  <2>1. Delivered(h, t, out, h, t, Rep(a))
    BY <1>1, <1>c, DeliverIn
  <2>2. Once(chan[<<h, t>>], Rep(a))
    BY DEF LinkInv, Down, h
  <2>3. chan[<<h, t>>] \in Seq(ShmemMsg)
    BY <1>1 DEF NetworkOK
  <2>4. In(chan[<<h, t>>], Rep(a))
    BY <1>c, <2>3, InTail
  <2> QED BY <1>3, <1>c, <2>1, <2>2, <2>4 DEF Delivered, Granted, Down, h
<1>5. ~GrantedEx(a, t)'
  BY <1>4 DEF GrantedEx, Granted, In, ExRep, Rep, OfType
<1>6. GrantedEx(a, t) => m.type = "EX_REP"
  <2>1. chan[<<h, t>>] \in Seq(ShmemMsg)
    BY <1>1 DEF NetworkOK
  <2>2. 1 \in 1..Len(chan[<<h, t>>]) /\ chan[<<h, t>>][1] \in Rep(a)
    BY <1>c, <2>1, HeadTailProperties, EmptySeq, LenProperties
  <2>3. \A i \in 1..Len(chan[<<h, t>>]) : chan[<<h, t>>][i] \in Rep(a) => i = 1
    BY <2>2 DEF LinkInv, Down, h, Once
  <2>4. chan[<<h, t>>][1] = m
    BY <1>c, <2>1, HeadTailProperties
  <2> QED BY <2>3, <2>4 DEF GrantedEx, Down, h, In, ExRep, Rep, OfType
<1>7. m.type = "EX_REP" => GrantedEx(a, t)
  <2>1. chan[<<h, t>>] \in Seq(ShmemMsg)
    BY <1>1 DEF NetworkOK
  <2> QED BY <1>2, <1>c, <2>1, InTail DEF GrantedEx, Down, h
<1>8. /\ Left(a, t)' <=> Left(a, t)
      /\ Once(Up(a, t), Gone(a)) => Once(Up(a, t)', Gone(a))
  <2>1. /\ In(chan'[<<t, h>>], Gone(a)) <=> In(chan[<<t, h>>], Gone(a))
        /\ Once(chan[<<t, h>>], Gone(a)) => Once(chan'[<<t, h>>], Gone(a))
    BY <1>1, <1>2, <1>3, <1>c, DeliverSame
  <2> QED BY <2>1 DEF Left, Up, h
<1>9. Flushed(a, t)' <=> Flushed(a, t)
  <2>1. In(chan'[<<t, h>>], FlushRep(a)) <=> In(chan[<<t, h>>], FlushRep(a))
    BY <1>1, <1>2, <1>3, <1>c, DeliverSame
  <2> QED BY <2>1 DEF Flushed, Up, h
<1>10. /\ WrittenBack(a, t)' <=> WrittenBack(a, t)
       /\ Once(Up(a, t), WbRep(a)) => Once(Up(a, t)', WbRep(a))
  <2>1. /\ In(chan'[<<t, h>>], WbRep(a)) <=> In(chan[<<t, h>>], WbRep(a))
        /\ Once(chan[<<t, h>>], WbRep(a)) => Once(chan'[<<t, h>>], WbRep(a))
    BY <1>1, <1>2, <1>3, <1>c, DeliverSame
  <2> QED BY <2>1 DEF WrittenBack, Up, h
<1>11. Flushed(a, t) => Left(a, t)
  BY DEF Flushed, Left, In, FlushRep, Gone, OfType
<1> QED BY <1>4, <1>5, <1>6, <1>7, <1>8, <1>9, <1>10, <1>11 DEF LinkInv

\* A modified copy becomes a shared one, and its data go to the home.
LEMMA LinkDowngrades ==
  ASSUME NetworkOK, NEW s \in Tiles, NEW t \in Tiles, chan[<<s, t>>] # <<>>,
         NEW out \in Outgoing, Deliver(s, t, out), NEW a \in Addrs,
         Head(chan[<<s, t>>]) \notin Token(a), LinkInv(a, t),
         l2[t][a].st = "M", l2'[t][a].st = "S", EntryOf(a)' = EntryOf(a),
         In(out[Home[a]], WbRep(a)), Once(out[Home[a]], WbRep(a)),
         ~In(out[Home[a]], Gone(a)), ~In(out[t], Rep(a))
  PROVE  LinkInv(a, t)'
<1> DEFINE m == Head(chan[<<s, t>>])
           h == Home[a]
<1>1. h \in Tiles
  BY MSIAssumption DEF MSIAssumption
<1>2. /\ m \notin Rep(a) /\ m \notin ExRep(a) /\ m \notin Gone(a)
      /\ m \notin FlushRep(a) /\ m \notin WbRep(a)
  BY DEF Token, Rep, ExRep, Gone, FlushRep, WbRep, OfType
<1>3. ~In(out[t], ExRep(a)) /\ ~In(out[h], FlushRep(a)) /\ ~In(out[h], Gone(a))
  BY DEF In, ExRep, Rep, Gone, FlushRep, OfType
<1> HIDE DEF h
<1>4. /\ Granted(a, t)' <=> Granted(a, t)
      /\ Once(Down(a, t), Rep(a)) => Once(Down(a, t)', Rep(a))
  <2>2. /\ In(chan'[<<h, t>>], Rep(a)) <=> In(chan[<<h, t>>], Rep(a))
        /\ Once(chan[<<h, t>>], Rep(a)) => Once(chan'[<<h, t>>], Rep(a))
    BY <1>1, <1>2, DeliverSame
  <2> QED BY <2>2 DEF Granted, Down, h
<1>5. GrantedEx(a, t)' <=> GrantedEx(a, t)
  <2>1. In(chan'[<<h, t>>], ExRep(a)) <=> In(chan[<<h, t>>], ExRep(a))
    BY <1>1, <1>2, <1>3, DeliverSame
  <2> QED BY <2>1 DEF GrantedEx, Down, h
<1>6. /\ Left(a, t)' <=> Left(a, t)
      /\ Once(Up(a, t), Gone(a)) => Once(Up(a, t)', Gone(a))
  <2>2. /\ In(chan'[<<t, h>>], Gone(a)) <=> In(chan[<<t, h>>], Gone(a))
        /\ Once(chan[<<t, h>>], Gone(a)) => Once(chan'[<<t, h>>], Gone(a))
    BY <1>1, <1>2, <1>3, DeliverSame
  <2> QED BY <2>2 DEF Left, Up, h
<1>7. WrittenBack(a, t)' /\ Once(Up(a, t)', WbRep(a))
  <2>1. Delivered(s, t, out, t, h, WbRep(a))
    BY <1>1, DeliverIn
  <2>2. ~In(chan[<<t, h>>], WbRep(a)) /\ Once(chan[<<t, h>>], WbRep(a))
    BY DEF LinkInv, WrittenBack, Up, h
  <2> QED BY <2>1, <2>2 DEF Delivered, WrittenBack, Up, h
<1>8. Flushed(a, t)' <=> Flushed(a, t)
  <2>1. In(chan'[<<t, h>>], FlushRep(a)) <=> In(chan[<<t, h>>], FlushRep(a))
    BY <1>1, <1>2, <1>3, DeliverSame
  <2> QED BY <2>1 DEF Flushed, Up, h
<1>9. Flushed(a, t) => Left(a, t)
  BY DEF Flushed, Left, In, FlushRep, Gone, OfType
<1> QED BY <1>4, <1>5, <1>6, <1>7, <1>8, <1>9 DEF LinkInv

-----------------------------------------------------------------------------
(* Parts of the invariant that a step leaves alone *)

\* The steps of caches do not touch the directory.
LEMMA DirFrame ==
  ASSUME UNCHANGED <<way, repl>>
  PROVE  /\ \A a : EntryOf(a)' = EntryOf(a)
         /\ DirInv => DirInv'
<1>1. \A a : EntryOf(a)' = EntryOf(a)
  BY DEF EntryOf
<1>2. \A h : FreeWay(h)' = FreeWay(h)
  BY DEF FreeWay
<1>3. OneEntryPerLine => OneEntryPerLine'
  BY <1>2 DEF OneEntryPerLine
<1>4. \A a \in Addrs : EntryInv(a) => EntryInv(a)'
  BY <1>1 DEF EntryInv
<1> QED BY <1>1, <1>3, <1>4 DEF DirInv

\* Nor do they touch data that are not in their own hands.
LEMMA DataFrame ==
  ASSUME DataInv, UNCHANGED <<queue, way, repl, work, dram, latest>>,
         \A h \in Tiles : lock[h] = "sim" => lock'[h] = "sim"
  PROVE  DataInv'
<1>1. \A a : EntryOf(a)' = EntryOf(a)
  BY DirFrame
<1>2. \A a \in Addrs : MemInv(a)'
  BY <1>1 DEF DataInv, MemInv, Passing, TakesData
<1>3. \A h \in Tiles : WorkInv(h)'
  BY <1>1 DEF DataInv, WorkInv
<1> QED BY <1>2, <1>3 DEF DataInv

\* The steps of the directory do not touch caches.
LEMMA CacheFrame ==
  ASSUME CacheInv, UNCHANGED <<l1, l2, latest, app, outst>>,
         \A t \in Tiles : app[t].pc = "locked" => lock'[t] = lock[t],
         \A t \in Tiles, c \in Comps, a \in Addrs :
           In(chan'[<<t, t>>], FromL1(c, a)) => In(chan[<<t, t>>], FromL1(c, a))
  PROVE  CacheInv'
<1>1. Inclusion' /\ CopiesAreCurrent'
  BY DEF CacheInv, Inclusion, CopiesAreCurrent
<1>2. \A t \in Tiles, c \in Comps, a \in Addrs : KindInv(t, c, a)'
  BY DEF CacheInv, KindInv
<1>3. \A t \in Tiles : AtomicInv(t)'
  BY DEF CacheInv, AtomicInv
<1> QED BY <1>1, <1>2, <1>3 DEF CacheInv

\* What a simulation thread sends is a list of messages, none from an L1 cache.
LEMMA SimMsgsType ==
  ASSUME NEW out \in SimOutgoing
  PROVE  /\ out \in Outgoing
         /\ \A y \in Tiles : \A c \in Comps : \A a : ~In(out[y], FromL1(c, a))
<1>1. \A y \in Tiles : out[y] \in Seq(SimMsg)
  BY DEF SimOutgoing
<1>2. \A y \in Tiles : out[y] \in Seq(ShmemMsg)
  <2>1. SimMsg \subseteq ShmemMsg
    BY DEF SimMsg
  <2> QED BY <1>1, <2>1, SeqMonotonic
<1>3. out \in Outgoing
  BY <1>2 DEF SimOutgoing, Outgoing
<1>4. ASSUME NEW y \in Tiles, NEW c \in Comps, NEW a, In(out[y], FromL1(c, a))
      PROVE  FALSE
  <2>1. PICK i \in 1..Len(out[y]) : out[y][i] \in FromL1(c, a)
    BY <1>4 DEF In
  <2>2. out[y][i] \in SimMsg
    BY <1>1
  <2> QED BY <2>1, <2>2 DEF SimMsg, FromL1
<1> QED BY <1>3, <1>4

\* No handler of the simulation thread sends a request of an L1 cache.
LEMMA SendFromL1 ==
  ASSUME NetworkOK, NEW t \in Tiles, NEW out \in SimOutgoing, Send(t, out)
  PROVE  \A u \in Tiles, c \in Comps, a \in Addrs :
           In(chan'[<<u, u>>], FromL1(c, a)) => In(chan[<<u, u>>], FromL1(c, a))
BY SimMsgsType, SendIn

\* The same when a message is received.
LEMMA DeliverFromL1 ==
  ASSUME NetworkOK, NEW s \in Tiles, NEW t \in Tiles, chan[<<s, t>>] # <<>>,
         NEW out \in SimOutgoing, Deliver(s, t, out)
  PROVE  \A u \in Tiles, c \in Comps, a \in Addrs :
           In(chan'[<<u, u>>], FromL1(c, a)) => In(chan[<<u, u>>], FromL1(c, a))
<1> SUFFICES ASSUME NEW u \in Tiles, NEW c \in Comps, NEW a \in Addrs
             PROVE  In(chan'[<<u, u>>], FromL1(c, a)) =>
                      In(chan[<<u, u>>], FromL1(c, a))
  OBVIOUS
<1>1. out \in Outgoing /\ ~In(out[u], FromL1(c, a))
  BY SimMsgsType
<1>2. Delivered(s, t, out, u, u, FromL1(c, a))
  BY <1>1, DeliverIn
<1> QED BY <1>1, <1>2 DEF Delivered

\* What is sent travels to or from a home, with current data.
WellRouted(t, out) ==
  \A y \in Tiles, a \in Addrs :
    /\ In(out[y], FromHome(a)) => t = Home[a]
    /\ In(out[y], ToHome(a)) => y = Home[a]
    /\ ~In(out[y], Stale(a, latest[a]))

\* Sending messages on their proper routes keeps NetInv.
LEMMA SendRoutes ==
  ASSUME NetworkOK, NetInv, NEW t \in Tiles, NEW out \in Outgoing, Send(t, out),
         WellRouted(t, out), UNCHANGED latest
  PROVE  NetInv'
<1> SUFFICES ASSUME NEW x \in Tiles, NEW y \in Tiles, NEW a \in Addrs
             PROVE  RouteInv(x, y, a)'
  BY DEF NetInv
<1>1. RouteInv(x, y, a)
  BY DEF NetInv
<1>2. /\ In(out[y], FromHome(a)) => t = Home[a]
      /\ In(out[y], ToHome(a)) => y = Home[a]
      /\ ~In(out[y], Stale(a, latest[a]))
  BY DEF WellRouted
<1>3. In(chan'[<<x, y>>], FromHome(a)) => x = Home[a]
  BY <1>1, <1>2, SendIn DEF RouteInv
<1>4. In(chan'[<<x, y>>], ToHome(a)) => y = Home[a]
  BY <1>1, <1>2, SendIn DEF RouteInv
<1>5. ~In(chan'[<<x, y>>], Stale(a, latest[a]))
  BY <1>1, <1>2, SendIn DEF RouteInv
<1> QED BY <1>3, <1>4, <1>5 DEF RouteInv

\* The same when a message is received.
LEMMA DeliverRoutes ==
  ASSUME NetworkOK, NetInv, NEW s \in Tiles, NEW t \in Tiles,
         chan[<<s, t>>] # <<>>, NEW out \in Outgoing, Deliver(s, t, out),
         WellRouted(t, out), UNCHANGED latest
  PROVE  NetInv'
<1> SUFFICES ASSUME NEW x \in Tiles, NEW y \in Tiles, NEW a \in Addrs
             PROVE  RouteInv(x, y, a)'
  BY DEF NetInv
<1>1. RouteInv(x, y, a)
  BY DEF NetInv
<1>2. /\ In(out[y], FromHome(a)) => t = Home[a]
      /\ In(out[y], ToHome(a)) => y = Home[a]
      /\ ~In(out[y], Stale(a, latest[a]))
  BY DEF WellRouted
<1>3. \A S : Delivered(s, t, out, x, y, S)
  BY DeliverIn
<1>4. \A S : In(chan'[<<x, y>>], S) =>
               In(chan[<<x, y>>], S) \/ (x = t /\ In(out[y], S))
  BY <1>3 DEF Delivered
<1> QED BY <1>1, <1>2, <1>4 DEF RouteInv

\* The packet that a tile takes was routed well.
LEMMA HeadRouted ==
  ASSUME TypeOK, NetInv, NEW s \in Tiles, NEW t \in Tiles, NEW m,
         Receives(s, t, m)
  PROVE  /\ m.type \in {"EX_REP", "SH_REP", "INV_REQ", "FLUSH_REQ", "WB_REQ"}
              => s = Home[m.addr]
         /\ m.type \in {"INV_REP", "FLUSH_REP", "WB_REP"} => t = Home[m.addr]
         /\ m.src = "L2" => t = Home[m.addr]
         /\ m.val \in {None, latest[m.addr]}
<1>1. /\ chan[<<s, t>>] # <<>> /\ m = Head(chan[<<s, t>>])
      /\ m \in ShmemMsg /\ m.addr \in Addrs
  BY ReceivesType DEF TypeOK
<1>2. chan[<<s, t>>] \in Seq(ShmemMsg)
  BY DEF TypeOK, NetworkOK
<1>3. \A S : m \in S => In(chan[<<s, t>>], S)
  BY <1>1, <1>2, InTail
<1>4. RouteInv(s, t, m.addr)
  BY <1>1 DEF NetInv
<1>5. m \in FromHome(m.addr) => s = Home[m.addr]
  BY <1>3, <1>4 DEF RouteInv
<1>6. m \in ToHome(m.addr) => t = Home[m.addr]
  BY <1>3, <1>4 DEF RouteInv
<1>7. m \notin Stale(m.addr, latest[m.addr])
  BY <1>3, <1>4 DEF RouteInv
<1> QED BY <1>1, <1>5, <1>6, <1>7 DEF FromHome, ToHome, Stale, OfType

-----------------------------------------------------------------------------
(* Steps of the application threads *)

\* Nobody else has a line that one tile has modified, and nobody carries it.
LEMMA Exclusive ==
  ASSUME TypeOK, CohInv, NEW t \in Tiles, NEW a \in Addrs, l2[t][a].st = "M"
  PROVE  /\ EntryOf(a).st = "M"
         /\ \A u \in Tiles \ {t} : l2[u][a].st = "I"
         /\ \A x \in Tiles, y \in Tiles : \A v : ~In(chan[<<x, y>>], Stale(a, v))
<1>1. \A u \in Tiles : LinkInv(a, u)
  BY DEF CohInv, TokenInv
<1>2. EntryOf(a).st = "M" /\ t \in EntryOf(a).sharers
  BY <1>1 DEF LinkInv
<1>3. EntryOf(a).sharers = {t}
  BY <1>2 DEF CohInv, DirInv, EntryInv
<1>4. \A u \in Tiles \ {t} : l2[u][a].st = "I"
  BY <1>1, <1>3 DEF LinkInv
<1>5. \A u \in Tiles : ~Granted(a, u) /\ ~Left(a, u) /\ ~WrittenBack(a, u)
  <2>1. ~Granted(a, t) /\ ~Left(a, t) /\ ~WrittenBack(a, t)
    BY <1>1 DEF LinkInv
  <2>2. \A u \in Tiles \ {t} : ~Granted(a, u) /\ ~Left(a, u) /\ ~WrittenBack(a, u)
    BY <1>1, <1>3 DEF LinkInv
  <2> QED BY <2>1, <2>2
<1>6. ASSUME NEW x \in Tiles, NEW y \in Tiles, NEW v,
             In(chan[<<x, y>>], Stale(a, v))
      PROVE  FALSE
  <2>1. PICK i \in 1..Len(chan[<<x, y>>]) : chan[<<x, y>>][i] \in Stale(a, v)
    BY <1>6 DEF In
  <2> DEFINE m == chan[<<x, y>>][i]
  <2>2. m \in ShmemMsg /\ m.addr = a /\ m.val # None
    BY <2>1 DEF Stale
  <2>3. m.type \in DataMsg
    BY <2>2 DEF ShmemMsg
  <2>4. RouteInv(x, y, a)
    BY DEF CohInv, NetInv
  <2>5. CASE m.type \in {"EX_REP", "SH_REP"}
    <3>1. m \in Rep(a) /\ m \in FromHome(a)
      BY <2>2, <2>5 DEF Rep, FromHome, OfType
    <3>2. In(chan[<<x, y>>], Rep(a)) /\ In(chan[<<x, y>>], FromHome(a))
      BY <3>1 DEF In
    <3> QED BY <1>5, <2>4, <3>2 DEF RouteInv, Granted, Down
  <2>6. CASE m.type = "FLUSH_REP"
    <3>1. m \in Gone(a) /\ m \in ToHome(a)
      BY <2>2, <2>6 DEF Gone, ToHome, OfType
    <3>2. In(chan[<<x, y>>], Gone(a)) /\ In(chan[<<x, y>>], ToHome(a))
      BY <3>1 DEF In
    <3> QED BY <1>5, <2>4, <3>2 DEF RouteInv, Left, Up
  <2>7. CASE m.type = "WB_REP"
    <3>1. m \in WbRep(a) /\ m \in ToHome(a)
      BY <2>2, <2>7 DEF WbRep, ToHome, OfType
    <3>2. In(chan[<<x, y>>], WbRep(a)) /\ In(chan[<<x, y>>], ToHome(a))
      BY <3>1 DEF In
    <3> QED BY <1>5, <2>4, <3>2 DEF RouteInv, WrittenBack, Up
  <2> QED BY <2>3, <2>5, <2>6, <2>7 DEF DataMsg
<1> QED BY <1>2, <1>4, <1>6

\* Caches of a tile that satisfy CacheInv.
TileOK(L1, L2) ==
  /\ \A c \in Comps, b \in Addrs : L1[c][b].st # "I" =>
       /\ L2[b].st = L1[c][b].st /\ L2[b].loc = c
       /\ L1[c][b].val = latest[b] /\ b \in Kind(c)
  /\ \A b \in Addrs : L2[b].st # "I" => L2[b].val = latest[b]

\* In a state of CacheInv every tile is in order.
LEMMA TilesOK ==
  ASSUME CacheInv, NEW t \in Tiles
  PROVE  TileOK(l1[t], l2[t])
BY DEF CacheInv, Inclusion, CopiesAreCurrent, KindInv, TileOK

\* What accessCache does to the lines.
AccessDone(t, r, L1, L2) ==
  /\ l1' \in [Tiles -> L1Caches] /\ l2' \in [Tiles -> L2Cache]
  /\ \A u \in Tiles \ {t} : l1'[u] = l1[u] /\ l2'[u] = l2[u]
  /\ \A c \in Comps, b \in Addrs :
       /\ l1'[t][c][b].st = L1[c][b].st
       /\ ~(r.op = "WRITE" /\ c = r.comp /\ b = r.addr) =>
            l1'[t][c][b].val = L1[c][b].val
  /\ \A b \in Addrs :
       /\ l2'[t][b].st = L2[b].st /\ l2'[t][b].loc = L2[b].loc
       /\ ~(r.op = "WRITE" /\ b = r.addr) => /\ l2'[t][b].val = L2[b].val
                                             /\ latest'[b] = latest[b]
  /\ r.op = "WRITE" => /\ l1'[t][r.comp][r.addr].val = r.val
                       /\ l2'[t][r.addr].val = r.val
                       /\ latest'[r.addr] = r.val

\* AccessDone is what accessCache does.
LEMMA AccessCacheEffect ==
  ASSUME CachesOK, NEW t \in Tiles, NEW r \in Access,
         NEW L1 \in L1Caches, NEW L2 \in L2Cache, accessCache(t, r, L1, L2)
  PROVE  AccessDone(t, r, L1, L2)
<1>1. r.comp \in Comps /\ r.addr \in Addrs
  BY DEF Access
<1>2. l1' \in [Tiles -> L1Caches] /\ l2' \in [Tiles -> L2Cache]
  BY AccessCacheType DEF CachesOK, L1Caches, L2Cache
<1>3. CASE r.op = "WRITE"
  <2> DEFINE M1 == [L1 EXCEPT ![r.comp][r.addr].val = r.val]
             M2 == [L2 EXCEPT ![r.addr].val = r.val]
  <2>1. /\ l1' = [l1 EXCEPT ![t] = M1] /\ l2' = [l2 EXCEPT ![t] = M2]
        /\ latest' = [latest EXCEPT ![r.addr] = r.val]
    BY <1>3 DEF accessCache
  <2>2. /\ l1'[t] = M1 /\ l2'[t] = M2
        /\ \A u \in Tiles \ {t} : l1'[u] = l1[u] /\ l2'[u] = l2[u]
    BY <2>1 DEF CachesOK
  <2>3. /\ \A c \in Comps, b \in Addrs :
             /\ M1[c][b].st = L1[c][b].st
             /\ ~(c = r.comp /\ b = r.addr) => M1[c][b].val = L1[c][b].val
        /\ M1[r.comp][r.addr].val = r.val
    BY <1>1 DEF L1Caches, L1Line
  <2>4. /\ \A b \in Addrs :
             /\ M2[b].st = L2[b].st /\ M2[b].loc = L2[b].loc
             /\ b # r.addr => M2[b].val = L2[b].val
        /\ M2[r.addr].val = r.val
    BY <1>1 DEF L2Cache, L2Line
  <2>5. /\ latest'[r.addr] = r.val
        /\ \A b \in Addrs : b # r.addr => latest'[b] = latest[b]
    BY <1>1, <2>1 DEF CachesOK
  <2> HIDE DEF M1, M2
  <2> QED BY <1>2, <1>3, <2>2, <2>3, <2>4, <2>5 DEF AccessDone
<1>4. CASE r.op # "WRITE"
  <2>1. /\ l1' = [l1 EXCEPT ![t] = L1] /\ l2' = [l2 EXCEPT ![t] = L2]
        /\ latest' = latest
    BY <1>4 DEF accessCache
  <2>2. /\ l1'[t] = L1 /\ l2'[t] = L2
        /\ \A u \in Tiles \ {t} : l1'[u] = l1[u] /\ l2'[u] = l2[u]
    BY <2>1 DEF CachesOK
  <2> QED BY <1>2, <1>4, <2>1, <2>2 DEF AccessDone
<1> QED BY <1>3, <1>4

\* An access that its L1 cache permits keeps the invariant.
LEMMA AccessStep ==
  ASSUME TypeOK, CohInv, NEW t \in Tiles, NEW r \in Access,
         NEW L1 \in L1Caches, NEW L2 \in L2Cache, TileOK(L1, L2),
         \A b \in Addrs : L2[b].st = l2[t][b].st,
         \A c \in Comps, b \in Addrs :
           In(chan[<<t, t>>], FromL1(c, b)) => L1[c][b].st = "I",
         operationPermissible(r.op, L1[r.comp][r.addr].st),
         accessCache(t, r, L1, L2), Return(t, r), lock[t] # "sim",
         UNCHANGED <<chan, outst, dirVars>>
  PROVE  CohInv'
<1>1. r.comp \in Comps /\ r.addr \in Addrs
  BY DEF Access
<1>2. AccessDone(t, r, L1, L2)
  BY AccessCacheEffect DEF TypeOK
<1>3. /\ UNCHANGED <<chan, outst, queue, way, repl, work, dram>>
      /\ CacheInv /\ DirInv /\ TokenInv /\ NetInv /\ DataInv
  BY DEF dirVars, CohInv
<1>4. \A u \in Tiles, b \in Addrs : l2'[u][b].st = l2[u][b].st
  BY <1>2 DEF AccessDone
<1>5. r.op = "WRITE" => L1[r.comp][r.addr].st = "M" /\ l2[t][r.addr].st = "M"
  BY <1>1 DEF operationPermissible, TileOK
<1>6. r.op = "WRITE" =>
        /\ EntryOf(r.addr).st = "M"
        /\ \A u \in Tiles \ {t} : l2[u][r.addr].st = "I"
        /\ \A x \in Tiles, y \in Tiles : \A v : ~In(chan[<<x, y>>], Stale(r.addr, v))
  BY <1>1, <1>5, Exclusive
<1>7. (\A a : EntryOf(a)' = EntryOf(a)) /\ DirInv'
  BY <1>3, DirFrame
<1>8. TokenInv'
  <2>1. \A a \in Addrs, u \in Tiles : LinkInv(a, u)'
    BY <1>3, <1>4, <1>7, LinkFrame, SameChannelsSameTokens DEF TokenInv
  <2> QED BY <2>1 DEF TokenInv
<1>9. NetInv'
  <2> SUFFICES ASSUME NEW x \in Tiles, NEW y \in Tiles, NEW a \in Addrs
               PROVE  RouteInv(x, y, a)'
    BY DEF NetInv
  <2>1. RouteInv(x, y, a)
    BY <1>3 DEF NetInv
  <2>2. ~In(chan[<<x, y>>], Stale(a, latest'[a]))
    <3>1. CASE r.op = "WRITE" /\ a = r.addr
      BY <1>6, <3>1
    <3>2. CASE ~(r.op = "WRITE" /\ a = r.addr)
      BY <1>2, <2>1, <3>2 DEF AccessDone, RouteInv
    <3> QED BY <3>1, <3>2
  <2> QED BY <1>3, <2>1, <2>2 DEF RouteInv
<1>10. \A u \in Tiles \ {t} : app'[u] = app[u] /\ lock'[u] = lock[u]
  BY DEF Return, TypeOK, ThreadsOK
<1>11. DataInv'
  <2>1. \A b \in Addrs : EntryOf(b).st # "M" => latest'[b] = latest[b]
    BY <1>2, <1>6 DEF AccessDone
  <2>2. \A a \in Addrs : MemInv(a)'
    <3>1. \A a \in Addrs : Passing(a)' <=> Passing(a)
      BY <1>3 DEF Passing, TakesData
    <3> QED BY <1>3, <1>7, <2>1, <3>1 DEF DataInv, MemInv
  <2>3. ASSUME NEW h \in Tiles PROVE WorkInv(h)'
    <3>1. WorkInv(h) /\ work'[h] = work[h] /\ (lock[h] = "sim" => lock'[h] = "sim")
      BY <1>3, <1>10 DEF DataInv
    <3>2. work[h] # None => work[h].addr \in Addrs
      BY DEF TypeOK, DirectoryOK
    <3> QED BY <1>7, <2>1, <3>1, <3>2 DEF WorkInv
  <2> QED BY <2>2, <2>3 DEF DataInv
<1>12. Inclusion'
  <2> SUFFICES ASSUME NEW u \in Tiles, NEW c \in Comps, NEW b \in Addrs,
                      l1'[u][c][b].st # "I"
               PROVE  l2'[u][b].st = l1'[u][c][b].st /\ l2'[u][b].loc = c
    BY DEF Inclusion
  <2>1. CASE u = t
    BY <1>2, <2>1 DEF AccessDone, TileOK
  <2>2. CASE u # t
    BY <1>2, <1>3, <2>2 DEF AccessDone, CacheInv, Inclusion
  <2> QED BY <2>1, <2>2
<1>13. CopiesAreCurrent'
  <2> SUFFICES ASSUME NEW u \in Tiles, NEW b \in Addrs
               PROVE  /\ l2'[u][b].st # "I" => l2'[u][b].val = latest'[b]
                      /\ \A c \in Comps : l1'[u][c][b].st # "I" =>
                           l1'[u][c][b].val = latest'[b]
    BY DEF CopiesAreCurrent
  <2>1. CASE ~(r.op = "WRITE" /\ b = r.addr)
    <3>1. CASE u = t
      BY <1>2, <2>1, <3>1 DEF AccessDone, TileOK
    <3>2. CASE u # t
      BY <1>2, <1>3, <2>1, <3>2 DEF AccessDone, CacheInv, CopiesAreCurrent
    <3> QED BY <3>1, <3>2
  <2>2. CASE r.op = "WRITE" /\ b = r.addr
    <3>1. CASE u = t
      <4>1. \A c \in Comps : L1[c][b].st # "I" => c = r.comp
        BY <1>1, <1>5, <2>2 DEF TileOK
      <4> QED BY <1>1, <1>2, <2>2, <3>1, <4>1 DEF AccessDone
    <3>2. CASE u # t
      <4>1. l2'[u][b].st = "I"
        BY <1>4, <1>6, <2>2, <3>2
      <4> QED BY <1>12, <4>1 DEF Inclusion
    <3> QED BY <3>1, <3>2
  <2> QED BY <2>1, <2>2
<1>14. ASSUME NEW u \in Tiles, NEW c \in Comps, NEW a \in Addrs
       PROVE  KindInv(u, c, a)'
  <2>1. KindInv(u, c, a)
    BY <1>3 DEF CacheInv
  <2>2. CASE u = t
    BY <1>2, <1>3, <2>1, <2>2 DEF AccessDone, TileOK, KindInv
  <2>3. CASE u # t
    BY <1>2, <1>3, <2>1, <2>3 DEF AccessDone, KindInv
  <2> QED BY <2>2, <2>3
<1>15. ASSUME NEW u \in Tiles PROVE AtomicInv(u)'
  <2>1. CASE u = t
    <3>1. CASE r.sig = "LOCK"
      <4>1. app'[t].acc = r /\ lock'[t] = "app"
        BY <3>1 DEF Return, TypeOK, ThreadsOK
      <4>2. r.op = "READ_EX"
        BY <3>1 DEF Access
      <4>3. L1[r.comp][r.addr].st = "M"
        BY <4>2 DEF operationPermissible
      <4> QED BY <1>1, <1>2, <2>1, <4>1, <4>3 DEF AtomicInv, AccessDone
    <3>2. CASE r.sig # "LOCK"
      BY <2>1, <3>2 DEF Return, TypeOK, ThreadsOK, AtomicInv
    <3> QED BY <3>1, <3>2
  <2>2. CASE u # t
    <3>1. AtomicInv(u) /\ app'[u] = app[u] /\ lock'[u] = lock[u] /\ l1'[u] = l1[u]
      BY <1>2, <1>3, <1>10, <2>2 DEF AccessDone, CacheInv
    <3> QED BY <3>1 DEF AtomicInv
  <2> QED BY <2>1, <2>2
<1>16. CacheInv'
  BY <1>12, <1>13, <1>14, <1>15 DEF CacheInv
<1> QED BY <1>7, <1>8, <1>9, <1>11, <1>16 DEF CohInv

\* An access that hits in the L1 cache.
LEMMA HitStep ==
  ASSUME TypeOK, CohInv, NEW t \in Tiles, NEW r \in Access, L1Hit(t, r),
         accessCache(t, r, l1[t], l2[t]), Return(t, r), lock[t] # "sim",
         UNCHANGED <<chan, outst, dirVars>>
  PROVE  CohInv'
<1>1. l1[t] \in L1Caches /\ l2[t] \in L2Cache
  BY DEF TypeOK, CachesOK, L1Caches, L2Cache
<1>2. TileOK(l1[t], l2[t])
  BY TilesOK DEF CohInv
<1>3. \A c \in Comps, b \in Addrs :
        In(chan[<<t, t>>], FromL1(c, b)) => l1[t][c][b].st = "I"
  BY DEF CohInv, CacheInv, KindInv
<1> QED BY <1>1, <1>2, <1>3, AccessStep DEF L1Hit

\* While the application of a tile does not wait there is no request of its
\* L1 caches in the channel.
LEMMA NoL1Request ==
  ASSUME TypeOK, HandoverInv, NEW t \in Tiles,
         app[t].pc # "wait" \/ outst[t] # None, NEW c \in Comps, NEW a
  PROVE  ~In(chan[<<t, t>>], FromL1(c, a))
<1>1. L1Requests(t) = {}
  BY DEF HandoverInv
<1> QED BY <1>1 DEF L1Requests, In, FromL1

\* insertCacheLineInL1, line by line.
LEMMA L1AfterEffect ==
  ASSUME NEW L1 \in L1Caches, NEW c \in Comps, NEW a \in Addrs,
         NEW line \in L2Line, NEW victim, NEW d \in Comps, NEW b \in Addrs
  PROVE  L1After(L1, c, a, line, victim)[d][b] =
           IF d # c THEN L1[d][b]
           ELSE IF b = a THEN [st |-> line.st, val |-> line.val]
           ELSE IF b = victim THEN InvalidL1 ELSE L1[d][b]
<1>1. CASE d = c
  BY <1>1 DEF L1After, Insert, L1Caches
<1>2. CASE d # c
  BY <1>2 DEF L1After, Insert, L1Caches
<1> QED BY <1>1, <1>2

\* A line that is chosen for replacement is valid.
LEMMA VictimsValid ==
  ASSUME NEW cache, NEW ways, NEW v \in Victims(cache, ways), v # None
  PROVE  v \in Addrs /\ cache[v].st # "I"
BY DEF Victims

\* No line is of both kinds.
LEMMA KindsSplit ==
  ASSUME SplitLines, NEW c \in Comps, NEW d \in Comps, NEW a \in Kind(c),
         a \in Kind(d)
  PROVE  c = d
BY DEF SplitLines, Kind, Comps

\* An access that misses in the L1 cache and hits in the L2 cache.
LEMMA L2HitStep ==
  ASSUME SplitLines, TypeOK, HandoverInv, CohInv, NEW t \in Tiles,
         NEW r \in Accesses, AppL2Hit(t, r)
  PROVE  CohInv'
<1> DEFINE c == r.comp
           a == r.addr
           inv == [l1[t] EXCEPT ![r.comp][r.addr] = InvalidL1]
<1>1. r \in Access /\ c \in Comps /\ a \in Addrs /\ a \in Kind(c)
  <2>1. r \in Access
    BY AccessesType
  <2>2. a \in Kind(c)
    BY DEF Accesses, Kind
  <2> QED BY <2>1, <2>2 DEF Access
<1>2. l1[t] \in L1Caches /\ l2[t] \in L2Cache /\ l2[t][a] \in L2Line
  BY <1>1 DEF TypeOK, CachesOK, L1Caches, L2Cache
<1>3. inv \in L1Caches
  BY <1>1, <1>2, InvalidLines DEF L1Caches
<1>4. PICK victim \in Victims(inv[c], L1Ways) :
        /\ accessCache(t, r, L1After(inv, c, a, l2[t][a], victim),
             [ClearCachedLoc(l2[t], victim) EXCEPT ![a].loc = c])
        /\ Check(Failure("clearCachedLoc", victim # None => l2[t][victim].loc = c)
                 \cup Failure("setCachedLoc", l2[t][a].loc = None))
  BY DEF AppL2Hit
<1>6. /\ app[t].pc = "idle" /\ lock[t] = "free" /\ L2Hit(t, r) /\ Return(t, r)
      /\ UNCHANGED <<chan, outst, dirVars>>
  BY DEF AppL2Hit
<1>7. \A d \in Comps, b \in Addrs :
        inv[d][b] = IF d = c /\ b = a THEN InvalidL1 ELSE l1[t][d][b]
  BY <1>1, <1>2 DEF L1Caches
<1>8. victim # None =>
        /\ victim \in Addrs /\ victim # a /\ l1[t][c][victim].st # "I"
  <2> SUFFICES ASSUME victim # None
               PROVE  victim \in Addrs /\ victim # a /\ l1[t][c][victim].st # "I"
    OBVIOUS
  <2>1. victim \in Addrs /\ inv[c][victim].st # "I"
    BY VictimsValid
  <2> QED BY <1>1, <1>7, <2>1 DEF InvalidL1
<1> DEFINE N1 == L1After(inv, c, a, l2[t][a], victim)
           N2 == [ClearCachedLoc(l2[t], victim) EXCEPT ![a].loc = c]
<1>10. \A d \in Comps, b \in Addrs :
         N1[d][b] = IF d # c THEN l1[t][d][b]
                    ELSE IF b = a THEN [st |-> l2[t][a].st, val |-> l2[t][a].val]
                    ELSE IF b = victim THEN InvalidL1 ELSE l1[t][d][b]
  <2> HIDE DEF inv, c, a
  <2> SUFFICES ASSUME NEW d \in Comps, NEW b \in Addrs
               PROVE  N1[d][b] = IF d # c THEN l1[t][d][b]
                    ELSE IF b = a THEN [st |-> l2[t][a].st, val |-> l2[t][a].val]
                    ELSE IF b = victim THEN InvalidL1 ELSE l1[t][d][b]
    OBVIOUS
  <2>1. N1[d][b] = IF d # c THEN inv[d][b]
                   ELSE IF b = a THEN [st |-> l2[t][a].st, val |-> l2[t][a].val]
                   ELSE IF b = victim THEN InvalidL1 ELSE inv[d][b]
    BY <1>1, <1>2, <1>3, L1AfterEffect
  <2>2. ~(d = c /\ b = a) => inv[d][b] = l1[t][d][b]
    BY <1>7
  <2> HIDE DEF N1
  <2> QED BY <2>1, <2>2
<1>11. N1 \in L1Caches
  BY <1>1, <1>2, <1>3, L1AfterType
<1>12. ClearCachedLoc(l2[t], victim) \in L2Cache
  BY <1>2, ClearCachedLocType
<1>13. N2 \in L2Cache
  BY <1>1, <1>12 DEF L2Cache, L2Line
<1>14. \A b \in Addrs :
         /\ N2[b].st = l2[t][b].st /\ N2[b].val = l2[t][b].val
         /\ b = a => N2[b].loc = c
         /\ b # a /\ b # victim => N2[b].loc = l2[t][b].loc
  BY <1>1, <1>2 DEF ClearCachedLoc, L2Cache, L2Line
<1>15. TileOK(l1[t], l2[t])
  BY TilesOK DEF CohInv
<1> HIDE DEF N1, N2, inv
<1>16. TileOK(N1, N2)
  <2>1. ASSUME NEW d \in Comps, NEW b \in Addrs, N1[d][b].st # "I"
        PROVE  /\ N2[b].st = N1[d][b].st /\ N2[b].loc = d
               /\ N1[d][b].val = latest[b] /\ b \in Kind(d)
    <3>1. CASE d = c /\ b = a
      <4>1. N1[d][b].st = l2[t][a].st /\ N1[d][b].val = l2[t][a].val
        BY <1>1, <1>10, <3>1
      <4> QED BY <1>1, <1>14, <1>15, <2>1, <3>1, <4>1 DEF TileOK
    <3>2. CASE ~(d = c /\ b = a)
      <4>1. ~(d = c /\ b = victim) /\ N1[d][b] = l1[t][d][b]
        BY <1>10, <2>1, <3>2 DEF InvalidL1
      <4>2. /\ l2[t][b].st = l1[t][d][b].st /\ l2[t][b].loc = d
            /\ l1[t][d][b].val = latest[b] /\ b \in Kind(d)
        BY <1>15, <2>1, <4>1 DEF TileOK
      <4>3. b # a
        <5> SUFFICES ASSUME b = a PROVE FALSE
          OBVIOUS
        <5>1. d = c
          BY <1>1, <4>2, KindsSplit
        <5> QED BY <3>2, <5>1
      <4>4. b # victim
        <5> SUFFICES ASSUME b = victim PROVE FALSE
          OBVIOUS
        <5>1. victim # None
          BY MSIAssumption DEF MSIAssumption
        <5>2. l2[t][b].loc = c
          BY <1>1, <1>8, <1>15, <5>1 DEF TileOK
        <5> QED BY <4>1, <4>2, <5>2
      <4> QED BY <1>14, <4>1, <4>2, <4>3, <4>4
    <3> QED BY <3>1, <3>2
  <2>2. \A b \in Addrs : N2[b].st # "I" => N2[b].val = latest[b]
    BY <1>14, <1>15 DEF TileOK
  <2> QED BY <2>1, <2>2 DEF TileOK
<1>17. \A d \in Comps, b \in Addrs :
         In(chan[<<t, t>>], FromL1(d, b)) => N1[d][b].st = "I"
  BY <1>6, NoL1Request
<1>18. operationPermissible(r.op, N1[c][a].st)
  BY <1>1, <1>6, <1>10 DEF L2Hit
<1>19. accessCache(t, r, N1, N2)
  BY <1>4 DEF N1, N2
<1> QED BY <1>1, <1>6, <1>11, <1>13, <1>14, <1>16, <1>17, <1>18, <1>19, AccessStep

\* An access that misses in both caches.
LEMMA MissStep ==
  ASSUME TypeOK, CohInv, NEW t \in Tiles, NEW r \in Accesses, AppMiss(t, r)
  PROVE  CohInv'
<1> DEFINE m == Msg(ReqType(r.op), r.comp, r.addr, None)
           out == To(t, <<m>>)
<1>1. r.comp \in Comps /\ r.addr \in Addrs /\ r.addr \in Kind(r.comp)
  BY AccessesType DEF Access, Accesses, Kind
<1>2. /\ m \in ShmemMsg /\ m.type \in {"EX_REQ", "SH_REQ"} /\ m.src = r.comp
      /\ m.addr = r.addr /\ m.val = None
  BY <1>1 DEF Msg, ReqType, ShmemMsg, ControlMsg, MsgSource
<1>3. /\ l1' = [l1 EXCEPT ![t][r.comp][r.addr] = InvalidL1] /\ Send(t, out)
      /\ app' = [app EXCEPT ![t] = [pc |-> "wait", acc |-> r]]
      /\ UNCHANGED <<l2, latest, lock, outst, queue, way, repl, work, dram>>
  BY DEF AppMiss, dirVars
<1>4. CacheInv /\ DirInv /\ TokenInv /\ NetInv /\ DataInv /\ NetworkOK
  BY DEF CohInv, TypeOK
<1>5. /\ out \in Outgoing
      /\ \A y \in Tiles : \A S : In(out[y], S) <=> y = t /\ m \in S
  <2>1. out \in Outgoing
    BY <1>2, OutgoingType
  <2>2. ASSUME NEW y \in Tiles, NEW S PROVE In(out[y], S) <=> y = t /\ m \in S
    <3>1. out[y] = IF y = t THEN <<m>> ELSE <<>>
      BY DEF To
    <3>2. ~In(<<>>, S) /\ (In(<<m>>, S) <=> m \in S)
      BY InSingle
    <3> QED BY <3>1, <3>2
  <2> QED BY <2>1, <2>2
<1> HIDE DEF m, out
<1>6. (\A a : EntryOf(a)' = EntryOf(a)) /\ DirInv' /\ DataInv'
  BY <1>3, <1>4, DirFrame, DataFrame
<1>7. TokenInv'
  <2> SUFFICES ASSUME NEW a \in Addrs, NEW u \in Tiles PROVE LinkInv(a, u)'
    BY DEF TokenInv
  <2>1. m \notin Token(a)
    BY <1>2 DEF Token, OfType
  <2>2. SameTokens(a, u)
    BY <1>3, <1>4, <1>5, <2>1, QuietSend
  <2> QED BY <1>3, <1>4, <1>6, <2>2, LinkFrame DEF TokenInv
<1>8. NetInv'
  <2>1. ASSUME NEW a \in Addrs
        PROVE  m \notin FromHome(a) /\ m \notin ToHome(a) /\ m \notin Stale(a, latest[a])
    BY <1>1, <1>2 DEF FromHome, ToHome, Stale, OfType, Comps
  <2>2. WellRouted(t, out)
    BY <1>5, <2>1 DEF WellRouted
  <2> QED BY <1>3, <1>4, <1>5, <2>2, SendRoutes
<1>9. \A u \in Tiles, c \in Comps, a \in Addrs :
        l1'[u][c][a] = IF u = t /\ c = r.comp /\ a = r.addr THEN InvalidL1
                       ELSE l1[u][c][a]
  BY <1>1, <1>3 DEF TypeOK, CachesOK
<1>10. Inclusion' /\ CopiesAreCurrent'
  BY <1>3, <1>4, <1>9 DEF CacheInv, Inclusion, CopiesAreCurrent, InvalidL1
<1>11. ASSUME NEW u \in Tiles, NEW c \in Comps, NEW a \in Addrs
       PROVE  KindInv(u, c, a)'
  <2>1. KindInv(u, c, a)
    BY <1>4 DEF CacheInv
  <2>2. l1'[u][c][a].st # "I" => l1'[u][c][a] = l1[u][c][a]
    BY <1>9 DEF InvalidL1
  <2>3. In(chan'[<<u, u>>], FromL1(c, a)) =>
          \/ In(chan[<<u, u>>], FromL1(c, a))
          \/ u = t /\ m \in FromL1(c, a)
    BY <1>3, <1>4, <1>5, SendIn
  <2>4. m \in FromL1(c, a) => c = r.comp /\ a = r.addr
    BY <1>2 DEF FromL1
  <2>5. u = t /\ c = r.comp /\ a = r.addr => l1'[u][c][a].st = "I" /\ a \in Kind(c)
    BY <1>1, <1>9 DEF InvalidL1
  <2>6. /\ l1'[u][c][a].st # "I" => a \in Kind(c)
        /\ outst'[u] # None /\ outst'[u].comp = c /\ outst'[u].addr = a => a \in Kind(c)
    BY <1>3, <2>1, <2>2 DEF KindInv
  <2>7. In(chan'[<<u, u>>], FromL1(c, a)) => a \in Kind(c) /\ l1'[u][c][a].st = "I"
    BY <2>1, <2>2, <2>3, <2>4, <2>5 DEF KindInv
  <2> QED BY <2>6, <2>7 DEF KindInv
<1>12. ASSUME NEW u \in Tiles PROVE AtomicInv(u)'
  <2>1. AtomicInv(u)
    BY <1>4 DEF CacheInv
  <2>2. CASE u = t
    BY <1>3, <2>2 DEF AtomicInv, TypeOK, ThreadsOK
  <2>3. CASE u # t
    <3>1. app'[u] = app[u] /\ l1'[u] = l1[u] /\ lock'[u] = lock[u]
      BY <1>3, <2>3 DEF TypeOK, ThreadsOK, CachesOK
    <3> QED BY <2>1, <3>1 DEF AtomicInv
  <2> QED BY <2>2, <2>3
<1>13. CacheInv'
  BY <1>10, <1>11, <1>12 DEF CacheInv
<1> QED BY <1>6, <1>7, <1>8, <1>13 DEF CohInv

\* The steps of an application thread keep the invariant.
LEMMA AppStepCoh ==
  ASSUME SplitLines, TypeOK, HandoverInv, CohInv, NEW t \in Tiles, AppStep(t),
         err' = {}
  PROVE  CohInv'
<1>1. ASSUME NEW r \in Accesses, AppL1Hit(t, r) PROVE CohInv'
  <2>1. /\ L1Hit(t, r) /\ accessCache(t, r, l1[t], l2[t]) /\ Return(t, r)
        /\ lock[t] # "sim" /\ UNCHANGED <<chan, outst, dirVars>>
    BY <1>1 DEF AppL1Hit
  <2> QED BY <2>1, HitStep, AccessesType
<1>2. ASSUME NEW r \in Accesses, AppL2Hit(t, r) PROVE CohInv'
  BY <1>2, L2HitStep
<1>3. ASSUME NEW r \in Accesses, AppMiss(t, r) PROVE CohInv'
  BY <1>3, MissStep
<1>4. ASSUME AppResume(t) PROVE CohInv'
  <2> DEFINE r == app[t].acc
  <2>1. r \in Access
    BY <1>4 DEF AppResume, TypeOK, ThreadsOK, AppState
  <2>2. /\ accessCache(t, r, l1[t], l2[t]) /\ Return(t, r)
        /\ lock[t] # "sim" /\ UNCHANGED <<chan, outst, dirVars>>
    BY <1>4 DEF AppResume
  <2>3. Failure("access_num", L1Hit(t, r)) = {}
    BY <1>4 DEF AppResume, Check
  <2>4. L1Hit(t, r)
    BY <2>3 DEF Failure
  <2> QED BY <2>1, <2>2, <2>4, HitStep
<1>5. ASSUME NEW v \in Values, AppUnlock(t, v) PROVE CohInv'
  <2> DEFINE r == [app[t].acc EXCEPT !.op = "WRITE", !.sig = "NONE", !.val = v]
  <2>1. app[t].acc \in Access /\ app[t].pc = "locked"
    BY <1>5 DEF AppUnlock, TypeOK, ThreadsOK, AppState
  <2>2. r \in Access
    BY <2>1 DEF Access
  <2>3. /\ accessCache(t, r, l1[t], l2[t]) /\ Return(t, r)
        /\ UNCHANGED <<chan, outst, dirVars>>
    BY <1>5 DEF AppUnlock
  <2>4. Failure("unlock_hits", L1Hit(t, r)) = {}
    BY <1>5 DEF AppUnlock, Check
  <2>5. L1Hit(t, r)
    BY <2>4 DEF Failure
  <2>6. lock[t] # "sim"
    BY <2>1 DEF CohInv, CacheInv, AtomicInv
  <2> QED BY <2>2, <2>3, <2>5, <2>6, HitStep
<1> QED BY <1>1, <1>2, <1>3, <1>4, <1>5 DEF AppStep

-----------------------------------------------------------------------------
(* Steps of the L2 caches *)

\* A handler of the L2 cache at t takes a packet, changes the caches of t to
\* N1 and N2 and sends out.  It keeps the invariant when it does so for the
\* lines of t.
LEMMA CacheSideStep ==
  ASSUME TypeOK, CohInv, NEW s \in Tiles, NEW t \in Tiles, chan[<<s, t>>] # <<>>,
         NEW out \in SimOutgoing, Deliver(s, t, out), WellRouted(t, out),
         \A y \in Tiles, b \in Addrs : ~In(out[y], Rep(b)),
         Head(chan[<<s, t>>]) \in ShmemMsg,
         Head(chan[<<s, t>>]).type \notin {"INV_REP", "FLUSH_REP", "WB_REP"},
         NEW N1 \in L1Caches, NEW N2 \in L2Cache, TileOK(N1, N2),
         l1' = [l1 EXCEPT ![t] = N1], l2' = [l2 EXCEPT ![t] = N2],
         UNCHANGED <<latest, app, lock, queue, way, repl, work, dram>>,
         lock[t] = "free",
         \A u \in Tiles \ {t} : outst'[u] = outst[u],
         outst'[t] # None => outst'[t].addr \in Kind(outst'[t].comp),
         \A c \in Comps, b \in Addrs :
           In(chan'[<<t, t>>], FromL1(c, b)) => N1[c][b].st = "I",
         \A b \in Addrs : LinkInv(b, t)'
  PROVE  CohInv'
<1> DEFINE m == Head(chan[<<s, t>>])
<1>1. CacheInv /\ DirInv /\ TokenInv /\ NetInv /\ DataInv /\ NetworkOK
  BY DEF CohInv, TypeOK
<1>2. (\A a : EntryOf(a)' = EntryOf(a)) /\ DirInv' /\ DataInv'
  BY <1>1, DirFrame, DataFrame
<1>3. out \in Outgoing
  BY SimMsgsType
<1>4. NetInv'
  BY <1>1, <1>3, DeliverRoutes
<1>5. /\ l1'[t] = N1 /\ l2'[t] = N2
      /\ \A u \in Tiles \ {t} : l1'[u] = l1[u] /\ l2'[u] = l2[u]
  BY DEF TypeOK, CachesOK
<1>6. TokenInv'
  <2> SUFFICES ASSUME NEW b \in Addrs, NEW u \in Tiles, u # t PROVE LinkInv(b, u)'
    BY DEF TokenInv
  <2>1. ~(m \in Token(b) /\ s = u /\ t = Home[b])
    <3> SUFFICES ASSUME m \in Token(b), s = u, t = Home[b] PROVE FALSE
      OBVIOUS
    <3>1. m \in Rep(b) /\ m \in FromHome(b)
      BY DEF Token, Rep, FromHome, OfType
    <3>2. chan[<<s, t>>] \in Seq(ShmemMsg)
      BY <1>1 DEF NetworkOK
    <3>3. In(chan[<<s, t>>], FromHome(b))
      BY <3>1, <3>2, InTail
    <3> QED BY <1>1, <3>3 DEF NetInv, RouteInv
  <2>2. ASSUME NEW y \in Tiles, t = Home[b] /\ y = u PROVE ~In(out[y], Token(b))
    <3>1. ~In(out[y], Rep(b)) /\ ~In(out[y], ToHome(b))
      BY <2>2 DEF WellRouted
    <3>2. Token(b) \subseteq Rep(b) \cup ToHome(b)
      BY DEF Token, Rep, ToHome, OfType
    <3> QED BY <3>1, <3>2 DEF In
  <2>3. SameTokens(b, u)
    BY <1>1, <1>3, <2>1, <2>2, QuietDeliver
  <2> QED BY <1>1, <1>2, <1>5, <2>3, LinkFrame DEF TokenInv
<1>7. Inclusion'
  <2> SUFFICES ASSUME NEW u \in Tiles, NEW c \in Comps, NEW b \in Addrs,
                      l1'[u][c][b].st # "I"
               PROVE  l2'[u][b].st = l1'[u][c][b].st /\ l2'[u][b].loc = c
    BY DEF Inclusion
  <2>1. CASE u = t
    BY <1>5, <2>1 DEF TileOK
  <2>2. CASE u # t
    BY <1>1, <1>5, <2>2 DEF CacheInv, Inclusion
  <2> QED BY <2>1, <2>2
<1>8. CopiesAreCurrent'
  <2> SUFFICES ASSUME NEW u \in Tiles, NEW b \in Addrs
               PROVE  /\ l2'[u][b].st # "I" => l2'[u][b].val = latest'[b]
                      /\ \A c \in Comps : l1'[u][c][b].st # "I" =>
                           l1'[u][c][b].val = latest'[b]
    BY DEF CopiesAreCurrent
  <2>1. CASE u = t
    BY <1>5, <2>1 DEF TileOK
  <2>2. CASE u # t
    BY <1>1, <1>5, <2>2 DEF CacheInv, CopiesAreCurrent
  <2> QED BY <2>1, <2>2
<1>9. ASSUME NEW u \in Tiles, NEW c \in Comps, NEW a \in Addrs
      PROVE  KindInv(u, c, a)'
  <2>1. KindInv(u, c, a)
    BY <1>1 DEF CacheInv
  <2>2. In(chan'[<<u, u>>], FromL1(c, a)) => In(chan[<<u, u>>], FromL1(c, a))
    BY <1>1, DeliverFromL1
  <2>3. CASE u = t
    BY <1>5, <2>1, <2>2, <2>3 DEF KindInv, TileOK
  <2>4. CASE u # t
    BY <1>5, <2>1, <2>2, <2>4 DEF KindInv
  <2> QED BY <2>3, <2>4
<1>10. ASSUME NEW u \in Tiles PROVE AtomicInv(u)'
  <2>1. AtomicInv(u)
    BY <1>1 DEF CacheInv
  <2> QED BY <1>5, <2>1 DEF AtomicInv
<1>11. CacheInv'
  BY <1>7, <1>8, <1>9, <1>10 DEF CacheInv
<1> QED BY <1>2, <1>4, <1>6, <1>11 DEF CohInv

\* A message of an L2 cache to the home of line b.
ForHome(b, m) ==
  /\ m \in ShmemMsg /\ m.addr = b /\ m.src = "L2"
  /\ m.type \in {"INV_REP", "FLUSH_REP", "WB_REP", "EX_REQ", "SH_REQ"}
  /\ m.val \in {None, latest[b]}

\* What it is, and is not.
LEMMA ForHomeKind ==
  ASSUME NEW b, NEW m, ForHome(b, m), NEW a
  PROVE  /\ m \in SimMsg
         /\ m \notin FromHome(a) /\ m \notin Rep(a)
         /\ m \in ToHome(a) => a = b
         /\ m \in Token(a) => a = b
         /\ m \notin Stale(a, latest[a])
BY DEF ForHome, SimMsg, Comps, FromHome, Rep, ToHome, Token, Stale, OfType

\* What a handler of an L2 cache sends.
CacheSends(t, out) ==
  /\ out \in SimOutgoing /\ out \in Outgoing /\ WellRouted(t, out)
  /\ \A y \in Tiles, a \in Addrs : ~In(out[y], Rep(a))

\* Sending nothing is in order, and nothing is in it.
LEMMA SendsNothing ==
  ASSUME NEW t
  PROVE  /\ CacheSends(t, Nothing)
         /\ \A y \in Tiles : \A S : ~In(Nothing[y], S)
<1>1. \A y \in Tiles : Nothing[y] = <<>>
  BY DEF Nothing
<1>2. \A y \in Tiles : \A S : ~In(Nothing[y], S)
  BY <1>1, InSingle
<1>3. Nothing \in SimOutgoing /\ Nothing \in Outgoing
  BY SimOutgoingType, OutgoingType
<1> QED BY <1>2, <1>3 DEF CacheSends, WellRouted

\* One message for the home of a line.
LEMMA SendsOne ==
  ASSUME NEW t, NEW b \in Addrs, NEW m, ForHome(b, m)
  PROVE  /\ CacheSends(t, To(Home[b], <<m>>))
         /\ \A y \in Tiles : \A S :
              /\ In(To(Home[b], <<m>>)[y], S) <=> y = Home[b] /\ m \in S
              /\ Once(To(Home[b], <<m>>)[y], S)
<1> DEFINE out == To(Home[b], <<m>>)
<1>1. \A y \in Tiles : out[y] = IF y = Home[b] THEN <<m>> ELSE <<>>
  BY DEF To
<1>2. out \in SimOutgoing /\ out \in Outgoing
  BY ForHomeKind, SimOutgoingType, SimMsgsType
<1> HIDE DEF out
<1>3. ASSUME NEW y \in Tiles, NEW S
      PROVE  /\ In(out[y], S) <=> y = Home[b] /\ m \in S
             /\ Once(out[y], S)
  <2>1. /\ ~In(<<>>, S) /\ Once(<<>>, S)
        /\ (In(<<m>>, S) <=> m \in S) /\ Once(<<m>>, S)
    BY InSingle
  <2> QED BY <1>1, <2>1
<1>4. WellRouted(t, out)
  BY <1>3, ForHomeKind DEF WellRouted
<1>5. \A y \in Tiles, a \in Addrs : ~In(out[y], Rep(a))
  BY <1>3, ForHomeKind
<1>6. CacheSends(t, out)
  BY <1>2, <1>4, <1>5 DEF CacheSends
<1> QED BY <1>3, <1>6 DEF out

\* Two messages for the home of a line: an eviction and a request.
LEMMA SendsTwo ==
  ASSUME NEW t, NEW b \in Addrs, NEW m, NEW n, ForHome(b, m), ForHome(b, n)
  PROVE  /\ CacheSends(t, To(Home[b], <<m, n>>))
         /\ \A y \in Tiles : \A S :
              /\ In(To(Home[b], <<m, n>>)[y], S) <=>
                   y = Home[b] /\ (m \in S \/ n \in S)
              /\ m \notin S \/ n \notin S => Once(To(Home[b], <<m, n>>)[y], S)
<1> DEFINE out == To(Home[b], <<m, n>>)
<1>1. \A y \in Tiles : out[y] = IF y = Home[b] THEN <<m, n>> ELSE <<>>
  BY DEF To
<1>2. out \in SimOutgoing /\ out \in Outgoing
  BY ForHomeKind, SimOutgoingType, SimMsgsType
<1> HIDE DEF out
<1>3. ASSUME NEW y \in Tiles, NEW S
      PROVE  /\ In(out[y], S) <=> y = Home[b] /\ (m \in S \/ n \in S)
             /\ m \notin S \/ n \notin S => Once(out[y], S)
  <2>1. /\ ~In(<<>>, S) /\ Once(<<>>, S)
        /\ In(<<m, n>>, S) <=> m \in S \/ n \in S
        /\ m \notin S \/ n \notin S => Once(<<m, n>>, S)
    BY InSingle
  <2> QED BY <1>1, <2>1
<1>4. WellRouted(t, out)
  BY <1>3, ForHomeKind DEF WellRouted
<1>5. \A y \in Tiles, a \in Addrs : ~In(out[y], Rep(a))
  BY <1>3, ForHomeKind
<1>6. CacheSends(t, out)
  BY <1>2, <1>4, <1>5 DEF CacheSends
<1> QED BY <1>3, <1>6 DEF out

\* Lines that a handler does not touch.
LEMMA OtherLine ==
  ASSUME TypeOK, CohInv, NEW s \in Tiles, NEW t \in Tiles, chan[<<s, t>>] # <<>>,
         NEW out \in Outgoing, Deliver(s, t, out), NEW b \in Addrs,
         Head(chan[<<s, t>>]) \notin Token(b),
         \A y \in Tiles : ~In(out[y], Token(b)),
         l2'[t][b].st = l2[t][b].st, EntryOf(b)' = EntryOf(b)
  PROVE  LinkInv(b, t)'
<1>1. NetworkOK
  BY DEF TypeOK
<1>2. SameTokens(b, t)
  BY <1>1, QuietDeliver
<1> QED BY <1>2, LinkFrame DEF CohInv, TokenInv

\* The L1 caches after the copy of a line has been invalidated.
LEMMA InvalidateEffect ==
  ASSUME CachesOK, NEW t \in Tiles, NEW a \in Addrs, NEW d \in Comps, NEW b \in Addrs
  PROVE  InvalidateInL1(t, a)[d][b] =
           IF b = a /\ d = l2[t][a].loc THEN InvalidL1 ELSE l1[t][d][b]
<1>1. l1[t] \in L1Caches /\ l2[t][a].loc \in Comps \cup {None}
  BY DEF CachesOK, L1Caches, L2Line
<1>2. CASE l2[t][a].loc = None
  BY <1>2, NoneAssumption DEF InvalidateInL1, NoneAssumption
<1>3. CASE l2[t][a].loc # None
  <2> DEFINE loc == l2[t][a].loc
  <2>1. loc \in Comps /\ InvalidateInL1(t, a) = [l1[t] EXCEPT ![loc][a] = InvalidL1]
    BY <1>1, <1>3 DEF InvalidateInL1
  <2> HIDE DEF loc
  <2>2. InvalidateInL1(t, a)[d][b] =
          IF b = a /\ d = loc THEN InvalidL1 ELSE l1[t][d][b]
    BY <1>1, <2>1 DEF L1Caches
  <2> QED BY <2>2 DEF loc
<1> QED BY <1>2, <1>3

\* A line leaves both caches of a tile.
LEMMA ForgetLine ==
  ASSUME CachesOK, NEW t \in Tiles, NEW a \in Addrs, TileOK(l1[t], l2[t])
  PROVE  /\ TileOK(InvalidateInL1(t, a), [l2[t] EXCEPT ![a] = InvalidL2])
         /\ \A d \in Comps, b \in Addrs :
              InvalidateInL1(t, a)[d][b].st # "I" =>
                b # a /\ InvalidateInL1(t, a)[d][b] = l1[t][d][b]
<1> DEFINE N1 == InvalidateInL1(t, a)
           N2 == [l2[t] EXCEPT ![a] = InvalidL2]
<1>1. \A d \in Comps, b \in Addrs :
        N1[d][b] = IF b = a /\ d = l2[t][a].loc THEN InvalidL1 ELSE l1[t][d][b]
  BY InvalidateEffect
<1>2. \A b \in Addrs : N2[b] = IF b = a THEN InvalidL2 ELSE l2[t][b]
  BY DEF CachesOK
<1> HIDE DEF N1, N2
<1>3. \A d \in Comps, b \in Addrs : N1[d][b].st # "I" =>
        b # a /\ N1[d][b] = l1[t][d][b]
  BY <1>1 DEF TileOK, InvalidL1
<1>4. TileOK(N1, N2)
  BY <1>2, <1>3 DEF TileOK, InvalidL2
<1> QED BY <1>3, <1>4 DEF N1, N2

\* handleMsgFromL1Cache: a request of an L1 cache goes to the home, and a
\* shared copy is given up before an exclusive request.
LEMMA FromL1Step ==
  ASSUME SplitLines, TypeOK, CohInv, NEW t \in Tiles, L2RecvFromL1(t)
  PROVE  CohInv'
<1> DEFINE m == Head(chan[<<t, t>>])
           a == m.addr
           upgrade == m.type = "EX_REQ" /\ l2[t][a].st = "S"
           req == Msg(m.type, "L2", a, None)
           inv == Msg("INV_REP", "L2", a, None)
           out == To(Home[a], IF upgrade THEN <<inv, req>> ELSE <<req>>)
           N2 == IF upgrade THEN [l2[t] EXCEPT ![a] = InvalidL2] ELSE l2[t]
<1>1. /\ Receives(t, t, m) /\ m.src \in Comps /\ m.type \in {"EX_REQ", "SH_REQ"}
      /\ outst' = [outst EXCEPT ![t] = [addr |-> a, comp |-> m.src]]
      /\ l2' = IF upgrade THEN [l2 EXCEPT ![t][a] = InvalidL2] ELSE l2
      /\ Deliver(t, t, out)
      /\ UNCHANGED <<l1, latest, app, lock, queue, way, repl, work, dram>>
  BY DEF L2RecvFromL1, dirVars
<1>2. /\ chan[<<t, t>>] # <<>> /\ m \in ShmemMsg /\ a \in Addrs /\ lock[t] = "free"
  BY <1>1, ReceivesType DEF TypeOK, Receives
<1>3. CacheInv /\ TokenInv /\ NetworkOK /\ CachesOK
  BY DEF CohInv, TypeOK
<1>4. l1[t] \in L1Caches /\ l2[t] \in L2Cache
  BY <1>3 DEF CachesOK, L1Caches, L2Cache
<1>5. ForHome(a, req) /\ ForHome(a, inv)
  BY <1>1, <1>2 DEF ForHome, Msg, ShmemMsg, ControlMsg, MsgSource
<1>6. /\ req \notin Token(a) /\ inv \in Gone(a) /\ inv \notin FlushRep(a)
      /\ inv \notin WbRep(a) /\ req \notin Gone(a) /\ req \notin FlushRep(a)
      /\ req \notin WbRep(a)
  BY <1>1, <1>5 DEF ForHome, Msg, Token, Gone, FlushRep, WbRep, OfType
<1>7. \A b \in Addrs : m \notin Token(b)
  BY <1>1 DEF Token, OfType
<1>8. \A d \in Comps : l1[t][d][a].st = "I" /\ a \in Kind(m.src)
  <2>1. In(chan[<<t, t>>], FromL1(m.src, a))
    <3>1. chan[<<t, t>>] \in Seq(ShmemMsg) /\ m \in FromL1(m.src, a)
      BY <1>2, <1>3 DEF NetworkOK, FromL1
    <3> QED BY <1>2, <3>1, InTail
  <2>2. a \in Kind(m.src) /\ l1[t][m.src][a].st = "I"
    BY <1>1, <1>2, <1>3, <2>1 DEF CacheInv, KindInv
  <2>3. ASSUME NEW d \in Comps, l1[t][d][a].st # "I" PROVE FALSE
    <3>1. a \in Kind(d)
      BY <1>2, <1>3, <2>3 DEF CacheInv, KindInv
    <3>2. d = m.src
      BY <1>1, <2>2, <3>1, KindsSplit
    <3> QED BY <2>2, <2>3, <3>2
  <2> QED BY <2>2, <2>3
<1>9. \A d \in Comps, b \in Addrs :
        In(chan[<<t, t>>], FromL1(d, b)) => l1[t][d][b].st = "I"
  BY <1>3 DEF CacheInv, KindInv
<1>10. TileOK(l1[t], l2[t])
  BY <1>3, TilesOK
<1>11. \A b \in Addrs : N2[b] = IF upgrade /\ b = a THEN InvalidL2 ELSE l2[t][b]
  BY <1>2, <1>4 DEF L2Cache
<1>12. N2 \in L2Cache
  BY <1>2, <1>4, InvalidLines DEF L2Cache
<1>13. l1' = [l1 EXCEPT ![t] = l1[t]] /\ l2' = [l2 EXCEPT ![t] = N2]
  BY <1>1, <1>2, <1>3 DEF CachesOK
<1>o. /\ CacheSends(t, out)
      /\ \A y \in Tiles : \A S :
           /\ In(out[y], S) <=> y = Home[a] /\ (req \in S \/ (upgrade /\ inv \in S))
           /\ inv \notin S \/ req \notin S => Once(out[y], S)
  <2> HIDE DEF req, inv, a, upgrade
  <2>1. CASE upgrade
    <3>1. out = To(Home[a], <<inv, req>>)
      BY <2>1
    <3> HIDE DEF out
    <3>2. /\ CacheSends(t, To(Home[a], <<inv, req>>))
          /\ \A y \in Tiles : \A S :
              /\ In(To(Home[a], <<inv, req>>)[y], S) <=>
                   y = Home[a] /\ (inv \in S \/ req \in S)
              /\ inv \notin S \/ req \notin S =>
                   Once(To(Home[a], <<inv, req>>)[y], S)
      BY <1>2, <1>5, SendsTwo
    <3> QED BY <2>1, <3>1, <3>2
  <2>2. CASE ~upgrade
    <3>1. out = To(Home[a], <<req>>)
      BY <2>2
    <3> HIDE DEF out
    <3> QED BY <1>2, <1>5, <2>2, <3>1, SendsOne
  <2> QED BY <2>1, <2>2
<1>h. Home[a] \in Tiles
  BY <1>2, MSIAssumption DEF MSIAssumption
<1> HIDE DEF m, a, req, inv, out, N2
<1>14. TileOK(l1[t], N2)
  BY <1>8, <1>10, <1>11 DEF TileOK, InvalidL2
<1>15. out \in SimOutgoing /\ out \in Outgoing
  BY <1>o DEF CacheSends
<1>16. \A b : EntryOf(b)' = EntryOf(b)
  BY <1>1, DirFrame
<1>17. l2'[t] = N2
  BY <1>3, <1>13 DEF CachesOK
<1>18. ASSUME NEW b \in Addrs PROVE LinkInv(b, t)'
  <2>1. CASE b = a /\ upgrade
    <3>1. l2[t][b].st = "S" /\ l2'[t][b].st = "I"
      BY <1>2, <1>11, <1>17, <2>1 DEF InvalidL2
    <3>2. /\ In(out[Home[b]], Gone(b)) /\ Once(out[Home[b]], Gone(b))
          /\ ~In(out[Home[b]], FlushRep(b)) /\ ~In(out[Home[b]], WbRep(b))
      BY <1>6, <1>h, <1>o, <2>1
    <3>3. ~In(out[t], Rep(b))
      BY <1>o DEF CacheSends
    <3>4. LinkInv(b, t)
      BY <1>3 DEF TokenInv
    <3>5. Head(chan[<<t, t>>]) \notin Token(b)
      BY <1>7 DEF m
    <3> QED BY <1>1, <1>2, <1>3, <1>15, <1>16, <3>1, <3>2, <3>3, <3>4, <3>5,
            LinkLeaves
  <2>2. CASE ~(b = a /\ upgrade)
    <3>1. l2'[t][b].st = l2[t][b].st
      BY <1>11, <1>17, <2>2
    <3>2. req \notin Token(b) /\ ~(upgrade /\ inv \in Token(b))
      BY <1>5, <1>6, <2>2, ForHomeKind
    <3>3. \A y \in Tiles : ~In(out[y], Token(b))
      BY <1>o, <3>2
    <3>4. Head(chan[<<t, t>>]) \notin Token(b)
      BY <1>7 DEF m
    <3> QED BY <1>1, <1>2, <1>15, <1>16, <3>1, <3>3, <3>4, OtherLine
  <2> QED BY <2>1, <2>2
<1>19. \A d \in Comps, b \in Addrs :
         In(chan'[<<t, t>>], FromL1(d, b)) => l1[t][d][b].st = "I"
  BY <1>1, <1>2, <1>3, <1>9, <1>15, DeliverFromL1
<1>20. /\ \A u \in Tiles \ {t} : outst'[u] = outst[u]
       /\ outst'[t] # None => outst'[t].addr \in Kind(outst'[t].comp)
  <2>1. outst'[t] = [addr |-> a, comp |-> m.src]
    BY <1>1 DEF TypeOK, ThreadsOK
  <2> QED BY <1>1, <1>8, <2>1 DEF TypeOK, ThreadsOK
<1>21. /\ WellRouted(t, out) /\ \A y \in Tiles, b \in Addrs : ~In(out[y], Rep(b))
  BY <1>o DEF CacheSends
<1>22. /\ Head(chan[<<t, t>>]) \in ShmemMsg
       /\ Head(chan[<<t, t>>]).type \notin {"INV_REP", "FLUSH_REP", "WB_REP"}
  BY <1>1, <1>2 DEF m
<1> QED BY <1>1, <1>2, <1>4, <1>12, <1>13, <1>14, <1>15, <1>18, <1>19, <1>20,
         <1>21, <1>22, CacheSideStep

\* What a tile waits for is of the kind of the cache that asked.
LEMMA OutstKind ==
  ASSUME TypeOK, CacheInv, NEW t \in Tiles, outst[t] # None
  PROVE  /\ outst[t].addr \in Addrs /\ outst[t].comp \in Comps
         /\ outst[t].addr \in Kind(outst[t].comp)
<1>1. outst[t].addr \in Addrs /\ outst[t].comp \in Comps
  BY DEF TypeOK, ThreadsOK
<1> QED BY <1>1 DEF CacheInv, KindInv

\* A packet that the L2 cache drops.
LEMMA DropStep ==
  ASSUME TypeOK, CohInv, NEW s \in Tiles, NEW t \in Tiles, NEW m, Receives(s, t, m),
         m.type \in {"INV_REQ", "FLUSH_REQ", "WB_REQ"}, Deliver(s, t, Nothing),
         UNCHANGED <<cacheVars, syncVars, dirVars>>
  PROVE  CohInv'
<1>1. /\ chan[<<s, t>>] # <<>> /\ m = Head(chan[<<s, t>>]) /\ m \in ShmemMsg
      /\ lock[t] = "free"
  BY ReceivesType DEF TypeOK, Receives
<1>2. UNCHANGED <<l1, l2, latest, app, lock, outst, queue, way, repl, work, dram>>
  BY DEF cacheVars, syncVars, dirVars
<1>3. CacheInv /\ NetworkOK /\ CachesOK
  BY DEF CohInv, TypeOK
<1>4. l1[t] \in L1Caches /\ l2[t] \in L2Cache /\ TileOK(l1[t], l2[t])
  BY <1>3, TilesOK DEF CachesOK, L1Caches, L2Cache
<1>5. l1' = [l1 EXCEPT ![t] = l1[t]] /\ l2' = [l2 EXCEPT ![t] = l2[t]]
  BY <1>2, <1>3 DEF CachesOK
<1>6. /\ Nothing \in SimOutgoing /\ Nothing \in Outgoing /\ WellRouted(t, Nothing)
      /\ \A y \in Tiles : \A S : ~In(Nothing[y], S)
  BY SendsNothing DEF CacheSends
<1>7. \A b : EntryOf(b)' = EntryOf(b)
  BY <1>2, DirFrame
<1>8. ASSUME NEW b \in Addrs PROVE LinkInv(b, t)'
  <2>1. Head(chan[<<s, t>>]) \notin Token(b)
    BY <1>1 DEF Token, OfType
  <2> QED BY <1>1, <1>2, <1>6, <1>7, <2>1, OtherLine
<1>9. \A d \in Comps, b \in Addrs :
        In(chan'[<<t, t>>], FromL1(d, b)) => l1[t][d][b].st = "I"
  BY <1>1, <1>3, <1>6, DeliverFromL1 DEF CacheInv, KindInv
<1>10. /\ \A u \in Tiles \ {t} : outst'[u] = outst[u]
       /\ outst'[t] # None => outst'[t].addr \in Kind(outst'[t].comp)
  BY <1>2, <1>3, OutstKind
<1> QED BY <1>1, <1>2, <1>4, <1>5, <1>6, <1>8, <1>9, <1>10, CacheSideStep

\* A tile gives up a line that the directory asks for.
LEMMA RecallStep ==
  ASSUME TypeOK, CohInv, NEW s \in Tiles, NEW t \in Tiles, NEW m, Receives(s, t, m),
         m.type \in {"INV_REQ", "FLUSH_REQ"}, NEW a \in Addrs, a = m.addr, NEW n,
         ForHome(a, n), n \in Gone(a), n \in FlushRep(a) <=> l2[t][a].st = "M",
         n \notin WbRep(a), l2[t][a].st # "I",
         l1' = [l1 EXCEPT ![t] = InvalidateInL1(t, a)],
         l2' = [l2 EXCEPT ![t][a] = InvalidL2],
         Deliver(s, t, To(s, <<n>>)), UNCHANGED <<latest, syncVars, dirVars>>
  PROVE  CohInv'
<1> DEFINE N1 == InvalidateInL1(t, a)
           N2 == [l2[t] EXCEPT ![a] = InvalidL2]
           out == To(Home[a], <<n>>)
<1>1. /\ chan[<<s, t>>] # <<>> /\ m = Head(chan[<<s, t>>]) /\ m \in ShmemMsg
      /\ lock[t] = "free"
  BY ReceivesType DEF TypeOK, Receives
<1>2. UNCHANGED <<latest, app, lock, outst, queue, way, repl, work, dram>>
  BY DEF syncVars, dirVars
<1>3. CacheInv /\ TokenInv /\ NetInv /\ NetworkOK /\ CachesOK
  BY DEF CohInv, TypeOK
<1>4. s = Home[a] /\ Home[a] \in Tiles
  BY <1>3, HeadRouted
<1>5. l1[t] \in L1Caches /\ l2[t] \in L2Cache /\ TileOK(l1[t], l2[t])
  BY <1>3, TilesOK DEF CachesOK, L1Caches, L2Cache
<1>6. N1 \in L1Caches /\ N2 \in L2Cache
  BY <1>3, <1>5, InvalidLines, InvalidateInL1Type DEF L2Cache
<1>7. /\ TileOK(N1, N2)
      /\ \A d \in Comps, b \in Addrs : N1[d][b].st # "I" =>
           b # a /\ N1[d][b] = l1[t][d][b]
  BY <1>3, <1>5, ForgetLine
<1>8. /\ l1' = [l1 EXCEPT ![t] = N1] /\ l2' = [l2 EXCEPT ![t] = N2]
      /\ \A b \in Addrs : l2'[t][b] = IF b = a THEN InvalidL2 ELSE l2[t][b]
  BY <1>3, <1>5 DEF CachesOK, L2Cache
<1>9. /\ CacheSends(t, out)
      /\ \A y \in Tiles : \A S : /\ In(out[y], S) <=> y = Home[a] /\ n \in S
                                 /\ Once(out[y], S)
  BY SendsOne
<1>10. Deliver(s, t, out)
  BY <1>4
<1> HIDE DEF N1, N2, out
<1>11. /\ out \in SimOutgoing /\ out \in Outgoing /\ WellRouted(t, out)
       /\ \A y \in Tiles, b \in Addrs : ~In(out[y], Rep(b))
  BY <1>9 DEF CacheSends
<1>12. \A b : EntryOf(b)' = EntryOf(b)
  BY <1>2, DirFrame
<1>13. ASSUME NEW b \in Addrs PROVE LinkInv(b, t)'
  <2>1. Head(chan[<<s, t>>]) \notin Token(b)
    BY <1>1 DEF Token, OfType
  <2>2. CASE b = a
    <3>1. l2'[t][b].st = "I" /\ l2[t][b].st # "I"
      BY <1>8, <2>2 DEF InvalidL2
    <3>2. /\ In(out[Home[b]], Gone(b)) /\ Once(out[Home[b]], Gone(b))
          /\ In(out[Home[b]], FlushRep(b)) <=> l2[t][b].st = "M"
          /\ ~In(out[Home[b]], WbRep(b))
      BY <1>4, <1>9, <2>2
    <3>3. LinkInv(b, t) /\ ~In(out[t], Rep(b))
      BY <1>3, <1>11 DEF TokenInv
    <3> QED BY <1>1, <1>3, <1>10, <1>11, <1>12, <2>1, <3>1, <3>2, <3>3, LinkLeaves
  <2>3. CASE b # a
    <3>1. l2'[t][b].st = l2[t][b].st
      BY <1>8, <2>3
    <3>2. n \notin Token(b)
      BY <2>3, ForHomeKind
    <3>3. \A y \in Tiles : ~In(out[y], Token(b))
      BY <1>9, <3>2
    <3> QED BY <1>1, <1>10, <1>11, <1>12, <2>1, <3>1, <3>3, OtherLine
  <2> QED BY <2>2, <2>3
<1>14. \A d \in Comps, b \in Addrs :
        In(chan'[<<t, t>>], FromL1(d, b)) => N1[d][b].st = "I"
  <2>1. \A d \in Comps, b \in Addrs :
          In(chan'[<<t, t>>], FromL1(d, b)) => l1[t][d][b].st = "I"
    BY <1>1, <1>3, <1>10, <1>11, DeliverFromL1 DEF CacheInv, KindInv
  <2> QED BY <1>7, <2>1
<1>15. /\ \A u \in Tiles \ {t} : outst'[u] = outst[u]
       /\ outst'[t] # None => outst'[t].addr \in Kind(outst'[t].comp)
  BY <1>2, <1>3, OutstKind
<1> QED BY <1>1, <1>2, <1>6, <1>7, <1>8, <1>10, <1>11, <1>13, <1>14, <1>15,
         CacheSideStep

\* A modified line is written back and stays, shared, in both caches.
LEMMA WriteBackStep ==
  ASSUME TypeOK, CohInv, NEW s \in Tiles, NEW t \in Tiles, NEW m, Receives(s, t, m),
         m.type = "WB_REQ", NEW a \in Addrs, a = m.addr, NEW n,
         ForHome(a, n), n \in WbRep(a), l2[t][a].st = "M",
         l1' = IF l2[t][a].loc = None THEN l1
               ELSE [l1 EXCEPT ![t][l2[t][a].loc][a].st = "S"],
         l2' = [l2 EXCEPT ![t][a].st = "S"],
         l2[t][a].loc # None => l1[t][l2[t][a].loc][a].st # "I",
         Deliver(s, t, To(s, <<n>>)), UNCHANGED <<latest, syncVars, dirVars>>
  PROVE  CohInv'
<1> DEFINE loc == l2[t][a].loc
           N1 == IF loc = None THEN l1[t] ELSE [l1[t] EXCEPT ![loc][a].st = "S"]
           N2 == [l2[t] EXCEPT ![a].st = "S"]
           out == To(Home[a], <<n>>)
<1>1. /\ chan[<<s, t>>] # <<>> /\ m = Head(chan[<<s, t>>]) /\ m \in ShmemMsg
      /\ lock[t] = "free"
  BY ReceivesType DEF TypeOK, Receives
<1>2. UNCHANGED <<latest, app, lock, outst, queue, way, repl, work, dram>>
  BY DEF syncVars, dirVars
<1>3. CacheInv /\ TokenInv /\ NetInv /\ NetworkOK /\ CachesOK
  BY DEF CohInv, TypeOK
<1>w. m.type \in {"EX_REP", "SH_REP", "INV_REQ", "FLUSH_REQ", "WB_REQ"}
  OBVIOUS
<1>4. s = Home[a] /\ Home[a] \in Tiles
  <2>1. s = Home[m.addr]
    BY <1>3, <1>w, HeadRouted
  <2> QED BY <2>1
<1>5. l1[t] \in L1Caches /\ l2[t] \in L2Cache /\ TileOK(l1[t], l2[t])
  BY <1>3, TilesOK DEF CachesOK, L1Caches, L2Cache
<1>l. loc \in Comps \cup {None} /\ l2[t][a] \in L2Line
  BY <1>5 DEF L2Cache, L2Line
<1>6. N2 \in L2Cache /\ \A b \in Addrs :
        /\ N2[b].st = IF b = a THEN "S" ELSE l2[t][b].st
        /\ N2[b].loc = l2[t][b].loc /\ N2[b].val = l2[t][b].val
  <2> DEFINE line == [l2[t][a] EXCEPT !.st = "S"]
  <2>1. /\ line \in L2Line /\ line.st = "S" /\ line.loc = l2[t][a].loc
        /\ line.val = l2[t][a].val
    BY <1>l DEF L2Line
  <2> HIDE DEF line
  <2>2. N2 = [l2[t] EXCEPT ![a] = line]
    BY <1>5 DEF L2Cache, line
  <2> HIDE DEF N2
  <2>3. N2 \in L2Cache
    BY <1>5, <2>1, <2>2 DEF L2Cache
  <2>4. \A b \in Addrs : N2[b] = IF b = a THEN line ELSE l2[t][b]
    BY <1>5, <2>2 DEF L2Cache
  <2> QED BY <2>1, <2>3, <2>4
<1>7. N1 \in L1Caches /\ \A d \in Comps, b \in Addrs :
        /\ N1[d][b].st = IF d = loc /\ b = a THEN "S" ELSE l1[t][d][b].st
        /\ N1[d][b].val = l1[t][d][b].val
  <2>1. CASE loc = None
    BY <1>5, <2>1, NoneAssumption DEF NoneAssumption
  <2>2. CASE loc # None
    <3> HIDE DEF loc
    <3> DEFINE line == [l1[t][loc][a] EXCEPT !.st = "S"]
    <3>1. loc \in Comps /\ l1[t][loc][a] \in L1Line
      BY <1>5, <1>l, <2>2 DEF L1Caches
    <3>2. line \in L1Line /\ line.st = "S" /\ line.val = l1[t][loc][a].val
      BY <3>1 DEF L1Line, CState
    <3> HIDE DEF line
    <3>3. N1 = [l1[t] EXCEPT ![loc][a] = line]
      BY <1>5, <2>2 DEF line
    <3> HIDE DEF N1
    <3>4. N1 \in L1Caches
      BY <1>5, <3>1, <3>2, <3>3 DEF L1Caches
    <3>5. \A d \in Comps, b \in Addrs :
            N1[d][b] = IF d = loc /\ b = a THEN line ELSE l1[t][d][b]
      BY <1>5, <3>1, <3>3 DEF L1Caches
    <3> QED BY <3>2, <3>4, <3>5
  <2> QED BY <2>1, <2>2
<1>8. l1' = [l1 EXCEPT ![t] = N1] /\ l2' = [l2 EXCEPT ![t] = N2] /\ l2'[t] = N2
  BY <1>3 DEF CachesOK
<1>k. \A d \in Comps : d = loc => l1[t][d][a].st # "I"
  BY <1>l, NoneAssumption DEF NoneAssumption
<1>9. /\ CacheSends(t, out)
      /\ \A y \in Tiles : \A S : /\ In(out[y], S) <=> y = Home[a] /\ n \in S
                                 /\ Once(out[y], S)
  BY SendsOne
<1>10. Deliver(s, t, out)
  BY <1>4
<1> HIDE DEF N1, N2, out, loc
<1>11. /\ out \in SimOutgoing /\ out \in Outgoing /\ WellRouted(t, out)
       /\ \A y \in Tiles, b \in Addrs : ~In(out[y], Rep(b))
  BY <1>9 DEF CacheSends
<1>12. \A b : EntryOf(b)' = EntryOf(b)
  BY <1>2, DirFrame
<1>t. TileOK(N1, N2)
  <2>1. ASSUME NEW d \in Comps, NEW b \in Addrs, N1[d][b].st # "I"
        PROVE  /\ N2[b].st = N1[d][b].st /\ N2[b].loc = d
               /\ N1[d][b].val = latest[b] /\ b \in Kind(d)
    <3>1. l1[t][d][b].st # "I"
      BY <1>7, <1>k, <2>1
    <3>2. /\ l2[t][b].st = l1[t][d][b].st /\ l2[t][b].loc = d
          /\ l1[t][d][b].val = latest[b] /\ b \in Kind(d)
      BY <1>5, <3>1 DEF TileOK
    <3>3. b = a => d = loc
      BY <3>2 DEF loc
    <3> QED BY <1>6, <1>7, <3>2, <3>3
  <2>2. \A b \in Addrs : N2[b].st # "I" => N2[b].val = latest[b]
    <3> SUFFICES ASSUME NEW b \in Addrs, N2[b].st # "I" PROVE N2[b].val = latest[b]
      OBVIOUS
    <3>1. l2[t][b].st # "I" /\ N2[b].val = l2[t][b].val
      BY <1>6
    <3> QED BY <1>5, <3>1 DEF TileOK
  <2> QED BY <2>1, <2>2 DEF TileOK
<1>13. ASSUME NEW b \in Addrs PROVE LinkInv(b, t)'
  <2>1. Head(chan[<<s, t>>]) \notin Token(b)
    BY <1>1 DEF Token, OfType
  <2>2. CASE b = a
    <3>1. l2'[t][b].st = "S" /\ l2[t][b].st = "M"
      BY <1>6, <1>8, <2>2
    <3>2. n \notin Gone(b)
      BY <2>2 DEF Gone, WbRep, OfType
    <3>3. /\ In(out[Home[b]], WbRep(b)) /\ Once(out[Home[b]], WbRep(b))
          /\ ~In(out[Home[b]], Gone(b))
      BY <1>4, <1>9, <2>2, <3>2
    <3>4. LinkInv(b, t) /\ ~In(out[t], Rep(b))
      BY <1>3, <1>11 DEF TokenInv
    <3> QED BY <1>1, <1>3, <1>10, <1>11, <1>12, <2>1, <3>1, <3>3, <3>4,
            LinkDowngrades
  <2>3. CASE b # a
    <3>1. l2'[t][b].st = l2[t][b].st
      BY <1>6, <1>8, <2>3
    <3>2. n \notin Token(b)
      BY <2>3, ForHomeKind
    <3>3. \A y \in Tiles : ~In(out[y], Token(b))
      BY <1>9, <3>2
    <3> QED BY <1>1, <1>10, <1>11, <1>12, <2>1, <3>1, <3>3, OtherLine
  <2> QED BY <2>2, <2>3
<1>14. \A d \in Comps, b \in Addrs :
        In(chan'[<<t, t>>], FromL1(d, b)) => N1[d][b].st = "I"
  <2>1. \A d \in Comps, b \in Addrs :
          In(chan'[<<t, t>>], FromL1(d, b)) => l1[t][d][b].st = "I"
    BY <1>1, <1>3, <1>10, <1>11, DeliverFromL1 DEF CacheInv, KindInv
  <2>2. \A d \in Comps, b \in Addrs : l1[t][d][b].st = "I" => N1[d][b].st = "I"
    BY <1>7, <1>k
  <2> QED BY <2>1, <2>2
<1>15. /\ \A u \in Tiles \ {t} : outst'[u] = outst[u]
       /\ outst'[t] # None => outst'[t].addr \in Kind(outst'[t].comp)
  BY <1>2, <1>3, OutstKind
<1> QED BY <1>1, <1>2, <1>6, <1>7, <1>8, <1>10, <1>11, <1>t, <1>13, <1>14, <1>15,
         CacheSideStep

\* What an evicted line leaves for its home.
LEMMA EvictionLeaves ==
  ASSUME TypeOK, CacheInv, NEW t \in Tiles, NEW e \in Addrs, l2[t][e].st # "I",
         NEW n, n = EvictionMsg(e, l2[t][e])
  PROVE  /\ ForHome(e, n) /\ n \in Gone(e) /\ n \notin WbRep(e)
         /\ n \in FlushRep(e) <=> l2[t][e].st = "M"
<1>1. l2[t][e] \in L2Line /\ l2[t][e].val \in Values
  <2>1. l2[t][e] \in L2Line
    BY DEF TypeOK, CachesOK
  <2> QED BY <2>1 DEF L2Line
<1>2. l2[t][e].val = latest[e]
  BY DEF CacheInv, CopiesAreCurrent
<1>3. CASE l2[t][e].st = "M"
  <2>1. n = [type |-> "FLUSH_REP", src |-> "L2", addr |-> e, val |-> l2[t][e].val]
    BY <1>3 DEF EvictionMsg, DataReply, Msg
  <2> QED BY <1>1, <1>2, <1>3, <2>1
          DEF ForHome, Gone, WbRep, FlushRep, OfType, ShmemMsg, DataMsg, MsgSource
<1>4. CASE l2[t][e].st # "M"
  <2>1. n = [type |-> "INV_REP", src |-> "L2", addr |-> e, val |-> None]
    BY <1>4 DEF EvictionMsg, Msg
  <2> QED BY <1>4, <2>1
          DEF ForHome, Gone, WbRep, FlushRep, OfType, ShmemMsg, ControlMsg, MsgSource
<1> QED BY <1>3, <1>4

\* The caches of t after insertCacheLineInHierarchy has put the line a into
\* them, evicting e from L2 and e1 from the L1 cache c.
Filled(t, a, c, new, e, e1, N1, N2) ==
  /\ N1 \in L1Caches /\ N2 \in L2Cache /\ TileOK(N1, N2)
  /\ \A b \in Addrs : N2[b].st = IF b = a THEN new.st
                                 ELSE IF b = e THEN "I" ELSE l2[t][b].st

\* Filled is what a fill with its two evictions does.
LEMMA FillEffect ==
  ASSUME SplitLines, TypeOK, CacheInv, NEW t \in Tiles, NEW a \in Addrs,
         NEW c \in Comps, a \in Kind(c), l2[t][a].st = "I",
         NEW new \in L2Line, new.loc = c, new.st # "I", new.val = latest[a],
         NEW e \in Victims(l2[t], L2Ways), NEW M1,
         M1 = IF e = None THEN l1[t] ELSE InvalidateInL1(t, e),
         NEW e1 \in Victims(M1[c], L1Ways)
  PROVE  Filled(t, a, c, new, e, e1, L1After(M1, c, a, new, e1),
                ClearCachedLoc(Insert(l2[t], a, new, e, InvalidL2), e1))
<1> DEFINE N1 == L1After(M1, c, a, new, e1)
           M2 == Insert(l2[t], a, new, e, InvalidL2)
           N2 == ClearCachedLoc(M2, e1)
<1>1. CachesOK /\ l1[t] \in L1Caches /\ l2[t] \in L2Cache /\ TileOK(l1[t], l2[t])
  BY TilesOK DEF TypeOK, CachesOK, L1Caches, L2Cache
<1>2. /\ e # None => e \in Addrs /\ l2[t][e].st # "I" /\ e # a
      /\ \A b \in Addrs : b # None
  BY VictimsValid, MSIAssumption DEF MSIAssumption
<1>3. M1 \in L1Caches
  BY <1>1, <1>2, InvalidateInL1Type
<1>4. \A d \in Comps, b \in Addrs : M1[d][b].st # "I" =>
        b # e /\ M1[d][b] = l1[t][d][b]
  <2>1. CASE e = None
    BY <1>2, <2>1
  <2>2. CASE e # None
    <3>1. \A d \in Comps, b \in Addrs : InvalidateInL1(t, e)[d][b].st # "I" =>
            b # e /\ InvalidateInL1(t, e)[d][b] = l1[t][d][b]
      BY <1>1, <1>2, <2>2, ForgetLine
    <3> QED BY <2>2, <3>1
  <2> QED BY <2>1, <2>2
<1>5. \A d \in Comps : l1[t][d][a].st = "I"
  BY <1>1 DEF TileOK
<1>6. e1 # None =>
        /\ e1 \in Addrs /\ e1 # a /\ e1 # e /\ l1[t][c][e1].st # "I"
        /\ l2[t][e1].loc = c
  <2> SUFFICES ASSUME e1 # None
               PROVE  /\ e1 \in Addrs /\ e1 # a /\ e1 # e /\ l1[t][c][e1].st # "I"
                      /\ l2[t][e1].loc = c
    OBVIOUS
  <2>1. e1 \in Addrs /\ M1[c][e1].st # "I"
    BY VictimsValid
  <2>2. e1 # e /\ l1[t][c][e1].st # "I"
    BY <1>4, <2>1
  <2> QED BY <1>1, <1>5, <2>1, <2>2 DEF TileOK
<1>7. N1 \in L1Caches
  BY <1>3, L1AfterType
<1>8. M2 \in L2Cache
  BY <1>1, InvalidLines DEF Insert, L2Cache
<1>9. N2 \in L2Cache
  BY <1>8, ClearCachedLocType
<1>10. \A d \in Comps, b \in Addrs :
         N1[d][b] = IF d # c THEN M1[d][b]
                    ELSE IF b = a THEN [st |-> new.st, val |-> new.val]
                    ELSE IF b = e1 THEN InvalidL1 ELSE M1[d][b]
  BY <1>3, L1AfterEffect
<1>11. \A b \in Addrs : M2[b] = IF b = a THEN new
                                ELSE IF b = e THEN InvalidL2 ELSE l2[t][b]
  BY DEF Insert
<1> HIDE DEF N1, M2
<1>12. \A b \in Addrs :
         /\ N2[b].st = M2[b].st /\ N2[b].val = M2[b].val
         /\ b # e1 => N2[b].loc = M2[b].loc
  <2> SUFFICES ASSUME NEW b \in Addrs
               PROVE  /\ N2[b].st = M2[b].st /\ N2[b].val = M2[b].val
                      /\ b # e1 => N2[b].loc = M2[b].loc
    OBVIOUS
  <2>1. M2[b] \in L2Line
    BY <1>8 DEF L2Cache
  <2>2. N2[b] = IF b = e1 THEN [M2[b] EXCEPT !.loc = None] ELSE M2[b]
    BY DEF ClearCachedLoc
  <2> QED BY <2>1, <2>2 DEF L2Line
<1> HIDE DEF N2
<1>13. \A b \in Addrs : N2[b].st = IF b = a THEN new.st
                                   ELSE IF b = e THEN "I" ELSE l2[t][b].st
  BY <1>11, <1>12 DEF InvalidL2
<1>14. ASSUME NEW d \in Comps, NEW b \in Addrs, N1[d][b].st # "I"
       PROVE  /\ N2[b].st = N1[d][b].st /\ N2[b].loc = d
              /\ N1[d][b].val = latest[b] /\ b \in Kind(d)
  <2>1. CASE d = c /\ b = a
    <3>1. N1[d][b].st = new.st /\ N1[d][b].val = new.val
      BY <1>10, <2>1
    <3>2. a # e1
      BY <1>2, <1>6
    <3>3. N2[a].st = new.st /\ N2[a].loc = c
      BY <1>11, <1>12, <3>2
    <3> QED BY <2>1, <3>1, <3>3
  <2>2. CASE ~(d = c /\ b = a)
    <3>1. ~(d = c /\ b = e1) /\ N1[d][b] = M1[d][b]
      BY <1>10, <1>14, <2>2 DEF InvalidL1
    <3>2. b # e /\ M1[d][b] = l1[t][d][b] /\ l1[t][d][b].st # "I"
      BY <1>4, <1>14, <3>1
    <3>3. /\ l2[t][b].st = l1[t][d][b].st /\ l2[t][b].loc = d
          /\ l1[t][d][b].val = latest[b] /\ b \in Kind(d)
      BY <1>1, <3>2 DEF TileOK
    <3>4. b # a
      BY <1>5, <3>2
    <3>5. b # e1
      BY <1>2, <1>6, <3>1, <3>3
    <3>6. N2[b].st = l2[t][b].st /\ N2[b].loc = l2[t][b].loc
      BY <1>11, <1>12, <3>2, <3>4, <3>5
    <3> QED BY <3>1, <3>2, <3>3, <3>6
  <2> QED BY <2>1, <2>2
<1>15. \A b \in Addrs : N2[b].st # "I" => N2[b].val = latest[b]
  <2> SUFFICES ASSUME NEW b \in Addrs, N2[b].st # "I" PROVE N2[b].val = latest[b]
    OBVIOUS
  <2>1. CASE b = a
    BY <1>11, <1>12, <2>1
  <2>2. CASE b # a
    <3>1. b # e /\ l2[t][b].st # "I"
      BY <1>13, <2>2
    <3>2. N2[b].val = l2[t][b].val
      BY <1>11, <1>12, <2>2, <3>1
    <3> QED BY <1>1, <3>1, <3>2 DEF TileOK
  <2> QED BY <2>1, <2>2
<1>16. TileOK(N1, N2)
  BY <1>14, <1>15 DEF TileOK
<1>17. Filled(t, a, c, new, e, e1, N1, N2)
  BY <1>7, <1>9, <1>13, <1>16 DEF Filled
<1> QED BY <1>17 DEF N1, N2, M2

\* processExRepFromDramDirectory, processShRepFromDramDirectory.
LEMMA FillStep ==
  ASSUME SplitLines, TypeOK, HandoverInv, CohInv, NEW s \in Tiles, NEW t \in Tiles,
         NEW m, Receives(s, t, m), m.type \in {"EX_REP", "SH_REP"},
         NEW a \in Addrs, a = m.addr, outst[t] # None, outst[t].addr = a,
         NEW c, c = outst[t].comp, NEW new,
         new = [st |-> IF m.type = "EX_REP" THEN "M" ELSE "S", loc |-> c,
                val |-> m.val],
         InsertInHierarchy(s, t, a, c, new), outst' = [outst EXCEPT ![t] = None],
         UNCHANGED <<latest, app, lock, dirVars>>
  PROVE  CohInv'
<1>1. /\ chan[<<s, t>>] # <<>> /\ m = Head(chan[<<s, t>>]) /\ m \in ShmemMsg
      /\ lock[t] = "free"
  BY ReceivesType DEF TypeOK, Receives
<1>2. UNCHANGED <<latest, app, lock, queue, way, repl, work, dram>>
  BY DEF dirVars
<1>3. CacheInv /\ TokenInv /\ NetInv /\ NetworkOK /\ CachesOK
  BY DEF CohInv, TypeOK
<1>4. s = Home[a] /\ Home[a] \in Tiles /\ m.val \in {None, latest[a]}
  BY <1>3, HeadRouted
<1>5. c \in Comps /\ a \in Kind(c)
  BY <1>3, OutstKind
<1>6. m.val \in Values /\ m.val = latest[a]
  <2>1. m.val \in Values
    BY <1>1 DEF ShmemMsg, DataMsg, ControlMsg
  <2> QED BY <1>4, <2>1, MSIAssumption DEF MSIAssumption
<1>7. /\ new \in L2Line /\ new.loc = c /\ new.st # "I" /\ new.val = latest[a]
      /\ new.st = IF m.type = "EX_REP" THEN "M" ELSE "S"
  BY <1>5, <1>6 DEF L2Line
<1>8. m \in Rep(a)
  BY <1>1 DEF Rep, OfType
<1>9. l2[t][a].st = "I" /\ LinkInv(a, t)
  <2>1. chan[<<s, t>>] \in Seq(ShmemMsg)
    BY <1>3 DEF NetworkOK
  <2>2. Granted(a, t)
    BY <1>1, <1>4, <1>8, <2>1, InTail DEF Granted, Down
  <2>3. LinkInv(a, t)
    BY <1>3 DEF TokenInv
  <2> QED BY <2>2, <2>3 DEF LinkInv
<1> DEFINE M1(e) == IF e = None THEN l1[t] ELSE InvalidateInL1(t, e)
           M2(e) == Insert(l2[t], a, new, e, InvalidL2)
           out(e) == IF e = None THEN Nothing
                     ELSE To(Home[e], <<EvictionMsg(e, l2[t][e])>>)
<1>10. PICK e \in Victims(l2[t], L2Ways) :
         \E e1 \in Victims(M1(e)[c], L1Ways) :
           /\ l1' = [l1 EXCEPT ![t] = L1After(M1(e), c, a, new, e1)]
           /\ l2' = [l2 EXCEPT ![t] = ClearCachedLoc(M2(e), e1)]
           /\ Deliver(s, t, out(e))
  BY DEF InsertInHierarchy
<1>11. PICK e1 \in Victims(M1(e)[c], L1Ways) :
         /\ l1' = [l1 EXCEPT ![t] = L1After(M1(e), c, a, new, e1)]
         /\ l2' = [l2 EXCEPT ![t] = ClearCachedLoc(M2(e), e1)]
         /\ Deliver(s, t, out(e))
  BY <1>10
<1> DEFINE N1 == L1After(M1(e), c, a, new, e1)
           N2 == ClearCachedLoc(M2(e), e1)
           o == out(e)
           n == EvictionMsg(e, l2[t][e])
<1>12. Filled(t, a, c, new, e, e1, N1, N2)
  <2> HIDE DEF N1, N2
  <2>1. M1(e) = IF e = None THEN l1[t] ELSE InvalidateInL1(t, e)
    OBVIOUS
  <2> HIDE DEF M1
  <2> QED BY <1>3, <1>5, <1>7, <1>9, <2>1, FillEffect DEF N1, N2
<1>13. /\ l1' = [l1 EXCEPT ![t] = N1] /\ l2' = [l2 EXCEPT ![t] = N2]
       /\ l2'[t] = N2 /\ Deliver(s, t, o)
  BY <1>3, <1>11 DEF CachesOK
<1>14. e # None => e \in Addrs /\ l2[t][e].st # "I" /\ e # a
  BY <1>9, VictimsValid
<1>15. e # None => /\ ForHome(e, n) /\ n \in Gone(e) /\ n \notin WbRep(e)
                   /\ n \in FlushRep(e) <=> l2[t][e].st = "M"
  <2> HIDE DEF n
  <2> QED BY <1>3, <1>14, EvictionLeaves DEF n
<1>16. /\ CacheSends(t, o)
       /\ \A y \in Tiles : \A S :
            /\ In(o[y], S) <=> e # None /\ y = Home[e] /\ n \in S
            /\ e # None => Once(o[y], S)
  <2> HIDE DEF n
  <2>1. CASE e = None
    <3>1. o = Nothing
      BY <2>1
    <3> HIDE DEF o
    <3> QED BY <2>1, <3>1, SendsNothing
  <2>2. CASE e # None
    <3>1. o = To(Home[e], <<n>>)
      BY <2>2 DEF n
    <3> HIDE DEF o
    <3>2. /\ CacheSends(t, To(Home[e], <<n>>))
          /\ \A y \in Tiles : \A S :
               /\ In(To(Home[e], <<n>>)[y], S) <=> y = Home[e] /\ n \in S
               /\ Once(To(Home[e], <<n>>)[y], S)
      BY <1>14, <1>15, <2>2, SendsOne
    <3> QED BY <2>2, <3>1, <3>2
  <2> QED BY <2>1, <2>2
<1> HIDE DEF N1, N2, o, n, M1, M2, out
<1>17. /\ o \in SimOutgoing /\ o \in Outgoing /\ WellRouted(t, o)
       /\ \A y \in Tiles, b \in Addrs : ~In(o[y], Rep(b))
  BY <1>16 DEF CacheSends
<1>18. \A b : EntryOf(b)' = EntryOf(b)
  BY <1>2, DirFrame
<1>19. /\ N1 \in L1Caches /\ N2 \in L2Cache /\ TileOK(N1, N2)
       /\ \A b \in Addrs : l2'[t][b].st = IF b = a THEN new.st
                                          ELSE IF b = e THEN "I" ELSE l2[t][b].st
  BY <1>12, <1>13 DEF Filled
<1>20. ASSUME NEW b \in Addrs PROVE LinkInv(b, t)'
  <2>1. CASE b = a
    <3>1. \A y \in Tiles : ~In(o[y], Token(a))
      BY <1>14, <1>15, <1>16, ForHomeKind
    <3>2. l2'[t][a].st = IF m.type = "EX_REP" THEN "M" ELSE "S"
      BY <1>7, <1>19
    <3>3. EntryOf(a)' = EntryOf(a)
      BY <1>18
    <3>4. chan[<<Home[a], t>>] # <<>> /\ m = Head(chan[<<Home[a], t>>])
      BY <1>1, <1>4
    <3>5. Deliver(Home[a], t, o)
      BY <1>4, <1>13
    <3>6. LinkInv(a, t)'
      BY <1>3, <1>8, <1>9, <1>17, <3>1, <3>2, <3>3, <3>4, <3>5, LinkFills
    <3> QED BY <2>1, <3>6
  <2>2. CASE b # a
    <3>1. Head(chan[<<s, t>>]) \notin Token(b)
      BY <1>1, <2>2 DEF Token, OfType
    <3>2. CASE b = e
      <4>1. e # None /\ Home[e] \in Tiles
        BY <3>2, MSIAssumption DEF MSIAssumption
      <4>2. l2'[t][b].st = "I" /\ l2[t][b].st # "I"
        BY <1>14, <1>19, <2>2, <3>2, <4>1
      <4>3. /\ In(o[Home[b]], Gone(b)) /\ Once(o[Home[b]], Gone(b))
            /\ In(o[Home[b]], FlushRep(b)) <=> l2[t][b].st = "M"
            /\ ~In(o[Home[b]], WbRep(b))
        BY <1>15, <1>16, <3>2, <4>1
      <4>4. LinkInv(b, t) /\ ~In(o[t], Rep(b))
        BY <1>3, <1>17 DEF TokenInv
      <4>5. EntryOf(b)' = EntryOf(b)
        BY <1>18
      <4> QED BY <1>1, <1>3, <1>13, <1>17, <3>1, <4>2, <4>3, <4>4, <4>5, LinkLeaves
    <3>3. CASE b # e
      <4>1. l2'[t][b].st = l2[t][b].st
        BY <1>19, <2>2, <3>3
      <4>2. \A y \in Tiles : ~In(o[y], Token(b))
        BY <1>14, <1>15, <1>16, <3>3, ForHomeKind
      <4> QED BY <1>1, <1>13, <1>17, <1>18, <3>1, <4>1, <4>2, OtherLine
    <3> QED BY <3>2, <3>3
  <2> QED BY <2>1, <2>2
<1>21. \A d \in Comps, b \in Addrs :
         In(chan'[<<t, t>>], FromL1(d, b)) => N1[d][b].st = "I"
  <2>1. \A d \in Comps, b \in Addrs : ~In(chan[<<t, t>>], FromL1(d, b))
    BY NoL1Request
  <2> QED BY <1>1, <1>3, <1>13, <1>17, <2>1, DeliverFromL1
<1>22. /\ \A u \in Tiles \ {t} : outst'[u] = outst[u]
       /\ outst'[t] # None => outst'[t].addr \in Kind(outst'[t].comp)
  BY DEF TypeOK, ThreadsOK
<1>23. Head(chan[<<s, t>>]).type \notin {"INV_REP", "FLUSH_REP", "WB_REP"}
  BY <1>1
<1> QED BY <1>1, <1>2, <1>13, <1>17, <1>19, <1>20, <1>21, <1>22, <1>23, CacheSideStep

\* The steps of an L2 cache keep the invariant.
LEMMA L2StepCoh ==
  ASSUME SplitLines, TypeOK, HandoverInv, CohInv, NEW s \in Tiles, NEW t \in Tiles,
         \/ L2RecvFromL1(t) \/ SimResume(t) \/ L2RecvReply(s, t)
         \/ L2RecvInvReq(s, t) \/ L2RecvFlushReq(s, t) \/ L2RecvWbReq(s, t),
         err' = {}
  PROVE  CohInv'
<1>1. ASSUME L2RecvFromL1(t) PROVE CohInv'
  BY <1>1, FromL1Step
<1>2. ASSUME SimResume(t) PROVE CohInv'
  <2>1. /\ UNCHANGED <<l1, l2, latest, app, lock, outst, chan>>
        /\ UNCHANGED <<queue, way, repl, work, dram>>
    BY <1>2 DEF SimResume, cacheVars, dirVars
  <2>2. CacheInv /\ DirInv /\ TokenInv /\ NetInv /\ DataInv
    BY DEF CohInv
  <2>3. CacheInv' /\ DirInv' /\ DataInv' /\ \A a : EntryOf(a)' = EntryOf(a)
    BY <2>1, <2>2, CacheFrame, DirFrame, DataFrame
  <2>4. TokenInv'
    BY <2>1, <2>2, <2>3, LinkFrame, SameChannelsSameTokens DEF TokenInv
  <2>5. NetInv'
    BY <2>1, <2>2 DEF NetInv, RouteInv
  <2> QED BY <2>3, <2>4, <2>5 DEF CohInv
<1> DEFINE m == Head(chan[<<s, t>>])
<1>3. ASSUME L2RecvReply(s, t) PROVE CohInv'
  <2>1. Receives(s, t, m) /\ m.type \in {"EX_REP", "SH_REP"}
    BY <1>3 DEF L2RecvReply
  <2>2. PICK a \in Addrs : a = m.addr
    BY <2>1, ReceivesType DEF TypeOK
  <2>3. outst[t] # None /\ outst[t].addr = a
    BY <1>3, <2>2 DEF L2RecvReply, Check, Failure
  <2> DEFINE new == [st |-> IF m.type = "EX_REP" THEN "M" ELSE "S",
                     loc |-> outst[t].comp, val |-> m.val]
  <2>4. /\ InsertInHierarchy(s, t, a, outst[t].comp, new)
        /\ outst' = [outst EXCEPT ![t] = None]
        /\ UNCHANGED <<latest, app, lock, dirVars>>
    BY <1>3, <2>2, <2>3 DEF L2RecvReply
  <2> HIDE DEF m
  <2> QED BY <2>1, <2>2, <2>3, <2>4, FillStep
<1>4. ASSUME L2RecvInvReq(s, t) PROVE CohInv'
  <2>1. Receives(s, t, m) /\ m.type = "INV_REQ"
    BY <1>4 DEF L2RecvInvReq
  <2>2. PICK a \in Addrs : a = m.addr
    BY <2>1, ReceivesType DEF TypeOK
  <2>3. UNCHANGED <<latest, syncVars, dirVars>>
    BY <1>4 DEF L2RecvInvReq
  <2>4. CASE l2[t][a].st = "I"
    <3>1. Deliver(s, t, Nothing) /\ UNCHANGED <<l1, l2>>
      BY <1>4, <2>2, <2>4 DEF L2RecvInvReq
    <3>2. UNCHANGED <<cacheVars, syncVars, dirVars>>
      BY <2>3, <3>1 DEF cacheVars
    <3> HIDE DEF m
    <3> QED BY <2>1, <3>1, <3>2, DropStep
  <2>5. CASE l2[t][a].st # "I"
    <3> DEFINE n == Msg("INV_REP", "L2", a, None)
    <3>1. l2[t][a].st = "S"
      BY <1>4, <2>2, <2>5 DEF L2RecvInvReq, Check, Failure
    <3>2. /\ l1' = [l1 EXCEPT ![t] = InvalidateInL1(t, a)]
          /\ l2' = [l2 EXCEPT ![t][a] = InvalidL2]
          /\ Deliver(s, t, To(s, <<n>>))
      BY <1>4, <2>2, <2>5 DEF L2RecvInvReq
    <3>3. /\ ForHome(a, n) /\ n \in Gone(a) /\ n \notin WbRep(a)
          /\ n \notin FlushRep(a)
      BY DEF ForHome, Msg, ShmemMsg, ControlMsg, MsgSource, Gone, WbRep, FlushRep,
         OfType
    <3> HIDE DEF m, n
    <3> QED BY <2>1, <2>2, <2>3, <3>1, <3>2, <3>3, RecallStep
  <2> QED BY <2>4, <2>5
<1>5. ASSUME L2RecvFlushReq(s, t) PROVE CohInv'
  <2>1. Receives(s, t, m) /\ m.type = "FLUSH_REQ"
    BY <1>5 DEF L2RecvFlushReq
  <2>2. PICK a \in Addrs : a = m.addr
    BY <2>1, ReceivesType DEF TypeOK
  <2>3. UNCHANGED <<latest, syncVars, dirVars>>
    BY <1>5 DEF L2RecvFlushReq
  <2>4. CASE l2[t][a].st = "I"
    <3>1. Deliver(s, t, Nothing) /\ UNCHANGED <<l1, l2>>
      BY <1>5, <2>2, <2>4 DEF L2RecvFlushReq
    <3>2. UNCHANGED <<cacheVars, syncVars, dirVars>>
      BY <2>3, <3>1 DEF cacheVars
    <3> HIDE DEF m
    <3> QED BY <2>1, <3>1, <3>2, DropStep
  <2>5. CASE l2[t][a].st # "I"
    <3> DEFINE n == EvictionMsg(a, l2[t][a])
    <3>1. l2[t][a].st = "M"
      BY <1>5, <2>2, <2>5 DEF L2RecvFlushReq, Check, Failure
    <3>2. /\ l1' = [l1 EXCEPT ![t] = InvalidateInL1(t, a)]
          /\ l2' = [l2 EXCEPT ![t][a] = InvalidL2]
          /\ Deliver(s, t, To(s, <<n>>))
      BY <1>5, <2>2, <2>5, <3>1 DEF L2RecvFlushReq, EvictionMsg
    <3> HIDE DEF m, n
    <3>3. /\ ForHome(a, n) /\ n \in Gone(a) /\ n \notin WbRep(a)
          /\ n \in FlushRep(a) <=> l2[t][a].st = "M"
      BY <2>5, EvictionLeaves DEF n, CohInv
    <3> QED BY <2>1, <2>2, <2>3, <2>5, <3>2, <3>3, RecallStep
  <2> QED BY <2>4, <2>5
<1>6. ASSUME L2RecvWbReq(s, t) PROVE CohInv'
  <2>1. Receives(s, t, m) /\ m.type = "WB_REQ"
    BY <1>6 DEF L2RecvWbReq
  <2>2. PICK a \in Addrs : a = m.addr
    BY <2>1, ReceivesType DEF TypeOK
  <2>3. UNCHANGED <<latest, syncVars, dirVars>>
    BY <1>6 DEF L2RecvWbReq
  <2>4. CASE l2[t][a].st = "I"
    <3>1. Deliver(s, t, Nothing) /\ UNCHANGED <<l1, l2>>
      BY <1>6, <2>2, <2>4 DEF L2RecvWbReq
    <3>2. UNCHANGED <<cacheVars, syncVars, dirVars>>
      BY <2>3, <3>1 DEF cacheVars
    <3> HIDE DEF m
    <3> QED BY <2>1, <3>1, <3>2, DropStep
  <2>5. CASE l2[t][a].st # "I"
    <3> DEFINE n == DataReply("WB_REP", a, l2[t][a])
    <3>1. /\ l2[t][a].st = "M"
          /\ l2[t][a].loc # None => l1[t][l2[t][a].loc][a].st # "I"
      BY <1>6, <2>2, <2>5 DEF L2RecvWbReq, Check, Failure
    <3>2. /\ l1' = IF l2[t][a].loc = None THEN l1
                   ELSE [l1 EXCEPT ![t][l2[t][a].loc][a].st = "S"]
          /\ l2' = [l2 EXCEPT ![t][a].st = "S"]
          /\ Deliver(s, t, To(s, <<n>>))
      BY <1>6, <2>2, <2>5 DEF L2RecvWbReq
    <3>3. l2[t][a].val \in Values /\ l2[t][a].val = latest[a]
      <4>1. l2[t][a] \in L2Line
        BY DEF TypeOK, CachesOK
      <4> QED BY <2>5, <4>1 DEF L2Line, CohInv, CacheInv, CopiesAreCurrent
    <3>4. ForHome(a, n) /\ n \in WbRep(a)
      BY <3>3 DEF ForHome, DataReply, Msg, ShmemMsg, DataMsg, MsgSource, WbRep, OfType
    <3> HIDE DEF m, n
    <3> QED BY <2>1, <2>2, <2>3, <3>1, <3>2, <3>4, WriteBackStep
  <2> QED BY <2>4, <2>5
<1> QED BY <1>1, <1>2, <1>3, <1>4, <1>5, <1>6

-----------------------------------------------------------------------------
(* Steps of the directories *)

\* A directory handler of h changes what is known of line a.  It keeps the
\* invariant when it does so for this line.
LEMMA DirSideStep ==
  ASSUME TypeOK, CohInv, NEW h \in Tiles, NEW a \in Addrs, Home[a] = h,
         lock[h] # "app", UNCHANGED <<l1, l2, latest, app, outst>>,
         \A u \in Tiles \ {h} : lock'[u] = lock[u] /\ work'[u] = work[u],
         \A u \in Tiles, c \in Comps, b \in Addrs :
           In(chan'[<<u, u>>], FromL1(c, b)) => In(chan[<<u, u>>], FromL1(c, b)),
         NetInv', OneEntryPerLine', EntryInv(a)', \A b \in Addrs : MemInv(b)',
         WorkInv(h)', \A u \in Tiles : LinkInv(a, u)',
         \A b \in Addrs \ {a} : EntryOf(b)' = EntryOf(b),
         \A b \in Addrs \ {a}, u \in Tiles : SameTokens(b, u)
  PROVE  CohInv'
<1>1. CacheInv /\ DirInv /\ TokenInv /\ NetInv /\ DataInv
  BY DEF CohInv
<1>2. \A u \in Tiles : app[u].pc = "locked" => lock'[u] = lock[u]
  BY <1>1 DEF CacheInv, AtomicInv
<1>3. CacheInv'
  BY <1>1, <1>2, CacheFrame
<1>4. \A b \in Addrs \ {a} : EntryInv(b)'
  BY <1>1 DEF DirInv, EntryInv
<1>5. DirInv'
  BY <1>4 DEF DirInv
<1>6. \A b \in Addrs \ {a}, u \in Tiles : LinkInv(b, u)'
  <2> SUFFICES ASSUME NEW b \in Addrs \ {a}, NEW u \in Tiles PROVE LinkInv(b, u)'
    OBVIOUS
  <2>1. LinkInv(b, u) /\ SameTokens(b, u) /\ EntryOf(b)' = EntryOf(b)
    BY <1>1 DEF TokenInv
  <2> QED BY <2>1, LinkFrame
<1>7. TokenInv'
  BY <1>6 DEF TokenInv
<1>8. ASSUME NEW u \in Tiles, u # h PROVE WorkInv(u)'
  <2>1. WorkInv(u) /\ work'[u] = work[u] /\ lock'[u] = lock[u]
    BY <1>1, <1>8 DEF DataInv
  <2>2. work[u] # None => work[u].addr \in Addrs /\ work[u].addr # a
    BY <1>8, <2>1 DEF WorkInv, TypeOK, DirectoryOK
  <2>3. work[u] # None => EntryOf(work[u].addr)' = EntryOf(work[u].addr)
    <3> SUFFICES ASSUME work[u] # None
                 PROVE  EntryOf(work[u].addr)' = EntryOf(work[u].addr)
      OBVIOUS
    <3>1. PICK b \in Addrs : b = work[u].addr /\ b # a
      BY <2>2
    <3>2. b = work'[u].addr
      BY <2>1, <3>1
    <3>3. EntryOf(b)' = EntryOf(b)
      BY <3>1
    <3> QED BY <3>1, <3>2, <3>3
  <2> QED BY <2>1, <2>3 DEF WorkInv
<1>9. DataInv'
  BY <1>8 DEF DataInv
<1> QED BY <1>3, <1>5, <1>7, <1>9 DEF CohInv

\* A handler that works on line a leaves the data of other lines alone.
LEMMA OtherMem ==
  ASSUME CohInv, NEW h \in Tiles, NEW a \in Addrs, Home[a] = h,
         work[h] # None => work[h].addr = a, work'[h] # None => work'[h].addr = a,
         \A u \in Tiles \ {h} : work'[u] = work[u], UNCHANGED latest,
         \A b \in Addrs \ {a} : /\ EntryOf(b)' = EntryOf(b)
                                /\ dram'[b] = dram[b] /\ queue'[b] = queue[b]
  PROVE  \A b \in Addrs \ {a} : MemInv(b)'
<1> SUFFICES ASSUME NEW b \in Addrs \ {a} PROVE MemInv(b)'
  OBVIOUS
<1>1. MemInv(b) /\ Home[b] \in Tiles
  BY MSIAssumption DEF MSIAssumption, CohInv, DataInv
<1>2. CASE Home[b] = h
  <2>1. ~Passing(b)
    BY <1>2 DEF Passing
  <2> QED BY <1>1, <2>1 DEF MemInv
<1>3. CASE Home[b] # h
  <2>1. Passing(b)' <=> Passing(b)
    BY <1>1, <1>3 DEF Passing, TakesData
  <2> QED BY <1>1, <2>1 DEF MemInv
<1> QED BY <1>2, <1>3

\* Replacing the entry of a line.
LEMMA SetEntryEffect ==
  ASSUME DirectoryOK, OneEntryPerLine, NEW a \in Addrs, HasEntry(a),
         NEW e \in Entry, SetEntry(a, e)
  PROVE  /\ EntryOf(a)' = e /\ \A b \in Addrs \ {a} : EntryOf(b)' = EntryOf(b)
         /\ OneEntryPerLine'
<1>1. e # None
  BY NoneAssumption DEF NoneAssumption
<1>2. CASE way[a] # None
  <2>1. way' = [way EXCEPT ![a] = e] /\ repl' = repl /\ repl[a] = None
    BY <1>2 DEF SetEntry, OneEntryPerLine
  <2>2. \A b \in Addrs : /\ way'[b] = IF b = a THEN e ELSE way[b]
                         /\ way'[b] # None <=> way[b] # None
    BY <1>1, <1>2, <2>1 DEF DirectoryOK
  <2>3. \A h : FreeWay(h)' = FreeWay(h)
    <3> SUFFICES ASSUME NEW h PROVE FreeWay(h)' = FreeWay(h)
      OBVIOUS
    <3>1. {b \in Addrs : Home[b] = h /\ way'[b] # None} =
            {b \in Addrs : Home[b] = h /\ way[b] # None}
      BY <2>2
    <3> QED BY <3>1 DEF FreeWay
  <2>4. EntryOf(a)' = e /\ \A b \in Addrs \ {a} : EntryOf(b)' = EntryOf(b)
    BY <1>1, <2>1, <2>2 DEF EntryOf
  <2>5. OneEntryPerLine'
    BY <2>1, <2>2, <2>3 DEF OneEntryPerLine
  <2> QED BY <2>4, <2>5
<1>3. CASE way[a] = None
  <2>1. repl' = [repl EXCEPT ![a] = e] /\ way' = way /\ repl[a] # None
    BY <1>3 DEF SetEntry, HasEntry
  <2>2. \A b \in Addrs : /\ repl'[b] = IF b = a THEN e ELSE repl[b]
                         /\ repl'[b] # None <=> repl[b] # None
    BY <1>1, <2>1 DEF DirectoryOK
  <2>3. \A h : FreeWay(h)' = FreeWay(h)
    BY <2>1 DEF FreeWay
  <2>4. EntryOf(a)' = e /\ \A b \in Addrs \ {a} : EntryOf(b)' = EntryOf(b)
    BY <1>1, <1>3, <2>1, <2>2 DEF EntryOf
  <2>5. OneEntryPerLine'
    BY <2>1, <2>2, <2>3 DEF OneEntryPerLine
  <2> QED BY <2>4, <2>5
<1> QED BY <1>2, <1>3

\* A directory takes a packet about line a that comes from s.
TakenFrom(s, h, a) ==
  /\ NetInv' /\ lock[h] = "free" /\ work[h] = None
  /\ \A u \in Tiles, c \in Comps, b \in Addrs :
       In(chan'[<<u, u>>], FromL1(c, b)) => In(chan[<<u, u>>], FromL1(c, b))
  /\ \A b \in Addrs \ {a}, u \in Tiles : SameTokens(b, u)
  /\ \A u \in Tiles \ {s} : SameTokens(a, u)

\* TakenFrom is what receiving a message does to the tokens.
LEMMA DirTakes ==
  ASSUME TypeOK, CohInv, NEW s \in Tiles, NEW h \in Tiles, NEW m,
         Receives(s, h, m), NEW a \in Addrs, a = m.addr, Home[a] = h,
         Deliver(s, h, Nothing), UNCHANGED latest
  PROVE  TakenFrom(s, h, a)
<1>1. /\ chan[<<s, h>>] # <<>> /\ m = Head(chan[<<s, h>>]) /\ m \in ShmemMsg
      /\ lock[h] = "free"
  BY ReceivesType DEF TypeOK, Receives
<1>2. NetInv /\ NetworkOK /\ DataInv
  BY DEF CohInv, TypeOK
<1>3. /\ Nothing \in SimOutgoing /\ Nothing \in Outgoing /\ WellRouted(h, Nothing)
      /\ \A y \in Tiles : \A S : ~In(Nothing[y], S)
  BY SendsNothing DEF CacheSends
<1>4. NetInv'
  BY <1>1, <1>2, <1>3, DeliverRoutes
<1>5. work[h] = None
  BY <1>1, <1>2 DEF DataInv, WorkInv
<1>6. \A u \in Tiles, c \in Comps, b \in Addrs :
        In(chan'[<<u, u>>], FromL1(c, b)) => In(chan[<<u, u>>], FromL1(c, b))
  BY <1>1, <1>2, <1>3, DeliverFromL1
<1>7. ASSUME NEW b \in Addrs, NEW u \in Tiles, b # a \/ u # s
      PROVE  SameTokens(b, u)
  <2>1. \/ Head(chan[<<s, h>>]) \notin Token(b)
        \/ ~((s = Home[b] /\ h = u) \/ (s = u /\ h = Home[b]))
    <3>1. CASE b # a
      BY <1>1, <3>1 DEF Token, OfType
    <3>2. CASE b = a
      BY <1>7, <3>2
    <3> QED BY <3>1, <3>2
  <2> QED BY <1>1, <1>2, <1>3, <2>1, QuietDeliver
<1> QED BY <1>1, <1>4, <1>5, <1>6, <1>7 DEF TakenFrom

\* The handler starts to serve the line, or returns.
LEMMA StartEffect ==
  ASSUME TypeOK, NEW h \in Tiles, NEW a \in Addrs, Home[a] = h,
         NEW buf \in Values \cup {None}, work[h] = None,
         StartServing(h, a, buf) \/ UNCHANGED <<lock, work>>
  PROVE  /\ \A u \in Tiles \ {h} : lock'[u] = lock[u] /\ work'[u] = work[u]
         /\ work'[h] # None => /\ work'[h].addr = a /\ work'[h].buf = buf
                               /\ lock'[h] = "sim"
         /\ StartServing(h, a, buf) => work'[h] # None
<1>1. CASE StartServing(h, a, buf)
  <2>1. /\ work'[h] = [addr |-> a, buf |-> buf] /\ lock'[h] = "sim"
        /\ \A u \in Tiles \ {h} : lock'[u] = lock[u] /\ work'[u] = work[u]
    BY <1>1 DEF StartServing, TypeOK, ThreadsOK, DirectoryOK
  <2>2. work'[h] # None
    BY <2>1, NoneAssumption DEF NoneAssumption
  <2> QED BY <2>1, <2>2
<1>2. CASE UNCHANGED <<lock, work>> /\ ~StartServing(h, a, buf)
  BY <1>2
<1> QED BY <1>1, <1>2

\* handleMsgFromL2Cache: a request joins the queue of its line.
LEMMA RecvReqStep ==
  ASSUME TypeOK, CohInv, NEW s \in Tiles, NEW h \in Tiles, DirRecvReq(s, h)
  PROVE  CohInv'
<1> DEFINE m == Head(chan[<<s, h>>])
<1>1. Receives(s, h, m) /\ m.src = "L2" /\ m.type \in {"EX_REQ", "SH_REQ"}
  BY DEF DirRecvReq
<1>2. PICK a \in Addrs : a = m.addr
  BY <1>1, ReceivesType DEF TypeOK
<1>3. /\ queue' = [queue EXCEPT ![a] = Append(@, [type |-> m.type, tile |-> s])]
      /\ StartServing(h, a, None) \/ UNCHANGED <<lock, work>>
      /\ Deliver(s, h, Nothing)
      /\ UNCHANGED <<l1, l2, latest, app, outst, way, repl, dram>>
  BY <1>2 DEF DirRecvReq, cacheVars
<1>4. Home[a] = h
  BY <1>1, <1>2, HeadRouted DEF CohInv
<1>5. TakenFrom(s, h, a)
  BY <1>1, <1>2, <1>3, <1>4, DirTakes
<1>6. NetworkOK /\ DirInv /\ TokenInv /\ DataInv
  BY DEF TypeOK, CohInv
<1>7. (\A b : EntryOf(b)' = EntryOf(b)) /\ DirInv'
  BY <1>3, <1>6, DirFrame
<1>8. /\ \A u \in Tiles \ {h} : lock'[u] = lock[u] /\ work'[u] = work[u]
      /\ work'[h] # None => /\ work'[h].addr = a /\ work'[h].buf = None
                            /\ lock'[h] = "sim"
  BY <1>3, <1>4, <1>5, StartEffect DEF TakenFrom
<1>9. SameTokens(a, s)
  <2>1. Head(chan[<<s, h>>]) \notin Token(a) /\ chan[<<s, h>>] # <<>>
    BY <1>1 DEF Token, OfType, Receives
  <2>2. Nothing \in Outgoing /\ \A y \in Tiles : \A S : ~In(Nothing[y], S)
    BY SendsNothing DEF CacheSends
  <2>3. Deliver(s, h, Nothing) /\ NetworkOK
    BY <1>3, <1>6
  <2>4. \A y \in Tiles : ~In(Nothing[y], Token(a))
    BY <2>2
  <2> QED BY <2>1, <2>2, <2>3, <2>4, QuietDeliver
<1>10. \A u \in Tiles : LinkInv(a, u)'
  <2> SUFFICES ASSUME NEW u \in Tiles PROVE LinkInv(a, u)'
    OBVIOUS
  <2>1. SameTokens(a, u) /\ LinkInv(a, u)
    BY <1>5, <1>6, <1>9 DEF TakenFrom, TokenInv
  <2> QED BY <1>3, <1>7, <2>1, LinkFrame
<1>11. \A b \in Addrs \ {a} : MemInv(b)'
  <2>1. \A b \in Addrs \ {a} : queue'[b] = queue[b]
    BY <1>3 DEF TypeOK, DirectoryOK
  <2> QED BY <1>3, <1>4, <1>5, <1>7, <1>8, <2>1, OtherMem DEF TakenFrom
<1>12. MemInv(a)'
  <2>1. ~Passing(a)
    BY <1>4, <1>5 DEF Passing, TakenFrom
  <2> QED BY <1>3, <1>6, <1>7, <2>1 DEF MemInv, DataInv
<1>13. WorkInv(h)'
  BY <1>4, <1>8 DEF WorkInv
<1>14. OneEntryPerLine' /\ EntryInv(a)'
  BY <1>7 DEF DirInv
<1>15. \A b \in Addrs : MemInv(b)'
  BY <1>11, <1>12
<1> HIDE DEF m
<1> QED BY <1>3, <1>4, <1>5, <1>7, <1>8, <1>10, <1>13, <1>14, <1>15, DirSideStep
        DEF TakenFrom

\* The head of a channel leaves it, with no other message of its kind.
LEMMA HeadLeaves ==
  ASSUME NetworkOK, NEW s \in Tiles, NEW h \in Tiles, chan[<<s, h>>] # <<>>,
         Deliver(s, h, Nothing), NEW S, Once(chan[<<s, h>>], S),
         Head(chan[<<s, h>>]) \in S
  PROVE  /\ In(chan[<<s, h>>], S) /\ ~In(chan'[<<s, h>>], S)
         /\ Once(chan'[<<s, h>>], S)
<1>1. Nothing \in Outgoing /\ \A y \in Tiles : \A R : ~In(Nothing[y], R)
  BY SendsNothing DEF CacheSends
<1>2. Delivered(s, h, Nothing, s, h, S)
  BY <1>1, DeliverIn
<1>3. chan[<<s, h>>] \in Seq(ShmemMsg)
  BY DEF NetworkOK
<1>4. In(chan[<<s, h>>], S)
  BY <1>3, InTail
<1> QED BY <1>1, <1>2, <1>4 DEF Delivered

\* A directory takes the invalidation or flush reply of s.
LEMMA TakesGone ==
  ASSUME TypeOK, CohInv, NEW s \in Tiles, NEW h \in Tiles, NEW m,
         Receives(s, h, m), m.type \in {"INV_REP", "FLUSH_REP"}, NEW a \in Addrs,
         a = m.addr, Home[a] = h, Deliver(s, h, Nothing)
  PROVE  /\ Left(a, s) /\ ~Left(a, s)' /\ Once(Up(a, s)', Gone(a))
         /\ ~Flushed(a, s)'
         /\ m.type = "FLUSH_REP" => Flushed(a, s)
         /\ Granted(a, s)' <=> Granted(a, s)
         /\ GrantedEx(a, s)' <=> GrantedEx(a, s)
         /\ WrittenBack(a, s)' <=> WrittenBack(a, s)
         /\ Once(Down(a, s), Rep(a)) => Once(Down(a, s)', Rep(a))
         /\ Once(Up(a, s), WbRep(a)) => Once(Up(a, s)', WbRep(a))
<1>1. /\ chan[<<s, h>>] # <<>> /\ m = Head(chan[<<s, h>>]) /\ m \in ShmemMsg
  BY ReceivesType DEF TypeOK
<1>2. NetworkOK /\ LinkInv(a, s)
  BY DEF TypeOK, CohInv, TokenInv
<1>3. /\ m \in Gone(a) /\ m \notin Rep(a) /\ m \notin ExRep(a) /\ m \notin WbRep(a)
      /\ m.type = "FLUSH_REP" => m \in FlushRep(a)
  BY <1>1 DEF Gone, Rep, ExRep, WbRep, FlushRep, OfType
<1>4. Nothing \in Outgoing /\ \A y \in Tiles : \A S : ~In(Nothing[y], S)
  BY SendsNothing DEF CacheSends
<1>d. ASSUME NEW x \in Tiles, NEW y \in Tiles, NEW S, m \notin S
      PROVE  /\ In(chan'[<<x, y>>], S) <=> In(chan[<<x, y>>], S)
             /\ Once(chan[<<x, y>>], S) => Once(chan'[<<x, y>>], S)
  BY <1>1, <1>2, <1>4, <1>d, DeliverSame
<1>5. Left(a, s) /\ ~Left(a, s)' /\ Once(Up(a, s)', Gone(a))
  <2>1. Once(chan[<<s, h>>], Gone(a))
    BY <1>2 DEF LinkInv, Up
  <2>2. /\ In(chan[<<s, h>>], Gone(a)) /\ ~In(chan'[<<s, h>>], Gone(a))
        /\ Once(chan'[<<s, h>>], Gone(a))
    BY <1>1, <1>2, <1>3, <2>1, HeadLeaves
  <2> QED BY <2>2 DEF Left, Up
<1>6. ~Flushed(a, s)'
  BY <1>5 DEF Flushed, Left, In, FlushRep, Gone, OfType
<1>7. m.type = "FLUSH_REP" => Flushed(a, s)
  <2>1. chan[<<s, h>>] \in Seq(ShmemMsg)
    BY <1>2 DEF NetworkOK
  <2> QED BY <1>1, <1>3, <2>1, InTail DEF Flushed, Up
<1>8. /\ Granted(a, s)' <=> Granted(a, s)
      /\ Once(Down(a, s), Rep(a)) => Once(Down(a, s)', Rep(a))
  <2>1. /\ In(chan'[<<h, s>>], Rep(a)) <=> In(chan[<<h, s>>], Rep(a))
        /\ Once(chan[<<h, s>>], Rep(a)) => Once(chan'[<<h, s>>], Rep(a))
    BY <1>3, <1>d
  <2> QED BY <2>1 DEF Granted, Down
<1>9. GrantedEx(a, s)' <=> GrantedEx(a, s)
  <2>1. In(chan'[<<h, s>>], ExRep(a)) <=> In(chan[<<h, s>>], ExRep(a))
    BY <1>3, <1>d
  <2> QED BY <2>1 DEF GrantedEx, Down
<1>10. /\ WrittenBack(a, s)' <=> WrittenBack(a, s)
       /\ Once(Up(a, s), WbRep(a)) => Once(Up(a, s)', WbRep(a))
  <2>1. /\ In(chan'[<<s, h>>], WbRep(a)) <=> In(chan[<<s, h>>], WbRep(a))
        /\ Once(chan[<<s, h>>], WbRep(a)) => Once(chan'[<<s, h>>], WbRep(a))
    BY <1>3, <1>d
  <2> QED BY <2>1 DEF WrittenBack, Up
<1> QED BY <1>5, <1>6, <1>7, <1>8, <1>9, <1>10

\* A directory takes the write-back reply of s.
LEMMA TakesWbRep ==
  ASSUME TypeOK, CohInv, NEW s \in Tiles, NEW h \in Tiles, NEW m,
         Receives(s, h, m), m.type = "WB_REP", NEW a \in Addrs,
         a = m.addr, Home[a] = h, Deliver(s, h, Nothing)
  PROVE  /\ WrittenBack(a, s) /\ ~WrittenBack(a, s)' /\ Once(Up(a, s)', WbRep(a))
         /\ Granted(a, s)' <=> Granted(a, s)
         /\ GrantedEx(a, s)' <=> GrantedEx(a, s)
         /\ Left(a, s)' <=> Left(a, s)
         /\ Flushed(a, s)' <=> Flushed(a, s)
         /\ Once(Down(a, s), Rep(a)) => Once(Down(a, s)', Rep(a))
         /\ Once(Up(a, s), Gone(a)) => Once(Up(a, s)', Gone(a))
<1>1. /\ chan[<<s, h>>] # <<>> /\ m = Head(chan[<<s, h>>]) /\ m \in ShmemMsg
  BY ReceivesType DEF TypeOK
<1>2. NetworkOK /\ LinkInv(a, s)
  BY DEF TypeOK, CohInv, TokenInv
<1>3. /\ m \in WbRep(a) /\ m \notin Rep(a) /\ m \notin ExRep(a) /\ m \notin Gone(a)
      /\ m \notin FlushRep(a)
  BY <1>1 DEF Gone, Rep, ExRep, WbRep, FlushRep, OfType
<1>4. Nothing \in Outgoing /\ \A y \in Tiles : \A S : ~In(Nothing[y], S)
  BY SendsNothing DEF CacheSends
<1>d. ASSUME NEW x \in Tiles, NEW y \in Tiles, NEW S, m \notin S
      PROVE  /\ In(chan'[<<x, y>>], S) <=> In(chan[<<x, y>>], S)
             /\ Once(chan[<<x, y>>], S) => Once(chan'[<<x, y>>], S)
  BY <1>1, <1>2, <1>4, <1>d, DeliverSame
<1>5. WrittenBack(a, s) /\ ~WrittenBack(a, s)' /\ Once(Up(a, s)', WbRep(a))
  <2>1. Once(chan[<<s, h>>], WbRep(a))
    BY <1>2 DEF LinkInv, Up
  <2>2. /\ In(chan[<<s, h>>], WbRep(a)) /\ ~In(chan'[<<s, h>>], WbRep(a))
        /\ Once(chan'[<<s, h>>], WbRep(a))
    BY <1>1, <1>2, <1>3, <2>1, HeadLeaves
  <2> QED BY <2>2 DEF WrittenBack, Up
<1>6. /\ Granted(a, s)' <=> Granted(a, s)
      /\ Once(Down(a, s), Rep(a)) => Once(Down(a, s)', Rep(a))
  <2>1. /\ In(chan'[<<h, s>>], Rep(a)) <=> In(chan[<<h, s>>], Rep(a))
        /\ Once(chan[<<h, s>>], Rep(a)) => Once(chan'[<<h, s>>], Rep(a))
    BY <1>3, <1>d
  <2> QED BY <2>1 DEF Granted, Down
<1>7. GrantedEx(a, s)' <=> GrantedEx(a, s)
  <2>1. In(chan'[<<h, s>>], ExRep(a)) <=> In(chan[<<h, s>>], ExRep(a))
    BY <1>3, <1>d
  <2> QED BY <2>1 DEF GrantedEx, Down
<1>8. /\ Left(a, s)' <=> Left(a, s)
      /\ Once(Up(a, s), Gone(a)) => Once(Up(a, s)', Gone(a))
  <2>1. /\ In(chan'[<<s, h>>], Gone(a)) <=> In(chan[<<s, h>>], Gone(a))
        /\ Once(chan[<<s, h>>], Gone(a)) => Once(chan'[<<s, h>>], Gone(a))
    BY <1>3, <1>d
  <2> QED BY <2>1 DEF Left, Up
<1>9. Flushed(a, s)' <=> Flushed(a, s)
  <2>1. In(chan'[<<s, h>>], FlushRep(a)) <=> In(chan[<<s, h>>], FlushRep(a))
    BY <1>3, <1>d
  <2> QED BY <2>1 DEF Flushed, Up
<1> QED BY <1>5, <1>6, <1>7, <1>8, <1>9

\* What a reply leaves to be shown: the parts about its line.
LEMMA ReplyStep ==
  ASSUME TypeOK, CohInv, NEW s \in Tiles, NEW h \in Tiles, NEW a \in Addrs,
         Home[a] = h, TakenFrom(s, h, a), NEW e \in Entry, HasEntry(a),
         SetEntry(a, e), NEW buf \in Values \cup {None},
         StartServing(h, a, buf) \/ UNCHANGED <<lock, work>>,
         UNCHANGED <<l1, l2, latest, app, outst, queue>>,
         \A b \in Addrs \ {a} : dram'[b] = dram[b],
         e.st # "M", e.st = "U" => e.sharers = {},
         buf # None => buf = latest[a],
         \/ dram'[a] = latest[a]
         \/ StartServing(h, a, buf) /\ buf # None /\ TakesData(a),
         \A u \in Tiles : EntryOf(a)' = e => LinkInv(a, u)'
  PROVE  CohInv'
<1>1. DirectoryOK /\ OneEntryPerLine
  BY DEF TypeOK, CohInv, DirInv
<1>2. /\ EntryOf(a)' = e /\ OneEntryPerLine'
      /\ \A b \in Addrs \ {a} : EntryOf(b)' = EntryOf(b)
  BY <1>1, SetEntryEffect
<1>3. /\ \A u \in Tiles \ {h} : lock'[u] = lock[u] /\ work'[u] = work[u]
      /\ work'[h] # None => /\ work'[h].addr = a /\ work'[h].buf = buf
                            /\ lock'[h] = "sim"
      /\ StartServing(h, a, buf) => work'[h] # None
  BY StartEffect DEF TakenFrom
<1>4. EntryInv(a)'
  BY <1>2 DEF EntryInv
<1>5. \A b \in Addrs \ {a} : MemInv(b)'
  BY <1>2, <1>3, OtherMem DEF TakenFrom
<1>6. MemInv(a)'
  <2>1. CASE dram'[a] = latest[a]
    BY <2>1 DEF MemInv
  <2>2. CASE StartServing(h, a, buf) /\ buf # None /\ TakesData(a)
    BY <1>3, <2>2 DEF MemInv, Passing, TakesData
  <2> QED BY <2>1, <2>2
<1>7. WorkInv(h)'
  BY <1>2, <1>3 DEF WorkInv
<1>8. \A b \in Addrs : MemInv(b)'
  BY <1>5, <1>6
<1>9. \A u \in Tiles : LinkInv(a, u)'
  BY <1>2
<1> QED BY <1>2, <1>3, <1>4, <1>7, <1>8, <1>9, DirSideStep DEF TakenFrom

\* removeSharer, part by part.
LEMMA RemoveSharer ==
  ASSUME NEW e \in Entry, NEW s
  PROVE  /\ removeSharer(e, s) \in Entry /\ removeSharer(e, s).st = e.st
         /\ removeSharer(e, s).sharers = e.sharers \ {s}
         /\ removeSharer(e, s).owner = e.owner
<1>1. e.sharers \ {s} \in SUBSET Tiles /\ e.hw \ {s} \in SUBSET Tiles
  BY DEF Entry
<1> QED BY <1>1 DEF removeSharer, Entry

\* processInvRepFromL2Cache
LEMMA InvRepStep ==
  ASSUME TypeOK, CohInv, NEW s \in Tiles, NEW h \in Tiles, DirRecvInvRep(s, h),
         err' = {}
  PROVE  CohInv'
<1> DEFINE m == Head(chan[<<s, h>>])
<1>1. Receives(s, h, m) /\ m.type = "INV_REP"
  BY DEF DirRecvInvRep
<1>2. PICK a \in Addrs : a = m.addr
  BY <1>1, ReceivesType DEF TypeOK
<1> DEFINE f == EntryOf(a)
           r == removeSharer(f, s)
           e == IF r.sharers = {} THEN [r EXCEPT !.st = "U"] ELSE r
<1>3. /\ SetEntry(a, e) /\ Deliver(s, h, Nothing)
      /\ StartServing(h, a, None) \/ UNCHANGED <<lock, work>>
      /\ UNCHANGED <<l1, l2, latest, app, outst, queue, dram>>
  BY <1>2 DEF DirRecvInvRep, cacheVars
<1>4. HasEntry(a) /\ f.st = "S" /\ s \in f.sharers
  BY <1>2 DEF DirRecvInvRep, Check, Failure
<1>5. Home[a] = h
  BY <1>1, <1>2, HeadRouted DEF CohInv
<1>6. TakenFrom(s, h, a)
  BY <1>1, <1>2, <1>3, <1>5, DirTakes
<1>7. f \in Entry
  BY EntryOfType DEF TypeOK
<1> HIDE DEF f
<1>8. r \in Entry /\ r.st = "S" /\ r.sharers = f.sharers \ {s}
  BY <1>4, <1>7, RemoveSharer
<1> HIDE DEF r
<1>9. /\ e \in Entry /\ e.sharers = f.sharers \ {s} /\ e.st # "M"
      /\ e.st = "U" => e.sharers = {}
  BY <1>8 DEF Entry
<1> HIDE DEF e
<1>10. /\ Left(a, s) /\ ~Left(a, s)' /\ Once(Up(a, s)', Gone(a))
       /\ ~Flushed(a, s)'
       /\ Granted(a, s)' <=> Granted(a, s)
       /\ GrantedEx(a, s)' <=> GrantedEx(a, s)
       /\ WrittenBack(a, s)' <=> WrittenBack(a, s)
       /\ Once(Down(a, s), Rep(a)) => Once(Down(a, s)', Rep(a))
       /\ Once(Up(a, s), WbRep(a)) => Once(Up(a, s)', WbRep(a))
  BY <1>1, <1>2, <1>3, <1>5, TakesGone
<1>11. ASSUME NEW u \in Tiles, EntryOf(a)' = e PROVE LinkInv(a, u)'
  <2>1. LinkInv(a, u) /\ l2'[u][a] = l2[u][a]
    BY <1>3 DEF CohInv, TokenInv
  <2>2. CASE u = s
    <3>1. l2[s][a].st = "I" /\ ~Granted(a, s) /\ ~WrittenBack(a, s) /\ ~GrantedEx(a, s)
      BY <1>4, <1>10, <2>1, <2>2 DEF LinkInv, f
    <3> QED BY <1>9, <1>10, <1>11, <2>1, <2>2, <3>1 DEF LinkInv
  <2>3. CASE u # s
    <3>1. SameTokens(a, u)
      BY <1>6, <2>3 DEF TakenFrom
    <3>2. u \in e.sharers <=> u \in f.sharers
      BY <1>9, <2>3
    <3> QED BY <1>4, <1>9, <1>11, <2>1, <3>1, <3>2 DEF LinkInv, SameTokens, f
  <2> QED BY <2>2, <2>3
<1>12. dram'[a] = latest[a]
  <2>1. ~Passing(a)
    BY <1>5, <1>6 DEF Passing, TakenFrom
  <2> QED BY <1>3, <1>4, <2>1 DEF CohInv, DataInv, MemInv, f
<1> HIDE DEF m
<1> QED BY <1>3, <1>4, <1>5, <1>6, <1>9, <1>11, <1>12, ReplyStep

\* The owner of a modified line is its only sharer.
LEMMA ModifiedEntry ==
  ASSUME TypeOK, CohInv, NEW a \in Addrs, EntryOf(a).st = "M", NEW s,
         s \in EntryOf(a).sharers
  PROVE  EntryOf(a).sharers = {s} /\ EntryOf(a).owner = s
BY DEF CohInv, DirInv, EntryInv

\* processFlushRepFromL2Cache
LEMMA FlushRepStep ==
  ASSUME TypeOK, CohInv, NEW s \in Tiles, NEW h \in Tiles, DirRecvFlushRep(s, h),
         err' = {}
  PROVE  CohInv'
<1> DEFINE m == Head(chan[<<s, h>>])
<1>1. Receives(s, h, m) /\ m.type = "FLUSH_REP"
  BY DEF DirRecvFlushRep
<1>2. PICK a \in Addrs : a = m.addr
  BY <1>1, ReceivesType DEF TypeOK
<1> DEFINE f == EntryOf(a)
           r == removeSharer(f, s)
           e == [r EXCEPT !.owner = None, !.st = "U"]
<1>3. /\ SetEntry(a, e) /\ Deliver(s, h, Nothing)
      /\ dram' = IF TakesData(a) THEN dram ELSE [dram EXCEPT ![a] = m.val]
      /\ IF queue[a] # <<>> THEN StartServing(h, a, m.val)
         ELSE UNCHANGED <<lock, work>>
      /\ UNCHANGED <<l1, l2, latest, app, outst, queue>>
  BY <1>2 DEF DirRecvFlushRep, cacheVars
<1>4. HasEntry(a) /\ f.st = "M" /\ s \in f.sharers
  BY <1>2 DEF DirRecvFlushRep, Check, Failure
<1>5. Home[a] = h /\ m.val \in Values /\ m.val = latest[a] /\ m.val # None
  <2>1. Home[a] = h /\ m.val \in {None, latest[a]}
    BY <1>1, <1>2, HeadRouted DEF CohInv
  <2>2. m \in ShmemMsg
    BY <1>1, ReceivesType DEF TypeOK
  <2>3. m.val \in Values
    BY <1>1, <2>2 DEF ShmemMsg, DataMsg, ControlMsg
  <2> QED BY <2>1, <2>3, MSIAssumption DEF MSIAssumption
<1>6. TakenFrom(s, h, a)
  BY <1>1, <1>2, <1>3, <1>5, DirTakes
<1>7. f \in Entry
  BY EntryOfType DEF TypeOK
<1>f. f.sharers = {s} /\ f.owner = s
  BY <1>4, ModifiedEntry
<1> HIDE DEF f
<1>8. r \in Entry /\ r.sharers = f.sharers \ {s}
  BY <1>7, RemoveSharer
<1> HIDE DEF r
<1>9. e \in Entry /\ e.sharers = {} /\ e.st = "U"
  <2>1. r.sharers = {}
    BY <1>f, <1>8
  <2> QED BY <1>8, <2>1 DEF Entry
<1> HIDE DEF e
<1>10. /\ Left(a, s) /\ ~Left(a, s)' /\ Once(Up(a, s)', Gone(a))
       /\ ~Flushed(a, s)' /\ Flushed(a, s)
       /\ Granted(a, s)' <=> Granted(a, s)
       /\ GrantedEx(a, s)' <=> GrantedEx(a, s)
       /\ WrittenBack(a, s)' <=> WrittenBack(a, s)
       /\ Once(Down(a, s), Rep(a)) => Once(Down(a, s)', Rep(a))
       /\ Once(Up(a, s), WbRep(a)) => Once(Up(a, s)', WbRep(a))
  BY <1>1, <1>2, <1>3, <1>5, TakesGone
<1>g. /\ \A u : GrantedEx(a, u) => Granted(a, u)
      /\ \A u : Flushed(a, u) => Left(a, u)
  BY DEF GrantedEx, Granted, Flushed, Left, In, ExRep, Rep, FlushRep, Gone, OfType
<1>11. ASSUME NEW u \in Tiles, EntryOf(a)' = e PROVE LinkInv(a, u)'
  <2>1. LinkInv(a, u) /\ l2'[u][a] = l2[u][a]
    BY <1>3 DEF CohInv, TokenInv
  <2>2. CASE u = s
    <3>1. l2[s][a].st = "I" /\ ~Granted(a, s) /\ ~WrittenBack(a, s) /\ ~GrantedEx(a, s)
      BY <1>10, <1>g, <2>1, <2>2 DEF LinkInv
    <3> QED BY <1>9, <1>10, <1>11, <2>1, <2>2, <3>1 DEF LinkInv
  <2>3. CASE u # s
    <3>1. SameTokens(a, u)
      BY <1>6, <2>3 DEF TakenFrom
    <3>2. /\ l2[u][a].st = "I" /\ ~Granted(a, u) /\ ~Left(a, u) /\ ~WrittenBack(a, u)
          /\ ~GrantedEx(a, u) /\ ~Flushed(a, u)
      BY <1>f, <1>g, <2>1, <2>3 DEF LinkInv, f
    <3> QED BY <1>9, <1>11, <2>1, <3>1, <3>2 DEF LinkInv, SameTokens
  <2> QED BY <2>2, <2>3
<1>12. /\ \A b \in Addrs \ {a} : dram'[b] = dram[b]
       /\ \/ dram'[a] = latest[a]
          \/ StartServing(h, a, m.val) /\ m.val # None /\ TakesData(a)
  BY <1>3, <1>5 DEF TakesData, TypeOK, DirectoryOK
<1>13. StartServing(h, a, m.val) \/ UNCHANGED <<lock, work>>
  BY <1>3
<1> HIDE DEF m
<1> QED BY <1>3, <1>4, <1>5, <1>6, <1>9, <1>11, <1>12, <1>13, ReplyStep

\* processWbRepFromL2Cache
LEMMA WbRepStep ==
  ASSUME TypeOK, CohInv, NEW s \in Tiles, NEW h \in Tiles, DirRecvWbRep(s, h),
         err' = {}
  PROVE  CohInv'
<1> DEFINE m == Head(chan[<<s, h>>])
<1>1. Receives(s, h, m) /\ m.type = "WB_REP"
  BY DEF DirRecvWbRep
<1>2. PICK a \in Addrs : a = m.addr
  BY <1>1, ReceivesType DEF TypeOK
<1> DEFINE f == EntryOf(a)
           e == [f EXCEPT !.owner = None, !.st = "S"]
<1>3. /\ SetEntry(a, e) /\ Deliver(s, h, Nothing)
      /\ dram' = [dram EXCEPT ![a] = m.val] /\ StartServing(h, a, m.val)
      /\ UNCHANGED <<l1, l2, latest, app, outst, queue>>
  BY <1>2 DEF DirRecvWbRep, cacheVars
<1>4. HasEntry(a) /\ f.st = "M" /\ s \in f.sharers
  BY <1>2 DEF DirRecvWbRep, Check, Failure
<1>5. Home[a] = h /\ m.val \in Values /\ m.val = latest[a] /\ m.val # None
  <2>1. Home[a] = h /\ m.val \in {None, latest[a]}
    BY <1>1, <1>2, HeadRouted DEF CohInv
  <2>2. m \in ShmemMsg
    BY <1>1, ReceivesType DEF TypeOK
  <2>3. m.val \in Values
    BY <1>1, <2>2 DEF ShmemMsg, DataMsg, ControlMsg
  <2> QED BY <2>1, <2>3, MSIAssumption DEF MSIAssumption
<1>6. TakenFrom(s, h, a)
  BY <1>1, <1>2, <1>3, <1>5, DirTakes
<1>7. f \in Entry
  BY EntryOfType DEF TypeOK
<1>f. f.sharers = {s} /\ f.owner = s
  BY <1>4, ModifiedEntry
<1> HIDE DEF f
<1>9. e \in Entry /\ e.sharers = {s} /\ e.st = "S"
  BY <1>7, <1>f DEF Entry
<1> HIDE DEF e
<1>10. /\ WrittenBack(a, s) /\ ~WrittenBack(a, s)' /\ Once(Up(a, s)', WbRep(a))
       /\ Granted(a, s)' <=> Granted(a, s)
       /\ GrantedEx(a, s)' <=> GrantedEx(a, s)
       /\ Left(a, s)' <=> Left(a, s)
       /\ Flushed(a, s)' <=> Flushed(a, s)
       /\ Once(Down(a, s), Rep(a)) => Once(Down(a, s)', Rep(a))
       /\ Once(Up(a, s), Gone(a)) => Once(Up(a, s)', Gone(a))
  BY <1>1, <1>2, <1>3, <1>5, TakesWbRep
<1>g. /\ \A u : GrantedEx(a, u) => Granted(a, u)
      /\ \A u : Flushed(a, u) => Left(a, u)
  BY DEF GrantedEx, Granted, Flushed, Left, In, ExRep, Rep, FlushRep, Gone, OfType
<1>11. ASSUME NEW u \in Tiles, EntryOf(a)' = e PROVE LinkInv(a, u)'
  <2>1. LinkInv(a, u) /\ l2'[u][a] = l2[u][a]
    BY <1>3 DEF CohInv, TokenInv
  <2>2. CASE u = s
    <3>1. /\ l2[s][a].st # "M" /\ ~Granted(a, s) /\ ~GrantedEx(a, s)
          /\ ~Flushed(a, s)
      BY <1>10, <1>g, <2>1, <2>2 DEF LinkInv
    <3> QED BY <1>9, <1>10, <1>11, <2>1, <2>2, <3>1 DEF LinkInv
  <2>3. CASE u # s
    <3>1. SameTokens(a, u)
      BY <1>6, <2>3 DEF TakenFrom
    <3>2. /\ l2[u][a].st = "I" /\ ~Granted(a, u) /\ ~Left(a, u) /\ ~WrittenBack(a, u)
          /\ ~GrantedEx(a, u) /\ ~Flushed(a, u)
      BY <1>f, <1>g, <2>1, <2>3 DEF LinkInv, f
    <3> QED BY <1>9, <1>11, <2>1, <3>1, <3>2 DEF LinkInv, SameTokens
  <2> QED BY <2>2, <2>3
<1>12. /\ \A b \in Addrs \ {a} : dram'[b] = dram[b]
       /\ dram'[a] = latest[a]
  BY <1>3, <1>5 DEF TypeOK, DirectoryOK
<1> HIDE DEF m
<1> QED BY <1>3, <1>4, <1>5, <1>6, <1>9, <1>11, <1>12, ReplyStep

\* The line that a directory handler serves.
LEMMA ServedLine ==
  ASSUME TypeOK, CohInv, NEW h \in Tiles, NEW r, NEW types,
         Serving(h, work[h].addr, r, types)
  PROVE  /\ lock[h] = "sim" /\ work[h] # None /\ work[h].addr \in Addrs
         /\ work[h].buf \in Values \cup {None}
         /\ Home[work[h].addr] = h /\ queue[work[h].addr] # <<>>
         /\ r = Head(queue[work[h].addr]) /\ r.type \in types /\ r.tile \in Tiles
<1>1. WorkInv(h)
  BY DEF CohInv, DataInv
<1> QED BY <1>1, FrontType DEF Serving, WorkInv

\* What a directory asks of the caches is no token of any line.
Asks(h, out) ==
  /\ out \in SimOutgoing /\ out \in Outgoing /\ WellRouted(h, out)
  /\ \A y \in Tiles, b \in Addrs : ~In(out[y], Token(b))

\* The requests of the directory to the caches are of that form.
LEMMA AsksCaches ==
  ASSUME NEW h \in Tiles, NEW a \in Addrs, Home[a] = h, NEW e, NEW S
  PROVE  Asks(h, FlushReq(e, a)) /\ Asks(h, WbReq(e, a)) /\ Asks(h, InvReq(S, a))
<1>1. ASSUME NEW type \in {"FLUSH_REQ", "WB_REQ", "INV_REQ"}, NEW n,
             n = Msg(type, "DIR", a, None), NEW out \in SimOutgoing,
             \A y \in Tiles : out[y] = <<n>> \/ out[y] = <<>>
      PROVE  Asks(h, out)
  <2>1. /\ n \in ShmemMsg /\ n.type = type /\ n.src = "DIR" /\ n.addr = a
        /\ n.val = None
    BY <1>1 DEF Msg, ShmemMsg, ControlMsg, MsgSource
  <2>2. \A y \in Tiles : \A R : In(out[y], R) => n \in R
    BY <1>1, InSingle
  <2>3. \A b \in Addrs : /\ n \notin Token(b) /\ n \notin ToHome(b)
                         /\ n \notin Stale(b, latest[b])
                         /\ n \in FromHome(b) => b = a
    BY <2>1 DEF Token, ToHome, Stale, FromHome, OfType
  <2>4. WellRouted(h, out) /\ \A y \in Tiles, b \in Addrs : ~In(out[y], Token(b))
    BY <2>2, <2>3 DEF WellRouted
  <2> QED BY <2>4, SimMsgsType DEF Asks
<1>2. \A type \in {"FLUSH_REQ", "WB_REQ", "INV_REQ"} :
        Msg(type, "DIR", a, None) \in SimMsg
  BY DEF Msg, SimMsg, ShmemMsg, ControlMsg, MsgSource, Comps
<1>3. Asks(h, FlushReq(e, a))
  <2>1. FlushReq(e, a) \in SimOutgoing
    BY <1>2, SimOutgoingType DEF FlushReq
  <2>2. \A y \in Tiles : \/ FlushReq(e, a)[y] = <<Msg("FLUSH_REQ", "DIR", a, None)>>
                         \/ FlushReq(e, a)[y] = <<>>
    BY DEF FlushReq, To
  <2> QED BY <1>1, <2>1, <2>2
<1>4. Asks(h, WbReq(e, a))
  <2>1. WbReq(e, a) \in SimOutgoing
    BY <1>2, SimOutgoingType DEF WbReq
  <2>2. \A y \in Tiles : \/ WbReq(e, a)[y] = <<Msg("WB_REQ", "DIR", a, None)>>
                         \/ WbReq(e, a)[y] = <<>>
    BY DEF WbReq, To
  <2> QED BY <1>1, <2>1, <2>2
<1>5. Asks(h, InvReq(S, a))
  <2>1. InvReq(S, a) \in SimOutgoing
    BY <1>2, SimOutgoingType DEF InvReq
  <2>2. \A y \in Tiles : \/ InvReq(S, a)[y] = <<Msg("INV_REQ", "DIR", a, None)>>
                         \/ InvReq(S, a)[y] = <<>>
    BY DEF InvReq, ToAll
  <2> QED BY <1>1, <2>1, <2>2
<1> QED BY <1>3, <1>4, <1>5

\* Sending it moves no token.
LEMMA AskMoves ==
  ASSUME TypeOK, CohInv, NEW h \in Tiles, NEW out, Asks(h, out), Send(h, out),
         UNCHANGED latest
  PROVE  /\ NetInv' /\ \A b \in Addrs, u \in Tiles : SameTokens(b, u)
         /\ \A u \in Tiles, c \in Comps, b \in Addrs :
              In(chan'[<<u, u>>], FromL1(c, b)) => In(chan[<<u, u>>], FromL1(c, b))
<1>1. NetworkOK /\ NetInv
  BY DEF TypeOK, CohInv
<1>2. /\ out \in SimOutgoing /\ out \in Outgoing /\ WellRouted(h, out)
      /\ \A y \in Tiles, b \in Addrs : ~In(out[y], Token(b))
  BY DEF Asks
<1>3. NetInv'
  BY <1>1, <1>2, SendRoutes
<1>4. \A b \in Addrs, u \in Tiles : SameTokens(b, u)
  BY <1>1, <1>2, QuietSend
<1> QED BY <1>1, <1>2, <1>3, <1>4, SendFromL1

\* The handler asks the caches and returns.
LEMMA AskStep ==
  ASSUME TypeOK, CohInv, NEW h \in Tiles, NEW a \in Addrs, Home[a] = h,
         lock[h] = "sim", work[h] # None, work[h].addr = a,
         NEW out, Asks(h, out), Send(h, out), StopServing(h),
         UNCHANGED <<l1, l2, latest, app, outst, queue, way, repl, dram>>,
         EntryOf(a).st = "M" \/ ~Passing(a)
  PROVE  CohInv'
<1>1. DirInv /\ TokenInv /\ DataInv
  BY DEF CohInv
<1>2. (\A b : EntryOf(b)' = EntryOf(b)) /\ DirInv'
  BY <1>1, DirFrame
<1>3. /\ NetInv' /\ \A b \in Addrs, u \in Tiles : SameTokens(b, u)
      /\ \A u \in Tiles, c \in Comps, b \in Addrs :
           In(chan'[<<u, u>>], FromL1(c, b)) => In(chan[<<u, u>>], FromL1(c, b))
  BY AskMoves
<1>4. /\ work'[h] = None
      /\ \A u \in Tiles \ {h} : lock'[u] = lock[u] /\ work'[u] = work[u]
  BY DEF StopServing, TypeOK, ThreadsOK, DirectoryOK
<1>5. \A b \in Addrs \ {a} : MemInv(b)'
  BY <1>2, <1>4, OtherMem
<1>6. MemInv(a)'
  BY <1>1, <1>2 DEF DataInv, MemInv
<1>7. \A u \in Tiles : LinkInv(a, u)'
  <2> SUFFICES ASSUME NEW u \in Tiles PROVE LinkInv(a, u)'
    OBVIOUS
  <2>1. LinkInv(a, u) /\ SameTokens(a, u)
    BY <1>1, <1>3 DEF TokenInv
  <2> QED BY <1>2, <2>1, LinkFrame
<1>8. WorkInv(h)' /\ OneEntryPerLine' /\ EntryInv(a)' /\ \A b \in Addrs : MemInv(b)'
  BY <1>2, <1>4, <1>5, <1>6 DEF WorkInv, DirInv
<1> QED BY <1>2, <1>3, <1>4, <1>7, <1>8, DirSideStep

\* processNextReqFromL2Cache
LEMMA NextReqEffect ==
  ASSUME TypeOK, NEW h \in Tiles, NEW a \in Addrs, lock[h] = "sim",
         work[h] # None, work[h].addr = a, NextReq(h, a)
  PROVE  /\ \A u \in Tiles \ {h} : lock'[u] = lock[u] /\ work'[u] = work[u]
         /\ work'[h] # None => /\ work'[h].addr = a /\ work'[h].buf = None
                               /\ lock'[h] = "sim"
         /\ \A b \in Addrs \ {a} : queue'[b] = queue[b]
<1>1. \A b \in Addrs \ {a} : queue'[b] = queue[b]
  BY DEF NextReq, TypeOK, DirectoryOK
<1>2. work[h] \in [addr : Addrs, buf : Values \cup {None}]
  BY DEF TypeOK, DirectoryOK
<1>3. CASE Len(queue[a]) > 1
  <2>1. work' = [work EXCEPT ![h].buf = None] /\ lock' = lock
    BY <1>3 DEF NextReq
  <2>2. /\ work'[h] = [work[h] EXCEPT !.buf = None]
        /\ \A u \in Tiles \ {h} : work'[u] = work[u]
    BY <2>1 DEF TypeOK, DirectoryOK
  <2>3. work'[h].addr = a /\ work'[h].buf = None
    BY <1>2, <2>2
  <2> QED BY <1>1, <2>1, <2>2, <2>3
<1>4. CASE ~(Len(queue[a]) > 1)
  <2>1. StopServing(h)
    BY <1>4 DEF NextReq
  <2>2. /\ work'[h] = None
        /\ \A u \in Tiles \ {h} : lock'[u] = lock[u] /\ work'[u] = work[u]
    BY <2>1 DEF StopServing, TypeOK, ThreadsOK, DirectoryOK
  <2> QED BY <1>1, <2>2
<1> QED BY <1>3, <1>4

\* A reply of the directory becomes the token of a tile that has none; the
\* tokens of the other tiles and lines stay where they are.
ReplySent(a, u, type) ==
  /\ NetInv' /\ Granted(a, u)' /\ Once(Down(a, u)', Rep(a))
  /\ GrantedEx(a, u)' <=> type = "EX_REP"
  /\ Left(a, u)' <=> Left(a, u)
  /\ Flushed(a, u)' <=> Flushed(a, u)
  /\ WrittenBack(a, u)' <=> WrittenBack(a, u)
  /\ Once(Up(a, u), Gone(a)) => Once(Up(a, u)', Gone(a))
  /\ Once(Up(a, u), WbRep(a)) => Once(Up(a, u)', WbRep(a))
  /\ \A b \in Addrs, x \in Tiles : b # a \/ x # u => SameTokens(b, x)
  /\ \A x \in Tiles, c \in Comps, b \in Addrs :
       In(chan'[<<x, x>>], FromL1(c, b)) => In(chan[<<x, x>>], FromL1(c, b))

\* retrieveDataAndSendToL2Cache sends such a reply.
LEMMA GrantSends ==
  ASSUME TypeOK, CohInv, NEW h \in Tiles, NEW a \in Addrs, Home[a] = h,
         NEW u \in Tiles, NEW type \in {"EX_REP", "SH_REP"},
         NEW v \in Values, v = latest[a], ~Granted(a, u),
         Send(h, To(u, <<Msg(type, "DIR", a, v)>>)), UNCHANGED latest
  PROVE  ReplySent(a, u, type)
<1> DEFINE n == Msg(type, "DIR", a, v)
           out == To(u, <<n>>)
<1>1. /\ n \in ShmemMsg /\ n \in SimMsg /\ n.type = type /\ n.src = "DIR"
      /\ n.addr = a /\ n.val = v
  BY DEF Msg, SimMsg, ShmemMsg, DataMsg, MsgSource, Comps
<1> HIDE DEF n
<1>2. out \in SimOutgoing /\ out \in Outgoing
  BY <1>1, SimOutgoingType, SimMsgsType
<1>3. \A y \in Tiles : out[y] = IF y = u THEN <<n>> ELSE <<>>
  BY DEF To
<1>4. Send(h, out)
  BY DEF n
<1> HIDE DEF out
<1>5. \A y \in Tiles : \A S : In(out[y], S) <=> y = u /\ n \in S
  BY <1>3, InSingle
<1>7. NetworkOK /\ NetInv
  BY DEF TypeOK, CohInv
<1>8. \A b \in Addrs : /\ n \in FromHome(b) => b = a
                       /\ n \notin ToHome(b) /\ n \notin Stale(b, latest[b])
                       /\ n \in Token(b) => b = a
  BY <1>1 DEF FromHome, ToHome, Stale, Token, OfType
<1>9. NetInv'
  <2>1. WellRouted(h, out)
    BY <1>5, <1>8 DEF WellRouted
  <2> QED BY <1>2, <1>4, <1>7, <2>1, SendRoutes
<1>10. ASSUME NEW b \in Addrs, NEW x \in Tiles, b # a \/ x # u
       PROVE  SameTokens(b, x)
  <2>1. \A y \in Tiles : (h = Home[b] /\ y = x) \/ (h = x /\ y = Home[b]) =>
           ~In(out[y], Token(b))
    <3>1. CASE b # a
      BY <1>5, <1>8, <3>1
    <3>2. CASE b = a /\ x # u
      <4>1. SUFFICES ASSUME NEW y \in Tiles, y = u, h = x /\ y = Home[b] PROVE FALSE
        BY <1>5, <3>2
      <4> QED BY <3>2, <4>1
    <3> QED BY <1>10, <3>1, <3>2
  <2> QED BY <1>2, <1>4, <1>7, <2>1, QuietSend
<1>11. /\ n \in Rep(a)
       /\ n \in ExRep(a) <=> type = "EX_REP"
       /\ n \notin Gone(a) /\ n \notin FlushRep(a) /\ n \notin WbRep(a)
  BY <1>1 DEF Rep, ExRep, Gone, FlushRep, WbRep, OfType
<1>12. ASSUME NEW x \in Tiles, NEW y \in Tiles, NEW S
       PROVE  /\ In(chan'[<<x, y>>], S)
                   <=> In(chan[<<x, y>>], S) \/ (x = h /\ y = u /\ n \in S)
              /\ Once(chan[<<x, y>>], S) /\ n \notin S => Once(chan'[<<x, y>>], S)
              /\ Once(chan[<<x, y>>], S) /\ ~In(chan[<<x, y>>], S) =>
                   Once(chan'[<<x, y>>], S)
  <2>1. /\ In(chan'[<<x, y>>], S)
             <=> In(chan[<<x, y>>], S) \/ (x = h /\ In(out[y], S))
        /\ Once(chan[<<x, y>>], S) /\ (x = h => ~In(out[y], S)) =>
             Once(chan'[<<x, y>>], S)
        /\ Once(chan[<<x, y>>], S) /\ ~In(chan[<<x, y>>], S)
            /\ (x = h => Once(out[y], S)) => Once(chan'[<<x, y>>], S)
    BY <1>2, <1>4, <1>7, SendIn
  <2>2. Once(<<n>>, S) /\ Once(<<>>, S)
    BY InSingle
  <2>3. Once(out[y], S)
    BY <1>3, <2>2
  <2> QED BY <1>5, <2>1, <2>3
<1>13. LinkInv(a, u) /\ ~GrantedEx(a, u)
  BY DEF CohInv, TokenInv, GrantedEx, Granted, In, ExRep, Rep, OfType
<1>14. Granted(a, u)' /\ Once(Down(a, u)', Rep(a))
  BY <1>11, <1>12, <1>13 DEF LinkInv, Granted, Down
<1>15. GrantedEx(a, u)' <=> type = "EX_REP"
  BY <1>11, <1>12, <1>13 DEF GrantedEx, Down
<1>16. /\ Left(a, u)' <=> Left(a, u)
       /\ Flushed(a, u)' <=> Flushed(a, u)
       /\ WrittenBack(a, u)' <=> WrittenBack(a, u)
  BY <1>11, <1>12 DEF Left, Flushed, WrittenBack, Up
<1>17. /\ Once(Up(a, u), Gone(a)) => Once(Up(a, u)', Gone(a))
       /\ Once(Up(a, u), WbRep(a)) => Once(Up(a, u)', WbRep(a))
  BY <1>11, <1>12 DEF Up
<1>18. \A x \in Tiles, c \in Comps, b \in Addrs :
         In(chan'[<<x, x>>], FromL1(c, b)) => In(chan[<<x, x>>], FromL1(c, b))
  BY <1>2, <1>4, <1>7, SendFromL1
<1> QED BY <1>9, <1>10, <1>14, <1>15, <1>16, <1>17, <1>18 DEF ReplySent

\* The handler adds the requester to the sharers and grants it the line.
LEMMA GrantStep ==
  ASSUME TypeOK, CohInv, NEW h \in Tiles, NEW a \in Addrs, Home[a] = h,
         lock[h] = "sim", work[h] # None, work[h].addr = a,
         work[h].buf \in Values \cup {None}, NEW r, r.tile \in Tiles,
         r.tile \notin EntryOf(a).sharers, EntryOf(a).st # "M", HasEntry(a),
         NEW e \in Entry, SetEntry(a, e), e.sharers = EntryOf(a).sharers \cup {r.tile},
         NEW type \in {"EX_REP", "SH_REP"}, Grant(h, a, r, type),
         type = "EX_REP" => e.st = "M" /\ e.owner = r.tile /\ EntryOf(a).sharers = {},
         type = "SH_REP" => e.st = "S" /\ ~TakesData(a),
         UNCHANGED <<l1, l2, latest, app, outst>>
  PROVE  CohInv'
<1> DEFINE u == r.tile
           v == IF work[h].buf = None THEN dram[a] ELSE work[h].buf
<1>1. DirectoryOK /\ OneEntryPerLine /\ WorkInv(h) /\ MemInv(a)
  BY DEF TypeOK, CohInv, DirInv, DataInv
<1>2. /\ EntryOf(a)' = e /\ OneEntryPerLine'
      /\ \A b \in Addrs \ {a} : EntryOf(b)' = EntryOf(b)
  BY <1>1, SetEntryEffect
<1>3. NextReq(h, a) /\ dram' = dram /\ Send(h, To(u, <<Msg(type, "DIR", a, v)>>))
  BY DEF Grant
<1>4. /\ \A x \in Tiles \ {h} : lock'[x] = lock[x] /\ work'[x] = work[x]
      /\ work'[h] # None => /\ work'[h].addr = a /\ work'[h].buf = None
                            /\ lock'[h] = "sim"
      /\ \A b \in Addrs \ {a} : queue'[b] = queue[b]
  BY <1>3, NextReqEffect
<1>5. v = latest[a] /\ v \in Values
  <2>1. CASE work[h].buf = None
    <3>1. ~Passing(a)
      BY <2>1 DEF Passing
    <3> QED BY <1>1, <2>1, <3>1 DEF MemInv, DirectoryOK
  <2>2. CASE work[h].buf # None
    BY <1>1, <2>2 DEF WorkInv
  <2> QED BY <2>1, <2>2
<1>6. \A x \in Tiles : LinkInv(a, x)
  BY DEF CohInv, TokenInv
<1>7. ~Granted(a, u) /\ ~Left(a, u) /\ ~WrittenBack(a, u) /\ l2[u][a].st = "I"
  BY <1>6 DEF LinkInv
<1>8. ~Flushed(a, u)
  BY <1>7 DEF Flushed, Left, In, FlushRep, Gone, OfType
<1> HIDE DEF v
<1>9. ReplySent(a, u, type)
  BY <1>3, <1>5, <1>7, GrantSends
<1>10. ASSUME NEW x \in Tiles PROVE LinkInv(a, x)'
  <2>1. l2'[x][a] = l2[x][a] /\ LinkInv(a, x)
    BY <1>6
  <2>2. CASE x = u
    BY <1>2, <1>7, <1>8, <1>9, <2>1, <2>2 DEF LinkInv, ReplySent
  <2>3. CASE x # u
    <3>1. SameTokens(a, x)
      BY <1>9, <2>3 DEF ReplySent
    <3>2. x \in e.sharers <=> x \in EntryOf(a).sharers
      BY <2>3
    <3>3. /\ l2[x][a].st # "M" /\ ~GrantedEx(a, x) /\ ~Flushed(a, x)
          /\ ~WrittenBack(a, x)
      BY <2>1 DEF LinkInv
    <3>4. ~(e.st = "M" /\ e.owner = x)
      BY <2>3
    <3> QED BY <1>2, <2>1, <3>1, <3>2, <3>3, <3>4 DEF LinkInv, SameTokens
  <2> QED BY <2>2, <2>3
<1>11. EntryInv(a)'
  BY <1>2 DEF EntryInv
<1>12. \A b \in Addrs \ {a} : MemInv(b)'
  BY <1>2, <1>3, <1>4, OtherMem
<1>13. MemInv(a)'
  <2>1. CASE type = "EX_REP"
    BY <1>2, <2>1 DEF MemInv
  <2>2. CASE type = "SH_REP"
    <3>1. ~Passing(a)
      BY <2>2 DEF Passing
    <3> QED BY <1>1, <1>3, <3>1 DEF MemInv
  <2> QED BY <2>1, <2>2
<1>14. WorkInv(h)'
  BY <1>4 DEF WorkInv
<1>15. \A b \in Addrs : MemInv(b)'
  BY <1>12, <1>13
<1>16. /\ NetInv'
       /\ \A x \in Tiles, c \in Comps, b \in Addrs :
            In(chan'[<<x, x>>], FromL1(c, b)) => In(chan[<<x, x>>], FromL1(c, b))
       /\ \A b \in Addrs \ {a}, x \in Tiles : SameTokens(b, x)
  BY <1>9 DEF ReplySent
<1> QED BY <1>2, <1>4, <1>10, <1>11, <1>14, <1>15, <1>16, DirSideStep

\* addSharer, part by part.
LEMMA AddSharer ==
  ASSUME NEW e \in Entry, NEW t \in Tiles
  PROVE  /\ addSharer(e, t) \in Entry
         /\ addSharer(e, t).sharers = e.sharers \cup {t}
<1>1. addSharer(e, t) \in Entry
  BY SharersType
<1>2. addSharer(e, t).sharers = e.sharers \cup {t}
  BY DEF addSharer, Entry
<1> QED BY <1>1, <1>2

\* A handler that waits has no data in its hands.
LEMMA AwaitEffect ==
  ASSUME NEW h, NEW a, NEW out, Await(h, a, out), err' = {}, Home[a] = h
  PROVE  Send(h, out) /\ StopServing(h) /\ UNCHANGED <<queue, dram>> /\ ~Passing(a)
BY DEF Await, Check, Failure, Passing

\* processExReqFromL2Cache
LEMMA ServeExStep ==
  ASSUME TypeOK, CohInv, NEW h \in Tiles, DirServeExReq(h), err' = {}
  PROVE  CohInv'
<1> DEFINE r == Head(queue[work[h].addr])
<1>1. Serving(h, work[h].addr, r, {"EX_REQ"})
  BY DEF DirServeExReq
<1>2. PICK a \in Addrs : a = work[h].addr
  BY <1>1, ServedLine
<1>3. /\ lock[h] = "sim" /\ work[h] # None /\ work[h].buf \in Values \cup {None}
      /\ Home[a] = h /\ queue[a] # <<>> /\ r = Head(queue[a])
      /\ r.tile \in Tiles
  BY <1>1, <1>2, ServedLine
<1> DEFINE e == EntryOf(a)
<1>4. HasEntry(a) /\ UNCHANGED <<l1, l2, latest, app, outst>>
  BY <1>2 DEF DirServeExReq, cacheVars
<1>5. \/ e.st = "M" /\ Await(h, a, FlushReq(e, a)) /\ UNCHANGED <<way, repl>>
      \/ e.st = "S" /\ Await(h, a, InvReq(InvTargets(e), a)) /\ UNCHANGED <<way, repl>>
      \/ /\ e.st = "U" /\ r.tile \notin e.sharers
         /\ SetEntry(a, [addSharer(e, r.tile) EXCEPT !.owner = r.tile, !.st = "M"])
         /\ Grant(h, a, r, "EX_REP")
  BY <1>2 DEF DirServeExReq, Check, Failure
<1> HIDE DEF r
<1>6. e \in Entry
  BY EntryOfType DEF TypeOK
<1>7. ASSUME NEW out, Await(h, a, out), Asks(h, out), UNCHANGED <<way, repl>>
      PROVE  CohInv'
  <2>1. Send(h, out) /\ StopServing(h) /\ UNCHANGED <<queue, dram>> /\ ~Passing(a)
    BY <1>3, <1>7, AwaitEffect
  <2> QED BY <1>2, <1>3, <1>4, <1>7, <2>1, AskStep
<1>8. CASE e.st = "M" /\ Await(h, a, FlushReq(e, a)) /\ UNCHANGED <<way, repl>>
  BY <1>3, <1>7, <1>8, AsksCaches
<1>9. CASE /\ e.st = "S" /\ Await(h, a, InvReq(InvTargets(e), a))
           /\ UNCHANGED <<way, repl>>
  BY <1>3, <1>7, <1>9, AsksCaches
<1>10. CASE /\ e.st = "U" /\ r.tile \notin e.sharers
            /\ SetEntry(a, [addSharer(e, r.tile) EXCEPT !.owner = r.tile, !.st = "M"])
            /\ Grant(h, a, r, "EX_REP")
  <2> DEFINE f == addSharer(e, r.tile)
             g == [f EXCEPT !.owner = r.tile, !.st = "M"]
  <2>1. f \in Entry /\ f.sharers = e.sharers \cup {r.tile}
    BY <1>3, <1>6, AddSharer
  <2>2. SetEntry(a, g)
    BY <1>10
  <2> HIDE DEF f
  <2>3. /\ g \in Entry /\ g.sharers = f.sharers /\ g.st = "M" /\ g.owner = r.tile
    BY <1>3, <2>1 DEF Entry
  <2> HIDE DEF g
  <2>4. e.sharers = {}
    BY <1>10 DEF CohInv, DirInv, EntryInv
  <2>5. /\ e.st # "M" /\ g.sharers = e.sharers \cup {r.tile}
        /\ r.tile \notin e.sharers /\ Grant(h, a, r, "EX_REP")
    BY <1>10, <2>1, <2>3
  <2> QED BY <1>2, <1>3, <1>4, <2>2, <2>3, <2>4, <2>5, GrantStep
<1> QED BY <1>5, <1>8, <1>9, <1>10

\* processShReqFromL2Cache
LEMMA ServeShStep ==
  ASSUME TypeOK, CohInv, NEW h \in Tiles, DirServeShReq(h), err' = {}
  PROVE  CohInv'
<1> DEFINE r == Head(queue[work[h].addr])
<1>1. Serving(h, work[h].addr, r, {"SH_REQ"})
  BY DEF DirServeShReq
<1>2. PICK a \in Addrs : a = work[h].addr
  BY <1>1, ServedLine
<1>3. /\ lock[h] = "sim" /\ work[h] # None /\ work[h].buf \in Values \cup {None}
      /\ Home[a] = h /\ queue[a] # <<>> /\ r = Head(queue[a])
      /\ r.tile \in Tiles /\ r.type \in {"SH_REQ"}
  BY <1>1, <1>2, ServedLine
<1> DEFINE e == EntryOf(a)
<1>4. HasEntry(a) /\ UNCHANGED <<l1, l2, latest, app, outst>>
  BY <1>2 DEF DirServeShReq, cacheVars
<1>5. \/ e.st = "M" /\ Await(h, a, WbReq(e, a)) /\ UNCHANGED <<way, repl>>
      \/ /\ \E x \in e.hw : Send(h, InvReq({x}, a))
         /\ StopServing(h) /\ UNCHANGED <<queue, dram, way, repl>>
      \/ /\ e.st \in {"U", "S"} /\ r.tile \notin e.sharers
         /\ SetEntry(a, [addSharer(e, r.tile) EXCEPT !.st = "S"])
         /\ Grant(h, a, r, "SH_REP")
  BY <1>2 DEF DirServeShReq, Check, Failure
<1>6. e \in Entry
  BY EntryOfType DEF TypeOK
<1>7. ~TakesData(a) /\ ~Passing(a)
  BY <1>3 DEF TakesData, Passing
<1> HIDE DEF r
<1>8. CASE e.st = "M" /\ Await(h, a, WbReq(e, a)) /\ UNCHANGED <<way, repl>>
  <2>1. /\ Send(h, WbReq(e, a)) /\ StopServing(h) /\ UNCHANGED <<queue, dram>>
        /\ Asks(h, WbReq(e, a))
    BY <1>3, <1>8, AwaitEffect, AsksCaches
  <2> QED BY <1>2, <1>3, <1>4, <1>7, <1>8, <2>1, AskStep
<1>9. CASE /\ \E x \in e.hw : Send(h, InvReq({x}, a))
           /\ StopServing(h) /\ UNCHANGED <<queue, dram, way, repl>>
  <2>1. PICK x \in e.hw : Send(h, InvReq({x}, a))
    BY <1>9
  <2>2. Asks(h, InvReq({x}, a))
    BY <1>3, AsksCaches
  <2> QED BY <1>2, <1>3, <1>4, <1>7, <1>9, <2>1, <2>2, AskStep
<1>10. CASE /\ e.st \in {"U", "S"} /\ r.tile \notin e.sharers
            /\ SetEntry(a, [addSharer(e, r.tile) EXCEPT !.st = "S"])
            /\ Grant(h, a, r, "SH_REP")
  <2> DEFINE f == addSharer(e, r.tile)
             g == [f EXCEPT !.st = "S"]
  <2>1. f \in Entry /\ f.sharers = e.sharers \cup {r.tile}
    BY <1>3, <1>6, AddSharer
  <2>2. SetEntry(a, g)
    BY <1>10
  <2> HIDE DEF f
  <2>3. g \in Entry /\ g.sharers = f.sharers /\ g.st = "S"
    BY <2>1 DEF Entry
  <2> HIDE DEF g
  <2>4. /\ e.st # "M" /\ g.sharers = e.sharers \cup {r.tile}
        /\ r.tile \notin e.sharers /\ Grant(h, a, r, "SH_REP")
    BY <1>10, <2>1, <2>3
  <2> QED BY <1>2, <1>3, <1>4, <1>7, <2>2, <2>3, <2>4, GrantStep
<1> QED BY <1>5, <1>8, <1>9, <1>10

\* A request whose line has no entry and finds a free way gets it: the entry
\* it starts with says what the directory knew before, that nobody has the
\* line.
LEMMA AllocateFreeStep ==
  ASSUME TypeOK, CohInv, NEW h \in Tiles, DirAllocateFree(h)
  PROVE  CohInv'
<1> DEFINE r == Head(queue[work[h].addr])
<1>1. Serving(h, work[h].addr, r, {"EX_REQ", "SH_REQ"})
  BY DEF DirAllocateFree
<1>2. PICK a \in Addrs : a = work[h].addr
  BY <1>1, ServedLine
<1>3. /\ lock[h] = "sim" /\ Home[a] = h
  BY <1>1, <1>2, ServedLine
<1>4. /\ way[a] = None /\ FreeWay(h) /\ way' = [way EXCEPT ![a] = FreshEntry]
      /\ UNCHANGED <<l1, l2, latest, app, outst, lock>>
      /\ UNCHANGED <<chan, queue, repl, work, dram>>
  BY <1>2 DEF DirAllocateFree, cacheVars, syncVars
<1>5. OneEntryPerLine /\ DirInv /\ TokenInv /\ NetInv /\ DataInv
  BY DEF CohInv, DirInv
<1>6. \A b \in Addrs : Home[b] = h => repl[b] = None
  BY <1>4, <1>5 DEF OneEntryPerLine
<1>7. way \in [Addrs -> Entry \cup {None}]
  BY DEF TypeOK, DirectoryOK
<1>8. \A b \in Addrs : EntryOf(b)' = EntryOf(b)
  BY <1>3, <1>4, <1>6, <1>7 DEF EntryOf
<1>9. OneEntryPerLine'
  <2>1. ASSUME NEW b \in Addrs, Home[b] # h PROVE FreeWay(Home[b])' = FreeWay(Home[b])
    <3>1. {c \in Addrs : Home[c] = Home[b] /\ way'[c] # None} =
            {c \in Addrs : Home[c] = Home[b] /\ way[c] # None}
      BY <1>3, <1>4, <1>7, <2>1
    <3> QED BY <3>1 DEF FreeWay
  <2> QED BY <1>3, <1>4, <1>5, <1>6, <1>7, <2>1 DEF OneEntryPerLine
<1>10. \A b \in Addrs : EntryInv(b)'
  BY <1>5, <1>8 DEF DirInv, EntryInv
<1>11. \A b \in Addrs : MemInv(b)'
  BY <1>4, <1>5, <1>8 DEF DataInv, MemInv, Passing, TakesData
<1>12. WorkInv(h)'
  <2>1. EntryOf(a)' = EntryOf(a) /\ WorkInv(h) /\ work'[h] = work[h]
    BY <1>4, <1>5, <1>8 DEF DataInv
  <2>2. EntryOf(work[h].addr)' = EntryOf(work[h].addr)
    BY <1>2, <1>4, <2>1
  <2> QED BY <1>4, <2>1, <2>2 DEF WorkInv
<1>13. \A b \in Addrs, u \in Tiles : SameTokens(b, u)
  BY <1>4, SameChannelsSameTokens
<1>14. \A u \in Tiles : LinkInv(a, u)'
  BY <1>4, <1>5, <1>8, <1>13, LinkFrame DEF TokenInv
<1>15. NetInv'
  BY <1>4, <1>5 DEF NetInv, RouteInv
<1>16. /\ lock[h] # "app"
       /\ \A u \in Tiles \ {h} : lock'[u] = lock[u] /\ work'[u] = work[u]
       /\ \A u \in Tiles, c \in Comps, b \in Addrs :
            In(chan'[<<u, u>>], FromL1(c, b)) => In(chan[<<u, u>>], FromL1(c, b))
  BY <1>3, <1>4
<1> QED BY <1>3, <1>4, <1>8, <1>9, <1>10, <1>11, <1>12, <1>13, <1>14, <1>15, <1>16,
           DirSideStep

\* processNullifyReq: the entry that was replaced is dropped.
LEMMA NullifyStep ==
  ASSUME TypeOK, CohInv, NEW h \in Tiles, DirServeNullify(h), err' = {}
  PROVE  CohInv'
<1> DEFINE r == Head(queue[work[h].addr])
<1>1. Serving(h, work[h].addr, r, {"NULLIFY_REQ"})
  BY DEF DirServeNullify
<1>2. PICK a \in Addrs : a = work[h].addr
  BY <1>1, ServedLine
<1>3. /\ lock[h] = "sim" /\ work[h] # None /\ Home[a] = h
      /\ r = Head(queue[a]) /\ r.type \in {"NULLIFY_REQ"}
  BY <1>1, <1>2, ServedLine
<1>4. /\ EntryOf(a).st = "U" /\ repl[a] # None
      /\ repl' = [repl EXCEPT ![a] = None] /\ NextReq(h, a)
      /\ UNCHANGED <<l1, l2, latest, app, outst>>
      /\ UNCHANGED <<chan, way, dram>>
  BY <1>2 DEF DirServeNullify, Check, Failure, cacheVars
<1>5. OneEntryPerLine /\ DirInv /\ TokenInv /\ NetInv /\ DataInv
  BY DEF CohInv, DirInv
<1>6. way[a] = None
  BY <1>4, <1>5 DEF OneEntryPerLine
<1>7. repl \in [Addrs -> Entry \cup {None}]
  BY DEF TypeOK, DirectoryOK
<1>8. /\ \A b \in Addrs \ {a} : EntryOf(b)' = EntryOf(b)
      /\ EntryOf(a)' = FreshEntry
  BY <1>4, <1>6, <1>7 DEF EntryOf
<1>9. OneEntryPerLine'
  <2>1. \A b \in Addrs : repl'[b] # None => repl[b] # None
    BY <1>4, <1>7
  <2>2. \A g : FreeWay(g)' = FreeWay(g)
    BY <1>4 DEF FreeWay
  <2> QED BY <1>4, <1>5, <2>1, <2>2 DEF OneEntryPerLine
<1>10. EntryInv(a)' /\ EntryOf(a).sharers = {}
  BY <1>4, <1>5, <1>8 DEF DirInv, EntryInv, FreshEntry
<1>11. /\ \A u \in Tiles \ {h} : lock'[u] = lock[u] /\ work'[u] = work[u]
       /\ work'[h] # None => /\ work'[h].addr = a /\ work'[h].buf = None
                             /\ lock'[h] = "sim"
       /\ \A b \in Addrs \ {a} : queue'[b] = queue[b]
  BY <1>2, <1>3, <1>4, NextReqEffect
<1>12. MemInv(a)'
  <2>1. ~Passing(a)
    BY <1>3 DEF Passing, TakesData
  <2> QED BY <1>4, <1>5, <2>1 DEF DataInv, MemInv
<1>13. \A b \in Addrs \ {a} : MemInv(b)'
  BY <1>2, <1>3, <1>4, <1>8, <1>11, OtherMem
<1>14. WorkInv(h)'
  BY <1>3, <1>11 DEF WorkInv
<1>15. \A b \in Addrs, u \in Tiles : SameTokens(b, u)
  BY <1>4, SameChannelsSameTokens
<1>16. ASSUME NEW u \in Tiles PROVE LinkInv(a, u)'
  <2>1. LinkInv(a, u) /\ SameTokens(a, u) /\ l2'[u][a] = l2[u][a]
    BY <1>4, <1>5, <1>15 DEF TokenInv
  <2>2. EntryOf(a)'.sharers = EntryOf(a).sharers /\ EntryOf(a)'.st = "U"
    BY <1>8, <1>10 DEF FreshEntry
  <2> QED BY <1>4, <2>1, <2>2 DEF LinkInv, SameTokens
<1>17. NetInv'
  BY <1>4, <1>5 DEF NetInv, RouteInv
<1>18. /\ lock[h] # "app" /\ \A b \in Addrs : MemInv(b)'
       /\ \A u \in Tiles, c \in Comps, b \in Addrs :
            In(chan'[<<u, u>>], FromL1(c, b)) => In(chan[<<u, u>>], FromL1(c, b))
  BY <1>3, <1>4, <1>12, <1>13
<1> HIDE DEF r
<1> QED BY <1>3, <1>4, <1>8, <1>9, <1>10, <1>11, <1>14, <1>15, <1>16, <1>17, <1>18,
           DirSideStep

\* A set of ways that loses one entry and gains another keeps its size.
LEMMA WaysSwapped ==
  ASSUME TypeOK, NEW h \in Tiles, NEW a \in Addrs, NEW b \in Addrs, Home[a] = h,
         Home[b] = h, way[a] = None, way[b] # None, NEW e \in Entry,
         way' = [way EXCEPT ![b] = None, ![a] = e]
  PROVE  \A g : FreeWay(g)' = FreeWay(g)
<1> DEFINE W(g) == {c \in Addrs : Home[c] = g /\ way[c] # None}
           V(g) == {c \in Addrs : Home[c] = g /\ way'[c] # None}
<1>1. /\ way'[a] # None /\ way'[b] = None /\ a # b
      /\ \A c \in Addrs \ {a, b} : way'[c] = way[c]
  BY NoneAssumption DEF NoneAssumption, TypeOK, DirectoryOK
<1>2. \A g : g # h => V(g) = W(g)
  BY <1>1
<1>3. V(h) = (W(h) \ {b}) \cup {a} /\ b \in W(h) /\ a \notin W(h) \ {b}
  BY <1>1
<1>4. IsFiniteSet(W(h))
  <2>1. IsFiniteSet(Addrs) /\ W(h) \subseteq Addrs
    BY MSIAssumption DEF MSIAssumption
  <2> HIDE DEF W
  <2> QED BY <2>1, FS_Subset
<1>5. Cardinality(V(h)) = Cardinality(W(h))
  <2> HIDE DEF V, W
  <2>1. /\ IsFiniteSet(W(h) \ {b})
        /\ Cardinality(W(h) \ {b}) = Cardinality(W(h)) - 1
    BY <1>3, <1>4, FS_RemoveElement
  <2>2. Cardinality((W(h) \ {b}) \cup {a}) = Cardinality(W(h) \ {b}) + 1
    BY <1>3, <2>1, FS_AddElement
  <2>3. Cardinality(W(h)) \in Nat
    BY <1>4, FS_CardinalityType
  <2> QED BY <1>3, <2>1, <2>2, <2>3
<1>6. \A g : Cardinality(V(g)) = Cardinality(W(g))
  BY <1>2, <1>5
<1> QED BY <1>6 DEF FreeWay

\* processDirectoryEntryAllocationReq: the entry of another line makes room.
\* Nobody loses sight of that line's copies.
LEMMA ReplaceStep ==
  ASSUME TypeOK, CohInv, NEW h \in Tiles, DirReplace(h), err' = {}
  PROVE  CohInv'
<1> DEFINE r == Head(queue[work[h].addr])
<1>1. Serving(h, work[h].addr, r, {"EX_REQ", "SH_REQ"})
  BY DEF DirReplace
<1>2. PICK a \in Addrs : a = work[h].addr
  BY <1>1, ServedLine
<1>3. /\ lock[h] = "sim" /\ Home[a] = h /\ work[h] # None
  BY <1>1, <1>2, ServedLine
<1>4. /\ ~HasEntry(a) /\ ~FreeWay(h) /\ Candidates(h) # {}
      /\ UNCHANGED <<l1, l2, latest, app, outst, lock>>
      /\ UNCHANGED <<work, dram>>
  BY <1>2 DEF DirReplace, Check, Failure, cacheVars, syncVars
<1>5. PICK b \in Candidates(h) :
        /\ way' = [way EXCEPT ![b] = None, ![a] = FreshEntry]
        /\ IF Uncached(way[b]) THEN UNCHANGED <<repl, queue, chan>>
           ELSE /\ repl' = [repl EXCEPT ![b] = way[b]]
                /\ queue' = [queue EXCEPT ![b] = Append(@,
                     [type |-> "NULLIFY_REQ", tile |-> r.tile])]
                /\ Send(h, IF way[b].st = "M" THEN FlushReq(way[b], b)
                           ELSE InvReq(InvTargets(way[b]), b))
  BY <1>2, <1>4 DEF DirReplace
<1>6. b \in Addrs /\ Home[b] = h /\ way[b] # None
  BY DEF Candidates
<1>7. OneEntryPerLine /\ DirInv /\ TokenInv /\ NetInv /\ DataInv
  BY DEF CohInv, DirInv
<1>8. way[a] = None /\ repl[a] = None /\ repl[b] = None /\ a # b
  BY <1>3, <1>4, <1>6, <1>7 DEF HasEntry, OneEntryPerLine
<1>9. /\ way \in [Addrs -> Entry \cup {None}] /\ repl \in [Addrs -> Entry \cup {None}]
      /\ queue \in [Addrs -> Seq(ShmemReq)]
      /\ FreshEntry \in Entry /\ FreshEntry # None
  BY NoneAssumption DEF TypeOK, DirectoryOK, FreshEntry, Entry, NoneAssumption
<1>10. /\ way'[a] = FreshEntry /\ way'[b] = None
       /\ \A c \in Addrs \ {a, b} : way'[c] = way[c]
  BY <1>5, <1>6, <1>8, <1>9
<1>11. /\ \A c \in Addrs \ {b} : repl'[c] = repl[c] /\ queue'[c] = queue[c]
       /\ repl'[b] = IF Uncached(way[b]) THEN None ELSE way[b]
  BY <1>5, <1>6, <1>8, <1>9
<1>12. /\ NetInv' /\ \A c \in Addrs, u \in Tiles : SameTokens(c, u)
       /\ \A u \in Tiles, c \in Comps, d \in Addrs :
            In(chan'[<<u, u>>], FromL1(c, d)) => In(chan[<<u, u>>], FromL1(c, d))
  <2>1. CASE Uncached(way[b])
    <3>1. chan' = chan
      BY <1>5, <2>1
    <3>2. NetInv'
      BY <1>4, <1>7, <3>1 DEF NetInv, RouteInv
    <3> QED BY <3>1, <3>2, SameChannelsSameTokens
  <2>2. CASE ~Uncached(way[b])
    <3>1. PICK out : Asks(h, out) /\ Send(h, out)
      <4>1. Asks(h, FlushReq(way[b], b)) /\ Asks(h, InvReq(InvTargets(way[b]), b))
        BY <1>6, AsksCaches
      <4>2. CASE way[b].st = "M"
        BY <1>5, <2>2, <4>1, <4>2
      <4>3. CASE way[b].st # "M"
        BY <1>5, <2>2, <4>1, <4>3
      <4> QED BY <4>2, <4>3
    <3> QED BY <1>4, <3>1, AskMoves
  <2> QED BY <2>1, <2>2
<1> HIDE DEF r
<1>13. \A c \in Addrs \ {b} : EntryOf(c)' = EntryOf(c)
  <2> SUFFICES ASSUME NEW c \in Addrs \ {b} PROVE EntryOf(c)' = EntryOf(c)
    OBVIOUS
  <2>1. CASE c = a
    BY <1>8, <1>9, <1>10, <2>1 DEF EntryOf
  <2>2. CASE c # a
    <3>1. way'[c] = way[c] /\ repl'[c] = repl[c]
      BY <1>10, <1>11, <2>2
    <3> QED BY <3>1 DEF EntryOf
  <2> QED BY <2>1, <2>2
<1>14. /\ EntryOf(b)'.st = EntryOf(b).st /\ EntryOf(b)'.sharers = EntryOf(b).sharers
       /\ EntryOf(b).st = "M" => EntryOf(b)'.owner = EntryOf(b).owner
  <2>1. EntryOf(b) = way[b]
    BY <1>6 DEF EntryOf
  <2>2. CASE Uncached(way[b])
    <3>1. EntryOf(b)' = FreshEntry
      BY <1>10, <1>11, <2>2 DEF EntryOf
    <3>2. EntryOf(b).sharers = {} /\ EntryOf(b).st = "U"
      BY <1>6, <1>7, <2>1, <2>2 DEF DirInv, EntryInv, Uncached
    <3> QED BY <3>1, <3>2 DEF FreshEntry
  <2>3. CASE ~Uncached(way[b])
    <3>1. EntryOf(b)' = way[b]
      BY <1>6, <1>10, <1>11, <2>3 DEF EntryOf
    <3> QED BY <2>1, <3>1
  <2> QED BY <2>2, <2>3
<1>15. OneEntryPerLine'
  <2>1. \A g : FreeWay(g)' = FreeWay(g)
    BY <1>3, <1>5, <1>6, <1>8, <1>9, WaysSwapped
  <2>2. \A c \in Addrs : ~(way'[c] # None /\ repl'[c] # None)
    <3> SUFFICES ASSUME NEW c \in Addrs PROVE ~(way'[c] # None /\ repl'[c] # None)
      OBVIOUS
    <3>1. CASE c = a
      BY <1>8, <1>11, <3>1
    <3>2. CASE c = b
      BY <1>10, <3>2
    <3>3. CASE c \notin {a, b}
      BY <1>7, <1>10, <1>11, <3>3 DEF OneEntryPerLine
    <3> QED BY <3>1, <3>2, <3>3
  <2>3. \A c \in Addrs : repl'[c] # None => ~FreeWay(Home[c])
    BY <1>4, <1>6, <1>7, <1>11 DEF OneEntryPerLine
  <2> QED BY <2>1, <2>2, <2>3 DEF OneEntryPerLine
<1>16. EntryInv(b)'
  BY <1>6, <1>7, <1>14 DEF DirInv, EntryInv
<1>17. \A c \in Addrs : MemInv(c)'
  <2> SUFFICES ASSUME NEW c \in Addrs PROVE MemInv(c)'
    OBVIOUS
  <2>1. MemInv(c) /\ EntryOf(c)'.st = EntryOf(c).st
    BY <1>7, <1>13, <1>14 DEF DataInv
  <2>2. CASE c = b
    <3>1. ~Passing(c)
      BY <1>2, <1>6, <1>8, <2>2 DEF Passing
    <3> QED BY <1>4, <2>1, <3>1 DEF MemInv
  <2>3. CASE c # b
    <3>1. Passing(c)' <=> Passing(c)
      BY <1>4, <1>11, <2>3 DEF Passing, TakesData
    <3> QED BY <1>4, <2>1, <3>1 DEF MemInv
  <2> QED BY <2>2, <2>3
<1>18. WorkInv(h)'
  <2>1. EntryOf(a)' = EntryOf(a) /\ WorkInv(h) /\ work'[h] = work[h]
    BY <1>4, <1>7, <1>8, <1>13 DEF DataInv
  <2>2. EntryOf(work[h].addr)' = EntryOf(work[h].addr)
    BY <1>2, <1>4, <2>1
  <2> QED BY <1>4, <2>1, <2>2 DEF WorkInv
<1>19. ASSUME NEW u \in Tiles PROVE LinkInv(b, u)'
  <2>1. LinkInv(b, u) /\ SameTokens(b, u) /\ l2'[u][b] = l2[u][b]
    BY <1>4, <1>6, <1>7, <1>12 DEF TokenInv
  <2> QED BY <1>14, <2>1 DEF LinkInv, SameTokens
<1>20. /\ lock[h] # "app"
       /\ \A u \in Tiles \ {h} : lock'[u] = lock[u] /\ work'[u] = work[u]
  BY <1>3, <1>4
<1> QED BY <1>4, <1>6, <1>12, <1>13, <1>15, <1>16, <1>17, <1>18, <1>19, <1>20, DirSideStep

\* The steps of the directories keep the invariant.
LEMMA DirStepCoh ==
  ASSUME TypeOK, CohInv, NEW s \in Tiles, NEW h \in Tiles, err' = {},
         \/ DirRecvReq(s, h) \/ DirRecvInvRep(s, h)
         \/ DirRecvFlushRep(s, h) \/ DirRecvWbRep(s, h) \/ ServeStep(h)
  PROVE  CohInv'
BY RecvReqStep, InvRepStep, FlushRepStep, WbRepStep, AllocateFreeStep, ReplaceStep,
   ServeExStep, ServeShStep, NullifyStep DEF ServeStep

-----------------------------------------------------------------------------
(* Coherence *)

\* The invariant holds initially: everything is empty and DRAM is current.
LEMMA InitCoh == Init => CohInv
<1> SUFFICES ASSUME Init PROVE CohInv
  OBVIOUS
<1>1. /\ \A t \in Tiles, c \in Comps, a \in Addrs : l1[t][c][a].st = "I"
      /\ \A t \in Tiles, a \in Addrs : l2[t][a].st = "I"
  BY DEF Init, InvalidL1, InvalidL2
<1>2. \A s \in Tiles, t \in Tiles : chan[<<s, t>>] = <<>>
  BY DEF Init
<1>3. \A S : ~In(<<>>, S) /\ Once(<<>>, S)
  BY InSingle
<1>4. /\ \A a \in Addrs : way[a] = None /\ repl[a] = None /\ dram[a] = latest[a]
      /\ \A t \in Tiles : work[t] = None /\ outst[t] = None /\ app[t].pc = "idle"
  BY DEF Init
<1>5. \A a \in Addrs : EntryOf(a) = FreshEntry /\ Home[a] \in Tiles
  BY <1>4, MSIAssumption DEF EntryOf, MSIAssumption
<1>6. CacheInv
  <2>1. Inclusion /\ CopiesAreCurrent
    BY <1>1 DEF Inclusion, CopiesAreCurrent
  <2>2. \A t \in Tiles, c \in Comps, a \in Addrs : KindInv(t, c, a)
    BY <1>1, <1>2, <1>3, <1>4 DEF KindInv
  <2> QED BY <1>4, <2>1, <2>2 DEF CacheInv, AtomicInv
<1>7. DirInv
  BY <1>4, <1>5 DEF DirInv, OneEntryPerLine, EntryInv, FreshEntry
<1>8. TokenInv
  <2> SUFFICES ASSUME NEW a \in Addrs, NEW t \in Tiles PROVE LinkInv(a, t)
    BY DEF TokenInv
  <2>1. Down(a, t) = <<>> /\ Up(a, t) = <<>>
    BY <1>2, <1>5 DEF Down, Up
  <2>2. /\ ~Granted(a, t) /\ ~GrantedEx(a, t) /\ ~Left(a, t)
        /\ ~Flushed(a, t) /\ ~WrittenBack(a, t)
    BY <1>3, <2>1 DEF Granted, GrantedEx, Left, Flushed, WrittenBack
  <2>3. EntryOf(a).st # "M"
    BY <1>5 DEF FreshEntry
  <2> QED BY <1>1, <1>3, <2>1, <2>2, <2>3 DEF LinkInv
<1>9. NetInv
  BY <1>2, <1>3 DEF NetInv, RouteInv
<1>10. DataInv
  BY <1>4 DEF DataInv, MemInv, WorkInv
<1> QED BY <1>6, <1>7, <1>8, <1>9, <1>10 DEF CohInv

\* What holds in every state: the types, the hand-over of the tiles and, as
\* long as no assertion has failed, coherence.
CoherenceInv == TypeOK /\ HandoverInv /\ (err = {} => CohInv)

\* The inductive step: one case per action of Next.
LEMMA CoherenceStep ==
  ASSUME SplitLines, CoherenceInv, [Next]_vars
  PROVE  CoherenceInv'
<1> USE DEF CoherenceInv
<1>1. CASE UNCHANGED vars
  <2>1. /\ UNCHANGED <<l1, l2, app, sim, lock, appSem, simSem, outst, chan>>
        /\ UNCHANGED <<latest, queue, way, repl, work, dram, err>>
    BY <1>1 DEF vars, cacheVars, syncVars, dirVars
  <2>2. TypeOK'
    BY <2>1 DEF TypeOK, CachesOK, ThreadsOK, NetworkOK, DirectoryOK
  <2>3. HandoverInv'
    BY <2>1 DEF HandoverInv, Handover, L1Requests
  <2>4. ASSUME err = {} PROVE CohInv'
    <3>1. CacheInv /\ DirInv /\ TokenInv /\ NetInv /\ DataInv
      BY <2>4 DEF CohInv
    <3>2. CacheInv' /\ DirInv' /\ DataInv' /\ \A a : EntryOf(a)' = EntryOf(a)
      BY <2>1, <3>1, CacheFrame, DirFrame, DataFrame
    <3>3. TokenInv'
      BY <2>1, <3>1, <3>2, LinkFrame, SameChannelsSameTokens DEF TokenInv
    <3>4. NetInv'
      BY <2>1, <3>1 DEF NetInv, RouteInv
    <3> QED BY <3>2, <3>3, <3>4 DEF CohInv
  <2> QED BY <2>1, <2>2, <2>3, <2>4
<1>2. CASE Next
  <2>1. err = {} /\ CohInv /\ TypeOK /\ HandoverInv
    BY <1>2 DEF Next
  <2>2. HandoverInv'
    BY <1>2, <2>1, HandoverStep
  <2>3. TypeOK'
    BY <1>2, <2>1, TypeStep
  <2>4. ASSUME err' = {} PROVE CohInv'
    <3>1. PICK t \in Tiles :
            \/ AppStep(t) \/ L2RecvFromL1(t) \/ SimResume(t) \/ ServeStep(t)
            \/ \E s \in Tiles : RecvStep(s, t)
      BY <1>2 DEF Next
    <3>2. CASE AppStep(t)
      BY <2>1, <2>4, <3>2, AppStepCoh
    <3>3. CASE L2RecvFromL1(t) \/ SimResume(t)
      BY <2>1, <2>4, <3>3, L2StepCoh
    <3>4. CASE ServeStep(t)
      BY <2>1, <2>4, <3>4, DirStepCoh
    <3>5. ASSUME NEW s \in Tiles, RecvStep(s, t) PROVE CohInv'
      <4>1. CASE \/ L2RecvReply(s, t) \/ L2RecvInvReq(s, t)
                 \/ L2RecvFlushReq(s, t) \/ L2RecvWbReq(s, t)
        BY <2>1, <2>4, <4>1, L2StepCoh
      <4>2. CASE \/ DirRecvReq(s, t) \/ DirRecvInvRep(s, t)
                 \/ DirRecvFlushRep(s, t) \/ DirRecvWbRep(s, t)
        BY <2>1, <2>4, <4>2, DirStepCoh
      <4> QED BY <3>5, <4>1, <4>2 DEF RecvStep
    <3> QED BY <3>1, <3>2, <3>3, <3>4, <3>5
  <2> QED BY <2>2, <2>3, <2>4
<1> QED BY <1>1, <1>2

\* The token invariant holds in every state that no failed assertion precedes.
THEOREM CoherenceInvariant ==
  ASSUME SplitLines
  PROVE  Spec => []CoherenceInv
<1>1. Init => CoherenceInv
  BY InitType, InitHandover, InitCoh DEF CoherenceInv
<1>2. CoherenceInv /\ [Next]_vars => CoherenceInv'
  BY CoherenceStep
<1> QED BY <1>1, <1>2, PTL DEF Spec

\* A line that somebody shares has an entry that getDirectoryEntry finds.
LEMMA HoldersHaveEntry ==
  ASSUME OneEntryPerLine, NEW a \in Addrs, EntryOf(a).sharers # {}
  PROVE  HasEntry(a)
<1>1. EntryOf(a) # FreshEntry
  BY DEF FreshEntry
<1> QED BY <1>1 DEF EntryOf, HasEntry, OneEntryPerLine

\* CohInv is why the directory knows the holders of every line ...
LEMMA HoldersKnown ==
  ASSUME TypeOK, CohInv
  PROVE  DirectoryKnowsHolders
<1>1. Inclusion /\ OneEntryPerLine
  BY DEF CohInv, CacheInv, DirInv
<1>2. ASSUME NEW t \in Tiles, NEW a \in Addrs, l2[t][a].st # "I"
      PROVE  /\ HasEntry(a) /\ t \in EntryOf(a).sharers
             /\ l2[t][a].st = "M" => EntryOf(a).st = "M" /\ EntryOf(a).owner = t
  <2>1. LinkInv(a, t)
    BY DEF CohInv, TokenInv
  <2>2. t \in EntryOf(a).sharers
    BY <1>2, <2>1 DEF LinkInv
  <2>3. HasEntry(a)
    BY <1>1, <2>2, HoldersHaveEntry
  <2>4. l2[t][a].st = "M" => EntryOf(a).st = "M"
    BY <2>1 DEF LinkInv
  <2> QED BY <2>2, <2>3, <2>4, ModifiedEntry
<1> QED BY <1>1, <1>2 DEF DirectoryKnowsHolders

\* ... and why no write is lost: a modified line is in the owner's cache or
\* its data are on their way, and an uncached one is in DRAM or in the hands
\* of the directory.
LEMMA WritesKept ==
  ASSUME TypeOK, CohInv
  PROVE  NoLostWrite
<1>1. CopiesAreCurrent
  BY DEF CohInv, CacheInv
<1>2. ASSUME NEW a \in Addrs, \A t \in Tiles : l2[t][a].st # "M", ~Carried(a)
      PROVE  dram[a] = latest[a]
  <2>0. Home[a] \in Tiles
    BY MSIAssumption DEF MSIAssumption
  <2>1. ASSUME NEW x \in Tiles, NEW y \in Tiles, NEW T, T \subseteq DataMsg,
               In(chan[<<x, y>>], OfType(T, a))
        PROVE  FALSE
    <3>1. PICK i \in 1..Len(chan[<<x, y>>]) : chan[<<x, y>>][i] \in OfType(T, a)
      BY <2>1 DEF In
    <3> DEFINE m == chan[<<x, y>>][i]
    <3>2. m \in ShmemMsg /\ m.type \in DataMsg /\ m.addr = a
      BY <2>1, <3>1 DEF OfType
    <3>3. m.val \in Values
      BY <3>2 DEF ShmemMsg, DataMsg, ControlMsg
    <3>4. m.val # None
      BY <3>3, MSIAssumption DEF MSIAssumption
    <3>5. <<x, y>> \in Tiles \X Tiles
      OBVIOUS
    <3> QED BY <1>2, <3>1, <3>2, <3>4, <3>5 DEF Carried
  <2>2. EntryOf(a).st # "M"
    <3> SUFFICES ASSUME EntryOf(a).st = "M" PROVE FALSE
      OBVIOUS
    <3> DEFINE t == EntryOf(a).owner
    <3>1. t \in Tiles
      <4>1. EntryOf(a) \in Entry /\ EntryOf(a).sharers = {t}
        BY EntryOfType DEF TypeOK, CohInv, DirInv, EntryInv
      <4> QED BY <4>1 DEF Entry
    <3>2. LinkInv(a, t)
      BY <3>1 DEF CohInv, TokenInv
    <3>3. GrantedEx(a, t) \/ Flushed(a, t) \/ WrittenBack(a, t)
      BY <1>2, <3>1, <3>2 DEF LinkInv
    <3> QED BY <2>0, <2>1, <3>1, <3>3 DEF GrantedEx, Flushed, WrittenBack, Down, Up,
               ExRep, FlushRep, WbRep, DataMsg
  <2>3. ~Passing(a)
    BY <1>2, <2>0 DEF Passing, Carried
  <2> QED BY <2>2, <2>3 DEF CohInv, DataInv, MemInv
<1> QED BY <1>1, <1>2 DEF NoLostWrite

\* The directory and the caches agree, for every instance whose lines are
\* fetched or accessed as data but not both: as long as no assertion of the
\* code has failed, whoever has a line is a sharer of its only entry, or its
\* reply is on the way, and the L1 caches hold only what L2 answers for.
THEOREM HoldersAreKnown ==
  ASSUME SplitLines
  PROVE  Spec => [](NoAssertionFails => DirectoryKnowsHolders)
<1>1. CoherenceInv => (NoAssertionFails => DirectoryKnowsHolders)
  BY HoldersKnown DEF CoherenceInv, NoAssertionFails
<1> QED BY <1>1, CoherenceInvariant, PTL

\* No write is lost, for every such instance: as long as no assertion of the
\* code has failed, every copy is the last value written, and the last value
\* of a line that nobody has modified and nobody carries is in DRAM.
THEOREM WritesAreNotLost ==
  ASSUME SplitLines
  PROVE  Spec => [](NoAssertionFails => NoLostWrite)
<1>1. CoherenceInv => (NoAssertionFails => NoLostWrite)
  BY WritesKept DEF CoherenceInv, NoAssertionFails
<1> QED BY <1>1, CoherenceInvariant, PTL

-----------------------------------------------------------------------------
(* Stores *)

\* What a step of a tile's application may do to the lines: nothing, or one
\* store to a line that its L2 cache has modified.
OneStore(t) ==
  \/ latest' = latest
  \/ /\ app'[t].pc = "idle"
     /\ \E a \in Addrs, v \in Values :
          l2[t][a].st = "M" /\ latest' = [latest EXCEPT ![a] = v]

\* The application of tile t works on its own tile.
OwnTile(t) ==
  /\ \A u \in Tiles \ {t} : app'[u] = app[u]
  /\ \A u \in Tiles, a \in Addrs : l2'[u][a].st = l2[u][a].st

\* An access that is complete stores at most to its own line.
LEMMA AccessStores ==
  ASSUME TypeOK, NEW t \in Tiles, NEW r \in Access,
         NEW L1 \in L1Caches, NEW L2 \in L2Cache,
         \A b \in Addrs : L2[b].st = l2[t][b].st,
         r.op = "WRITE" => l2[t][r.addr].st = "M",
         accessCache(t, r, L1, L2), Return(t, r)
  PROVE  OneStore(t) /\ OwnTile(t)
<1>1. OwnTile(t)
  <2>1. AccessDone(t, r, L1, L2)
    BY AccessCacheEffect DEF TypeOK
  <2>2. \A u \in Tiles \ {t} : app'[u] = app[u]
    BY DEF Return, TypeOK, ThreadsOK
  <2>3. ASSUME NEW u \in Tiles, NEW a \in Addrs PROVE l2'[u][a].st = l2[u][a].st
    BY <2>1 DEF AccessDone
  <2> QED BY <2>2, <2>3 DEF OwnTile
<1>2. OneStore(t)
  <2>1. CASE r.op = "WRITE"
    <3>1. r.addr \in Addrs /\ r.val \in Values /\ r.sig = "NONE"
      BY <2>1 DEF Access
    <3>2. app'[t].pc = "idle"
      BY <3>1 DEF Return, TypeOK, ThreadsOK
    <3>3. latest' = [latest EXCEPT ![r.addr] = r.val]
      BY <2>1 DEF accessCache
    <3> QED BY <2>1, <3>1, <3>2, <3>3 DEF OneStore
  <2>2. CASE r.op # "WRITE"
    BY <2>2 DEF accessCache, OneStore
  <2> QED BY <2>1, <2>2
<1> QED BY <1>1, <1>2

\* A step of an application stores only where its tile may write.
LEMMA AppStores ==
  ASSUME TypeOK, CohInv, NEW t \in Tiles, AppStep(t), err' = {}
  PROVE  OneStore(t) /\ OwnTile(t)
<1>1. /\ l1[t] \in L1Caches /\ l2[t] \in L2Cache
      /\ l1 \in [Tiles -> [Comps -> [Addrs -> L1Line]]]
      /\ l2 \in [Tiles -> [Addrs -> L2Line]]
  BY DEF TypeOK, CachesOK, L1Caches, L2Cache
<1>2. ASSUME NEW r \in Access, L1Hit(t, r), accessCache(t, r, l1[t], l2[t]),
             Return(t, r)
      PROVE  OneStore(t) /\ OwnTile(t)
  <2>1. r.op = "WRITE" => l2[t][r.addr].st = "M"
    <3>1. r.op = "WRITE" => l1[t][r.comp][r.addr].st = "M"
      BY <1>2 DEF L1Hit, operationPermissible
    <3>2. r.comp \in Comps /\ r.addr \in Addrs
      BY DEF Access
    <3> QED BY <3>1, <3>2 DEF CohInv, CacheInv, Inclusion
  <2> QED BY <1>1, <1>2, <2>1, AccessStores
<1>3. ASSUME NEW r \in Accesses, AppL1Hit(t, r)
      PROVE  OneStore(t) /\ OwnTile(t)
  BY <1>2, <1>3, AccessesType DEF AppL1Hit
<1>4. ASSUME NEW r \in Accesses, AppL2Hit(t, r)
      PROVE  OneStore(t) /\ OwnTile(t)
  <2> DEFINE inv == [l1[t] EXCEPT ![r.comp][r.addr] = InvalidL1]
  <2>1. PICK victim \in Victims(inv[r.comp], L1Ways) :
          accessCache(t, r,
            L1After(inv, r.comp, r.addr, l2[t][r.addr], victim),
            [ClearCachedLoc(l2[t], victim) EXCEPT ![r.addr].loc = r.comp])
    BY <1>4 DEF AppL2Hit
  <2> DEFINE N1 == L1After(inv, r.comp, r.addr, l2[t][r.addr], victim)
             M2 == ClearCachedLoc(l2[t], victim)
             N2 == [M2 EXCEPT ![r.addr].loc = r.comp]
  <2>2. r \in Access /\ r.comp \in Comps /\ r.addr \in Addrs
    BY AccessesType DEF Access
  <2>3. N1 \in L1Caches
    <3>1. inv \in L1Caches
      BY <1>1, <2>2, InvalidLines DEF L1Caches
    <3> HIDE DEF inv
    <3> QED BY <1>1, <2>2, <3>1, L1AfterType DEF L2Cache
  <2>4. M2 \in L2Cache /\ \A b \in Addrs : M2[b].st = l2[t][b].st
    <3>1. M2 \in L2Cache
      BY <1>1, ClearCachedLocType
    <3>2. \A b \in Addrs : M2[b].st = l2[t][b].st
      BY <1>1 DEF ClearCachedLoc, L2Cache, L2Line
    <3> QED BY <3>1, <3>2
  <2> HIDE DEF M2
  <2>5. N2 \in L2Cache /\ \A b \in Addrs : N2[b].st = M2[b].st
    BY <2>2, <2>4 DEF L2Cache, L2Line
  <2>6. accessCache(t, r, N1, N2)
    BY <2>1 DEF M2
  <2> HIDE DEF N1, N2
  <2>7. Return(t, r) /\ (r.op = "WRITE" => l2[t][r.addr].st = "M")
    BY <1>4 DEF AppL2Hit, L2Hit, operationPermissible
  <2>8. \A b \in Addrs : N2[b].st = l2[t][b].st
    BY <2>4, <2>5
  <2> QED BY <2>2, <2>3, <2>5, <2>6, <2>7, <2>8, AccessStores
<1>5. ASSUME NEW r \in Accesses, AppMiss(t, r)
      PROVE  OneStore(t) /\ OwnTile(t)
  BY <1>5 DEF AppMiss, OneStore, OwnTile, TypeOK, ThreadsOK
<1>6. ASSUME AppResume(t) PROVE OneStore(t) /\ OwnTile(t)
  <2> DEFINE r == app[t].acc
  <2>1. app[t].pc = "wait" /\ L1Hit(t, r) /\ accessCache(t, r, l1[t], l2[t])
        /\ Return(t, r)
    BY <1>6 DEF AppResume, Check, Failure
  <2>2. r \in Access
    BY <2>1 DEF TypeOK, ThreadsOK, AppState
  <2> HIDE DEF r
  <2> QED BY <1>2, <2>1, <2>2
<1>7. ASSUME NEW v \in Values, AppUnlock(t, v) PROVE OneStore(t) /\ OwnTile(t)
  <2> DEFINE r == [app[t].acc EXCEPT !.op = "WRITE", !.sig = "NONE", !.val = v]
  <2>1. app[t].pc = "locked" /\ L1Hit(t, r) /\ accessCache(t, r, l1[t], l2[t])
        /\ Return(t, r)
    BY <1>7 DEF AppUnlock, Check, Failure
  <2>2. r \in Access
    <3>1. app[t].acc \in Access
      BY <2>1 DEF TypeOK, ThreadsOK, AppState
    <3> QED BY <3>1 DEF Access
  <2> HIDE DEF r
  <2> QED BY <1>2, <2>1, <2>2
<1> QED BY <1>3, <1>4, <1>5, <1>6, <1>7 DEF AppStep

\* The other threads store nothing, and only an L2 cache changes what its
\* tile may do.
LEMMA SimStores ==
  ASSUME TypeOK, NEW s \in Tiles, NEW t \in Tiles,
         \/ L2RecvFromL1(t) \/ SimResume(t) \/ ServeStep(t) \/ RecvStep(s, t)
  PROVE  /\ latest' = latest
         /\ \A u \in Tiles \ {t} : l2'[u] = l2[u]
<1>1. latest' = latest
  BY DEF L2RecvFromL1, SimResume, ServeStep, RecvStep, DirAllocateFree, DirReplace,
     DirServeExReq, DirServeShReq, DirServeNullify, L2RecvReply, L2RecvInvReq,
     L2RecvFlushReq, L2RecvWbReq, DirRecvReq, DirRecvInvRep, DirRecvFlushRep,
     DirRecvWbRep, cacheVars
<1>2. l2 \in [Tiles -> [Addrs -> L2Line]]
  BY DEF TypeOK, CachesOK
<1>3. CASE L2RecvFromL1(t) \/ SimResume(t)
  BY <1>2, <1>3 DEF L2RecvFromL1, SimResume, cacheVars
<1>4. CASE ServeStep(t)
  BY <1>4 DEF ServeStep, DirAllocateFree, DirReplace, DirServeExReq, DirServeShReq,
     DirServeNullify, cacheVars
<1>5. CASE L2RecvReply(s, t)
  BY <1>2, <1>5 DEF L2RecvReply, InsertInHierarchy, cacheVars
<1>6. CASE L2RecvInvReq(s, t) \/ L2RecvFlushReq(s, t) \/ L2RecvWbReq(s, t)
  BY <1>2, <1>6 DEF L2RecvInvReq, L2RecvFlushReq, L2RecvWbReq
<1>7. CASE \/ DirRecvReq(s, t) \/ DirRecvInvRep(s, t)
           \/ DirRecvFlushRep(s, t) \/ DirRecvWbRep(s, t)
  BY <1>7 DEF DirRecvReq, DirRecvInvRep, DirRecvFlushRep, DirRecvWbRep, cacheVars
<1> QED BY <1>1, <1>3, <1>4, <1>5, <1>6, <1>7 DEF RecvStep

\* Nobody stores to the line of an atomic instruction of another tile.
LEMMA AtomicStep ==
  ASSUME TypeOK, CohInv, Next, err' = {}, NEW u \in Tiles,
         app[u].pc = "locked", app'[u].pc = "locked"
  PROVE  latest'[app[u].acc.addr] = latest[app[u].acc.addr]
<1> DEFINE r == app[u].acc
<1>1. r \in Access /\ r.comp \in Comps /\ r.addr \in Addrs
  BY DEF TypeOK, ThreadsOK, AppState, Access
<1>2. l2[u][r.addr].st = "M"
  <2>1. l1[u][r.comp][r.addr].st = "M"
    BY DEF CohInv, CacheInv, AtomicInv
  <2> QED BY <1>1, <2>1 DEF CohInv, CacheInv, Inclusion
<1>3. PICK t \in Tiles :
        \/ AppStep(t) \/ L2RecvFromL1(t) \/ SimResume(t) \/ ServeStep(t)
        \/ \E s \in Tiles : RecvStep(s, t)
  BY DEF Next
<1>4. CASE AppStep(t)
  <2>1. OneStore(t)
    BY <1>4, AppStores
  <2>2. ASSUME app'[t].pc = "idle", NEW a \in Addrs, NEW v \in Values,
               l2[t][a].st = "M", latest' = [latest EXCEPT ![a] = v]
        PROVE  latest'[r.addr] = latest[r.addr]
    <3>1. t # u
      BY <2>2
    <3>2. r.addr # a
      BY <1>1, <1>2, <2>2, <3>1, Exclusive
    <3> QED BY <1>1, <2>2, <3>2 DEF TypeOK, CachesOK
  <2> QED BY <2>1, <2>2 DEF OneStore
<1>5. CASE ~AppStep(t)
  BY <1>3, <1>5, SimStores
<1> QED BY <1>4, <1>5

\* Atomic instructions are atomic, for every instance: between the READ_EX
\* with LOCK and the WRITE with UNLOCK of a tile nobody stores to the line,
\* in every run that fails no assertion.
THEOREM AtomicityHolds ==
  ASSUME SplitLines
  PROVE  Spec /\ []NoAssertionFails => AtomicInstructions
<1>1. CoherenceInv /\ NoAssertionFails /\ NoAssertionFails' /\ [Next]_vars =>
        [\A t \in Tiles :
           app[t].pc = "locked" /\ app'[t].pc = "locked" =>
             latest'[app[t].acc.addr] = latest[app[t].acc.addr]]_vars
  BY AtomicStep DEF CoherenceInv, NoAssertionFails
<1> QED BY <1>1, CoherenceInvariant, PTL DEF Spec, AtomicInstructions

-----------------------------------------------------------------------------
(* The protocol implements a coherent memory *)

\* What the tiles may do with the lines: the refinement mapping of perm.
Perm == [t \in Tiles |-> [a \in Addrs |-> l2[t][a].st]]

\* One tile changes what it may do, and stores nothing.
LEMMA PermissionStep ==
  ASSUME TypeOK', CohInv', NEW t \in Tiles, latest' = latest,
         \A u \in Tiles \ {t} : l2'[u] = l2[u]
  PROVE  Abstract!Change(t)
<1> DEFINE p == [a \in Addrs |-> l2'[t][a].st]
<1>1. p \in [Addrs -> {"I", "S", "M"}]
  BY DEF TypeOK, CachesOK, L2Line
<1>2. Perm' = [Perm EXCEPT ![t] = p]
  BY DEF Perm
<1>3. ASSUME NEW a \in Addrs PROVE Abstract!MayHave(t, a, p[a])
  <2>1. \A u \in Tiles \ {t} : Perm[u][a] = l2'[u][a].st
    BY DEF Perm
  <2>2. p[a] = l2'[t][a].st /\ p[a] \in {"I", "S", "M"}
    BY <1>1
  <2>3. ASSUME NEW u \in Tiles, NEW w \in Tiles, u # w, l2'[u][a].st = "M"
        PROVE  l2'[w][a].st = "I"
    <3>1. EntryOf(a)'.st = "M" /\ u \in EntryOf(a)'.sharers
      BY <2>3 DEF CohInv, TokenInv, LinkInv
    <3>2. EntryOf(a)'.sharers = {EntryOf(a)'.owner}
      BY <3>1 DEF CohInv, DirInv, EntryInv
    <3>3. w \notin EntryOf(a)'.sharers
      BY <2>3, <3>1, <3>2
    <3> QED BY <3>3 DEF CohInv, TokenInv, LinkInv
  <2>4. CASE p[a] = "I"
    BY <2>4 DEF Abstract!MayHave
  <2>5. CASE p[a] = "S"
    <3>1. \A u \in Tiles \ {t} : Perm[u][a] # "M"
      BY <2>1, <2>2, <2>3, <2>5
    <3> QED BY <2>5, <3>1 DEF Abstract!MayHave, Perm
  <2>6. CASE p[a] = "M"
    <3>1. \A u \in Tiles \ {t} : Perm[u][a] = "I"
      BY <2>1, <2>2, <2>3, <2>6
    <3> QED BY <2>6, <3>1 DEF Abstract!MayHave, Perm
  <2> QED BY <2>2, <2>4, <2>5, <2>6
<1> HIDE DEF p
<1> QED BY <1>1, <1>2, <1>3 DEF Abstract!Change, Perm

\* Every step of the protocol is a step of the memory, or none.
LEMMA RefinementStep ==
  ASSUME TypeOK, CohInv, TypeOK', CohInv', Next, err' = {}
  PROVE  Abstract!Next \/ (latest' = latest /\ Perm' = Perm)
<1>1. PICK t \in Tiles :
        \/ AppStep(t) \/ L2RecvFromL1(t) \/ SimResume(t) \/ ServeStep(t)
        \/ \E s \in Tiles : RecvStep(s, t)
  BY DEF Next
<1>2. CASE AppStep(t)
  <2>1. OneStore(t) /\ OwnTile(t)
    BY <1>2, AppStores
  <2>2. Perm' = Perm
    BY <2>1 DEF OwnTile, Perm
  <2>3. ASSUME NEW a \in Addrs, NEW v \in Values,
               l2[t][a].st = "M", latest' = [latest EXCEPT ![a] = v]
        PROVE  Abstract!Next
    <3>1. Perm[t][a] = "M"
      BY <2>3 DEF Perm
    <3>2. Abstract!Store(t, a, v)
      BY <2>2, <2>3, <3>1 DEF Abstract!Store, Perm
    <3> QED BY <3>2 DEF Abstract!Next
  <2> QED BY <2>1, <2>2, <2>3 DEF OneStore
<1>3. CASE ~AppStep(t)
  <2>1. latest' = latest /\ \A u \in Tiles \ {t} : l2'[u] = l2[u]
    BY <1>1, <1>3, SimStores
  <2>2. Abstract!Change(t)
    BY <2>1, PermissionStep
  <2> QED BY <2>2 DEF Abstract!Next
<1> QED BY <1>2, <1>3

\* The MSI protocol implements the coherent memory, for every instance: what
\* the L2 caches allow their tiles and the last values written behave, in
\* every run that fails no assertion, like a memory in which a store needs
\* the only permission there is.
THEOREM Refinement ==
  ASSUME SplitLines
  PROVE  Spec /\ []NoAssertionFails => ImplementsCoherentMemory
<1>1. Init => Abstract!Init
  BY DEF Init, Abstract!Init, InvalidL2
<1>2. CoherenceInv /\ CoherenceInv' /\ NoAssertionFails /\ NoAssertionFails'
      /\ [Next]_vars => [Abstract!Next]_<<latest, Perm>>
  <2> SUFFICES ASSUME CoherenceInv, CoherenceInv', err = {}, err' = {}, [Next]_vars
               PROVE  [Abstract!Next]_<<latest, Perm>>
    BY DEF NoAssertionFails
  <2>1. CASE Next
    BY <2>1, RefinementStep DEF CoherenceInv
  <2>2. CASE UNCHANGED vars
    BY <2>2 DEF vars, cacheVars, Perm
  <2> QED BY <2>1, <2>2
<1>3. CoherenceInv /\ CoherenceInv' /\ NoAssertionFails /\ NoAssertionFails'
      /\ [Next]_vars =>
        [Abstract!Next]_<<latest, [t \in Tiles |-> [a \in Addrs |-> l2[t][a].st]]>>
  BY <1>2 DEF Perm
<1> QED BY <1>1, <1>3, CoherenceInvariant, PTL
        DEF Spec, ImplementsCoherentMemory, Abstract!Spec
=============================================================================
