------------------------ MODULE MSIAssertions_proofs ------------------------
(***************************************************************************)
(* Proof that no assertion of the MSI protocol fails, for every number of  *)
(* tiles and lines and every directory scheme, when a directory set has an *)
(* entry for every request that can be in progress.  The steps of the      *)
(* directory keep AssertInv; AssertInv and CoherenceInv imply what each    *)
(* handler asserts.                                                        *)
(***************************************************************************)
EXTENDS MSIOrder_proofs, WellFoundedInduction

-----------------------------------------------------------------------------
(* Steps of the directories *)

\* A directory handler of h changes what is known of line a.
LEMMA DirSide ==
  ASSUME TypeOK, CohInv, AssertInv, NEW h \in Tiles, NEW a \in Addrs, Home[a] = h,
         UNCHANGED <<l1, l2, app, appSem, outst>>,
         \A g \in Tiles \ {h} : work'[g] = work[g],
         \A u \in Tiles : Keeps(chan[<<u, u>>], chan'[<<u, u>>], L1Msg),
         \A b \in Addrs \ {a} : /\ queue'[b] = queue[b]
                                /\ EntryOf(b)' = EntryOf(b)
                                /\ Served(b)' <=> Served(b)
                                /\ repl[b] # None => repl'[b] # None,
         \A b \in Addrs \ {a}, u \in Tiles : SameLink(b, u),
         \A u \in Tiles : PairInv(a, u)', QueueInv(a)', ServeInv(h)'
  PROVE  AssertInv'
<1>1. ASSUME NEW b \in Addrs, NEW u \in Tiles PROVE PairInv(b, u)'
  <2>1. CASE b = a
    BY <2>1
  <2>2. CASE b # a
    <3>1. PairInv(b, u) /\ SameLink(b, u) /\ l2'[u][b].st = l2[u][b].st
      BY <2>2 DEF AssertInv
    <3>2. /\ queue'[b] = queue[b] /\ (Served(b)' <=> Served(b))
          /\ EntryOf(b)' = EntryOf(b)
      BY <2>2
    <3> QED BY <3>1, <3>2, PairFrame
  <2> QED BY <2>1, <2>2
<1>2. ASSUME NEW u \in Tiles PROVE ThreadInv(u)'
  BY ThreadFrame DEF AssertInv
<1>3. ASSUME NEW b \in Addrs PROVE QueueInv(b)'
  <2>1. CASE b = a
    BY <2>1
  <2>2. CASE b # a
    BY <2>2 DEF AssertInv, QueueInv
  <2> QED BY <2>1, <2>2
<1>4. ASSUME NEW g \in Tiles PROVE ServeInv(g)'
  <2>1. CASE g = h
    BY <2>1
  <2>2. CASE g # h
    <3>1. ServeInv(g) /\ work'[g] = work[g] /\ WorkInv(g)
      BY <2>2 DEF AssertInv, CohInv, DataInv
    <3>2. ASSUME work[g] # None
          PROVE  /\ queue'[work[g].addr] = queue[work[g].addr]
                 /\ EntryOf(work[g].addr)' = EntryOf(work[g].addr)
      <4>1. PICK b \in Addrs : b = work[g].addr
        BY <3>2 DEF TypeOK, DirectoryOK
      <4>2. b # a /\ work'[g].addr = b
        BY <2>2, <3>1, <3>2, <4>1 DEF WorkInv
      <4>3. queue'[b] = queue[b] /\ EntryOf(b)' = EntryOf(b)
        BY <4>2
      <4> QED BY <4>1, <4>2, <4>3
    <3> QED BY <3>1, <3>2, ServeFrame
  <2> QED BY <2>1, <2>2
<1> QED BY <1>1, <1>2, <1>3, <1>4 DEF AssertInv

\* Only a modified line is recalled.
LEMMA NothingRecalled ==
  ASSUME NEW a, NEW u, LinkInv(a, u), EntryOf(a).st # "M"
  PROVE  /\ l2[u][a].st # "M" /\ ~GrantedEx(a, u) /\ ~WrittenBack(a, u)
         /\ ~Recalled(a, u, Recall(a)) /\ ~Recalled(a, u, WbCall(a))
<1>1. l2[u][a].st # "M" /\ ~GrantedEx(a, u) /\ ~WrittenBack(a, u)
  BY DEF LinkInv
<1>2. ~In(Down(a, u), ExRep(a))
  BY <1>1 DEF GrantedEx
<1> QED BY <1>1, <1>2, OrderIn DEF Recalled

\* After a step that leaves a line unmodified nothing is recalled.
LEMMA RecallSettled ==
  ASSUME NEW a, NEW u, LinkInv(a, u)', EntryOf(a)'.st # "M"
  PROVE  RecallInv(a, u)'
<1>1. l2'[u][a].st # "M" /\ ~GrantedEx(a, u)' /\ ~WrittenBack(a, u)'
  BY DEF LinkInv
<1>2. ~In(Down(a, u)', ExRep(a))
  BY <1>1 DEF GrantedEx
<1>3. ~After(Down(a, u)', ExRep(a), Recall(a)) /\ ~After(Down(a, u)', ExRep(a), WbCall(a))
  BY <1>2, OrderIn
<1>4. ~Recalled(a, u, Recall(a))' /\ ~Recalled(a, u, WbCall(a))'
  BY <1>1, <1>3 DEF Recalled
<1> QED BY <1>1, <1>4 DEF RecallInv

\* A line that no request is queued for, or whose request is being served, is
\* not recalled either.
LEMMA NotAwaited ==
  ASSUME NEW a, NEW u, RecallInv(a, u), queue[a] = <<>> \/ Served(a)
  PROVE  /\ ~Recalled(a, u, Recall(a)) /\ ~WrittenBack(a, u)
         /\ ~Recalled(a, u, WbCall(a))
<1>1. ~Recalled(a, u, Recall(a)) /\ ~WrittenBack(a, u)
  BY DEF RecallInv, Awaits
<1>2. WbCall(a) \subseteq Recall(a)
  BY DEF WbCall, Recall, OfType
<1>3. Recalled(a, u, WbCall(a)) => Recalled(a, u, Recall(a))
  BY <1>2, OrderMono DEF Recalled
<1> QED BY <1>1, <1>3

\* What a tile asks for grows less.
LEMMA AskShrinks ==
  ASSUME NEW a, NEW u, AskInv(a, u), outst'[u] = outst[u], app'[u] = app[u],
         Granted(a, u)' => Granted(a, u),
         In(Down(a, u)', ShRep(a)) => In(Down(a, u), ShRep(a)),
         Requested(a, u)' => Requested(a, u), Left(a, u)' => Left(a, u),
         In(Up(a, u)', ShRequest(a)) => In(Up(a, u), ShRequest(a)),
         Queued(a, u)' => Queued(a, u),
         In(queue'[a], ShWaiting(u)) => In(queue[a], ShWaiting(u)),
         After(queue'[a], Waiting(u), Waiting(u)) =>
           After(queue[a], Waiting(u), Waiting(u))
  PROVE  AskInv(a, u)'
BY DEF AskInv

\* What is kept is not more.
LEMMA LinkShrinks ==
  ASSUME NEW a, NEW u, SameLink(a, u)
  PROVE  /\ Granted(a, u)' <=> Granted(a, u)
         /\ In(Down(a, u)', ShRep(a)) <=> In(Down(a, u), ShRep(a))
         /\ Requested(a, u)' <=> Requested(a, u)
         /\ Left(a, u)' <=> Left(a, u)
         /\ In(Up(a, u)', ShRequest(a)) <=> In(Up(a, u), ShRequest(a))
<1>1. /\ Keeps(Down(a, u), Down(a, u)', FromHome(a))
      /\ Keeps(Up(a, u), Up(a, u)', Answer(a))
  BY DEF SameLink
<1>2. /\ Granted(a, u)' <=> Granted(a, u)
      /\ In(Down(a, u)', ShRep(a)) <=> In(Down(a, u), ShRep(a))
  BY <1>1, DownKept DEF Granted
<1>3. /\ Requested(a, u)' <=> Requested(a, u)
      /\ Left(a, u)' <=> Left(a, u)
      /\ In(Up(a, u)', ShRequest(a)) <=> In(Up(a, u), ShRequest(a))
  BY <1>1, UpKept DEF Requested, Left
<1> QED BY <1>2, <1>3

\* A directory takes a packet about line a that comes from s.
LEMMA TakesLink ==
  ASSUME TypeOK, HandoverInv, AssertInv, NEW s \in Tiles, NEW h \in Tiles, NEW m,
         Receives(s, h, m), NEW a \in Addrs, Home[a] = h, m \in Answer(a),
         Deliver(s, h, Nothing)
  PROVE  /\ \A b \in Addrs \ {a}, u \in Tiles : SameLink(b, u)
         /\ \A u \in Tiles \ {s} : SameLink(a, u)
         /\ Keeps(Down(a, s), Down(a, s)', FromHome(a))
         /\ Loses(Up(a, s), Up(a, s)', Answer(a)) /\ m = Head(Up(a, s))
         /\ \A u \in Tiles : Keeps(chan[<<u, u>>], chan'[<<u, u>>], L1Msg)
<1>1. /\ chan[<<s, h>>] # <<>> /\ m = Head(chan[<<s, h>>]) /\ NetworkOK
      /\ ThreadInv(h)
  BY DEF Receives, TypeOK, AssertInv
<1>2. /\ Nothing \in SimOutgoing /\ Nothing \in Outgoing
      /\ \A y \in Tiles : \A S : ~In(Nothing[y], S)
  BY SendsNothing DEF CacheSends
<1>3. m.type \notin {"EX_REQ", "SH_REQ"} \/ m.src = "L2"
  BY DEF Answer
<1>4. \A u \in Tiles : Keeps(chan[<<u, u>>], chan'[<<u, u>>], L1Msg)
  BY <1>1, <1>2, <1>3, L1Waits
<1>5. /\ \A b : m \notin FromHome(b)
      /\ \A b : b # a => m \notin Answer(b)
  BY DEF Answer, FromHome, OfType
<1>6. ASSUME NEW x \in Tiles, NEW y \in Tiles, NEW K,
             x = s /\ y = h => Head(chan[<<s, h>>]) \notin K
      PROVE  Keeps(chan[<<x, y>>], chan'[<<x, y>>], K)
  BY <1>1, <1>2, <1>6, DeliverLink
<1>7. ASSUME NEW b \in Addrs, NEW u \in Tiles, b # a \/ u # s
      PROVE  SameLink(b, u)
  <2>1. Home[b] \in Tiles
    BY MSIAssumption DEF MSIAssumption
  <2>2. Keeps(chan[<<Home[b], u>>], chan'[<<Home[b], u>>], FromHome(b))
    BY <1>1, <1>5, <1>6, <2>1
  <2>3. u = s /\ Home[b] = h => Head(chan[<<s, h>>]) \notin Answer(b)
    BY <1>1, <1>5, <1>7
  <2>4. Keeps(chan[<<u, Home[b]>>], chan'[<<u, Home[b]>>], Answer(b))
    BY <1>6, <2>1, <2>3
  <2> QED BY <2>2, <2>4 DEF SameLink, Down, Up
<1>8. Keeps(Down(a, s), Down(a, s)', FromHome(a))
  BY <1>1, <1>5, <1>6 DEF Down
<1>9. Loses(chan[<<s, h>>], chan'[<<s, h>>], Answer(a))
  BY <1>1, <1>2, DeliverLink
<1> QED BY <1>1, <1>4, <1>7, <1>8, <1>9 DEF Up

\* What is kept, and what is taken, of the messages of s about line a.
LEMMA UpTaken ==
  ASSUME NEW a, NEW s, NEW m, m = Head(Up(a, s)), Loses(Up(a, s), Up(a, s)', Answer(a))
  PROVE  /\ Left(a, s) <=> m \in Gone(a) \/ Left(a, s)'
         /\ WrittenBack(a, s) <=> m \in WbRep(a) \/ WrittenBack(a, s)'
         /\ Requested(a, s) <=> m \in Request(a) \/ Requested(a, s)'
         /\ In(Up(a, s), ShRequest(a)) <=>
              m \in ShRequest(a) \/ In(Up(a, s)', ShRequest(a))
         /\ UpInv(a, s) => /\ UpInv(a, s)'
                           /\ m \in Request(a) => ~Left(a, s)' /\ ~Requested(a, s)'
                           /\ m \in Gone(a) => ~WrittenBack(a, s)'
<1> DEFINE q == Up(a, s)
           r == Up(a, s)'
<1>1. /\ In(q, Gone(a)) <=> m \in Gone(a) \/ In(r, Gone(a))
      /\ In(q, WbRep(a)) <=> m \in WbRep(a) \/ In(r, WbRep(a))
      /\ In(q, Request(a)) <=> m \in Request(a) \/ In(r, Request(a))
      /\ In(q, ShRequest(a)) <=> m \in ShRequest(a) \/ In(r, ShRequest(a))
      /\ After(q, Gone(a), WbRep(a)) <=>
           After(r, Gone(a), WbRep(a)) \/ (m \in Gone(a) /\ In(r, WbRep(a)))
      /\ After(q, Request(a), Gone(a)) <=>
           After(r, Request(a), Gone(a)) \/ (m \in Request(a) /\ In(r, Gone(a)))
      /\ After(q, Request(a), Request(a)) <=>
           After(r, Request(a), Request(a)) \/ (m \in Request(a) /\ In(r, Request(a)))
  BY Kinds DEF Loses
<1>2. UpInv(a, s) => /\ UpInv(a, s)'
                     /\ m \in Request(a) => ~Left(a, s)' /\ ~Requested(a, s)'
                     /\ m \in Gone(a) => ~WrittenBack(a, s)'
  BY <1>1 DEF UpInv, Left, Requested, WrittenBack
<1> QED BY <1>1, <1>2 DEF Left, WrittenBack, Requested

\* Replacing an entry keeps the list of replaced ones.
LEMMA SetEntryRepl ==
  ASSUME DirectoryOK, NEW a \in Addrs, NEW e \in Entry, SetEntry(a, e)
  PROVE  \A b \in Addrs : repl[b] # None => repl'[b] # None
<1>1. e # None
  BY NoneAssumption DEF NoneAssumption
<1> QED BY <1>1 DEF SetEntry, DirectoryOK

\* A handler that served nothing starts to serve a, or does not.
LEMMA StartServes ==
  ASSUME TypeOK, NEW h \in Tiles, NEW a \in Addrs, Home[a] = h, work[h] = None,
         NEW buf \in Values \cup {None},
         StartServing(h, a, buf) \/ UNCHANGED <<lock, work>>
  PROVE  /\ \A g \in Tiles \ {h} : work'[g] = work[g]
         /\ work'[h] # None => work'[h].addr = a /\ work'[h].buf = buf
         /\ StartServing(h, a, buf) <=> work'[h] # None
         /\ Served(a)' <=> work'[h] # None
         /\ ~Served(a)
         /\ \A b \in Addrs \ {a} : Served(b)' <=> Served(b)
<1>1. /\ \A g \in Tiles \ {h} : work'[g] = work[g]
      /\ work'[h] # None => work'[h].addr = a /\ work'[h].buf = buf
      /\ StartServing(h, a, buf) => work'[h] # None
  BY StartEffect
<1>2. work'[h] # None => StartServing(h, a, buf)
  OBVIOUS
<1>3. ~Served(a) /\ (Served(a)' <=> work'[h] # None)
  BY <1>1 DEF Served
<1>4. ASSUME NEW b \in Addrs \ {a} PROVE Served(b)' <=> Served(b)
  <2>1. Home[b] \in Tiles
    BY MSIAssumption DEF MSIAssumption
  <2> QED BY <1>1, <2>1 DEF Served
<1> QED BY <1>1, <1>2, <1>3, <1>4

\* A directory takes the reply m of tile s.
LEMMA ReplyAssert ==
  ASSUME TypeOK, HandoverInv, CohInv, CohInv', AssertInv, NEW s \in Tiles,
         NEW h \in Tiles, NEW m, Receives(s, h, m), NEW a \in Addrs, Home[a] = h,
         m \in Gone(a) \cup WbRep(a), Deliver(s, h, Nothing),
         HasEntry(a), NEW e \in Entry, SetEntry(a, e), e.st # "M",
         e.sharers \subseteq EntryOf(a).sharers, e.hw \subseteq e.sharers,
         m \in Gone(a) => s \notin e.sharers,
         NEW buf \in Values \cup {None},
         StartServing(h, a, buf) \/ UNCHANGED <<lock, work>>,
         StartServing(h, a, buf) =>
           /\ queue[a] # <<>>
           /\ Head(queue[a]).type = "NULLIFY_REQ" => e.st = "U"
           /\ buf # None => e.st = "U" \/ Head(queue[a]).type = "SH_REQ",
         UNCHANGED <<l1, l2, app, appSem, outst, queue>>
  PROVE  AssertInv'
<1>1. m \in Answer(a)
  BY Kinds
<1>2. /\ \A b \in Addrs \ {a}, u \in Tiles : SameLink(b, u)
      /\ \A u \in Tiles \ {s} : SameLink(a, u)
      /\ Keeps(Down(a, s), Down(a, s)', FromHome(a))
      /\ Loses(Up(a, s), Up(a, s)', Answer(a)) /\ m = Head(Up(a, s))
      /\ \A u \in Tiles : Keeps(chan[<<u, u>>], chan'[<<u, u>>], L1Msg)
  BY <1>1, TakesLink
<1>3. DirectoryOK /\ OneEntryPerLine /\ work[h] = None
  <2>1. lock[h] = "free" /\ WorkInv(h)
    BY DEF CohInv, DataInv, Receives
  <2> QED BY <2>1 DEF TypeOK, CohInv, DirInv, WorkInv
<1>4. EntryOf(a)' = e /\ \A b \in Addrs \ {a} : EntryOf(b)' = EntryOf(b)
  BY <1>3, SetEntryEffect
<1>5. \A b \in Addrs : repl[b] # None => repl'[b] # None
  BY <1>3, SetEntryRepl
<1>6. /\ \A g \in Tiles \ {h} : work'[g] = work[g]
      /\ work'[h] # None => work'[h].addr = a /\ work'[h].buf = buf
      /\ StartServing(h, a, buf) <=> work'[h] # None
      /\ \A b \in Addrs \ {a} : Served(b)' <=> Served(b)
  BY <1>3, StartServes
<1>7. m \notin Request(a) /\ m \notin ShRequest(a)
  BY DEF Gone, WbRep, Request, ShRequest, OfType
<1>8. ASSUME NEW u \in Tiles PROVE PairInv(a, u)'
  <2>1. PairInv(a, u) /\ LinkInv(a, u)' /\ l2'[u][a].st = l2[u][a].st
    BY DEF AssertInv, CohInv, TokenInv
  <2>2. RecallInv(a, u)'
    BY <1>4, <2>1, RecallSettled
  <2>3. u \in e.sharers => u \in EntryOf(a).sharers
    OBVIOUS
  <2>4. u \in e.hw => u \in e.sharers
    OBVIOUS
  <2>5. CASE u # s
    <3>1. SameLink(a, u)
      BY <1>2, <2>5
    <3>2. DownInv(a, u)' /\ UpInv(a, u)'
      BY <2>1, <3>1, OrderFrame DEF PairInv
    <3>3. AskInv(a, u)'
      BY <2>1, <3>1, AskFrame DEF PairInv
    <3>4. HoldInv(a, u)'
      BY <1>4, <2>1, <2>3, <2>4, <3>1, HoldFrame DEF PairInv
    <3> QED BY <2>2, <3>2, <3>3, <3>4 DEF PairInv
  <2>6. CASE u = s
    <3>1. /\ Keeps(Down(a, u), Down(a, u)', FromHome(a))
          /\ Loses(Up(a, u), Up(a, u)', Answer(a)) /\ m = Head(Up(a, u))
      BY <1>2, <2>6
    <3>2. DownInv(a, u)'
      BY <2>1, <3>1, DownKept DEF DownInv, PairInv
    <3>3. /\ Left(a, u) <=> m \in Gone(a) \/ Left(a, u)'
          /\ Requested(a, u) <=> Requested(a, u)'
          /\ In(Up(a, u), ShRequest(a)) <=> In(Up(a, u)', ShRequest(a))
          /\ UpInv(a, u)'
      BY <1>7, <2>1, <3>1, UpTaken DEF PairInv
    <3>4. /\ Granted(a, u)' <=> Granted(a, u)
          /\ In(Down(a, u)', ShRep(a)) <=> In(Down(a, u), ShRep(a))
      BY <3>1, DownKept DEF Granted
    <3>5. AskInv(a, u)'
      <4>1. AskInv(a, u) /\ outst'[u] = outst[u] /\ app'[u] = app[u]
            /\ queue'[a] = queue[a] /\ (Queued(a, u)' => Queued(a, u))
        BY <2>1 DEF PairInv, Queued
      <4> QED BY <3>3, <3>4, <4>1, AskShrinks
    <3>6. HoldInv(a, u)'
      <4>1. HoldInv(a, u)
        BY <2>1 DEF PairInv
      <4>2. u \in e.sharers => m \notin Gone(a)
        BY <2>6
      <4> QED BY <1>4, <2>1, <2>3, <2>4, <3>3, <3>4, <4>1, <4>2 DEF HoldInv
    <3> QED BY <2>2, <3>2, <3>3, <3>5, <3>6 DEF PairInv
  <2> QED BY <2>5, <2>6
<1>9. QueueInv(a)'
  BY <1>5 DEF AssertInv, QueueInv
<1>10. ServeInv(h)'
  BY <1>4, <1>6 DEF ServeInv
<1>11. \A b \in Addrs \ {a} : /\ queue'[b] = queue[b]
                              /\ EntryOf(b)' = EntryOf(b)
                              /\ Served(b)' <=> Served(b)
                              /\ repl[b] # None => repl'[b] # None
  BY <1>4, <1>5, <1>6
<1> QED BY <1>2, <1>6, <1>8, <1>9, <1>10, <1>11, DirSide

\* A scheme has no sharer in hardware that it does not know.
LEMMA HwSharers ==
  ASSUME TypeOK, AssertInv, NEW a \in Addrs
  PROVE  EntryOf(a) \in Entry /\ EntryOf(a).hw \subseteq EntryOf(a).sharers
<1>1. EntryOf(a) \in Entry
  BY EntryOfType DEF TypeOK
<1>2. \A u \in Tiles : u \in EntryOf(a).hw => u \in EntryOf(a).sharers
  BY DEF AssertInv, PairInv, HoldInv
<1>3. EntryOf(a).hw \subseteq Tiles
  BY <1>1 DEF Entry
<1> QED BY <1>1, <1>2, <1>3

\* removeSharer frees the slot of the tile.
LEMMA RemoveHw ==
  ASSUME NEW e \in Entry, NEW s
  PROVE  removeSharer(e, s).hw = e.hw \ {s}
BY DEF removeSharer, Entry

\* processInvRepFromL2Cache
LEMMA InvRepAssert ==
  ASSUME TypeOK, HandoverInv, CohInv, CohInv', AssertInv, NEW s \in Tiles,
         NEW h \in Tiles, DirRecvInvRep(s, h), err' = {}
  PROVE  AssertInv'
<1> DEFINE m == Head(chan[<<s, h>>])
<1>1. Receives(s, h, m) /\ m.type = "INV_REP"
  BY DEF DirRecvInvRep
<1>2. PICK a \in Addrs : a = m.addr
  BY <1>1, ReceivesType DEF TypeOK
<1> DEFINE f == EntryOf(a)
           r == removeSharer(f, s)
           e == IF r.sharers = {} THEN [r EXCEPT !.st = "U"] ELSE r
<1>3. /\ SetEntry(a, e) /\ Deliver(s, h, Nothing)
      /\ UNCHANGED <<l1, l2, app, appSem, outst, queue>>
  BY <1>2 DEF DirRecvInvRep, cacheVars
<1>4. IF queue[a] # <<>> /\ (Head(queue[a]).type = "SH_REQ" \/ e.st = "U")
      THEN StartServing(h, a, None) ELSE UNCHANGED <<lock, work>>
  BY <1>2 DEF DirRecvInvRep
<1>5. HasEntry(a) /\ f.st = "S"
  BY <1>2 DEF DirRecvInvRep, Check, Failure
<1>6. Home[a] = h /\ m \in Gone(a)
  <2>1. m \in ShmemMsg
    BY <1>1, ReceivesType DEF TypeOK
  <2> QED BY <1>1, <1>2, <2>1, HeadRouted DEF CohInv, Gone, OfType
<1>7. f \in Entry /\ f.hw \subseteq f.sharers
  BY HwSharers
<1>8. work[h] = None
  <2>1. lock[h] = "free" /\ WorkInv(h)
    BY <1>1 DEF CohInv, DataInv, Receives
  <2> QED BY <2>1 DEF WorkInv
<1> HIDE DEF f
<1>9. /\ r \in Entry /\ r.st = "S" /\ r.sharers = f.sharers \ {s}
      /\ r.hw = f.hw \ {s}
  BY <1>5, <1>7, RemoveSharer, RemoveHw
<1> HIDE DEF r
<1>10. /\ e \in Entry /\ e.sharers = r.sharers /\ e.st # "M" /\ e.hw = r.hw
  BY <1>9 DEF Entry
<1> HIDE DEF e
<1>11. /\ e.sharers \subseteq EntryOf(a).sharers /\ e.hw \subseteq e.sharers
       /\ s \notin e.sharers
  BY <1>7, <1>9, <1>10 DEF f
<1>12. /\ StartServing(h, a, None) \/ UNCHANGED <<lock, work>>
       /\ StartServing(h, a, None) =>
            /\ queue[a] # <<>>
            /\ Head(queue[a]).type = "NULLIFY_REQ" => e.st = "U"
  <2>1. StartServing(h, a, None) => work' # work
    <3> SUFFICES ASSUME StartServing(h, a, None), work' = work PROVE FALSE
      OBVIOUS
    <3>1. work[h] = [addr |-> a, buf |-> None]
      BY DEF StartServing, TypeOK, DirectoryOK
    <3> QED BY <1>8, <3>1, NoneAssumption DEF NoneAssumption
  <2> QED BY <1>4, <2>1
<1> HIDE DEF m
<1> QED BY <1>1, <1>3, <1>5, <1>6, <1>10, <1>11, <1>12, ReplyAssert

\* processFlushRepFromL2Cache
LEMMA FlushRepAssert ==
  ASSUME TypeOK, HandoverInv, CohInv, CohInv', AssertInv, NEW s \in Tiles,
         NEW h \in Tiles, DirRecvFlushRep(s, h), err' = {}
  PROVE  AssertInv'
<1> DEFINE m == Head(chan[<<s, h>>])
<1>1. Receives(s, h, m) /\ m.type = "FLUSH_REP"
  BY DEF DirRecvFlushRep
<1>2. PICK a \in Addrs : a = m.addr
  BY <1>1, ReceivesType DEF TypeOK
<1> DEFINE f == EntryOf(a)
           r == removeSharer(f, s)
           e == [r EXCEPT !.owner = None, !.st = "U"]
<1>3. /\ SetEntry(a, e) /\ Deliver(s, h, Nothing)
      /\ UNCHANGED <<l1, l2, app, appSem, outst, queue>>
      /\ IF queue[a] # <<>> THEN StartServing(h, a, m.val)
         ELSE UNCHANGED <<lock, work>>
  BY <1>2 DEF DirRecvFlushRep, cacheVars
<1>5. HasEntry(a)
  BY <1>2 DEF DirRecvFlushRep, Check, Failure
<1>6. Home[a] = h /\ m \in Gone(a) /\ m.val \in Values \cup {None}
  <2>1. m \in ShmemMsg
    BY <1>1, ReceivesType DEF TypeOK
  <2> QED BY <1>1, <1>2, <2>1, HeadRouted DEF CohInv, Gone, OfType, ShmemMsg
<1>7. f \in Entry /\ f.hw \subseteq f.sharers
  BY HwSharers
<1>8. work[h] = None
  <2>1. lock[h] = "free" /\ WorkInv(h)
    BY <1>1 DEF CohInv, DataInv, Receives
  <2> QED BY <2>1 DEF WorkInv
<1> HIDE DEF f
<1>9. /\ r \in Entry /\ r.sharers = f.sharers \ {s} /\ r.hw = f.hw \ {s}
  BY <1>7, RemoveSharer, RemoveHw
<1> HIDE DEF r
<1>10. /\ e \in Entry /\ e.sharers = r.sharers /\ e.st = "U" /\ e.hw = r.hw
  BY <1>9 DEF Entry
<1> HIDE DEF e
<1>11. /\ e.sharers \subseteq EntryOf(a).sharers /\ e.hw \subseteq e.sharers
       /\ s \notin e.sharers /\ e.st # "M"
  BY <1>7, <1>9, <1>10 DEF f
<1>12. /\ StartServing(h, a, m.val) \/ UNCHANGED <<lock, work>>
       /\ StartServing(h, a, m.val) => queue[a] # <<>>
  <2>1. StartServing(h, a, m.val) => work' # work
    <3> SUFFICES ASSUME StartServing(h, a, m.val), work' = work PROVE FALSE
      OBVIOUS
    <3>1. work[h] = [addr |-> a, buf |-> m.val]
      BY DEF StartServing, TypeOK, DirectoryOK
    <3> QED BY <1>6, <1>8, <3>1, NoneAssumption DEF NoneAssumption
  <2> QED BY <1>3, <2>1
<1> HIDE DEF m
<1> QED BY <1>1, <1>3, <1>5, <1>6, <1>10, <1>11, <1>12, ReplyAssert

\* processWbRepFromL2Cache
LEMMA WbRepAssert ==
  ASSUME TypeOK, HandoverInv, CohInv, CohInv', AssertInv, NEW s \in Tiles,
         NEW h \in Tiles, DirRecvWbRep(s, h), err' = {}
  PROVE  AssertInv'
<1> DEFINE m == Head(chan[<<s, h>>])
<1>1. Receives(s, h, m) /\ m.type = "WB_REP"
  BY DEF DirRecvWbRep
<1>2. PICK a \in Addrs : a = m.addr
  BY <1>1, ReceivesType DEF TypeOK
<1> DEFINE f == EntryOf(a)
           e == [f EXCEPT !.owner = None, !.st = "S"]
<1>3. /\ SetEntry(a, e) /\ Deliver(s, h, Nothing) /\ StartServing(h, a, m.val)
      /\ UNCHANGED <<l1, l2, app, appSem, outst, queue>>
  BY <1>2 DEF DirRecvWbRep, cacheVars
<1>5. HasEntry(a) /\ queue[a] # <<>> /\ Head(queue[a]).type = "SH_REQ"
  BY <1>2 DEF DirRecvWbRep, Check, Failure
<1>6. /\ Home[a] = h /\ m \in WbRep(a) /\ m \notin Gone(a)
      /\ m.val \in Values \cup {None}
  <2>1. m \in ShmemMsg
    BY <1>1, ReceivesType DEF TypeOK
  <2> QED BY <1>1, <1>2, <2>1, HeadRouted DEF CohInv, Gone, WbRep, OfType, ShmemMsg
<1>7. f \in Entry /\ f.hw \subseteq f.sharers
  BY HwSharers
<1> HIDE DEF f
<1>8. e \in Entry /\ e.sharers = f.sharers /\ e.st = "S" /\ e.hw = f.hw
  BY <1>7 DEF Entry
<1> HIDE DEF e
<1>9. /\ e.sharers \subseteq EntryOf(a).sharers /\ e.hw \subseteq e.sharers
      /\ e.st # "M"
  BY <1>7, <1>8 DEF f
<1> HIDE DEF m
<1> QED BY <1>1, <1>3, <1>5, <1>6, <1>8, <1>9, ReplyAssert

\* A request joins a queue.
LEMMA QueueJoined ==
  ASSUME NEW q \in Seq(ShmemReq), NEW x \in ShmemReq
  PROVE  /\ \A R, S : /\ In(Append(q, x), S) <=> In(q, S) \/ x \in S
                      /\ After(Append(q, x), R, S) <=>
                           After(q, R, S) \/ (In(q, R) /\ x \in S)
         /\ Append(q, x) # <<>>
         /\ Head(Append(q, x)) = IF q = <<>> THEN x ELSE Head(q)
         /\ \A i \in 1..Len(Append(q, x)) :
              \/ i \in 1..Len(q) /\ Append(q, x)[i] = q[i]
              \/ Append(q, x)[i] = x
<1>1. /\ Append(q, x) \in Seq(ShmemReq) /\ Len(Append(q, x)) = Len(q) + 1
      /\ \A i \in 1..Len(q) : Append(q, x)[i] = q[i]
      /\ Append(q, x)[Len(q) + 1] = x /\ Len(q) \in Nat
  BY AppendProperties, LenProperties
<1>2. Append(q, x) # <<>>
  BY AppendProperties
<1>5. Head(Append(q, x)) = IF q = <<>> THEN x ELSE Head(q)
  BY HeadTailAppend
<1>6. ASSUME NEW i \in 1..Len(Append(q, x))
      PROVE  \/ i \in 1..Len(q) /\ Append(q, x)[i] = q[i]
             \/ Append(q, x)[i] = x
  <2>1. i \in 1..Len(q) \/ i = Len(q) + 1
    BY <1>1
  <2> QED BY <1>1, <2>1
<1>7. ASSUME NEW R, NEW S
      PROVE  /\ In(Append(q, x), S) <=> In(q, S) \/ x \in S
             /\ After(Append(q, x), R, S) <=>
                  After(q, R, S) \/ (In(q, R) /\ x \in S)
  <2>1. Append(q, x) = q \o <<x>>
    BY AppendIsConcat
  <2>2. <<x>> \in Seq(ShmemReq)
    OBVIOUS
  <2>3. /\ In(q \o <<x>>, S) <=> In(q, S) \/ In(<<x>>, S)
        /\ After(q \o <<x>>, R, S) <=> \/ After(q, R, S) \/ After(<<x>>, R, S)
                                       \/ In(q, R) /\ In(<<x>>, S)
    BY <2>2, OrderConcat
  <2>4. (In(<<x>>, S) <=> x \in S) /\ ~After(<<x>>, R, S)
    BY InSingle, OrderShort
  <2> QED BY <2>1, <2>3, <2>4
<1> QED BY <1>2, <1>5, <1>6, <1>7

\* handleMsgFromL2Cache: a request joins the queue of its line.
LEMMA RecvReqAssert ==
  ASSUME TypeOK, HandoverInv, CohInv, AssertInv, NEW s \in Tiles, NEW h \in Tiles,
         DirRecvReq(s, h)
  PROVE  AssertInv'
<1> DEFINE m == Head(chan[<<s, h>>])
<1>1. Receives(s, h, m) /\ m.src = "L2" /\ m.type \in {"EX_REQ", "SH_REQ"}
  BY DEF DirRecvReq
<1>2. PICK a \in Addrs : a = m.addr
  BY <1>1, ReceivesType DEF TypeOK
<1> DEFINE x == [type |-> m.type, tile |-> s]
<1>3. /\ queue' = [queue EXCEPT ![a] = Append(@, x)]
      /\ IF queue[a] = <<>> THEN StartServing(h, a, None)
         ELSE UNCHANGED <<lock, work>>
      /\ Deliver(s, h, Nothing)
      /\ UNCHANGED <<l1, l2, app, appSem, outst>> /\ UNCHANGED <<way, repl>>
  BY <1>2 DEF DirRecvReq, cacheVars
<1>4. Home[a] = h
  BY <1>1, <1>2, HeadRouted DEF CohInv
<1>5. /\ m \in Answer(a) /\ m \in Request(a)
      /\ m \in ShRequest(a) <=> m.type = "SH_REQ"
  <2>1. m \in ShmemMsg
    BY <1>1, ReceivesType DEF TypeOK
  <2> QED BY <1>1, <1>2, <2>1 DEF Answer, Request, ShRequest
<1>6. /\ x \in ShmemReq /\ x.type # "NULLIFY_REQ"
      /\ \A u : /\ x \in Waiting(u) <=> u = s
                /\ x \in ShWaiting(u) <=> u = s /\ m.type = "SH_REQ"
  BY <1>1 DEF ShmemReq, Waiting, ShWaiting
<1>7. work[h] = None
  <2>1. lock[h] = "free" /\ WorkInv(h)
    BY <1>1 DEF CohInv, DataInv, Receives
  <2> QED BY <2>1 DEF WorkInv
<1>8. queue[a] \in Seq(ShmemReq) /\ queue'[a] = Append(queue[a], x)
      /\ \A b \in Addrs \ {a} : queue'[b] = queue[b]
  BY <1>3 DEF TypeOK, DirectoryOK
<1> HIDE DEF m, x
<1>9. /\ \A R, S : /\ In(queue'[a], S) <=> In(queue[a], S) \/ x \in S
                   /\ After(queue'[a], R, S) <=>
                        After(queue[a], R, S) \/ (In(queue[a], R) /\ x \in S)
      /\ queue'[a] # <<>>
      /\ Head(queue'[a]) = IF queue[a] = <<>> THEN x ELSE Head(queue[a])
      /\ \A i \in 1..Len(queue'[a]) :
           \/ i \in 1..Len(queue[a]) /\ queue'[a][i] = queue[a][i]
           \/ queue'[a][i] = x
  <2>1. x \in ShmemReq
    BY <1>6
  <2> DEFINE q == queue[a]
  <2>2. q \in Seq(ShmemReq) /\ queue'[a] = Append(q, x)
    BY <1>8
  <2> HIDE DEF q
  <2>3. /\ \A R, S : /\ In(Append(q, x), S) <=> In(q, S) \/ x \in S
                     /\ After(Append(q, x), R, S) <=>
                          After(q, R, S) \/ (In(q, R) /\ x \in S)
        /\ Append(q, x) # <<>>
        /\ Head(Append(q, x)) = IF q = <<>> THEN x ELSE Head(q)
        /\ \A i \in 1..Len(Append(q, x)) :
             \/ i \in 1..Len(q) /\ Append(q, x)[i] = q[i]
             \/ Append(q, x)[i] = x
    BY <2>1, <2>2, QueueJoined
  <2> QED BY <2>2, <2>3 DEF q
<1>10. /\ \A b \in Addrs \ {a}, u \in Tiles : SameLink(b, u)
       /\ \A u \in Tiles \ {s} : SameLink(a, u)
       /\ Keeps(Down(a, s), Down(a, s)', FromHome(a))
       /\ Loses(Up(a, s), Up(a, s)', Answer(a)) /\ m = Head(Up(a, s))
       /\ \A u \in Tiles : Keeps(chan[<<u, u>>], chan'[<<u, u>>], L1Msg)
  BY <1>1, <1>3, <1>4, <1>5, TakesLink
<1>11. StartServing(h, a, None) \/ UNCHANGED <<lock, work>>
  BY <1>3
<1>12. /\ \A g \in Tiles \ {h} : work'[g] = work[g]
       /\ work'[h] # None => work'[h].addr = a /\ work'[h].buf = None
       /\ StartServing(h, a, None) <=> work'[h] # None
       /\ Served(a)' <=> work'[h] # None
       /\ ~Served(a)
       /\ \A b \in Addrs \ {a} : Served(b)' <=> Served(b)
  BY <1>4, <1>7, <1>11, StartServes
<1>13. \A b : EntryOf(b)' = EntryOf(b)
  BY <1>3 DEF EntryOf
<1>14. ASSUME NEW u \in Tiles,
              /\ Recalled(a, u, Recall(a))' <=> Recalled(a, u, Recall(a))
              /\ Recalled(a, u, WbCall(a))' <=> Recalled(a, u, WbCall(a))
              /\ WrittenBack(a, u)' <=> WrittenBack(a, u)
       PROVE  RecallInv(a, u)'
  <2>1. RecallInv(a, u)
    BY DEF AssertInv, PairInv
  <2>2. CASE queue[a] = <<>>
    <3>1. /\ ~Recalled(a, u, Recall(a)) /\ ~WrittenBack(a, u)
          /\ ~Recalled(a, u, WbCall(a))
      BY <2>1, <2>2, NotAwaited
    <3> QED BY <1>14, <3>1 DEF RecallInv
  <2>3. CASE queue[a] # <<>>
    <3>1. Head(queue'[a]) = Head(queue[a]) /\ queue'[a] # <<>> /\ ~Served(a)'
      BY <1>3, <1>7, <1>9, <1>12, <2>3
    <3> QED BY <1>14, <2>1, <3>1 DEF RecallInv, Awaits
  <2> QED BY <2>2, <2>3
<1>15. ASSUME NEW u \in Tiles PROVE PairInv(a, u)'
  <2>1. PairInv(a, u) /\ l2'[u][a].st = l2[u][a].st
    BY <1>3 DEF AssertInv
  <2>2. /\ u \in EntryOf(a)'.sharers => u \in EntryOf(a).sharers
        /\ u \in EntryOf(a)'.hw => u \in EntryOf(a)'.sharers
    BY <1>13, <2>1 DEF PairInv, HoldInv
  <2>3. CASE u # s
    <3>1. SameLink(a, u)
      BY <1>10, <2>3
    <3>2. /\ DownInv(a, u)' /\ UpInv(a, u)' /\ HoldInv(a, u)'
      BY <2>1, <2>2, <3>1, OrderFrame, HoldFrame DEF PairInv
    <3>3. RecallInv(a, u)'
      BY <1>14, <2>1, <3>1, OrderFrame
    <3>4. /\ Queued(a, u)' => Queued(a, u)
          /\ In(queue'[a], ShWaiting(u)) => In(queue[a], ShWaiting(u))
          /\ After(queue'[a], Waiting(u), Waiting(u)) =>
               After(queue[a], Waiting(u), Waiting(u))
      <4>1. x \notin Waiting(u) /\ x \notin ShWaiting(u)
        BY <1>6, <2>3
      <4>2. /\ In(queue'[a], Waiting(u)) <=>
                 In(queue[a], Waiting(u)) \/ x \in Waiting(u)
            /\ In(queue'[a], ShWaiting(u)) <=>
                 In(queue[a], ShWaiting(u)) \/ x \in ShWaiting(u)
            /\ After(queue'[a], Waiting(u), Waiting(u)) <=>
                 \/ After(queue[a], Waiting(u), Waiting(u))
                 \/ In(queue[a], Waiting(u)) /\ x \in Waiting(u)
        BY <1>9
      <4> QED BY <4>1, <4>2 DEF Queued
    <3>5. AskInv(a, u)'
      BY <1>3, <2>1, <3>1, <3>4, LinkShrinks, AskShrinks DEF PairInv
    <3> QED BY <3>2, <3>3, <3>5 DEF PairInv
  <2>4. CASE u = s
    <3>1. /\ Keeps(Down(a, u), Down(a, u)', FromHome(a))
          /\ Loses(Up(a, u), Up(a, u)', Answer(a)) /\ m = Head(Up(a, u))
      BY <1>10, <2>4
    <3>2. DownInv(a, u)'
      BY <2>1, <3>1, DownKept DEF DownInv, PairInv
    <3>3. /\ Recalled(a, u, Recall(a))' <=> Recalled(a, u, Recall(a))
          /\ Recalled(a, u, WbCall(a))' <=> Recalled(a, u, WbCall(a))
      BY <2>1, <3>1, DownKept DEF Recalled
    <3>4. m \notin Gone(a) /\ m \notin WbRep(a)
      BY <1>5 DEF Request, Gone, WbRep, OfType
    <3>5. /\ Left(a, u)' <=> Left(a, u)
          /\ WrittenBack(a, u)' <=> WrittenBack(a, u)
          /\ Requested(a, u) /\ ~Requested(a, u)' /\ ~Left(a, u)'
          /\ In(Up(a, u)', ShRequest(a)) => In(Up(a, u), ShRequest(a))
          /\ m.type = "SH_REQ" => In(Up(a, u), ShRequest(a))
          /\ UpInv(a, u)'
      BY <1>5, <2>1, <3>1, <3>4, UpTaken DEF PairInv
    <3>6. /\ Granted(a, u)' <=> Granted(a, u)
          /\ In(Down(a, u)', ShRep(a)) <=> In(Down(a, u), ShRep(a))
      BY <3>1, DownKept DEF Granted
    <3>7. RecallInv(a, u)'
      BY <1>14, <3>3, <3>5
    <3>8. HoldInv(a, u)'
      BY <1>13, <2>1, <3>5, <3>6 DEF PairInv, HoldInv
    <3>9. AskInv(a, u)'
      <4>1. AskInv(a, u) /\ outst'[u] = outst[u] /\ app'[u] = app[u]
        BY <1>3, <2>1 DEF PairInv
      <4>2. /\ ~Queued(a, u) /\ ~Granted(a, u) /\ outst[u] # None /\ outst[u].addr = a
        BY <3>5, <4>1 DEF AskInv
      <4>3. ~After(queue'[a], Waiting(u), Waiting(u))
        BY <1>9, <4>1, <4>2 DEF AskInv, Queued
      <4>4. ~In(queue[a], ShWaiting(u))
        <5>1. ShWaiting(u) \subseteq Waiting(u)
          BY DEF ShWaiting, Waiting
        <5> QED BY <4>2, <5>1, OrderMono DEF Queued
      <4>5. In(queue'[a], ShWaiting(u)) => In(Up(a, u), ShRequest(a))
        <5>1. In(queue'[a], ShWaiting(u)) <=>
                In(queue[a], ShWaiting(u)) \/ x \in ShWaiting(u)
          BY <1>9
        <5>2. x \in ShWaiting(u) => m.type = "SH_REQ"
          BY <1>6
        <5> QED BY <3>5, <4>4, <5>1, <5>2
      <4>6. \/ In(Up(a, u)', ShRequest(a)) \/ In(queue'[a], ShWaiting(u))
            \/ In(Down(a, u)', ShRep(a))
            => app[u].acc.op = "READ"
        BY <3>5, <3>6, <4>1, <4>5 DEF AskInv
      <4> QED BY <3>5, <3>6, <4>1, <4>2, <4>3, <4>6 DEF AskInv
    <3> QED BY <3>2, <3>5, <3>7, <3>8, <3>9 DEF PairInv
  <2> QED BY <2>3, <2>4
<1>16. QueueInv(a)'
  <2>1. QueueInv(a) /\ repl' = repl
    BY <1>3 DEF AssertInv
  <2> QED BY <1>6, <1>9, <2>1 DEF QueueInv
<1>17. ServeInv(h)'
  <2>1. work'[h] # None => queue[a] = <<>>
    BY <1>3, <1>7
  <2>2. work'[h] # None => Head(queue'[a]) = x
    BY <1>9, <2>1
  <2> QED BY <1>6, <1>9, <1>12, <2>2 DEF ServeInv
<1>18. \A b \in Addrs \ {a} : /\ queue'[b] = queue[b]
                              /\ EntryOf(b)' = EntryOf(b)
                              /\ Served(b)' <=> Served(b)
                              /\ repl[b] # None => repl'[b] # None
  BY <1>3, <1>8, <1>12, <1>13
<1> QED BY <1>3, <1>4, <1>10, <1>12, <1>15, <1>16, <1>17, <1>18, DirSide

\* getDirectoryEntry gives a request a free way: nothing else changes.
LEMMA AllocateFreeAssert ==
  ASSUME TypeOK, CohInv, AssertInv, NEW h \in Tiles, DirAllocateFree(h)
  PROVE  AssertInv'
<1> DEFINE r == Head(queue[work[h].addr])
<1>1. Serving(h, work[h].addr, r, {"EX_REQ", "SH_REQ"})
  BY DEF DirAllocateFree
<1>2. PICK a \in Addrs : a = work[h].addr
  BY <1>1, ServedLine
<1>3. Home[a] = h
  BY <1>1, <1>2, ServedLine
<1>4. /\ way[a] = None /\ FreeWay(h) /\ way' = [way EXCEPT ![a] = FreshEntry]
      /\ UNCHANGED <<l1, l2, app, appSem, outst>>
      /\ UNCHANGED <<chan, queue, repl, work>>
  BY <1>2 DEF DirAllocateFree, cacheVars, syncVars
<1> HIDE DEF r
<1>5. \A b \in Addrs : Home[b] = h => repl[b] = None
  BY <1>4 DEF CohInv, DirInv, OneEntryPerLine
<1>6. way \in [Addrs -> Entry \cup {None}]
  BY DEF TypeOK, DirectoryOK
<1>7. \A b \in Addrs : EntryOf(b)' = EntryOf(b)
  BY <1>3, <1>4, <1>5, <1>6 DEF EntryOf
<1>8. \A b \in Addrs, u \in Tiles : SameLink(b, u)
  BY <1>4, SameChannelsSameLink
<1>9. ASSUME NEW u \in Tiles
      PROVE  Keeps(chan[<<u, u>>], chan'[<<u, u>>], L1Msg)
  <2>1. chan'[<<u, u>>] = chan[<<u, u>>]
    BY <1>4
  <2> QED BY <2>1, KeepsAll
<1>10. \A b : Served(b)' <=> Served(b)
  BY <1>4 DEF Served
<1>11. ASSUME NEW u \in Tiles PROVE PairInv(a, u)'
  <2>1. PairInv(a, u) /\ SameLink(a, u) /\ EntryOf(a)' = EntryOf(a)
    BY <1>7, <1>8 DEF AssertInv
  <2> QED BY <1>4, <1>10, <2>1, PairFrame
<1>12. QueueInv(a)'
  BY <1>4 DEF AssertInv, QueueInv
<1>13. ServeInv(h)'
  <2>1. ServeInv(h) /\ work'[h] = work[h] /\ queue' = queue
    BY <1>4 DEF AssertInv
  <2>2. EntryOf(a)' = EntryOf(a) /\ work'[h].addr = a
    BY <1>2, <1>4, <1>7
  <2>3. EntryOf(work[h].addr)' = EntryOf(work[h].addr)
    BY <1>2, <2>2
  <2> QED BY <2>1, <2>3, ServeFrame
<1> QED BY <1>3, <1>4, <1>7, <1>8, <1>9, <1>10, <1>11, <1>12, <1>13, DirSide

\* What a channel has when the home has asked something of the tile.
LEMMA DownGrows ==
  ASSUME NEW a, NEW u, NEW o, Grows(Down(a, u), Down(a, u)', o, FromHome(a)),
         \A R, S : ~After(o, R, S) /\ ~After2(o, R, S)
  PROVE  /\ Granted(a, u)' <=> Granted(a, u) \/ In(o, Rep(a))
         /\ In(Down(a, u)', ShRep(a)) <=> In(Down(a, u), ShRep(a)) \/ In(o, ShRep(a))
         /\ In(Down(a, u)', InvCall(a)) <=>
              In(Down(a, u), InvCall(a)) \/ In(o, InvCall(a))
         /\ In(Down(a, u)', Recall(a)) <=> In(Down(a, u), Recall(a)) \/ In(o, Recall(a))
         /\ In(Down(a, u)', WbCall(a)) <=> In(Down(a, u), WbCall(a)) \/ In(o, WbCall(a))
         /\ After(Down(a, u)', Recall(a), Recall(a)) <=>
              \/ After(Down(a, u), Recall(a), Recall(a))
              \/ In(Down(a, u), Recall(a)) /\ In(o, Recall(a))
         /\ After(Down(a, u)', ExRep(a), InvCall(a)) <=>
              \/ After(Down(a, u), ExRep(a), InvCall(a))
              \/ In(Down(a, u), ExRep(a)) /\ In(o, InvCall(a))
         /\ After(Down(a, u)', ShRep(a), Recall(a)) <=>
              \/ After(Down(a, u), ShRep(a), Recall(a))
              \/ In(Down(a, u), ShRep(a)) /\ In(o, Recall(a))
         /\ After(Down(a, u)', ExRep(a), Recall(a)) <=>
              \/ After(Down(a, u), ExRep(a), Recall(a))
              \/ In(Down(a, u), ExRep(a)) /\ In(o, Recall(a))
         /\ After(Down(a, u)', ExRep(a), WbCall(a)) <=>
              \/ After(Down(a, u), ExRep(a), WbCall(a))
              \/ In(Down(a, u), ExRep(a)) /\ In(o, WbCall(a))
         /\ After2(Down(a, u)', ExRep(a), Recall(a)) <=>
              \/ After2(Down(a, u), ExRep(a), Recall(a))
              \/ After(Down(a, u), ExRep(a), Recall(a)) /\ In(o, Recall(a))
BY Kinds DEF Grows, Granted

\* A tile that may write a line, or has just given it up, has not been granted
\* a shared copy.
LEMMA OneReply ==
  ASSUME NEW a, NEW u, LinkInv(a, u),
         l2[u][a].st = "M" \/ GrantedEx(a, u) \/ Flushed(a, u)
  PROVE  ~In(Down(a, u), ShRep(a)) /\ l2[u][a].st # "S"
<1>1. Once(Down(a, u), Rep(a)) /\ (Granted(a, u) => l2[u][a].st = "I")
  BY DEF LinkInv
<1>2. In(Down(a, u), ShRep(a)) => Granted(a, u)
  BY Subkinds DEF Granted
<1>3. CASE l2[u][a].st = "M"
  BY <1>1, <1>2, <1>3
<1>4. CASE GrantedEx(a, u)
  <2>1. l2[u][a].st = "I"
    BY <1>1, <1>4, Subkinds DEF Granted, GrantedEx
  <2>2. SUFFICES ASSUME In(Down(a, u), ShRep(a)) PROVE FALSE
    BY <2>1
  <2>3. PICK i \in 1..Len(Down(a, u)) : Down(a, u)[i] \in ShRep(a)
    BY <2>2 DEF In
  <2>4. PICK j \in 1..Len(Down(a, u)) : Down(a, u)[j] \in ExRep(a)
    BY <1>4 DEF GrantedEx, In
  <2>5. Down(a, u)[i] \in Rep(a) /\ Down(a, u)[j] \in Rep(a)
    BY <2>3, <2>4 DEF ShRep, ExRep, Rep, OfType
  <2>6. i = j
    BY <1>1, <2>5 DEF Once
  <2> QED BY <2>3, <2>4, <2>6 DEF ShRep, ExRep, OfType
<1>5. CASE Flushed(a, u)
  <2>1. Left(a, u)
    BY <1>5, Subkinds DEF Flushed, Left
  <2> QED BY <1>2, <2>1 DEF LinkInv
<1> QED BY <1>3, <1>4, <1>5

\* The home asks tile u to give up or to write back line a.
LEMMA AskedPair ==
  ASSUME NEW a \in Addrs, NEW u \in Tiles, PairInv(a, u), LinkInv(a, u),
         LinkInv(a, u)', NEW o, Grows(Down(a, u), Down(a, u)', o, FromHome(a)),
         Keeps(Up(a, u), Up(a, u)', Answer(a)), ~In(o, Rep(a)),
         \A R, S : ~After(o, R, S) /\ ~After2(o, R, S),
         l2'[u][a] = l2[u][a], outst'[u] = outst[u], app'[u] = app[u],
         EntryOf(a)' = EntryOf(a),
         EntryOf(a).st # "M" => ~In(o, Recall(a)),
         EntryOf(a).st = "M" =>
           /\ ~In(o, InvCall(a)) /\ Awaits(a)'
           /\ ~Recalled(a, u, Recall(a)) /\ ~WrittenBack(a, u)
           /\ In(o, Recall(a)) => EntryOf(a).owner = u
           /\ In(o, WbCall(a)) => Head(queue'[a]).type = "SH_REQ",
         Queued(a, u)' => Queued(a, u),
         In(queue'[a], ShWaiting(u)) => In(queue[a], ShWaiting(u)),
         After(queue'[a], Waiting(u), Waiting(u)) =>
           After(queue[a], Waiting(u), Waiting(u))
  PROVE  PairInv(a, u)'
<1> DEFINE q == Down(a, u)
           r == Down(a, u)'
<1>1. /\ Granted(a, u)' <=> Granted(a, u) \/ In(o, Rep(a))
      /\ In(r, ShRep(a)) <=> In(q, ShRep(a)) \/ In(o, ShRep(a))
      /\ In(r, InvCall(a)) <=> In(q, InvCall(a)) \/ In(o, InvCall(a))
      /\ In(r, Recall(a)) <=> In(q, Recall(a)) \/ In(o, Recall(a))
      /\ In(r, WbCall(a)) <=> In(q, WbCall(a)) \/ In(o, WbCall(a))
      /\ After(r, Recall(a), Recall(a)) <=>
           After(q, Recall(a), Recall(a)) \/ (In(q, Recall(a)) /\ In(o, Recall(a)))
      /\ After(r, ExRep(a), InvCall(a)) <=>
           After(q, ExRep(a), InvCall(a)) \/ (In(q, ExRep(a)) /\ In(o, InvCall(a)))
      /\ After(r, ShRep(a), Recall(a)) <=>
           After(q, ShRep(a), Recall(a)) \/ (In(q, ShRep(a)) /\ In(o, Recall(a)))
      /\ After(r, ExRep(a), Recall(a)) <=>
           After(q, ExRep(a), Recall(a)) \/ (In(q, ExRep(a)) /\ In(o, Recall(a)))
      /\ After(r, ExRep(a), WbCall(a)) <=>
           After(q, ExRep(a), WbCall(a)) \/ (In(q, ExRep(a)) /\ In(o, WbCall(a)))
      /\ After2(r, ExRep(a), Recall(a)) <=>
           After2(q, ExRep(a), Recall(a))
             \/ (After(q, ExRep(a), Recall(a)) /\ In(o, Recall(a)))
  BY DownGrows
<1>2. /\ Left(a, u)' <=> Left(a, u)
      /\ WrittenBack(a, u)' <=> WrittenBack(a, u)
      /\ Requested(a, u)' <=> Requested(a, u)
      /\ In(Up(a, u)', ShRequest(a)) <=> In(Up(a, u), ShRequest(a))
  BY UpKept DEF Left, WrittenBack, Requested
<1>3. UpInv(a, u)'
  BY UpKept DEF PairInv, UpInv
<1>4. ~In(o, ShRep(a)) /\ (In(o, WbCall(a)) => In(o, Recall(a)))
  BY Subkinds
<1>5. AskInv(a, u)'
  <2>1. AskInv(a, u)
    BY DEF PairInv
  <2> QED BY <1>1, <1>2, <1>4, <2>1, AskShrinks
<1>6. HoldInv(a, u)'
  BY <1>1, <1>2 DEF PairInv, HoldInv
<1>7. DownInv(a, u)
  BY DEF PairInv
<1>8. CASE EntryOf(a).st # "M"
  <2>1. RecallInv(a, u)'
    BY <1>8, RecallSettled
  <2>2. l2[u][a].st # "M" /\ ~In(q, ExRep(a))
    BY <1>8, NothingRecalled DEF GrantedEx
  <2>3. DownInv(a, u)'
    BY <1>1, <1>7, <1>8, <2>2 DEF DownInv
  <2> QED BY <1>3, <1>5, <1>6, <2>1, <2>3 DEF PairInv
<1>9. CASE EntryOf(a).st = "M"
  <2>1. ~Recalled(a, u, Recall(a)) /\ ~In(o, InvCall(a))
    BY <1>9
  <2>2. (l2[u][a].st = "M" => ~In(q, Recall(a))) /\ ~After(q, ExRep(a), Recall(a))
    BY <2>1 DEF Recalled
  <2>3. In(o, Recall(a)) => ~In(q, ShRep(a)) /\ l2[u][a].st # "S"
    <3> SUFFICES ASSUME In(o, Recall(a))
                 PROVE  ~In(q, ShRep(a)) /\ l2[u][a].st # "S"
      OBVIOUS
    <3>1. EntryOf(a).owner = u /\ ~WrittenBack(a, u)
      BY <1>9
    <3>2. l2[u][a].st = "M" \/ GrantedEx(a, u) \/ Flushed(a, u)
      BY <1>9, <3>1 DEF LinkInv
    <3> QED BY <3>2, OneReply
  <2>4. DownInv(a, u)'
    BY <1>1, <1>7, <2>1, <2>2, <2>3 DEF DownInv
  <2>5. Awaits(a)' /\ ~WrittenBack(a, u)'
    BY <1>2, <1>9
  <2>6. Recalled(a, u, WbCall(a))' => In(o, WbCall(a))
    <3>1. ~In(q, WbCall(a)) \/ l2[u][a].st # "M"
      BY <2>2, Subkinds
    <3>2. WbCall(a) \subseteq Recall(a)
      BY DEF WbCall, Recall, OfType
    <3>3. ~After(q, ExRep(a), WbCall(a))
      BY <2>2, <3>2, OrderMono
    <3> QED BY <1>1, <3>1, <3>3 DEF Recalled
  <2>7. RecallInv(a, u)'
    BY <1>9, <2>5, <2>6 DEF RecallInv
  <2> QED BY <1>3, <1>5, <1>6, <2>4, <2>7 DEF PairInv
<1> QED BY <1>8, <1>9

\* What the directory sends to ask the caches for line a: requests about this
\* line, at most one to a tile; for the line back only to the owner o of an
\* entry that is modified, and for a write-back only when wb says so.
Calls(a, out, mod, o, wb) ==
  /\ out \in Outgoing
  /\ \A y \in Tiles :
       /\ \A b : ~In(out[y], Answer(b)) /\ (b # a => ~In(out[y], FromHome(b)))
       /\ ~In(out[y], L1Msg) /\ ~In(out[y], Rep(a))
       /\ \A R, S : ~After(out[y], R, S) /\ ~After2(out[y], R, S)
       /\ ~mod => ~In(out[y], Recall(a))
       /\ mod => /\ ~In(out[y], InvCall(a))
                 /\ In(out[y], Recall(a)) => o = y
                 /\ In(out[y], WbCall(a)) => wb

\* FlushReq, WbReq and InvReq are of this form.
LEMMA CallsCaches ==
  ASSUME NEW a \in Addrs, NEW e, NEW S, NEW o, NEW wb
  PROVE  /\ Calls(a, FlushReq(e, a), TRUE, e.owner, FALSE)
         /\ Calls(a, WbReq(e, a), TRUE, e.owner, TRUE)
         /\ Calls(a, InvReq(S, a), FALSE, o, wb)
<1>1. ASSUME NEW type \in {"FLUSH_REQ", "WB_REQ", "INV_REQ"}, NEW n,
             n = Msg(type, "DIR", a, None), NEW out,
             \A y \in Tiles : out[y] = <<n>> \/ out[y] = <<>>,
             NEW y \in Tiles
      PROVE  /\ \A b : ~In(out[y], Answer(b)) /\ (b # a => ~In(out[y], FromHome(b)))
             /\ ~In(out[y], L1Msg) /\ ~In(out[y], Rep(a))
             /\ \A R, T : ~After(out[y], R, T) /\ ~After2(out[y], R, T)
             /\ In(out[y], InvCall(a)) => type = "INV_REQ"
             /\ In(out[y], Recall(a)) => type # "INV_REQ" /\ out[y] = <<n>>
             /\ In(out[y], WbCall(a)) => type = "WB_REQ"
  <2>1. n \in ShmemMsg /\ n.type = type /\ n.src = "DIR" /\ n.addr = a
    BY <1>1 DEF Msg, ShmemMsg, ControlMsg, MsgSource
  <2>2. \A R : In(out[y], R) => n \in R /\ out[y] = <<n>>
    BY <1>1, InSingle
  <2>3. /\ \A b : n \notin Answer(b) /\ (b # a => n \notin FromHome(b))
        /\ n \notin L1Msg /\ n \notin Rep(a)
        /\ n \in InvCall(a) => type = "INV_REQ"
        /\ n \in Recall(a) => type # "INV_REQ"
        /\ n \in WbCall(a) => type = "WB_REQ"
    BY <2>1 DEF Answer, FromHome, L1Msg, Rep, InvCall, Recall, WbCall, OfType, Comps
  <2>4. ASSUME NEW R, NEW T PROVE ~After(out[y], R, T) /\ ~After2(out[y], R, T)
    <3>1. CASE out[y] = <<n>>
      <4>1. ~After(<<n>>, R, T) /\ ~After2(<<n>>, R, T)
        <5> HIDE <1>1
        <5> QED BY OrderShort
      <4> QED BY <3>1, <4>1
    <3>2. CASE out[y] = <<>>
      BY <3>2, OrderShort
    <3> QED BY <1>1, <3>1, <3>2
  <2> QED BY <2>2, <2>3, <2>4
<1>2. \A type \in {"FLUSH_REQ", "WB_REQ", "INV_REQ"} :
        Msg(type, "DIR", a, None) \in SimMsg
  BY DEF Msg, SimMsg, ShmemMsg, ControlMsg, MsgSource, Comps
<1>3. Calls(a, FlushReq(e, a), TRUE, e.owner, FALSE)
  <2> DEFINE out == FlushReq(e, a)
             n == Msg("FLUSH_REQ", "DIR", a, None)
  <2>1. out \in SimOutgoing
    BY <1>2, SimOutgoingType DEF FlushReq
  <2>2. \A y \in Tiles : out[y] = <<n>> \/ out[y] = <<>>
    BY DEF FlushReq, To
  <2>3. \A y \in Tiles : out[y] # <<>> => e.owner = y
    BY DEF FlushReq, To
  <2>4. <<n>> # <<>>
    OBVIOUS
  <2>5. out \in Outgoing
    BY <2>1, SimMsgsType
  <2> HIDE DEF out
  <2>6. ASSUME NEW y \in Tiles
        PROVE  /\ \A b : ~In(out[y], Answer(b)) /\ (b # a => ~In(out[y], FromHome(b)))
               /\ ~In(out[y], L1Msg) /\ ~In(out[y], Rep(a))
               /\ \A R, T : ~After(out[y], R, T) /\ ~After2(out[y], R, T)
               /\ ~In(out[y], InvCall(a))
               /\ In(out[y], Recall(a)) => e.owner = y
               /\ ~In(out[y], WbCall(a))
    <3>1. n = Msg("FLUSH_REQ", "DIR", a, None) /\ "FLUSH_REQ" \in {"FLUSH_REQ", "WB_REQ", "INV_REQ"}
      OBVIOUS
    <3> HIDE DEF n
    <3> QED BY <1>1, <2>2, <2>3, <2>4, <3>1
  <2>7. Calls(a, out, TRUE, e.owner, FALSE)
    BY <2>5, <2>6 DEF Calls
  <2> QED BY <2>7 DEF out
<1>4. Calls(a, WbReq(e, a), TRUE, e.owner, TRUE)
  <2> DEFINE out == WbReq(e, a)
             n == Msg("WB_REQ", "DIR", a, None)
  <2>1. out \in SimOutgoing
    BY <1>2, SimOutgoingType DEF WbReq
  <2>2. \A y \in Tiles : out[y] = <<n>> \/ out[y] = <<>>
    BY DEF WbReq, To
  <2>3. \A y \in Tiles : out[y] # <<>> => e.owner = y
    BY DEF WbReq, To
  <2>4. <<n>> # <<>>
    OBVIOUS
  <2>5. out \in Outgoing
    BY <2>1, SimMsgsType
  <2> HIDE DEF out
  <2>6. ASSUME NEW y \in Tiles
        PROVE  /\ \A b : ~In(out[y], Answer(b)) /\ (b # a => ~In(out[y], FromHome(b)))
               /\ ~In(out[y], L1Msg) /\ ~In(out[y], Rep(a))
               /\ \A R, T : ~After(out[y], R, T) /\ ~After2(out[y], R, T)
               /\ ~In(out[y], InvCall(a))
               /\ In(out[y], Recall(a)) => e.owner = y
    <3>1. n = Msg("WB_REQ", "DIR", a, None) /\ "WB_REQ" \in {"FLUSH_REQ", "WB_REQ", "INV_REQ"}
      OBVIOUS
    <3> HIDE DEF n
    <3> QED BY <1>1, <2>2, <2>3, <2>4, <3>1
  <2>7. Calls(a, out, TRUE, e.owner, TRUE)
    BY <2>5, <2>6 DEF Calls
  <2> QED BY <2>7 DEF out
<1>5. Calls(a, InvReq(S, a), FALSE, o, wb)
  <2> DEFINE out == InvReq(S, a)
             n == Msg("INV_REQ", "DIR", a, None)
  <2>1. out \in SimOutgoing
    BY <1>2, SimOutgoingType DEF InvReq
  <2>2. \A y \in Tiles : out[y] = <<n>> \/ out[y] = <<>>
    BY DEF InvReq, ToAll
  <2>5. out \in Outgoing
    BY <2>1, SimMsgsType
  <2> HIDE DEF out
  <2> QED BY <1>1, <2>2, <2>5 DEF Calls, out
<1> QED BY <1>3, <1>4, <1>5

\* What sending them does to the channels.
LEMMA CallsLink ==
  ASSUME TypeOK, NEW h \in Tiles, NEW a \in Addrs, Home[a] = h, NEW out, NEW mod,
         NEW o, NEW wb, Calls(a, out, mod, o, wb), Send(h, out)
  PROVE  /\ \A b \in Addrs \ {a}, u \in Tiles : SameLink(b, u)
         /\ \A u \in Tiles : /\ Grows(Down(a, u), Down(a, u)', out[u], FromHome(a))
                             /\ Keeps(Up(a, u), Up(a, u)', Answer(a))
         /\ \A u \in Tiles : Keeps(chan[<<u, u>>], chan'[<<u, u>>], L1Msg)
<1>1. NetworkOK /\ out \in Outgoing
  BY DEF TypeOK, Calls
<1>2. ASSUME NEW x \in Tiles, NEW y \in Tiles, NEW K
      PROVE  /\ x = h => Grows(chan[<<x, y>>], chan'[<<x, y>>], out[y], K)
             /\ ~In(out[y], K) => Keeps(chan[<<x, y>>], chan'[<<x, y>>], K)
  BY <1>1, SendLink
<1>3. ASSUME NEW b \in Addrs, NEW u \in Tiles
      PROVE  /\ Keeps(Up(b, u), Up(b, u)', Answer(b))
             /\ b # a => Keeps(Down(b, u), Down(b, u)', FromHome(b))
  <2>1. Home[b] \in Tiles
    BY MSIAssumption DEF MSIAssumption
  <2>2. ~In(out[Home[b]], Answer(b)) /\ (b # a => ~In(out[u], FromHome(b)))
    BY <2>1 DEF Calls
  <2> QED BY <1>2, <2>1, <2>2 DEF Up, Down
<1>4. \A b \in Addrs \ {a}, u \in Tiles : SameLink(b, u)
  BY <1>3 DEF SameLink
<1>5. \A u \in Tiles : Grows(Down(a, u), Down(a, u)', out[u], FromHome(a))
  BY <1>2 DEF Down
<1>6. \A u \in Tiles : Keeps(chan[<<u, u>>], chan'[<<u, u>>], L1Msg)
  BY <1>2 DEF Calls
<1> QED BY <1>3, <1>4, <1>5, <1>6

\* The handler asks the caches for the line it serves, and returns.
LEMMA AwaitAssert ==
  ASSUME TypeOK, CohInv, CohInv', AssertInv, NEW h \in Tiles, NEW a \in Addrs,
         Home[a] = h, work[h] # None, work[h].addr = a, queue[a] # <<>>,
         NEW out, NEW o, NEW wb, Calls(a, out, EntryOf(a).st = "M", o, wb),
         EntryOf(a).st = "M" => o = EntryOf(a).owner,
         wb => Head(queue[a]).type = "SH_REQ",
         Send(h, out), StopServing(h),
         UNCHANGED <<l1, l2, app, appSem, outst, queue, way, repl>>
  PROVE  AssertInv'
<1>1. /\ \A b \in Addrs \ {a}, u \in Tiles : SameLink(b, u)
      /\ \A u \in Tiles : /\ Grows(Down(a, u), Down(a, u)', out[u], FromHome(a))
                          /\ Keeps(Up(a, u), Up(a, u)', Answer(a))
      /\ \A u \in Tiles : Keeps(chan[<<u, u>>], chan'[<<u, u>>], L1Msg)
  BY CallsLink
<1>2. \A b : EntryOf(b)' = EntryOf(b)
  BY DEF EntryOf
<1>3. work'[h] = None /\ \A g \in Tiles \ {h} : work'[g] = work[g]
  BY DEF StopServing, TypeOK, DirectoryOK
<1>4. Served(a) /\ ~Served(a)' /\ Awaits(a)'
  BY <1>3 DEF Served, Awaits
<1>5. ASSUME NEW b \in Addrs \ {a} PROVE Served(b)' <=> Served(b)
  <2>1. Home[b] \in Tiles
    BY MSIAssumption DEF MSIAssumption
  <2> QED BY <1>3, <2>1 DEF Served
<1>6. ASSUME NEW u \in Tiles PROVE PairInv(a, u)'
  <2>1. /\ PairInv(a, u) /\ LinkInv(a, u) /\ LinkInv(a, u)' /\ RecallInv(a, u)
        /\ l2'[u][a] = l2[u][a] /\ outst'[u] = outst[u] /\ app'[u] = app[u]
    BY DEF AssertInv, CohInv, TokenInv, PairInv
  <2>2. ~Recalled(a, u, Recall(a)) /\ ~WrittenBack(a, u)
    BY <1>4, <2>1, NotAwaited
  <2>3. /\ ~In(out[u], Rep(a))
        /\ \A R, S : ~After(out[u], R, S) /\ ~After2(out[u], R, S)
        /\ EntryOf(a).st # "M" => ~In(out[u], Recall(a))
        /\ EntryOf(a).st = "M" =>
             /\ ~In(out[u], InvCall(a))
             /\ In(out[u], Recall(a)) => EntryOf(a).owner = u
             /\ In(out[u], WbCall(a)) => Head(queue'[a]).type = "SH_REQ"
    BY DEF Calls
  <2>4. Queued(a, u)' => Queued(a, u)
    BY DEF Queued
  <2>5. queue'[a] = queue[a] /\ EntryOf(a)' = EntryOf(a)
    BY <1>2
  <2> QED BY <1>1, <1>4, <2>1, <2>2, <2>3, <2>4, <2>5, AskedPair
<1>7. QueueInv(a)'
  BY DEF AssertInv, QueueInv
<1>8. ServeInv(h)'
  BY <1>3 DEF ServeInv
<1> QED BY <1>1, <1>2, <1>3, <1>5, <1>6, <1>7, <1>8, DirSide

\* processNextReqFromL2Cache: the queue of the line advances.
LEMMA QueueAdvances ==
  ASSUME TypeOK, AssertInv, NEW h \in Tiles, NEW a \in Addrs, Home[a] = h,
         lock[h] = "sim", work[h] # None, work[h].addr = a, queue[a] # <<>>,
         NextReq(h, a)
  PROVE  /\ \A g \in Tiles \ {h} : work'[g] = work[g]
         /\ \A b \in Addrs \ {a} : queue'[b] = queue[b] /\ (Served(b)' <=> Served(b))
         /\ \A R, S : /\ In(queue[a], S) <=> Head(queue[a]) \in S \/ In(queue'[a], S)
                      /\ After(queue[a], R, S) <=>
                           \/ After(queue'[a], R, S)
                           \/ Head(queue[a]) \in R /\ In(queue'[a], S)
         /\ QueueInv(a)' /\ ServeInv(h)'
<1>1. /\ \A g \in Tiles \ {h} : work'[g] = work[g]
      /\ work'[h] # None => work'[h].addr = a /\ work'[h].buf = None
      /\ \A b \in Addrs \ {a} : queue'[b] = queue[b]
  BY NextReqEffect
<1>2. ASSUME NEW b \in Addrs \ {a} PROVE Served(b)' <=> Served(b)
  <2>1. Home[b] \in Tiles
    BY MSIAssumption DEF MSIAssumption
  <2> QED BY <1>1, <2>1 DEF Served
<1>3. queue[a] \in Seq(ShmemReq) /\ queue'[a] = Tail(queue[a])
  BY DEF TypeOK, DirectoryOK, NextReq
<1>4. ASSUME NEW R, NEW S
      PROVE  /\ In(queue[a], S) <=> Head(queue[a]) \in S \/ In(queue'[a], S)
             /\ After(queue[a], R, S) <=>
                  \/ After(queue'[a], R, S)
                  \/ Head(queue[a]) \in R /\ In(queue'[a], S)
  <2> DEFINE q == queue[a]
  <2>1. q \in Seq(ShmemReq) /\ q # <<>> /\ queue'[a] = Tail(q)
    BY <1>3
  <2> HIDE DEF q
  <2>2. /\ In(q, S) <=> Head(q) \in S \/ In(Tail(q), S)
        /\ After(q, R, S) <=> \/ After(Tail(q), R, S)
                              \/ Head(q) \in R /\ In(Tail(q), S)
    BY <2>1, OrderTail
  <2> QED BY <2>1, <2>2 DEF q
<1>5. /\ Len(queue[a]) \in Nat /\ Len(queue'[a]) = Len(queue[a]) - 1
      /\ queue'[a] \in Seq(ShmemReq)
      /\ \A i \in 1..Len(queue'[a]) : queue'[a][i] = queue[a][i + 1]
  BY <1>3, HeadTailProperties, LenProperties
<1>6. ASSUME NEW i \in 1..Len(queue'[a]) PROVE queue'[a][i].type # "NULLIFY_REQ"
  <2>1. i + 1 \in 1..Len(queue[a]) /\ i + 1 # 1 /\ queue'[a][i] = queue[a][i + 1]
    BY <1>5
  <2> QED BY <2>1 DEF AssertInv, QueueInv
<1>7. QueueInv(a)'
  BY <1>6 DEF QueueInv
<1>8. work'[h] # None => Len(queue[a]) > 1
  BY DEF NextReq, StopServing, TypeOK, DirectoryOK
<1>9. ASSUME work'[h] # None
      PROVE  queue'[a] # <<>> /\ Head(queue'[a]).type # "NULLIFY_REQ"
  <2>1. Len(queue'[a]) # 0 /\ 1 \in 1..Len(queue'[a])
    BY <1>5, <1>8, <1>9
  <2>2. queue'[a] # <<>>
    BY <1>5, <2>1, EmptySeq
  <2>3. Head(queue'[a]) = queue'[a][1]
    BY <1>5, <2>2, HeadTailProperties
  <2> QED BY <1>6, <2>1, <2>2, <2>3
<1>10. ServeInv(h)'
  BY <1>1, <1>9 DEF ServeInv
<1> QED BY <1>1, <1>2, <1>4, <1>7, <1>10

\* processNullifyReq: the entry that was replaced is dropped.
LEMMA NullifyAssert ==
  ASSUME TypeOK, CohInv, CohInv', AssertInv, NEW h \in Tiles, DirServeNullify(h),
         err' = {}
  PROVE  AssertInv'
<1> DEFINE r == Head(queue[work[h].addr])
<1>1. Serving(h, work[h].addr, r, {"NULLIFY_REQ"})
  BY DEF DirServeNullify
<1>2. PICK a \in Addrs : a = work[h].addr
  BY <1>1, ServedLine
<1>3. lock[h] = "sim" /\ work[h] # None /\ Home[a] = h /\ queue[a] # <<>>
  BY <1>1, <1>2, ServedLine
<1>4. /\ EntryOf(a).st = "U" /\ repl[a] # None
      /\ repl' = [repl EXCEPT ![a] = None] /\ NextReq(h, a)
      /\ UNCHANGED <<l1, l2, app, appSem, outst>> /\ UNCHANGED <<chan, way>>
  BY <1>2 DEF DirServeNullify, Check, Failure, cacheVars
<1> HIDE DEF r
<1>5. way[a] = None /\ EntryOf(a).sharers = {}
  BY <1>4 DEF CohInv, DirInv, OneEntryPerLine, EntryInv
<1>6. repl \in [Addrs -> Entry \cup {None}]
  BY DEF TypeOK, DirectoryOK
<1>7. /\ \A b \in Addrs \ {a} : EntryOf(b)' = EntryOf(b) /\ repl'[b] = repl[b]
      /\ EntryOf(a)' = FreshEntry
  BY <1>4, <1>5, <1>6 DEF EntryOf
<1>8. /\ \A g \in Tiles \ {h} : work'[g] = work[g]
      /\ \A b \in Addrs \ {a} : queue'[b] = queue[b] /\ (Served(b)' <=> Served(b))
      /\ \A R, S : /\ In(queue[a], S) <=> Head(queue[a]) \in S \/ In(queue'[a], S)
                   /\ After(queue[a], R, S) <=>
                        \/ After(queue'[a], R, S)
                        \/ Head(queue[a]) \in R /\ In(queue'[a], S)
      /\ QueueInv(a)' /\ ServeInv(h)'
  BY <1>2, <1>3, <1>4, QueueAdvances
<1>9. \A b \in Addrs, u \in Tiles : SameLink(b, u)
  BY <1>4, SameChannelsSameLink
<1>10. ASSUME NEW u \in Tiles
       PROVE  Keeps(chan[<<u, u>>], chan'[<<u, u>>], L1Msg)
  <2>1. chan'[<<u, u>>] = chan[<<u, u>>]
    BY <1>4
  <2> QED BY <2>1, KeepsAll
<1>11. ASSUME NEW u \in Tiles PROVE PairInv(a, u)'
  <2>1. /\ PairInv(a, u) /\ SameLink(a, u) /\ LinkInv(a, u)'
        /\ l2'[u][a].st = l2[u][a].st
    BY <1>4, <1>9 DEF AssertInv, CohInv, TokenInv
  <2>2. DownInv(a, u)' /\ UpInv(a, u)'
    BY <2>1, OrderFrame DEF PairInv
  <2>3. EntryOf(a)'.st # "M" /\ EntryOf(a)'.sharers = {} /\ EntryOf(a)'.hw = {}
    BY <1>7 DEF FreshEntry
  <2>4. RecallInv(a, u)'
    BY <2>1, <2>3, RecallSettled
  <2>5. HoldInv(a, u)'
    BY <2>3 DEF HoldInv
  <2>6. /\ Queued(a, u)' => Queued(a, u)
        /\ In(queue'[a], ShWaiting(u)) => In(queue[a], ShWaiting(u))
        /\ After(queue'[a], Waiting(u), Waiting(u)) =>
             After(queue[a], Waiting(u), Waiting(u))
    BY <1>8 DEF Queued
  <2>7. AskInv(a, u)'
    BY <1>4, <2>1, <2>6, LinkShrinks, AskShrinks DEF PairInv
  <2> QED BY <2>2, <2>4, <2>5, <2>7 DEF PairInv
<1>12. \A b \in Addrs \ {a} : /\ queue'[b] = queue[b]
                              /\ EntryOf(b)' = EntryOf(b)
                              /\ Served(b)' <=> Served(b)
                              /\ repl[b] # None => repl'[b] # None
  BY <1>7, <1>8
<1> QED BY <1>3, <1>4, <1>8, <1>9, <1>10, <1>11, <1>12, DirSide

\* The channels when the home h of a grants the line to tile t.
LEMMA GrantLink ==
  ASSUME TypeOK, NEW h \in Tiles, NEW a \in Addrs, Home[a] = h, NEW t \in Tiles,
         NEW type \in {"EX_REP", "SH_REP"}, NEW v \in Values,
         Send(h, To(t, <<Msg(type, "DIR", a, v)>>))
  PROVE  /\ \A b \in Addrs, u \in Tiles : b # a \/ u # t => SameLink(b, u)
         /\ \A u \in Tiles : Keeps(chan[<<u, u>>], chan'[<<u, u>>], L1Msg)
         /\ Keeps(Up(a, t), Up(a, t)', Answer(a))
         /\ Granted(a, t)'
         /\ In(Down(a, t)', ShRep(a)) => Granted(a, t) \/ type = "SH_REP"
         /\ DownInv(a, t) /\ l2[t][a].st = "I" /\ l2'[t][a].st = "I" =>
              /\ DownInv(a, t)'
              /\ Recalled(a, t, Recall(a))' => Recalled(a, t, Recall(a))
              /\ Recalled(a, t, WbCall(a))' => Recalled(a, t, WbCall(a))
<1> DEFINE n == Msg(type, "DIR", a, v)
           out == To(t, <<n>>)
<1>1. n \in ShmemMsg /\ n.type = type /\ n.src = "DIR" /\ n.addr = a
  BY DEF Msg, ShmemMsg, DataMsg, MsgSource
<1>2. NetworkOK /\ Send(h, out)
  BY DEF TypeOK
<1> HIDE DEF n
<1>3. /\ out \in Outgoing
      /\ \A y \in Tiles : \A S : In(out[y], S) <=> y = t /\ n \in S
      /\ \A y \in Tiles : \A R, S : ~After(out[y], R, S) /\ ~After2(out[y], R, S)
  BY <1>1, ToOne
<1> HIDE DEF out
<1>4. /\ \A b : n \notin Answer(b) /\ (b # a => n \notin FromHome(b))
      /\ n \notin L1Msg /\ n \in Rep(a) /\ (n \in ShRep(a) => type = "SH_REP")
      /\ n \notin InvCall(a) /\ n \notin Recall(a) /\ n \notin WbCall(a)
  BY <1>1 DEF Answer, FromHome, L1Msg, Rep, ShRep, InvCall, Recall, WbCall, OfType,
              Comps
<1>5. ASSUME NEW x \in Tiles, NEW y \in Tiles, NEW K
      PROVE  /\ x = h => Grows(chan[<<x, y>>], chan'[<<x, y>>], out[y], K)
             /\ ~In(out[y], K) => Keeps(chan[<<x, y>>], chan'[<<x, y>>], K)
  BY <1>2, <1>3, SendLink
<1>6. ASSUME NEW b \in Addrs, NEW u \in Tiles
      PROVE  /\ Keeps(Up(b, u), Up(b, u)', Answer(b))
             /\ b # a \/ u # t => Keeps(Down(b, u), Down(b, u)', FromHome(b))
  <2>1. Home[b] \in Tiles
    BY MSIAssumption DEF MSIAssumption
  <2>2. /\ ~In(out[Home[b]], Answer(b))
        /\ b # a \/ u # t => ~In(out[u], FromHome(b))
    BY <1>3, <1>4, <2>1
  <2> QED BY <1>5, <2>1, <2>2 DEF Up, Down
<1>7. \A b \in Addrs, u \in Tiles : b # a \/ u # t => SameLink(b, u)
  BY <1>6 DEF SameLink
<1>8. \A u \in Tiles : Keeps(chan[<<u, u>>], chan'[<<u, u>>], L1Msg)
  BY <1>3, <1>4, <1>5
<1>9. Grows(Down(a, t), Down(a, t)', out[t], FromHome(a))
  BY <1>5 DEF Down
<1>10. \A R, S : ~After(out[t], R, S) /\ ~After2(out[t], R, S)
  BY <1>3
<1>11. /\ In(out[t], Rep(a)) /\ (In(out[t], ShRep(a)) => type = "SH_REP")
       /\ ~In(out[t], InvCall(a)) /\ ~In(out[t], Recall(a)) /\ ~In(out[t], WbCall(a))
  BY <1>3, <1>4
<1> DEFINE q == Down(a, t)
           r == Down(a, t)'
<1>12. /\ Granted(a, t)' <=> Granted(a, t) \/ In(out[t], Rep(a))
       /\ In(r, ShRep(a)) <=> In(q, ShRep(a)) \/ In(out[t], ShRep(a))
       /\ After(r, ExRep(a), InvCall(a)) <=>
            After(q, ExRep(a), InvCall(a)) \/ (In(q, ExRep(a)) /\ In(out[t], InvCall(a)))
       /\ After(r, ShRep(a), Recall(a)) <=>
            After(q, ShRep(a), Recall(a)) \/ (In(q, ShRep(a)) /\ In(out[t], Recall(a)))
       /\ After(r, ExRep(a), Recall(a)) <=>
            After(q, ExRep(a), Recall(a)) \/ (In(q, ExRep(a)) /\ In(out[t], Recall(a)))
       /\ After(r, ExRep(a), WbCall(a)) <=>
            After(q, ExRep(a), WbCall(a)) \/ (In(q, ExRep(a)) /\ In(out[t], WbCall(a)))
       /\ After2(r, ExRep(a), Recall(a)) <=>
            After2(q, ExRep(a), Recall(a))
              \/ (After(q, ExRep(a), Recall(a)) /\ In(out[t], Recall(a)))
  BY <1>9, <1>10, DownGrows
<1>13. In(q, ShRep(a)) => Granted(a, t)
  BY Subkinds DEF Granted
<1>14. DownInv(a, t) /\ l2[t][a].st = "I" /\ l2'[t][a].st = "I" =>
         /\ DownInv(a, t)'
         /\ Recalled(a, t, Recall(a))' => Recalled(a, t, Recall(a))
         /\ Recalled(a, t, WbCall(a))' => Recalled(a, t, WbCall(a))
  BY <1>11, <1>12 DEF DownInv, Recalled
<1> QED BY <1>6, <1>7, <1>8, <1>11, <1>12, <1>13, <1>14

\* The handler adds the requester to the sharers and grants it the line.
LEMMA GrantAssert ==
  ASSUME TypeOK, CohInv, AssertInv, NEW h \in Tiles, NEW a \in Addrs,
         Home[a] = h, lock[h] = "sim", work[h] # None, work[h].addr = a,
         work[h].buf \in Values \cup {None}, queue[a] # <<>>,
         NEW r, r = Head(queue[a]), r.tile \in Tiles, r.type \in {"EX_REQ", "SH_REQ"},
         EntryOf(a).st # "M", HasEntry(a), NEW e \in Entry, SetEntry(a, e),
         e.sharers = EntryOf(a).sharers \cup {r.tile}, e.hw \subseteq e.sharers,
         NEW type \in {"EX_REP", "SH_REP"}, Grant(h, a, r, type),
         type = "SH_REP" => r.type = "SH_REQ",
         UNCHANGED <<l1, l2, app, appSem, outst>>
  PROVE  AssertInv'
<1> DEFINE v == IF work[h].buf = None THEN dram[a] ELSE work[h].buf
<1>1. PICK t \in Tiles : t = r.tile
  OBVIOUS
<1>2. DirectoryOK /\ OneEntryPerLine
  BY DEF TypeOK, CohInv, DirInv
<1>3. EntryOf(a)' = e /\ \A b \in Addrs \ {a} : EntryOf(b)' = EntryOf(b)
  BY <1>2, SetEntryEffect
<1>4. \A b \in Addrs : repl[b] # None => repl'[b] # None
  BY <1>2, SetEntryRepl
<1>5. NextReq(h, a) /\ Send(h, To(t, <<Msg(type, "DIR", a, v)>>))
  BY <1>1 DEF Grant
<1>6. v \in Values
  BY <1>2 DEF DirectoryOK
<1> HIDE DEF v
<1>7. /\ \A b \in Addrs, u \in Tiles : b # a \/ u # t => SameLink(b, u)
      /\ \A u \in Tiles : Keeps(chan[<<u, u>>], chan'[<<u, u>>], L1Msg)
      /\ Keeps(Up(a, t), Up(a, t)', Answer(a))
      /\ Granted(a, t)'
      /\ In(Down(a, t)', ShRep(a)) => Granted(a, t) \/ type = "SH_REP"
      /\ DownInv(a, t) /\ l2[t][a].st = "I" /\ l2'[t][a].st = "I" =>
           /\ DownInv(a, t)'
           /\ Recalled(a, t, Recall(a))' => Recalled(a, t, Recall(a))
           /\ Recalled(a, t, WbCall(a))' => Recalled(a, t, WbCall(a))
  BY <1>5, <1>6, GrantLink
<1>8. /\ \A g \in Tiles \ {h} : work'[g] = work[g]
      /\ \A b \in Addrs \ {a} : queue'[b] = queue[b] /\ (Served(b)' <=> Served(b))
      /\ \A R, S : /\ In(queue[a], S) <=> Head(queue[a]) \in S \/ In(queue'[a], S)
                   /\ After(queue[a], R, S) <=>
                        \/ After(queue'[a], R, S)
                        \/ Head(queue[a]) \in R /\ In(queue'[a], S)
      /\ QueueInv(a)' /\ ServeInv(h)'
  BY <1>5, QueueAdvances
<1>9. ASSUME NEW u \in Tiles PROVE PairInv(a, u)'
  <2>1. /\ PairInv(a, u) /\ LinkInv(a, u) /\ l2'[u][a].st = l2[u][a].st
        /\ outst'[u] = outst[u] /\ app'[u] = app[u]
    BY DEF AssertInv, CohInv, TokenInv
  <2>2. DownInv(a, u) /\ UpInv(a, u) /\ AskInv(a, u) /\ HoldInv(a, u)
    BY <2>1 DEF PairInv
  <2>3. /\ Queued(a, u)' => Queued(a, u)
        /\ In(queue'[a], ShWaiting(u)) => In(queue[a], ShWaiting(u))
        /\ After(queue'[a], Waiting(u), Waiting(u)) =>
             After(queue[a], Waiting(u), Waiting(u))
    BY <1>8 DEF Queued
  <2>4. /\ ~WrittenBack(a, u) /\ ~Recalled(a, u, Recall(a))
        /\ ~Recalled(a, u, WbCall(a))
    BY <2>1, NothingRecalled
  <2>5. CASE u # t
    <3>1. SameLink(a, u)
      BY <1>7, <2>5
    <3>2. /\ DownInv(a, u)' /\ UpInv(a, u)'
          /\ ~WrittenBack(a, u)' /\ ~Recalled(a, u, Recall(a))'
          /\ ~Recalled(a, u, WbCall(a))'
      BY <2>1, <2>2, <2>4, <3>1, OrderFrame
    <3>3. RecallInv(a, u)'
      BY <3>2 DEF RecallInv
    <3>4. AskInv(a, u)'
      BY <2>1, <2>2, <2>3, <3>1, LinkShrinks, AskShrinks
    <3>5. u \in e.sharers => u \in EntryOf(a).sharers
      BY <1>1, <2>5
    <3>6. HoldInv(a, u)'
      BY <1>3, <2>1, <2>2, <3>1, <3>5, HoldFrame
    <3> QED BY <3>2, <3>3, <3>4, <3>6 DEF PairInv
  <2>6. CASE u = t
    <3>1. r \in ShmemReq /\ r.tile = u
      BY <1>1, <1>2, <2>6, HeadTailProperties DEF DirectoryOK
    <3>2. r \in Waiting(u) /\ (type = "SH_REP" => r \in ShWaiting(u))
      BY <3>1 DEF ShmemReq, Waiting, ShWaiting
    <3>3. /\ In(queue[a], Waiting(u)) <=> r \in Waiting(u) \/ In(queue'[a], Waiting(u))
          /\ In(queue[a], ShWaiting(u)) <=>
               r \in ShWaiting(u) \/ In(queue'[a], ShWaiting(u))
          /\ After(queue[a], Waiting(u), Waiting(u)) <=>
               \/ After(queue'[a], Waiting(u), Waiting(u))
               \/ r \in Waiting(u) /\ In(queue'[a], Waiting(u))
      BY <1>8
    <3>4. Queued(a, u) /\ ~Queued(a, u)'
      BY <2>2, <3>2, <3>3 DEF AskInv, Queued
    <3>5. /\ ~Requested(a, u) /\ ~Granted(a, u) /\ ~Left(a, u)
          /\ outst[u] # None /\ outst[u].addr = a
          /\ type = "SH_REP" => app[u].acc.op = "READ"
      BY <2>2, <3>2, <3>3, <3>4 DEF AskInv
    <3>6. l2[u][a].st = "I"
      BY <3>5 DEF AssertInv, ThreadInv, RequestInv
    <3>7. /\ DownInv(a, u)' /\ Granted(a, u)'
          /\ Keeps(Up(a, u), Up(a, u)', Answer(a))
          /\ In(Down(a, u)', ShRep(a)) => type = "SH_REP"
          /\ ~Recalled(a, u, Recall(a))' /\ ~Recalled(a, u, WbCall(a))'
      BY <1>7, <2>1, <2>2, <2>4, <2>6, <3>5, <3>6
    <3>8. /\ Left(a, u)' <=> Left(a, u)
          /\ WrittenBack(a, u)' <=> WrittenBack(a, u)
          /\ Requested(a, u)' <=> Requested(a, u)
          /\ In(Up(a, u)', ShRequest(a)) <=> In(Up(a, u), ShRequest(a))
      BY <3>7, UpKept DEF Left, WrittenBack, Requested
    <3>9. UpInv(a, u)'
      BY <2>2, <3>7, UpKept DEF UpInv
    <3>10. RecallInv(a, u)'
      BY <2>4, <3>7, <3>8 DEF RecallInv
    <3>11. AskInv(a, u)'
      BY <2>1, <2>2, <2>3, <3>4, <3>5, <3>7, <3>8 DEF AskInv
    <3>12. HoldInv(a, u)'
      BY <1>3, <3>7 DEF HoldInv
    <3> QED BY <3>7, <3>9, <3>10, <3>11, <3>12 DEF PairInv
  <2> QED BY <2>5, <2>6
<1>10. \A b \in Addrs \ {a} : /\ queue'[b] = queue[b]
                              /\ EntryOf(b)' = EntryOf(b)
                              /\ Served(b)' <=> Served(b)
                              /\ repl[b] # None => repl'[b] # None
  BY <1>3, <1>4, <1>8
<1>11. \A b \in Addrs \ {a}, u \in Tiles : SameLink(b, u)
  BY <1>7
<1> QED BY <1>7, <1>8, <1>9, <1>10, <1>11, DirSide

\* addSharer puts nobody else in hardware.
LEMMA AddHw ==
  ASSUME NEW e \in Entry, NEW t \in Tiles, e.hw \subseteq e.sharers
  PROVE  /\ addSharer(e, t) \in Entry
         /\ addSharer(e, t).sharers = e.sharers \cup {t}
         /\ addSharer(e, t).hw \subseteq e.sharers \cup {t}
<1>1. addSharer(e, t) \in Entry /\ addSharer(e, t).sharers = e.sharers \cup {t}
  BY AddSharer
<1>2. addSharer(e, t).hw \in {e.hw \cup {t}, e.hw}
  BY DEF addSharer, Entry
<1> QED BY <1>1, <1>2

\* The requests to the caches that fit the state of the entry.
LEMMA CallsFit ==
  ASSUME NEW a \in Addrs, NEW S, NEW o
  PROVE  /\ EntryOf(a).st = "M" =>
              /\ Calls(a, FlushReq(EntryOf(a), a), EntryOf(a).st = "M",
                       EntryOf(a).owner, FALSE)
              /\ Calls(a, WbReq(EntryOf(a), a), EntryOf(a).st = "M",
                       EntryOf(a).owner, TRUE)
         /\ EntryOf(a).st # "M" =>
              Calls(a, InvReq(S, a), EntryOf(a).st = "M", o, FALSE)
<1>1. /\ Calls(a, FlushReq(EntryOf(a), a), TRUE, EntryOf(a).owner, FALSE)
      /\ Calls(a, WbReq(EntryOf(a), a), TRUE, EntryOf(a).owner, TRUE)
      /\ Calls(a, InvReq(S, a), FALSE, o, FALSE)
  BY CallsCaches
<1>2. ASSUME NEW out, NEW p, NEW wb, Calls(a, out, TRUE, p, wb), EntryOf(a).st = "M"
      PROVE  Calls(a, out, EntryOf(a).st = "M", p, wb)
  BY <1>2 DEF Calls
<1>3. ASSUME NEW out, NEW p, NEW wb, Calls(a, out, FALSE, p, wb), EntryOf(a).st # "M"
      PROVE  Calls(a, out, EntryOf(a).st = "M", p, wb)
  BY <1>3 DEF Calls
<1> QED BY <1>1, <1>2, <1>3

\* processExReqFromL2Cache
LEMMA ServeExAssert ==
  ASSUME TypeOK, CohInv, CohInv', AssertInv, NEW h \in Tiles, DirServeExReq(h),
         err' = {}
  PROVE  AssertInv'
<1> DEFINE r == Head(queue[work[h].addr])
<1>1. Serving(h, work[h].addr, r, {"EX_REQ"})
  BY DEF DirServeExReq
<1>2. PICK a \in Addrs : a = work[h].addr
  BY <1>1, ServedLine
<1>3. /\ lock[h] = "sim" /\ work[h] # None /\ work[h].buf \in Values \cup {None}
      /\ Home[a] = h /\ queue[a] # <<>> /\ r = Head(queue[a])
      /\ r.tile \in Tiles /\ r.type \in {"EX_REQ"} /\ work[h].addr = a
  BY <1>1, <1>2, ServedLine
<1> DEFINE e == EntryOf(a)
<1>4. HasEntry(a) /\ UNCHANGED <<l1, l2, app, appSem, outst>>
  BY <1>2 DEF DirServeExReq, cacheVars
<1>5. \/ e.st = "M" /\ Await(h, a, FlushReq(e, a)) /\ UNCHANGED <<way, repl>>
      \/ e.st = "S" /\ Await(h, a, InvReq(InvTargets(e), a)) /\ UNCHANGED <<way, repl>>
      \/ /\ e.st = "U"
         /\ SetEntry(a, [addSharer(e, r.tile) EXCEPT !.owner = r.tile, !.st = "M"])
         /\ Grant(h, a, r, "EX_REP")
  BY <1>2 DEF DirServeExReq, Check, Failure
<1> HIDE DEF r
<1>6. e \in Entry /\ e.hw \subseteq e.sharers
  BY HwSharers
<1>7. ASSUME NEW out, Await(h, a, out), UNCHANGED <<way, repl>>, NEW o,
             Calls(a, out, e.st = "M", o, FALSE), e.st = "M" => o = e.owner
      PROVE  AssertInv'
  <2>1. Send(h, out) /\ StopServing(h) /\ UNCHANGED queue
    BY <1>3, <1>7, AwaitEffect
  <2> QED BY <1>3, <1>4, <1>7, <2>1, AwaitAssert
<1>8. CASE e.st = "M" /\ Await(h, a, FlushReq(e, a)) /\ UNCHANGED <<way, repl>>
  BY <1>7, <1>8, CallsFit
<1>9. CASE /\ e.st = "S" /\ Await(h, a, InvReq(InvTargets(e), a))
           /\ UNCHANGED <<way, repl>>
  BY <1>7, <1>9, CallsFit
<1>10. CASE /\ e.st = "U"
            /\ SetEntry(a, [addSharer(e, r.tile) EXCEPT !.owner = r.tile, !.st = "M"])
            /\ Grant(h, a, r, "EX_REP")
  <2> DEFINE f == addSharer(e, r.tile)
             g == [f EXCEPT !.owner = r.tile, !.st = "M"]
  <2>1. /\ f \in Entry /\ f.sharers = e.sharers \cup {r.tile}
        /\ f.hw \subseteq e.sharers \cup {r.tile}
    BY <1>3, <1>6, AddHw
  <2>2. SetEntry(a, g)
    BY <1>10
  <2> HIDE DEF f
  <2>3. g \in Entry /\ g.sharers = f.sharers /\ g.hw = f.hw
    BY <1>3, <2>1 DEF Entry
  <2> HIDE DEF g
  <2>4. /\ e.st # "M" /\ g.sharers = e.sharers \cup {r.tile}
        /\ g.hw \subseteq g.sharers /\ Grant(h, a, r, "EX_REP")
    BY <1>10, <2>1, <2>3
  <2> QED BY <1>3, <1>4, <2>2, <2>3, <2>4, GrantAssert
<1> QED BY <1>5, <1>8, <1>9, <1>10

\* processShReqFromL2Cache
LEMMA ServeShAssert ==
  ASSUME TypeOK, CohInv, CohInv', AssertInv, NEW h \in Tiles, DirServeShReq(h),
         err' = {}
  PROVE  AssertInv'
<1> DEFINE r == Head(queue[work[h].addr])
<1>1. Serving(h, work[h].addr, r, {"SH_REQ"})
  BY DEF DirServeShReq
<1>2. PICK a \in Addrs : a = work[h].addr
  BY <1>1, ServedLine
<1>3. /\ lock[h] = "sim" /\ work[h] # None /\ work[h].buf \in Values \cup {None}
      /\ Home[a] = h /\ queue[a] # <<>> /\ r = Head(queue[a])
      /\ r.tile \in Tiles /\ r.type \in {"SH_REQ"} /\ work[h].addr = a
  BY <1>1, <1>2, ServedLine
<1> DEFINE e == EntryOf(a)
<1>4. HasEntry(a) /\ UNCHANGED <<l1, l2, app, appSem, outst>>
  BY <1>2 DEF DirServeShReq, cacheVars
<1>5. \/ e.st = "M" /\ Await(h, a, WbReq(e, a)) /\ UNCHANGED <<way, repl>>
      \/ /\ e.st = "S" /\ \E x \in e.hw : Send(h, InvReq({x}, a))
         /\ StopServing(h) /\ UNCHANGED <<queue, way, repl>>
      \/ /\ e.st \in {"U", "S"}
         /\ SetEntry(a, [addSharer(e, r.tile) EXCEPT !.st = "S"])
         /\ Grant(h, a, r, "SH_REP")
  BY <1>2 DEF DirServeShReq, Check, Failure
<1> HIDE DEF r
<1>6. e \in Entry /\ e.hw \subseteq e.sharers
  BY HwSharers
<1>8. CASE e.st = "M" /\ Await(h, a, WbReq(e, a)) /\ UNCHANGED <<way, repl>>
  <2>1. /\ Send(h, WbReq(e, a)) /\ StopServing(h) /\ UNCHANGED queue
    BY <1>3, <1>8, AwaitEffect
  <2>2. Calls(a, WbReq(e, a), e.st = "M", e.owner, TRUE)
    BY <1>8, CallsFit
  <2>3. Head(queue[a]).type = "SH_REQ"
    BY <1>3
  <2> QED BY <1>3, <1>4, <1>8, <2>1, <2>2, <2>3, AwaitAssert
<1>9. CASE /\ e.st = "S" /\ \E x \in e.hw : Send(h, InvReq({x}, a))
           /\ StopServing(h) /\ UNCHANGED <<queue, way, repl>>
  <2>1. PICK x \in e.hw : Send(h, InvReq({x}, a))
    BY <1>9
  <2>2. e.st # "M" /\ StopServing(h) /\ UNCHANGED <<queue, way, repl>>
    BY <1>9
  <2>3. Calls(a, InvReq({x}, a), e.st = "M", None, FALSE)
    BY <2>2, CallsFit
  <2> QED BY <1>3, <1>4, <2>1, <2>2, <2>3, AwaitAssert
<1>10. CASE /\ e.st \in {"U", "S"}
            /\ SetEntry(a, [addSharer(e, r.tile) EXCEPT !.st = "S"])
            /\ Grant(h, a, r, "SH_REP")
  <2> DEFINE f == addSharer(e, r.tile)
             g == [f EXCEPT !.st = "S"]
  <2>1. /\ f \in Entry /\ f.sharers = e.sharers \cup {r.tile}
        /\ f.hw \subseteq e.sharers \cup {r.tile}
    BY <1>3, <1>6, AddHw
  <2>2. SetEntry(a, g)
    BY <1>10
  <2> HIDE DEF f
  <2>3. g \in Entry /\ g.sharers = f.sharers /\ g.hw = f.hw
    BY <2>1 DEF Entry
  <2> HIDE DEF g
  <2>4. /\ e.st # "M" /\ g.sharers = e.sharers \cup {r.tile}
        /\ g.hw \subseteq g.sharers /\ Grant(h, a, r, "SH_REP")
    BY <1>10, <2>1, <2>3
  <2> QED BY <1>3, <1>4, <2>2, <2>3, <2>4, GrantAssert
<1> QED BY <1>5, <1>8, <1>9, <1>10

\* processDirectoryEntryAllocationReq: the entry of another line makes room.
LEMMA ReplaceAssert ==
  ASSUME TypeOK, CohInv, CohInv', AssertInv, NEW h \in Tiles, DirReplace(h), err' = {}
  PROVE  AssertInv'
<1> DEFINE r == Head(queue[work[h].addr])
<1>1. Serving(h, work[h].addr, r, {"EX_REQ", "SH_REQ"})
  BY DEF DirReplace
<1>2. PICK a \in Addrs : a = work[h].addr
  BY <1>1, ServedLine
<1>3. Home[a] = h /\ work[h] # None /\ r.tile \in Tiles
  BY <1>1, <1>2, ServedLine
<1>4. /\ ~HasEntry(a) /\ ~FreeWay(h) /\ Candidates(h) # {}
      /\ UNCHANGED <<l1, l2, app, appSem, outst>> /\ work' = work
  BY <1>2 DEF DirReplace, Check, Failure, cacheVars, syncVars
<1>5. PICK b \in Candidates(h) :
        /\ way' = [way EXCEPT ![b] = None, ![a] = FreshEntry]
        /\ IF Uncached(way[b]) THEN UNCHANGED <<repl, queue, chan>>
           ELSE /\ repl' = [repl EXCEPT ![b] = way[b]]
                /\ queue' = [queue EXCEPT ![b] = Append(@,
                     [type |-> "NULLIFY_REQ", tile |-> r.tile])]
                /\ Send(h, IF way[b].st = "M" THEN FlushReq(way[b], b)
                           ELSE InvReq(InvTargets(way[b]), b))
  BY <1>2, <1>4 DEF DirReplace
<1>6. b \in Addrs /\ Home[b] = h /\ way[b] # None /\ queue[b] = <<>>
  BY DEF Candidates
<1>7. way[a] = None /\ repl[a] = None /\ repl[b] = None /\ a # b
  BY <1>3, <1>4, <1>6 DEF HasEntry, CohInv, DirInv, OneEntryPerLine
<1>8. /\ way \in [Addrs -> Entry \cup {None}] /\ repl \in [Addrs -> Entry \cup {None}]
      /\ queue \in [Addrs -> Seq(ShmemReq)]
      /\ FreshEntry \in Entry /\ FreshEntry # None
  BY NoneAssumption DEF TypeOK, DirectoryOK, FreshEntry, Entry, NoneAssumption
<1>9. /\ way'[a] = FreshEntry /\ way'[b] = None
      /\ \A c \in Addrs \ {a, b} : way'[c] = way[c]
  BY <1>5, <1>6, <1>7, <1>8
<1>10. /\ \A c \in Addrs \ {b} : repl'[c] = repl[c] /\ queue'[c] = queue[c]
       /\ repl'[b] = IF Uncached(way[b]) THEN None ELSE way[b]
  BY <1>5, <1>6, <1>7, <1>8
<1> DEFINE x == [type |-> "NULLIFY_REQ", tile |-> r.tile]
<1>11. ~Uncached(way[b]) => queue'[b] = <<x>>
  BY <1>5, <1>6, <1>8
<1>12. /\ x.type = "NULLIFY_REQ"
       /\ \A u : x \notin Waiting(u) /\ x \notin ShWaiting(u)
  BY DEF Waiting, ShWaiting
<1> HIDE DEF r, x
<1>13. \A c \in Addrs \ {b} : EntryOf(c)' = EntryOf(c)
  <2> SUFFICES ASSUME NEW c \in Addrs \ {b} PROVE EntryOf(c)' = EntryOf(c)
    OBVIOUS
  <2>1. CASE c = a
    BY <1>7, <1>8, <1>9, <1>10, <2>1 DEF EntryOf
  <2>2. CASE c # a
    <3>1. way'[c] = way[c] /\ repl'[c] = repl[c]
      BY <1>9, <1>10, <2>2
    <3> QED BY <3>1 DEF EntryOf
  <2> QED BY <2>1, <2>2
<1>14. EntryOf(b) = way[b]
  BY <1>6 DEF EntryOf
<1>15. (\A c : Served(c)' <=> Served(c)) /\ ~Served(b)
  BY <1>2, <1>4, <1>6, <1>7 DEF Served
<1>16. /\ \A g \in Tiles \ {h} : work'[g] = work[g]
       /\ \A c \in Addrs \ {b} : /\ queue'[c] = queue[c]
                                 /\ EntryOf(c)' = EntryOf(c)
                                 /\ Served(c)' <=> Served(c)
                                 /\ repl[c] # None => repl'[c] # None
  BY <1>4, <1>10, <1>13, <1>15
<1>17. ServeInv(h)'
  <2>1. ServeInv(h) /\ work'[h] = work[h]
    BY <1>4 DEF AssertInv
  <2>2. queue'[a] = queue[a] /\ EntryOf(a)' = EntryOf(a) /\ work'[h].addr = a
    BY <1>2, <1>4, <1>7, <1>16
  <2>3. /\ queue'[work[h].addr] = queue[work[h].addr]
        /\ EntryOf(work[h].addr)' = EntryOf(work[h].addr)
    BY <1>2, <2>2
  <2> QED BY <2>1, <2>3, ServeFrame
<1>18. ASSUME NEW u \in Tiles
       PROVE  /\ PairInv(b, u) /\ LinkInv(b, u) /\ LinkInv(b, u)' /\ RecallInv(b, u)
              /\ l2'[u][b] = l2[u][b] /\ outst'[u] = outst[u] /\ app'[u] = app[u]
  BY <1>4, <1>6 DEF AssertInv, CohInv, TokenInv, PairInv
<1>19. CASE Uncached(way[b])
  <2>1. UNCHANGED <<repl, queue, chan>>
    BY <1>5, <1>19
  <2>2. EntryOf(b)' = FreshEntry
    BY <1>9, <1>10, <1>19 DEF EntryOf
  <2>3. EntryOf(b)'.st # "M" /\ EntryOf(b)'.sharers = {} /\ EntryOf(b)'.hw = {}
    BY <2>2 DEF FreshEntry
  <2>4. \A c \in Addrs, u \in Tiles : SameLink(c, u)
    BY <2>1, SameChannelsSameLink
  <2>5. ASSUME NEW u \in Tiles
        PROVE  Keeps(chan[<<u, u>>], chan'[<<u, u>>], L1Msg)
    <3>1. chan'[<<u, u>>] = chan[<<u, u>>]
      BY <2>1
    <3> QED BY <3>1, KeepsAll
  <2>6. ASSUME NEW u \in Tiles PROVE PairInv(b, u)'
    <3>1. /\ PairInv(b, u) /\ LinkInv(b, u)' /\ SameLink(b, u)
          /\ l2'[u][b].st = l2[u][b].st /\ outst'[u] = outst[u] /\ app'[u] = app[u]
      BY <1>6, <1>18, <2>4
    <3>2. DownInv(b, u)' /\ UpInv(b, u)'
      BY <3>1, OrderFrame DEF PairInv
    <3>3. RecallInv(b, u)'
      BY <2>3, <3>1, RecallSettled
    <3>4. AskInv(b, u)'
      <4>1. AskInv(b, u) /\ queue'[b] = queue[b]
        BY <2>1, <3>1 DEF PairInv
      <4> QED BY <3>1, <4>1, AskFrame
    <3>5. HoldInv(b, u)'
      BY <2>3 DEF HoldInv
    <3> QED BY <3>2, <3>3, <3>4, <3>5 DEF PairInv
  <2>7. QueueInv(b)'
    BY <1>6, <2>1 DEF AssertInv, QueueInv
  <2> QED BY <1>4, <1>6, <1>16, <1>17, <2>4, <2>5, <2>6, <2>7, DirSide
<1>20. CASE ~Uncached(way[b])
  <2>1. EntryOf(b)' = EntryOf(b) /\ repl'[b] # None /\ queue'[b] = <<x>>
    BY <1>6, <1>9, <1>10, <1>11, <1>14, <1>20 DEF EntryOf
  <2>2. PICK out : /\ Send(h, out)
                   /\ Calls(b, out, EntryOf(b).st = "M", EntryOf(b).owner, FALSE)
    <3>1. CASE way[b].st = "M"
      <4>1. Send(h, FlushReq(EntryOf(b), b))
        BY <1>5, <1>14, <1>20, <3>1
      <4>2. Calls(b, FlushReq(EntryOf(b), b), EntryOf(b).st = "M",
                  EntryOf(b).owner, FALSE)
        BY <1>6, <1>14, <3>1, CallsFit
      <4> QED BY <4>1, <4>2
    <3>2. CASE way[b].st # "M"
      <4>1. Send(h, InvReq(InvTargets(way[b]), b))
        BY <1>5, <1>20, <3>2
      <4>2. Calls(b, InvReq(InvTargets(way[b]), b), EntryOf(b).st = "M",
                  EntryOf(b).owner, FALSE)
        BY <1>6, <1>14, <3>2, CallsFit
      <4> QED BY <4>1, <4>2
    <3> QED BY <3>1, <3>2
  <2>3. /\ \A c \in Addrs \ {b}, u \in Tiles : SameLink(c, u)
        /\ \A u \in Tiles : /\ Grows(Down(b, u), Down(b, u)', out[u], FromHome(b))
                            /\ Keeps(Up(b, u), Up(b, u)', Answer(b))
        /\ \A u \in Tiles : Keeps(chan[<<u, u>>], chan'[<<u, u>>], L1Msg)
    BY <1>6, <2>2, CallsLink
  <2>4. Awaits(b)'
    <3>1. queue'[b] # <<>>
      BY <2>1
    <3> QED BY <1>15, <3>1 DEF Awaits
  <2>5. ASSUME NEW u \in Tiles PROVE PairInv(b, u)'
    <3>1. /\ PairInv(b, u) /\ LinkInv(b, u) /\ LinkInv(b, u)' /\ RecallInv(b, u)
          /\ l2'[u][b] = l2[u][b] /\ outst'[u] = outst[u] /\ app'[u] = app[u]
      BY <1>18
    <3>2. ~Recalled(b, u, Recall(b)) /\ ~WrittenBack(b, u)
      BY <1>6, <3>1, NotAwaited
    <3>3. /\ ~In(out[u], Rep(b))
          /\ \A R, S : ~After(out[u], R, S) /\ ~After2(out[u], R, S)
          /\ EntryOf(b).st # "M" => ~In(out[u], Recall(b))
          /\ EntryOf(b).st = "M" =>
               /\ ~In(out[u], InvCall(b))
               /\ In(out[u], Recall(b)) => EntryOf(b).owner = u
               /\ ~In(out[u], WbCall(b))
      BY <2>2 DEF Calls
    <3>4. ~In(<<x>>, Waiting(u)) /\ ~In(<<x>>, ShWaiting(u))
      BY <1>12, InSingle
    <3>5. ~After(<<x>>, Waiting(u), Waiting(u))
      BY OrderShort
    <3>6. /\ ~Queued(b, u)' /\ ~In(queue'[b], ShWaiting(u))
          /\ ~After(queue'[b], Waiting(u), Waiting(u))
      BY <2>1, <3>4, <3>5 DEF Queued
    <3>7. /\ Grows(Down(b, u), Down(b, u)', out[u], FromHome(b))
          /\ Keeps(Up(b, u), Up(b, u)', Answer(b)) /\ EntryOf(b)' = EntryOf(b)
      BY <2>1, <2>3
    <3> QED BY <1>6, <2>4, <3>1, <3>2, <3>3, <3>6, <3>7, AskedPair
  <2>6. QueueInv(b)'
    <3>1. \A i \in 1..Len(<<x>>) : i = 1
      OBVIOUS
    <3> QED BY <2>1, <3>1 DEF QueueInv
  <2> QED BY <1>4, <1>6, <1>16, <1>17, <2>3, <2>5, <2>6, DirSide
<1> QED BY <1>19, <1>20

\* The steps of the directories keep the invariant.
LEMMA DirStepAssert ==
  ASSUME TypeOK, HandoverInv, CohInv, CohInv', AssertInv, NEW s \in Tiles,
         NEW h \in Tiles, err' = {},
         \/ DirRecvReq(s, h) \/ DirRecvInvRep(s, h)
         \/ DirRecvFlushRep(s, h) \/ DirRecvWbRep(s, h) \/ ServeStep(h)
  PROVE  AssertInv'
BY RecvReqAssert, InvRepAssert, FlushRepAssert, WbRepAssert, AllocateFreeAssert,
   ReplaceAssert, ServeExAssert, ServeShAssert, NullifyAssert DEF ServeStep

-----------------------------------------------------------------------------
(* No assertion fails *)

\* A line that hits in an L1 cache is in the L2 cache, with the same right.
LEMMA HitPresent ==
  ASSUME CohInv, NEW t \in Tiles, NEW c \in Comps, NEW a \in Addrs,
         l1[t][c][a].st # "I"
  PROVE  l2[t][a].st = l1[t][c][a].st /\ l2[t][a].st # "I" /\ l2[t][a].loc = c
BY DEF CohInv, CacheInv, Inclusion

\* processShmemRequestFromL1Cache with a hit: the L1 cache that is filled is
\* the only one that could have the line, and it does not.
LEMMA L2HitSafe ==
  ASSUME SplitLines, TypeOK, HandoverInv, CohInv, AssertInv, NEW t \in Tiles,
         NEW r \in Accesses, AppL2Hit(t, r), err = {}
  PROVE  err' = {}
<1> DEFINE c == r.comp
           a == r.addr
           inv == [l1[t] EXCEPT ![r.comp][r.addr] = InvalidL1]
<1>1. r \in Access /\ c \in Comps /\ a \in Addrs /\ a \in Kind(c)
  <2>1. r \in Access
    BY AccessesType
  <2>2. a \in Kind(c)
    BY DEF Accesses, Kind
  <2> QED BY <2>1, <2>2 DEF Access
<1>2. l1[t] \in L1Caches /\ l2[t][a] \in L2Line
  BY <1>1 DEF TypeOK, CachesOK, L1Caches, L2Cache
<1>3. PICK victim \in Victims(inv[c], L1Ways) :
        Check(Failure("clearCachedLoc", victim # None => l2[t][victim].loc = c)
              \cup Failure("setCachedLoc", l2[t][a].loc = None))
  BY DEF AppL2Hit
<1>4. app[t].pc = "idle" /\ ~L1Hit(t, r) /\ L2Hit(t, r)
  BY DEF AppL2Hit
<1>5. victim # None => l2[t][victim].loc = c
  <2> SUFFICES ASSUME victim # None PROVE l2[t][victim].loc = c
    OBVIOUS
  <2>1. victim \in Addrs /\ inv[c][victim].st # "I"
    BY VictimsValid
  <2>2. l1[t][c][victim].st # "I"
    BY <1>1, <1>2, <2>1 DEF L1Caches, InvalidL1
  <2> QED BY <1>1, <2>1, <2>2, HitPresent
<1>6. l2[t][a].loc = None
  <2> SUFFICES ASSUME l2[t][a].loc # None PROVE FALSE
    OBVIOUS
  <2>1. PICK d \in Comps : l2[t][a].loc = d
    BY <1>2 DEF L2Line
  <2>2. l2[t][a].st # "I"
    BY <1>4 DEF L2Hit, operationPermissible
  <2>3. ~In(chan[<<t, t>>], FromL1(d, a))
    BY <1>4, NothingAsked
  <2>4. l1[t][d][a].st # "I"
    BY <1>1, <2>1, <2>2, <2>3 DEF AssertInv, ThreadInv, LocInv
  <2>5. a \in Kind(d)
    BY <1>1, <2>4 DEF CohInv, CacheInv, KindInv
  <2>6. d = c
    BY <1>1, <2>5, KindsSplit
  <2>7. l2[t][a].st = l1[t][c][a].st
    BY <1>1, <2>4, <2>6, HitPresent
  <2> QED BY <1>4, <2>7 DEF L1Hit, L2Hit
<1> QED BY <1>3, <1>5, <1>6 DEF Check, Failure

\* The assertions of the application threads hold.
LEMMA AppSafe ==
  ASSUME SplitLines, TypeOK, HandoverInv, CohInv, AssertInv, NEW t \in Tiles,
         AppStep(t), err = {}
  PROVE  err' = {}
<1>0. ASSUME NEW r \in Access, L1Hit(t, r)
      PROVE  r.op = "WRITE" => l2[t][r.addr].st # "I"
  <2> SUFFICES ASSUME r.op = "WRITE" PROVE l2[t][r.addr].st # "I"
    OBVIOUS
  <2>1. r.comp \in Comps /\ r.addr \in Addrs
    BY DEF Access
  <2>2. l1[t][r.comp][r.addr].st # "I"
    BY <1>0 DEF L1Hit, operationPermissible
  <2> QED BY <2>1, <2>2, HitPresent
<1>1. ASSUME NEW r \in Accesses, AppL1Hit(t, r) PROVE err' = {}
  <2>1. r \in Access /\ L1Hit(t, r)
    BY <1>1, AccessesType DEF AppL1Hit
  <2>2. Check(Failure("l2_line_present", r.op = "WRITE" => l2[t][r.addr].st # "I"))
    BY <1>1 DEF AppL1Hit
  <2> QED BY <1>0, <2>1, <2>2 DEF Check, Failure
<1>2. ASSUME NEW r \in Accesses, AppL2Hit(t, r) PROVE err' = {}
  BY <1>2, L2HitSafe
<1>3. ASSUME NEW r \in Accesses, AppMiss(t, r) PROVE err' = {}
  BY <1>3 DEF AppMiss
<1>4. ASSUME AppResume(t) PROVE err' = {}
  <2> DEFINE r == app[t].acc
  <2>1. r \in Access /\ appSem[t] > 0
    BY <1>4 DEF AppResume, TypeOK, ThreadsOK, AppState
  <2>2. L1Hit(t, r)
    BY <2>1 DEF AssertInv, ThreadInv, RequestInv
  <2>3. Check(Failure("access_num", L1Hit(t, r))
              \cup Failure("l2_line_present",
                           r.op = "WRITE" => l2[t][r.addr].st # "I"))
    BY <1>4 DEF AppResume
  <2> QED BY <1>0, <2>1, <2>2, <2>3 DEF Check, Failure
<1>5. ASSUME NEW v \in Values, AppUnlock(t, v) PROVE err' = {}
  <2> DEFINE r == [app[t].acc EXCEPT !.op = "WRITE", !.sig = "NONE", !.val = v]
  <2>1. app[t].acc \in Access /\ app[t].pc = "locked"
    BY <1>5 DEF AppUnlock, TypeOK, ThreadsOK, AppState
  <2>2. /\ r \in Access /\ r.op = "WRITE" /\ r.comp = app[t].acc.comp
        /\ r.addr = app[t].acc.addr
    BY <2>1 DEF Access
  <2>3. Check(Failure("unlock_hits", L1Hit(t, r))
              \cup Failure("l2_line_present", l2[t][r.addr].st # "I"))
    BY <1>5 DEF AppUnlock
  <2>4. l1[t][app[t].acc.comp][app[t].acc.addr].st = "M"
    BY <2>1 DEF CohInv, CacheInv, AtomicInv
  <2> HIDE DEF r
  <2>5. L1Hit(t, r)
    BY <2>2, <2>4 DEF L1Hit, operationPermissible
  <2>6. l2[t][r.addr].st # "I"
    BY <1>0, <2>2, <2>5
  <2> QED BY <2>3, <2>5, <2>6 DEF Check, Failure
<1> QED BY <1>1, <1>2, <1>3, <1>4, <1>5 DEF AppStep

\* The packet that a cache takes from the home of its line is the first one
\* on the way down.
LEMMA HeadDown ==
  ASSUME TypeOK, CohInv, NEW s \in Tiles, NEW t \in Tiles, NEW m, Receives(s, t, m),
         m.type \in {"EX_REP", "SH_REP", "INV_REQ", "FLUSH_REQ", "WB_REQ"}
  PROVE  /\ m \in ShmemMsg /\ m.addr \in Addrs /\ s = Home[m.addr]
         /\ \A S : m \in S => In(Down(m.addr, t), S)
<1>1. /\ chan[<<s, t>>] # <<>> /\ m = Head(chan[<<s, t>>])
      /\ m \in ShmemMsg /\ m.addr \in Addrs
  BY ReceivesType DEF TypeOK
<1>2. s = Home[m.addr]
  BY HeadRouted DEF CohInv
<1>3. chan[<<s, t>>] \in Seq(ShmemMsg)
  BY DEF TypeOK, NetworkOK
<1>4. \A S : m \in S => In(chan[<<s, t>>], S)
  BY <1>1, <1>3, InTail
<1> QED BY <1>1, <1>2, <1>4 DEF Down

\* insertCacheLineInHierarchy: the line that the L1 cache c evicts is one of
\* which the L2 cache says so.
LEMMA InsertSafe ==
  ASSUME TypeOK, CohInv, NEW s, NEW t \in Tiles, NEW a \in Addrs, NEW c \in Comps,
         NEW new, new.loc = c, InsertInHierarchy(s, t, a, c, new), err = {}
  PROVE  err' = {}
<1> DEFINE M1(e) == IF e = None THEN l1[t] ELSE InvalidateInL1(t, e)
           M2(e) == Insert(l2[t], a, new, e, InvalidL2)
<1>1. PICK e \in Victims(l2[t], L2Ways) : \E e1 \in Victims(M1(e)[c], L1Ways) :
        Check(Failure("clearCachedLoc", e1 # None => M2(e)[e1].loc = c))
  BY DEF InsertInHierarchy
<1>2. PICK e1 \in Victims(M1(e)[c], L1Ways) :
        Check(Failure("clearCachedLoc", e1 # None => M2(e)[e1].loc = c))
  BY <1>1
<1>3. ASSUME e1 # None PROVE M2(e)[e1].loc = c
  <2>1. e1 \in Addrs /\ M1(e)[c][e1].st # "I"
    BY <1>3, VictimsValid
  <2>2. M2(e)[e1] = IF e1 = a THEN new ELSE IF e1 = e THEN InvalidL2 ELSE l2[t][e1]
    BY <2>1 DEF Insert
  <2>3. CASE e = None
    <3>1. l1[t][c][e1].st # "I" /\ e1 # e
      BY <1>3, <2>1, <2>3
    <3> QED BY <2>1, <2>2, <3>1, HitPresent
  <2>4. CASE e # None
    <3>1. e \in Addrs
      BY <2>4, VictimsValid
    <3>2. M1(e)[c][e1] =
            IF e1 = e /\ c = l2[t][e].loc THEN InvalidL1 ELSE l1[t][c][e1]
      BY <2>1, <2>4, <3>1, InvalidateEffect DEF TypeOK
    <3>3. ~(e1 = e /\ c = l2[t][e].loc) /\ l1[t][c][e1].st # "I"
      BY <2>1, <3>2 DEF InvalidL1
    <3>4. l2[t][e1].loc = c
      BY <2>1, <3>3, HitPresent
    <3> QED BY <2>2, <3>3, <3>4
  <2> QED BY <2>3, <2>4
<1> HIDE DEF M1, M2
<1> QED BY <1>2, <1>3 DEF Check, Failure

\* The assertions of the L2 caches hold: a reply is what the tile waits for,
\* and a request of the directory finds the line in the state that the
\* directory believes it to be in, or gone.
LEMMA L2Safe ==
  ASSUME TypeOK, HandoverInv, CohInv, AssertInv, NEW s \in Tiles, NEW t \in Tiles,
         \/ L2RecvFromL1(t) \/ SimResume(t) \/ L2RecvReply(s, t)
         \/ L2RecvInvReq(s, t) \/ L2RecvFlushReq(s, t) \/ L2RecvWbReq(s, t),
         err = {}
  PROVE  err' = {}
<1> DEFINE m == Head(chan[<<s, t>>])
<1>1. ASSUME L2RecvFromL1(t) PROVE err' = {}
  <2> DEFINE n == Head(chan[<<t, t>>])
  <2>1. Receives(t, t, n) /\ n.src \in Comps
    BY <1>1 DEF L2RecvFromL1
  <2>2. outst[t] = None /\ l2[t][n.addr].st \in {"I", "S"}
    BY <2>1, AskedMisses DEF AssertInv
  <2>3. Check(Failure("no_outstanding", outst[t] = None)
              \cup Failure("ex_req_state",
                           n.type = "EX_REQ" => l2[t][n.addr].st \in {"I", "S"}))
    BY <1>1 DEF L2RecvFromL1
  <2> QED BY <2>2, <2>3 DEF Check, Failure
<1>2. ASSUME SimResume(t) PROVE err' = {}
  BY <1>2 DEF SimResume
<1>3. ASSUME L2RecvReply(s, t) PROVE err' = {}
  <2>1. Receives(s, t, m) /\ m.type \in {"EX_REP", "SH_REP"}
    BY <1>3 DEF L2RecvReply
  <2>2. /\ m \in ShmemMsg /\ m.addr \in Addrs
        /\ \A S : m \in S => In(Down(m.addr, t), S)
    BY <2>1, HeadDown
  <2>3. PICK a \in Addrs : a = m.addr
    BY <2>2
  <2>4. Granted(a, t)
    BY <2>1, <2>2, <2>3 DEF Granted, Rep, OfType
  <2>5. outst[t] # None /\ outst[t].addr = a
    BY <2>4 DEF AssertInv, PairInv, AskInv
  <2> DEFINE new == [st |-> IF m.type = "EX_REP" THEN "M" ELSE "S",
                     loc |-> outst[t].comp, val |-> m.val]
  <2>6. InsertInHierarchy(s, t, a, outst[t].comp, new)
    BY <1>3, <2>3, <2>5 DEF L2RecvReply
  <2>7. outst[t].comp \in Comps /\ new.loc = outst[t].comp
    BY <2>5 DEF TypeOK, ThreadsOK
  <2> HIDE DEF new
  <2> QED BY <2>6, <2>7, InsertSafe
<1>4. ASSUME L2RecvInvReq(s, t) PROVE err' = {}
  <2>1. /\ Receives(s, t, m) /\ m.type = "INV_REQ"
        /\ m.type \in {"EX_REP", "SH_REP", "INV_REQ", "FLUSH_REQ", "WB_REQ"}
    BY <1>4 DEF L2RecvInvReq
  <2>2. /\ m \in ShmemMsg /\ m.addr \in Addrs
        /\ \A S : m \in S => In(Down(m.addr, t), S)
    BY <2>1, HeadDown
  <2>3. PICK a \in Addrs : a = m.addr
    BY <2>2
  <2>4. In(Down(a, t), InvCall(a))
    BY <2>1, <2>2, <2>3 DEF InvCall, OfType
  <2>5. l2[t][a].st # "M" /\ l2[t][a].st \in {"I", "S", "M"}
    BY <2>4 DEF AssertInv, PairInv, DownInv, TypeOK, CachesOK, L2Line
  <2>6. Check(Failure("inv_req_state", l2[t][a].st # "I" => l2[t][a].st = "S"))
    BY <1>4, <2>3 DEF L2RecvInvReq
  <2> QED BY <2>5, <2>6 DEF Check, Failure
<1>5. ASSUME Receives(s, t, m), m.type \in {"FLUSH_REQ", "WB_REQ"}
      PROVE  m.addr \in Addrs /\ (l2[t][m.addr].st # "I" => l2[t][m.addr].st = "M")
  <2>1. m.type \in {"EX_REP", "SH_REP", "INV_REQ", "FLUSH_REQ", "WB_REQ"}
    BY <1>5
  <2>2. /\ m \in ShmemMsg /\ m.addr \in Addrs
        /\ \A S : m \in S => In(Down(m.addr, t), S)
    BY <1>5, <2>1, HeadDown
  <2>3. PICK a \in Addrs : a = m.addr
    BY <2>2
  <2>4. In(Down(a, t), Recall(a))
    BY <1>5, <2>2, <2>3 DEF Recall, OfType
  <2>5. l2[t][a].st # "S" /\ l2[t][a].st \in {"I", "S", "M"}
    BY <2>4 DEF AssertInv, PairInv, DownInv, TypeOK, CachesOK, L2Line
  <2> QED BY <2>3, <2>5
<1>6. ASSUME L2RecvFlushReq(s, t) PROVE err' = {}
  <2>1. Receives(s, t, m) /\ m.type \in {"FLUSH_REQ", "WB_REQ"}
    BY <1>6 DEF L2RecvFlushReq
  <2>2. Check(Failure("flush_req_state",
                      l2[t][m.addr].st # "I" => l2[t][m.addr].st = "M"))
    BY <1>6 DEF L2RecvFlushReq
  <2> QED BY <1>5, <2>1, <2>2 DEF Check, Failure
<1>7. ASSUME L2RecvWbReq(s, t) PROVE err' = {}
  <2>1. Receives(s, t, m) /\ m.type \in {"FLUSH_REQ", "WB_REQ"}
    BY <1>7 DEF L2RecvWbReq
  <2>2. PICK a \in Addrs : a = m.addr
    BY <1>5, <2>1
  <2>3. Check(Failure("wb_req_state", l2[t][a].st # "I" => l2[t][a].st = "M")
              \cup Failure("setCacheLineState",
                           l2[t][a].st # "I" /\ l2[t][a].loc # None =>
                             l1[t][l2[t][a].loc][a].st # "I"))
    BY <1>7, <2>2 DEF L2RecvWbReq
  <2>4. l2[t][a].st # "I" => l2[t][a].st = "M"
    BY <1>5, <2>1, <2>2
  <2>5. ASSUME l2[t][a].st # "I", l2[t][a].loc # None
        PROVE  l1[t][l2[t][a].loc][a].st # "I"
    <3>1. PICK d \in Comps : d = l2[t][a].loc
      BY <2>5 DEF TypeOK, CachesOK, L2Line
    <3>2. l1[t][d][a].st # "I"
      BY <2>4, <2>5, <3>1 DEF AssertInv, ThreadInv, LocInv
    <3> QED BY <3>1, <3>2
  <2> QED BY <2>3, <2>4, <2>5 DEF Check, Failure
<1> QED BY <1>1, <1>2, <1>3, <1>4, <1>6, <1>7

\* The packet that the directory takes from a cache is the first one on the
\* way up.
LEMMA HeadUp ==
  ASSUME TypeOK, CohInv, NEW s \in Tiles, NEW h \in Tiles, NEW m, Receives(s, h, m),
         m.type \in {"INV_REP", "FLUSH_REP", "WB_REP"}
  PROVE  /\ m \in ShmemMsg /\ m.addr \in Addrs /\ h = Home[m.addr]
         /\ Up(m.addr, s) \in Seq(ShmemMsg) /\ Up(m.addr, s) # <<>>
         /\ m = Head(Up(m.addr, s))
         /\ \A S : m \in S => In(Up(m.addr, s), S)
<1>1. /\ chan[<<s, h>>] # <<>> /\ m = Head(chan[<<s, h>>])
      /\ m \in ShmemMsg /\ m.addr \in Addrs
  BY ReceivesType DEF TypeOK
<1>2. h = Home[m.addr]
  BY HeadRouted DEF CohInv
<1>3. chan[<<s, h>>] \in Seq(ShmemMsg)
  BY DEF TypeOK, NetworkOK
<1>4. \A S : m \in S => In(chan[<<s, h>>], S)
  BY <1>1, <1>3, InTail
<1> QED BY <1>1, <1>2, <1>3, <1>4 DEF Up

\* A tile that has given up a shared line was not its owner.
LEMMA LeftShared ==
  ASSUME TypeOK, CohInv, AssertInv, NEW s \in Tiles, NEW a \in Addrs, NEW m,
         Up(a, s) \in Seq(ShmemMsg), Up(a, s) # <<>>, m = Head(Up(a, s)),
         m \in Gone(a), m.type = "INV_REP"
  PROVE  EntryOf(a).st = "S" /\ s \in EntryOf(a).sharers
<1> DEFINE q == Up(a, s)
<1>1. Left(a, s)
  <2>1. m \in Gone(a) => In(q, Gone(a))
    BY InTail
  <2> QED BY <2>1 DEF Left
<1>2. LinkInv(a, s) /\ UpInv(a, s)
  BY DEF CohInv, TokenInv, AssertInv, PairInv
<1>3. s \in EntryOf(a).sharers /\ l2[s][a].st = "I" /\ ~Granted(a, s)
  BY <1>1, <1>2 DEF LinkInv
<1>4. EntryOf(a).st # "U"
  BY <1>3 DEF CohInv, DirInv, EntryInv
<1>5. ~GrantedEx(a, s)
  BY <1>3, Subkinds DEF Granted, GrantedEx
<1>6. m \notin FlushRep(a) /\ m \notin WbRep(a)
  BY DEF FlushRep, WbRep, OfType
<1>7. ~Flushed(a, s)
  <2>1. Once(q, Gone(a))
    BY <1>2 DEF LinkInv
  <2>2. ~In(Tail(q), Gone(a))
    BY <2>1, InTail
  <2>3. ~In(Tail(q), FlushRep(a))
    BY <2>2, Subkinds
  <2>4. ~In(q, FlushRep(a))
    BY <1>6, <2>3, InTail
  <2> QED BY <2>4 DEF Flushed
<1>8. ~WrittenBack(a, s)
  <2>1. ~After(q, Gone(a), WbRep(a))
    BY <1>2 DEF UpInv
  <2>2. ~In(Tail(q), WbRep(a))
    BY <2>1, OrderTail
  <2>3. ~In(q, WbRep(a))
    BY <1>6, <2>2, InTail
  <2> QED BY <2>3 DEF WrittenBack
<1>9. EntryOf(a).st # "M"
  <2> SUFFICES ASSUME EntryOf(a).st = "M" PROVE FALSE
    OBVIOUS
  <2>1. EntryOf(a).owner = s
    BY <1>3, ModifiedEntry
  <2> QED BY <1>2, <1>3, <1>5, <1>7, <1>8, <2>1 DEF LinkInv
<1>10. EntryOf(a) \in Entry
  BY EntryOfType DEF TypeOK
<1> QED BY <1>3, <1>4, <1>9, <1>10 DEF Entry

\* The assertions on the replies of the caches hold: every reply finds an
\* entry in the state that the reply is the end of, and the sender in it.
LEMMA RepliesSafe ==
  ASSUME TypeOK, HandoverInv, CohInv, AssertInv, NEW s \in Tiles, NEW h \in Tiles,
         DirRecvInvRep(s, h) \/ DirRecvFlushRep(s, h) \/ DirRecvWbRep(s, h),
         err = {}
  PROVE  err' = {}
<1> DEFINE m == Head(chan[<<s, h>>])
<1>1. Receives(s, h, m) /\ m.type \in {"INV_REP", "FLUSH_REP", "WB_REP"}
  BY DEF DirRecvInvRep, DirRecvFlushRep, DirRecvWbRep
<1>2. /\ m \in ShmemMsg /\ m.addr \in Addrs
      /\ Up(m.addr, s) \in Seq(ShmemMsg) /\ Up(m.addr, s) # <<>>
      /\ m = Head(Up(m.addr, s)) /\ \A S : m \in S => In(Up(m.addr, s), S)
  <2> HIDE DEF m
  <2> QED BY <1>1, HeadUp
<1>3. PICK a \in Addrs : a = m.addr
  BY <1>2
<1>4. LinkInv(a, s) /\ RecallInv(a, s) /\ OneEntryPerLine
  BY DEF CohInv, TokenInv, DirInv, AssertInv, PairInv
<1>5. s \in EntryOf(a).sharers => HasEntry(a)
  BY <1>4, HoldersHaveEntry
<1>6. CASE DirRecvInvRep(s, h)
  <2>1. m.type = "INV_REP"
    BY <1>6 DEF DirRecvInvRep
  <2>2. m \in Gone(a)
    BY <1>2, <1>3, <2>1 DEF Gone, OfType
  <2>3. EntryOf(a).st = "S" /\ s \in EntryOf(a).sharers
    <3>1. Up(a, s) \in Seq(ShmemMsg) /\ Up(a, s) # <<>> /\ m = Head(Up(a, s))
      BY <1>2, <1>3
    <3> HIDE DEF m
    <3> QED BY <2>1, <2>2, <3>1, LeftShared
  <2>4. Check(Failure("inv_rep_entry", HasEntry(a))
              \cup Failure("inv_rep_state", HasEntry(a) => EntryOf(a).st = "S")
              \cup Failure("removeSharer", HasEntry(a) => s \in EntryOf(a).sharers))
    BY <1>3, <1>6 DEF DirRecvInvRep
  <2> QED BY <1>5, <2>3, <2>4 DEF Check, Failure
<1>7. CASE DirRecvFlushRep(s, h)
  <2>1. m.type = "FLUSH_REP"
    BY <1>7 DEF DirRecvFlushRep
  <2>2. m \in Gone(a) /\ m \in FlushRep(a)
    BY <1>2, <1>3, <2>1 DEF Gone, FlushRep, OfType
  <2>3. Left(a, s) /\ Flushed(a, s)
    BY <1>2, <1>3, <2>2 DEF Left, Flushed
  <2>4. EntryOf(a).st = "M" /\ s \in EntryOf(a).sharers
    BY <1>4, <2>3 DEF LinkInv
  <2>5. Check(Failure("flush_rep_entry", HasEntry(a))
              \cup Failure("flush_rep_state", HasEntry(a) => EntryOf(a).st = "M")
              \cup Failure("removeSharer", HasEntry(a) => s \in EntryOf(a).sharers))
    BY <1>3, <1>7 DEF DirRecvFlushRep
  <2> QED BY <1>5, <2>4, <2>5 DEF Check, Failure
<1>8. CASE DirRecvWbRep(s, h)
  <2>1. m.type = "WB_REP"
    BY <1>8 DEF DirRecvWbRep
  <2>2. m \in WbRep(a)
    BY <1>2, <1>3, <2>1 DEF WbRep, OfType
  <2>3. WrittenBack(a, s)
    BY <1>2, <1>3, <2>2 DEF WrittenBack
  <2>4. EntryOf(a).st = "M" /\ s \in EntryOf(a).sharers
    BY <1>4, <2>3 DEF LinkInv
  <2>5. queue[a] # <<>> /\ Head(queue[a]).type = "SH_REQ"
    BY <1>4, <2>3 DEF RecallInv, Awaits
  <2>6. Check(Failure("wb_rep_entry", HasEntry(a))
              \cup Failure("wb_rep_state",
                           HasEntry(a) => /\ EntryOf(a).st = "M"
                                          /\ s \in EntryOf(a).sharers)
              \cup Failure("wb_rep_request",
                           queue[a] # <<>> /\ Head(queue[a]).type = "SH_REQ"))
    BY <1>3, <1>8 DEF DirRecvWbRep
  <2> QED BY <1>5, <2>4, <2>5, <2>6 DEF Check, Failure
<1> QED BY <1>6, <1>7, <1>8

\* The request at the front of a queue, when it is not a NULLIFY request, is
\* one of a tile that waits for the line and has nothing of it.
LEMMA FrontWaits ==
  ASSUME TypeOK, CohInv, AssertInv, NEW a \in Addrs, queue[a] # <<>>,
         Head(queue[a]).type \in {"EX_REQ", "SH_REQ"}
  PROVE  /\ Head(queue[a]).tile \in Tiles
         /\ outst[Head(queue[a]).tile] # None
         /\ outst[Head(queue[a]).tile].addr = a
         /\ Head(queue[a]).tile \notin EntryOf(a).sharers
<1> DEFINE q == queue[a]
           t == Head(queue[a]).tile
<1>1. q \in Seq(ShmemReq)
  BY DEF TypeOK, DirectoryOK
<1>2. Head(q) = q[1] /\ 1 \in 1..Len(q) /\ Head(q) \in ShmemReq
  BY <1>1, HeadTailProperties, LenProperties, EmptySeq
<1>3. t \in Tiles /\ Head(q) \in Waiting(t)
  BY <1>2 DEF ShmemReq, Waiting
<1>4. Queued(a, t)
  BY <1>2, <1>3 DEF Queued, In
<1> HIDE DEF t, q
<1>5. /\ outst[t] # None /\ outst[t].addr = a
      /\ ~Granted(a, t) /\ ~Left(a, t)
  BY <1>3, <1>4 DEF AssertInv, PairInv, AskInv
<1>6. l2[t][a].st = "I"
  BY <1>3, <1>5 DEF AssertInv, ThreadInv, RequestInv
<1>7. t \notin EntryOf(a).sharers
  BY <1>3, <1>5, <1>6 DEF AssertInv, PairInv, HoldInv
<1> QED BY <1>3, <1>5, <1>7 DEF t

\* The assertions on the requests that are served hold, except that an entry
\* to replace has to be found.
LEMMA ServeSafe ==
  ASSUME TypeOK, CohInv, AssertInv, NEW h \in Tiles, ServeStep(h), err = {}
  PROVE  \/ err' = {}
         \/ DirReplace(h) /\ Candidates(h) = {} /\ err' = {"replacement_candidate"}
<1> DEFINE r == Head(queue[work[h].addr])
<1>1. PICK types : Serving(h, work[h].addr, r, types)
  BY DEF ServeStep, DirAllocateFree, DirReplace, DirServeExReq, DirServeShReq,
         DirServeNullify
<1>2. PICK a \in Addrs : a = work[h].addr
  BY <1>1, ServedLine
<1>3. /\ work[h] # None /\ work[h].buf \in Values \cup {None}
      /\ Home[a] = h /\ queue[a] # <<>> /\ r = Head(queue[a])
      /\ r.tile \in Tiles /\ work[h].addr = a
  BY <1>1, <1>2, ServedLine
<1>4. /\ work[h].buf # None => EntryOf(a).st # "M"
      /\ work[h].buf # None => EntryOf(a).st = "U" \/ r.type = "SH_REQ"
      /\ r.type = "NULLIFY_REQ" => EntryOf(a).st = "U"
  BY <1>3 DEF AssertInv, ServeInv, CohInv, DataInv, WorkInv
<1>5. EntryOf(a) \in Entry /\ EntryOf(a).hw \subseteq EntryOf(a).sharers
  BY HwSharers
<1>6. EntryOf(a).st = "U" => EntryOf(a).sharers = {} /\ CanAddSharer(EntryOf(a))
  <2> SUFFICES ASSUME EntryOf(a).st = "U"
               PROVE  EntryOf(a).sharers = {} /\ CanAddSharer(EntryOf(a))
    OBVIOUS
  <2>1. EntryOf(a).sharers = {}
    BY DEF CohInv, DirInv, EntryInv
  <2>2. EntryOf(a).hw = {}
    BY <1>5, <2>1
  <2>3. Cardinality(EntryOf(a).hw) = 0
    BY <2>2, FS_EmptySet
  <2>4. 0 < MaxHwSharers
    BY MSIAssumption DEF MSIAssumption
  <2> QED BY <2>1, <2>3, <2>4 DEF CanAddSharer
<1>7. r.type \in {"EX_REQ", "SH_REQ"} => r.tile \notin EntryOf(a).sharers
  BY <1>3, FrontWaits
<1>8. ASSUME DirAllocateFree(h) PROVE err' = {}
  BY <1>8 DEF DirAllocateFree
<1>9. ASSUME DirReplace(h)
      PROVE  err' = {} \/ (Candidates(h) = {} /\ err' = {"replacement_candidate"})
  <2>1. CASE Candidates(h) = {}
    BY <1>9, <2>1 DEF DirReplace, Check, Failure
  <2>2. CASE Candidates(h) # {}
    <3>1. PICK b \in Candidates(h) : Check(Failure("nullify_alone", queue[b] = <<>>))
      BY <1>9, <2>2 DEF DirReplace
    <3>2. queue[b] = <<>>
      BY DEF Candidates
    <3> QED BY <3>1, <3>2 DEF Check, Failure
  <2> QED BY <2>1, <2>2
<1>10. ASSUME DirServeExReq(h) PROVE err' = {}
  <2>1. r.type = "EX_REQ"
    BY <1>10 DEF DirServeExReq, Serving
  <2>2. \/ /\ EntryOf(a).st \in {"M", "S"}
           /\ Check(Failure("cached_data_buf", work[h].buf = None))
        \/ /\ EntryOf(a).st = "U"
           /\ Check(Failure("addSharer", /\ CanAddSharer(EntryOf(a))
                                         /\ r.tile \notin EntryOf(a).sharers))
    BY <1>2, <1>10 DEF DirServeExReq, Await
  <2> HIDE DEF r
  <2> QED BY <1>4, <1>6, <1>7, <2>1, <2>2 DEF Check, Failure
<1>11. ASSUME DirServeShReq(h) PROVE err' = {}
  <2>1. r.type = "SH_REQ"
    BY <1>11 DEF DirServeShReq, Serving
  <2>2. \/ /\ EntryOf(a).st = "M"
           /\ Check(Failure("cached_data_buf", work[h].buf = None))
        \/ Check(Failure("addSharer", r.tile \notin EntryOf(a).sharers))
        \/ /\ EntryOf(a).st = "U" \/ CanAddSharer(EntryOf(a))
           /\ Check(Failure("addSharer", /\ CanAddSharer(EntryOf(a))
                                         /\ r.tile \notin EntryOf(a).sharers))
    BY <1>2, <1>11 DEF DirServeShReq, Await
  <2> HIDE DEF r
  <2> QED BY <1>4, <1>6, <1>7, <2>1, <2>2 DEF Check, Failure
<1>12. ASSUME DirServeNullify(h) PROVE err' = {}
  <2>1. r.type = "NULLIFY_REQ"
    BY <1>12 DEF DirServeNullify, Serving
  <2>2. Check(Failure("nullify_entry", HasEntry(a) /\ EntryOf(a).st = "U")
              \cup Failure("invalidateDirectoryEntry", repl[a] # None))
    BY <1>2, <1>12 DEF DirServeNullify
  <2>3. repl[a] # None
    <3>1. queue[a] \in Seq(ShmemReq)
      BY DEF TypeOK, DirectoryOK
    <3>2. Head(queue[a]) = queue[a][1] /\ 1 \in 1..Len(queue[a])
      BY <1>3, <3>1, HeadTailProperties, LenProperties, EmptySeq
    <3> QED BY <1>3, <2>1, <3>2 DEF AssertInv, QueueInv
  <2>4. HasEntry(a)
    BY <2>3 DEF HasEntry, CohInv, DirInv, OneEntryPerLine
  <2> HIDE DEF r
  <2> QED BY <1>4, <2>1, <2>2, <2>3, <2>4 DEF Check, Failure
<1> QED BY <1>8, <1>9, <1>10, <1>11, <1>12 DEF ServeStep

-----------------------------------------------------------------------------
(* Entries to replace *)

\* A directory set has an entry for every request that can be in progress: a
\* tile has one request at a time (see README).
EnoughWays == IsFiniteSet(Tiles) /\ Cardinality(Tiles) <= DirWays

\* Of the elements of a set, one has the least number.
LEMMA LeastElement ==
  ASSUME NEW S, S # {}, NEW f \in [S -> Nat]
  PROVE  \E x \in S : \A y \in S : f[x] <= f[y]
<1> DEFINE N == {f[x] : x \in S}
<1>1. N \in SUBSET Nat /\ N # {}
  OBVIOUS
<1> HIDE DEF N
<1>2. PICK m \in N : \A n \in N : <<n, m>> \notin OpToRel(<, Nat)
  BY <1>1, NatLessThanWellFounded, WFMin, Zenon
<1>3. \A n \in N : m <= n
  <2>1. TAKE n \in N
  <2>2. ~(n < m) /\ n \in Nat /\ m \in Nat
    BY <1>1, <1>2, <2>1, Zenon DEF OpToRel
  <2> QED BY <2>2
<1>4. PICK x \in S : f[x] = m
  BY DEF N
<1>5. \A y \in S : f[y] \in N
  BY DEF N
<1> QED BY <1>3, <1>4, <1>5

\* The line of an entry in a way that has requests: the first one is of a
\* tile that waits for the line, for a line that is being nullified is in no
\* way.
LEMMA WayWaits ==
  ASSUME TypeOK, CohInv, AssertInv, NEW b \in Addrs, way[b] # None, queue[b] # <<>>
  PROVE  Head(queue[b]).type \in {"EX_REQ", "SH_REQ"}
<1>1. queue[b] \in Seq(ShmemReq)
  BY DEF TypeOK, DirectoryOK
<1>2. Head(queue[b]) = queue[b][1] /\ 1 \in 1..Len(queue[b]) /\ Head(queue[b]) \in ShmemReq
  BY <1>1, HeadTailProperties, LenProperties, EmptySeq
<1>3. repl[b] = None
  BY DEF CohInv, DirInv, OneEntryPerLine
<1>4. Head(queue[b]).type # "NULLIFY_REQ"
  BY <1>2, <1>3 DEF AssertInv, QueueInv
<1> QED BY <1>2, <1>4 DEF ShmemReq

\* processDirectoryEntryAllocationReq finds an entry to replace: were every
\* way of the full set busy, there would be a tile waiting for each of the
\* lines in the ways, and one more for the line that needs a way.
LEMMA CandidateFound ==
  ASSUME EnoughWays, TypeOK, CohInv, AssertInv, NEW h \in Tiles, DirReplace(h)
  PROVE  Candidates(h) # {}
<1> DEFINE r == Head(queue[work[h].addr])
<1>1. Serving(h, work[h].addr, r, {"EX_REQ", "SH_REQ"})
  BY DEF DirReplace
<1>2. PICK a \in Addrs : a = work[h].addr
  BY <1>1, ServedLine
<1>3. /\ Home[a] = h /\ queue[a] # <<>> /\ ~HasEntry(a) /\ ~FreeWay(h)
      /\ Head(queue[a]).type \in {"EX_REQ", "SH_REQ"}
  <2>1. ~HasEntry(a) /\ ~FreeWay(h)
    BY <1>2 DEF DirReplace
  <2>2. /\ Home[a] = h /\ queue[a] # <<>>
        /\ r = Head(queue[a]) /\ r.type \in {"EX_REQ", "SH_REQ"}
    BY <1>1, <1>2, ServedLine
  <2> QED BY <2>1, <2>2
<1> DEFINE W == {b \in Addrs : Home[b] = h /\ way[b] # None}
           idle == {b \in Addrs : Home[b] = h /\ way[b] # None /\ queue[b] = <<>>}
           tileOf == [b \in W \cup {a} |-> Head(queue[b]).tile]
<1>4. /\ IsFiniteSet(W) /\ Cardinality(W) \in Nat /\ ~(Cardinality(W) < DirWays)
      /\ DirWays \in Nat /\ Cardinality(Tiles) \in Nat
      /\ Cardinality(Tiles) <= DirWays /\ IsFiniteSet(Tiles)
  <2>1. IsFiniteSet(W) /\ Cardinality(W) \in Nat
    BY MSIAssumption, FS_Subset, FS_CardinalityType DEF MSIAssumption
  <2>2. ~(Cardinality(W) < DirWays)
    BY <1>3 DEF FreeWay
  <2> QED BY <2>1, <2>2, MSIAssumption, FS_CardinalityType DEF MSIAssumption, EnoughWays
<1>5. a \notin W
  BY <1>3 DEF HasEntry
<1>6. idle # {}
  <2> SUFFICES ASSUME idle = {} PROVE FALSE
    OBVIOUS
  <2>1. ASSUME NEW b \in W \cup {a}
        PROVE  /\ tileOf[b] \in Tiles /\ outst[tileOf[b]].addr = b
    <3>1. b \in Addrs /\ queue[b] # <<>> /\ Head(queue[b]).type \in {"EX_REQ", "SH_REQ"}
      <4>1. CASE b = a
        BY <1>3, <4>1
      <4>2. CASE b \in W
        <5>1. b \in Addrs /\ way[b] # None /\ queue[b] # <<>>
          BY <4>2
        <5> QED BY <5>1, WayWaits
      <4> QED BY <4>1, <4>2
    <3>2. tileOf[b] = Head(queue[b]).tile
      OBVIOUS
    <3> QED BY <3>1, <3>2, FrontWaits
  <2>2. tileOf \in [W \cup {a} -> Tiles]
    BY <2>1
  <2> HIDE DEF W, tileOf
  <2>3. IsFiniteSet(W \cup {a}) /\ Cardinality(W \cup {a}) = Cardinality(W) + 1
    BY <1>4, <1>5, FS_AddElement
  <2>4. Cardinality(Tiles) < Cardinality(W \cup {a})
    BY <1>4, <2>3
  <2>5. \E x, y \in W \cup {a} : x # y /\ tileOf[x] = tileOf[y]
    BY <1>4, <2>2, <2>3, <2>4, FS_PigeonHole
  <2> QED BY <2>1, <2>5
<1> DEFINE size == [b \in idle |-> Cardinality(way[b].sharers)]
<1>7. size \in [idle -> Nat]
  <2> SUFFICES ASSUME NEW b \in idle PROVE Cardinality(way[b].sharers) \in Nat
    OBVIOUS
  <2>1. way[b] \in Entry
    BY DEF TypeOK, DirectoryOK
  <2>2. way[b].sharers \in SUBSET Tiles
    BY <2>1 DEF Entry
  <2> QED BY <1>4, <2>2, FS_Subset, FS_CardinalityType
<1> HIDE DEF idle
<1>8. PICK x \in idle : \A y \in idle : size[x] <= size[y]
  <2> HIDE DEF size
  <2> QED BY <1>6, <1>7, LeastElement
<1>9. x \in Candidates(h)
  BY <1>8 DEF Candidates, idle
<1> QED BY <1>9

-----------------------------------------------------------------------------
(* The theorems *)

\* The initial state satisfies the invariant: nothing is under way.
LEMMA InitAssert == Init => AssertInv
<1> SUFFICES ASSUME Init PROVE AssertInv
  OBVIOUS
<1>0. \A a \in Addrs : Home[a] \in Tiles
  BY MSIAssumption DEF MSIAssumption
<1>1. \A x \in Tiles, y \in Tiles : chan[<<x, y>>] = <<>>
  BY DEF Init
<1>2. \A S : ~In(<<>>, S)
  BY InSingle
<1>3. \A R, S : ~After(<<>>, R, S) /\ ~After2(<<>>, R, S)
  BY OrderShort
<1>4. ASSUME NEW a \in Addrs, NEW u \in Tiles PROVE PairInv(a, u)
  <2>1. /\ Down(a, u) = <<>> /\ Up(a, u) = <<>> /\ queue[a] = <<>>
        /\ l2[u][a].st = "I" /\ EntryOf(a) = FreshEntry
    BY <1>0, <1>1 DEF Init, Down, Up, InvalidL2, EntryOf
  <2>2. DownInv(a, u) /\ UpInv(a, u)
    BY <1>2, <1>3, <2>1 DEF DownInv, UpInv
  <2>3. RecallInv(a, u)
    BY <1>2, <1>3, <2>1 DEF RecallInv, Recalled, WrittenBack
  <2>4. AskInv(a, u)
    BY <1>2, <1>3, <2>1 DEF AskInv, Requested, Queued, Granted, Left
  <2>5. HoldInv(a, u)
    BY <2>1 DEF HoldInv, FreshEntry
  <2> QED BY <2>2, <2>3, <2>4, <2>5 DEF PairInv
<1>5. ASSUME NEW u \in Tiles PROVE ThreadInv(u)
  <2>1. /\ outst[u] = None /\ app[u].pc = "idle" /\ appSem[u] = 0
        /\ chan[<<u, u>>] = <<>> /\ \A a \in Addrs : l2[u][a].st = "I"
    BY <1>1 DEF Init, InvalidL2
  <2>2. RequestInv(u)
    BY <1>2, <2>1 DEF RequestInv
  <2>3. \A a \in Addrs : LocInv(u, a)
    BY <2>1 DEF LocInv
  <2> QED BY <2>2, <2>3 DEF ThreadInv
<1>6. \A a \in Addrs : QueueInv(a)
  BY DEF Init, QueueInv
<1>7. \A h \in Tiles : ServeInv(h)
  BY DEF Init, ServeInv
<1> QED BY <1>4, <1>5, <1>6, <1>7 DEF AssertInv

\* Steps that change nothing.
LEMMA StutterAssert ==
  ASSUME AssertInv, UNCHANGED vars
  PROVE  AssertInv'
<1>1. /\ UNCHANGED <<l1, l2, app, appSem, outst>> /\ UNCHANGED chan
      /\ UNCHANGED <<queue, way, repl, work>>
  BY DEF vars, cacheVars, syncVars, dirVars
<1>2. \A a : EntryOf(a)' = EntryOf(a) /\ (Served(a)' <=> Served(a))
  BY <1>1 DEF EntryOf, Served
<1>3. \A a \in Addrs, u \in Tiles : SameLink(a, u)
  BY <1>1, SameChannelsSameLink
<1>4. ASSUME NEW a \in Addrs, NEW u \in Tiles PROVE PairInv(a, u)'
  <2>1. PairInv(a, u) /\ SameLink(a, u) /\ l2'[u][a].st = l2[u][a].st
    BY <1>1, <1>3 DEF AssertInv
  <2> QED BY <1>1, <1>2, <2>1, PairFrame
<1>5. ASSUME NEW u \in Tiles PROVE ThreadInv(u)'
  <2>1. chan'[<<u, u>>] = chan[<<u, u>>]
    BY <1>1
  <2>2. Keeps(chan[<<u, u>>], chan'[<<u, u>>], L1Msg)
    BY <2>1, KeepsAll
  <2> QED BY <1>1, <2>2, ThreadFrame DEF AssertInv
<1>6. \A a \in Addrs : QueueInv(a)'
  BY <1>1 DEF AssertInv, QueueInv
<1>7. ASSUME NEW h \in Tiles PROVE ServeInv(h)'
  BY <1>1, <1>2, ServeFrame DEF AssertInv
<1> QED BY <1>4, <1>5, <1>6, <1>7 DEF AssertInv

\* What holds in every state: coherence and, as long as every replacement has
\* found its candidate, the invariant; no other assertion has failed.
SafeInv ==
  /\ CoherenceInv /\ (err = {} => AssertInv)
  /\ err \subseteq {"replacement_candidate"}

\* The only assertion that a step can fail is that a full directory set has
\* an entry to replace.
LEMMA StepSafe ==
  ASSUME SplitLines, CoherenceInv, AssertInv, Next
  PROVE  \/ err' = {}
         \/ /\ err' = {"replacement_candidate"}
            /\ \E h \in Tiles : DirReplace(h) /\ Candidates(h) = {}
<1>1. err = {} /\ TypeOK /\ HandoverInv /\ CohInv
  BY DEF Next, CoherenceInv
<1>2. PICK t \in Tiles :
        \/ AppStep(t) \/ L2RecvFromL1(t) \/ SimResume(t) \/ ServeStep(t)
        \/ \E s \in Tiles : RecvStep(s, t)
  BY DEF Next
<1>3. CASE AppStep(t)
  BY <1>1, <1>3, AppSafe
<1>4. CASE L2RecvFromL1(t) \/ SimResume(t)
  BY <1>1, <1>4, L2Safe
<1>5. CASE ServeStep(t)
  BY <1>1, <1>5, ServeSafe
<1>6. ASSUME NEW s \in Tiles, RecvStep(s, t) PROVE err' = {}
  <2>1. CASE \/ L2RecvReply(s, t) \/ L2RecvInvReq(s, t)
             \/ L2RecvFlushReq(s, t) \/ L2RecvWbReq(s, t)
    BY <1>1, <2>1, L2Safe
  <2>2. CASE DirRecvReq(s, t)
    BY <1>1, <2>2 DEF DirRecvReq
  <2>3. CASE DirRecvInvRep(s, t) \/ DirRecvFlushRep(s, t) \/ DirRecvWbRep(s, t)
    BY <1>1, <2>3, RepliesSafe
  <2> QED BY <1>6, <2>1, <2>2, <2>3 DEF RecvStep
<1> QED BY <1>2, <1>3, <1>4, <1>5, <1>6

\* The inductive step.
LEMMA SafeStep ==
  ASSUME SplitLines, SafeInv, [Next]_vars
  PROVE  /\ SafeInv'
         /\ EnoughWays /\ err = {} => err' = {}
<1>1. CoherenceInv'
  BY CoherenceStep DEF SafeInv
<1>2. CASE UNCHANGED vars
  <2>1. err' = err
    BY <1>2 DEF vars
  <2> QED BY <1>1, <1>2, <2>1, StutterAssert DEF SafeInv
<1>3. CASE Next
  <2>1. err = {} /\ TypeOK /\ HandoverInv /\ CohInv /\ AssertInv
    BY <1>3 DEF Next, SafeInv, CoherenceInv
  <2>2. \/ err' = {}
        \/ /\ err' = {"replacement_candidate"}
           /\ \E h \in Tiles : DirReplace(h) /\ Candidates(h) = {}
    BY <1>3, <2>1, StepSafe DEF SafeInv
  <2>3. ASSUME EnoughWays PROVE err' = {}
    BY <2>1, <2>2, <2>3, CandidateFound
  <2>4. ASSUME err' = {} PROVE AssertInv'
    <3>1. CohInv'
      BY <1>1, <2>4 DEF CoherenceInv
    <3>2. PICK t \in Tiles :
            \/ AppStep(t) \/ L2RecvFromL1(t) \/ SimResume(t) \/ ServeStep(t)
            \/ \E s \in Tiles : RecvStep(s, t)
      BY <1>3 DEF Next
    <3>3. CASE AppStep(t)
      BY <2>1, <3>3, AppStepAssert
    <3>4. CASE L2RecvFromL1(t) \/ SimResume(t)
      BY <2>1, <2>4, <3>1, <3>4, L2StepAssert
    <3>5. CASE ServeStep(t)
      BY <2>1, <2>4, <3>1, <3>5, DirStepAssert
    <3>6. ASSUME NEW s \in Tiles, RecvStep(s, t) PROVE AssertInv'
      <4>1. CASE \/ L2RecvReply(s, t) \/ L2RecvInvReq(s, t)
                 \/ L2RecvFlushReq(s, t) \/ L2RecvWbReq(s, t)
        BY <2>1, <2>4, <3>1, <4>1, L2StepAssert
      <4>2. CASE \/ DirRecvReq(s, t) \/ DirRecvInvRep(s, t)
                 \/ DirRecvFlushRep(s, t) \/ DirRecvWbRep(s, t)
        BY <2>1, <2>4, <3>1, <4>2, DirStepAssert
      <4> QED BY <3>6, <4>1, <4>2 DEF RecvStep
    <3> QED BY <3>2, <3>3, <3>4, <3>5, <3>6
  <2> QED BY <1>1, <2>2, <2>3, <2>4 DEF SafeInv
<1> QED BY <1>2, <1>3

\* For every number of ways, whatever requests and replies cross on the way:
\* the only assertion of the three controllers that can fail is the one of
\* processDirectoryEntryAllocationReq that there is an entry to replace.
THEOREM OnlyReplacementFails ==
  ASSUME SplitLines
  PROVE  Spec => [](err \subseteq {"replacement_candidate"})
<1>1. Init => SafeInv
  BY InitType, InitHandover, InitCoh, InitAssert DEF Init, SafeInv, CoherenceInv
<1>2. SafeInv /\ [Next]_vars => SafeInv'
  BY SafeStep
<1>3. SafeInv => err \subseteq {"replacement_candidate"}
  BY DEF SafeInv
<1> QED BY <1>1, <1>2, <1>3, PTL DEF Spec

\* No assertion of the cache controllers and the directory controller fails,
\* for every instance whose directory sets have as many ways as there are
\* tiles, and whose lines are fetched or accessed as data but not both.
THEOREM AssertionsHold ==
  ASSUME SplitLines, EnoughWays
  PROVE  Spec => []NoAssertionFails
<1>1. Init => SafeInv /\ NoAssertionFails
  BY InitType, InitHandover, InitCoh, InitAssert
     DEF Init, SafeInv, CoherenceInv, NoAssertionFails
<1>2. SafeInv /\ NoAssertionFails /\ [Next]_vars => (SafeInv /\ NoAssertionFails)'
  BY SafeStep DEF NoAssertionFails
<1> QED BY <1>1, <1>2, PTL DEF Spec

\* In these instances the directory knows the holders of every line, without
\* a condition on the run ...
COROLLARY HoldersAlwaysKnown ==
  ASSUME SplitLines, EnoughWays
  PROVE  Spec => []DirectoryKnowsHolders
BY AssertionsHold, HoldersAreKnown, PTL

\* ... no write is ever lost ...
COROLLARY WritesNeverLost ==
  ASSUME SplitLines, EnoughWays
  PROVE  Spec => []NoLostWrite
BY AssertionsHold, WritesAreNotLost, PTL

\* ... atomic instructions are atomic ...
COROLLARY AlwaysAtomic ==
  ASSUME SplitLines, EnoughWays
  PROVE  Spec => AtomicInstructions
BY AssertionsHold, AtomicityHolds, PTL

\* ... and the protocol implements the coherent memory.
COROLLARY AlwaysCoherent ==
  ASSUME SplitLines, EnoughWays
  PROVE  Spec => ImplementsCoherentMemory
BY AssertionsHold, Refinement, PTL
=============================================================================
