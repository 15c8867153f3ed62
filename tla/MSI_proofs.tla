----------------------------- MODULE MSI_proofs -----------------------------
(***************************************************************************)
(* Proofs about MSI for every number of tiles, lines and ways and every    *)
(* directory scheme.                                                       *)
(***************************************************************************)
EXTENDS MSI, SequenceTheorems, TLAPS

Outgoing == [Tiles -> Seq(ShmemMsg)]

\* What handlers send has the type of a family of message sequences.
LEMMA OutgoingType ==
  /\ Nothing \in Outgoing
  /\ \A t, m : m \in ShmemMsg => To(t, <<m>>) \in Outgoing
  /\ \A t, m, n : m \in ShmemMsg /\ n \in ShmemMsg => To(t, <<m, n>>) \in Outgoing
  /\ \A S, m : m \in ShmemMsg => ToAll(S, m) \in Outgoing
BY DEF Nothing, To, ToAll, Outgoing

\* sendMsg and broadcastMsg keep the type of the channels.
LEMMA SendType ==
  ASSUME NetworkOK, NEW t, NEW out \in Outgoing, Send(t, out)
  PROVE  NetworkOK'
<1>1. \A p \in Tiles \X Tiles : chan[p] \o out[p[2]] \in Seq(ShmemMsg)
  BY ConcatProperties DEF NetworkOK, Outgoing
<1> QED BY <1>1 DEF Send, NetworkOK

\* So does taking a packet and answering it.
LEMMA DeliverType ==
  ASSUME NetworkOK, NEW s \in Tiles, NEW t \in Tiles, chan[<<s, t>>] # <<>>,
         NEW out \in Outgoing, Deliver(s, t, out)
  PROVE  NetworkOK'
<1> DEFINE rest(p) == IF p = <<s, t>> THEN Tail(chan[p]) ELSE chan[p]
           new(p) == IF p[1] = t THEN out[p[2]] ELSE <<>>
<1>0. Tail(chan[<<s, t>>]) \in Seq(ShmemMsg)
  BY HeadTailProperties DEF NetworkOK
<1>1. \A p \in Tiles \X Tiles : rest(p) \in Seq(ShmemMsg)
  BY <1>0 DEF NetworkOK
<1>2. \A p \in Tiles \X Tiles : new(p) \in Seq(ShmemMsg)
  BY DEF Outgoing
<1>3. \A p \in Tiles \X Tiles : rest(p) \o new(p) \in Seq(ShmemMsg)
  BY <1>1, <1>2, ConcatProperties
<1> QED BY <1>3 DEF Deliver, NetworkOK

\* The packet a simulation thread takes is a message.
LEMMA ReceivesType ==
  ASSUME NetworkOK, NEW s \in Tiles, NEW t \in Tiles, NEW m, Receives(s, t, m)
  PROVE  /\ chan[<<s, t>>] # <<>> /\ m = Head(chan[<<s, t>>])
         /\ m \in ShmemMsg /\ m.addr \in Addrs
BY DEF Receives, NetworkOK, ShmemMsg

\* The initial state is well typed.
LEMMA InitType == Init => TypeOK
BY MSIAssumption DEF Init, TypeOK, CachesOK, ThreadsOK, NetworkOK, DirectoryOK,
   InvalidL1, InvalidL2, L1Line, L2Line, CState, AppState, MSIAssumption

-----------------------------------------------------------------------------
(* Caches *)

L1Caches == [Comps -> [Addrs -> L1Line]]
L2Cache == [Addrs -> L2Line]

\* The invalid lines are lines.
LEMMA InvalidLines == InvalidL1 \in L1Line /\ InvalidL2 \in L2Line
BY DEF InvalidL1, InvalidL2, L1Line, L2Line, CState

\* A victim is a line or nothing.
LEMMA VictimsType ==
  ASSUME NEW cache, NEW ways
  PROVE  Victims(cache, ways) \subseteq Addrs \cup {None}
BY DEF Victims

\* The accesses of an application are accesses.
LEMMA AccessesType == Accesses \subseteq Access
BY MSIAssumption DEF MSIAssumption, Accesses, Access, Comps

\* accessCache keeps the caches well typed.
LEMMA AccessCacheType ==
  ASSUME CachesOK, NEW t \in Tiles, NEW r \in Access,
         NEW L1 \in L1Caches, NEW L2 \in L2Cache, accessCache(t, r, L1, L2)
  PROVE  CachesOK'
<1>1. CASE r.op = "WRITE"
  <2>1. r.comp \in Comps /\ r.addr \in Addrs /\ r.val \in Values
    BY <1>1 DEF Access
  <2>2. [L1 EXCEPT ![r.comp][r.addr].val = r.val] \in L1Caches
    BY <2>1 DEF L1Caches, L1Line
  <2>3. [L2[r.addr] EXCEPT !.val = r.val] \in L2Line
    BY <2>1 DEF L2Cache, L2Line
  <2>4. [L2 EXCEPT ![r.addr].val = r.val] \in L2Cache
    BY <2>1, <2>3 DEF L2Cache
  <2> QED BY <1>1, <2>1, <2>2, <2>4 DEF accessCache, CachesOK, L1Caches, L2Cache
<1>2. CASE r.op # "WRITE"
  BY <1>2 DEF accessCache, CachesOK, L1Caches, L2Cache
<1> QED BY <1>1, <1>2

\* insertCacheLineInL1 keeps them well typed too.
LEMMA L1AfterType ==
  ASSUME NEW L1 \in L1Caches, NEW c \in Comps, NEW a \in Addrs,
         NEW line \in L2Line, NEW victim
  PROVE  L1After(L1, c, a, line, victim) \in L1Caches
BY InvalidLines DEF L1After, Insert, L1Caches, L1Line, L2Line, CState

\* Forgetting the L1 location of a line leaves an L2 cache.
LEMMA ClearCachedLocType ==
  ASSUME NEW L2 \in L2Cache, NEW victim
  PROVE  ClearCachedLoc(L2, victim) \in L2Cache
BY DEF ClearCachedLoc, L2Cache, L2Line

\* Invalidating a line in L1 leaves a pair of L1 caches.
LEMMA InvalidateInL1Type ==
  ASSUME CachesOK, NEW t \in Tiles, NEW a \in Addrs
  PROVE  InvalidateInL1(t, a) \in L1Caches
<1>1. l1[t] \in L1Caches /\ l2[t][a].loc \in Comps \cup {None}
  BY DEF CachesOK, L1Caches, L2Line
<1>2. \A c \in Comps : [l1[t] EXCEPT ![c][a] = InvalidL1] \in L1Caches
  BY <1>1, InvalidLines DEF L1Caches
<1> QED BY <1>1, <1>2 DEF InvalidateInL1

\* Return keeps the threads well typed.
LEMMA ReturnType ==
  ASSUME ThreadsOK, NEW t \in Tiles, NEW r \in Access, Return(t, r),
         UNCHANGED <<sim, outst>>, appSem' \in [Tiles -> Nat],
         simSem' \in [Tiles -> Nat]
  PROVE  ThreadsOK'
<1>1. /\ [pc |-> "locked", acc |-> r] \in AppState
      /\ [pc |-> "idle", acc |-> None] \in AppState
  BY DEF AppState
<1>2. app' \in [Tiles -> AppState] /\ lock' \in [Tiles -> {"free", "app", "sim"}]
  BY <1>1 DEF Return, ThreadsOK
<1> QED BY <1>2 DEF ThreadsOK

-----------------------------------------------------------------------------
(* Every action keeps the types *)

\* The steps of an application thread.
LEMMA AppStepType ==
  ASSUME TypeOK, NEW t \in Tiles, AppStep(t)
  PROVE  TypeOK'
<1> USE DEF TypeOK
<1>t. /\ l1[t] \in L1Caches /\ l2[t] \in L2Cache
      /\ appSem[t] \in Nat /\ simSem[t] \in Nat
  BY DEF CachesOK, ThreadsOK, L1Caches, L2Cache
<1>1. ASSUME NEW r \in Accesses, AppL1Hit(t, r) PROVE TypeOK'
  <2>1. r \in Access
    BY AccessesType
  <2>2. CachesOK'
    BY <1>1, <1>t, <2>1, AccessCacheType DEF AppL1Hit
  <2>3. ThreadsOK'
    BY <1>1, <2>1, ReturnType DEF AppL1Hit, ThreadsOK
  <2>4. NetworkOK' /\ DirectoryOK'
    BY <1>1 DEF AppL1Hit, NetworkOK, DirectoryOK, dirVars
  <2>5. err' \subseteq Assertions
    BY <1>1 DEF AppL1Hit, Check, Failure, Assertions
  <2> QED BY <2>2, <2>3, <2>4, <2>5
<1>2. ASSUME NEW r \in Accesses, AppL2Hit(t, r) PROVE TypeOK'
  <2>1. r \in Access /\ r.comp \in Comps /\ r.addr \in Addrs
    BY AccessesType DEF Access
  <2> DEFINE inv == [l1[t] EXCEPT ![r.comp][r.addr] = InvalidL1]
  <2>2. PICK victim \in Victims(inv[r.comp], L1Ways) :
          /\ accessCache(t, r,
               L1After(inv, r.comp, r.addr, l2[t][r.addr], victim),
               [ClearCachedLoc(l2[t], victim) EXCEPT ![r.addr].loc = r.comp])
          /\ Check(Failure("clearCachedLoc",
                           victim # None => l2[t][victim].loc = r.comp)
                   \cup Failure("setCachedLoc", l2[t][r.addr].loc = None))
    BY <1>2 DEF AppL2Hit
  <2>3. inv \in L1Caches
    BY <1>t, <2>1, InvalidLines DEF L1Caches
  <2>4. L1After(inv, r.comp, r.addr, l2[t][r.addr], victim) \in L1Caches
    BY <1>t, <2>1, <2>3, L1AfterType DEF L2Cache
  <2>5. ClearCachedLoc(l2[t], victim) \in L2Cache
    BY <1>t, ClearCachedLocType
  <2>6. [ClearCachedLoc(l2[t], victim) EXCEPT ![r.addr].loc = r.comp] \in L2Cache
    BY <2>1, <2>5 DEF L2Cache, L2Line
  <2>7. CachesOK'
    BY <2>1, <2>2, <2>4, <2>6, AccessCacheType
  <2>8. ThreadsOK'
    BY <1>2, <2>1, ReturnType DEF AppL2Hit, ThreadsOK
  <2>9. NetworkOK' /\ DirectoryOK'
    BY <1>2 DEF AppL2Hit, NetworkOK, DirectoryOK, dirVars
  <2>10. err' \subseteq Assertions
    BY <2>2 DEF Check, Failure, Assertions
  <2> QED BY <2>7, <2>8, <2>9, <2>10
<1>3. ASSUME NEW r \in Accesses, AppMiss(t, r) PROVE TypeOK'
  <2>1. r \in Access /\ r.comp \in Comps /\ r.addr \in Addrs
    BY AccessesType DEF Access
  <2>2. CachesOK'
    BY <1>3, <2>1, InvalidLines DEF AppMiss, CachesOK
  <2>3. [pc |-> "wait", acc |-> r] \in AppState
    BY <2>1 DEF AppState
  <2>4. ThreadsOK'
    BY <1>3, <2>3 DEF AppMiss, ThreadsOK
  <2>5. Msg(ReqType(r.op), r.comp, r.addr, None) \in ShmemMsg
    BY <2>1 DEF Msg, ReqType, ShmemMsg, ControlMsg, MsgSource
  <2>6. NetworkOK'
    BY <1>3, <2>5, OutgoingType, SendType DEF AppMiss
  <2>7. DirectoryOK' /\ err' \subseteq Assertions
    BY <1>3 DEF AppMiss, DirectoryOK, dirVars
  <2> QED BY <2>2, <2>4, <2>6, <2>7
<1>4. ASSUME AppResume(t) PROVE TypeOK'
  <2>1. app[t].acc \in Access
    BY <1>4 DEF AppResume, ThreadsOK, AppState
  <2>2. CachesOK'
    BY <1>4, <1>t, <2>1, AccessCacheType DEF AppResume
  <2>3. appSem' \in [Tiles -> Nat] /\ simSem' \in [Tiles -> Nat]
    BY <1>4, <1>t DEF AppResume, ThreadsOK
  <2>4. ThreadsOK'
    BY <1>4, <2>1, <2>3, ReturnType DEF AppResume
  <2>5. NetworkOK' /\ DirectoryOK'
    BY <1>4 DEF AppResume, NetworkOK, DirectoryOK, dirVars
  <2>6. err' \subseteq Assertions
    BY <1>4 DEF AppResume, Check, Failure, Assertions
  <2> QED BY <2>2, <2>4, <2>5, <2>6
<1>5. ASSUME NEW v \in Values, AppUnlock(t, v) PROVE TypeOK'
  <2> DEFINE r == [app[t].acc EXCEPT !.op = "WRITE", !.sig = "NONE", !.val = v]
  <2>1. app[t].acc \in Access
    BY <1>5 DEF AppUnlock, ThreadsOK, AppState
  <2>2. r \in Access
    BY <2>1 DEF Access
  <2>3. CachesOK'
    BY <1>5, <1>t, <2>2, AccessCacheType DEF AppUnlock
  <2>4. ThreadsOK'
    BY <1>5, <2>2, ReturnType DEF AppUnlock, ThreadsOK
  <2>5. NetworkOK' /\ DirectoryOK'
    BY <1>5 DEF AppUnlock, NetworkOK, DirectoryOK, dirVars
  <2>6. err' \subseteq Assertions
    BY <1>5 DEF AppUnlock, Check, Failure, Assertions
  <2> QED BY <2>3, <2>4, <2>5, <2>6
<1> QED BY <1>1, <1>2, <1>3, <1>4, <1>5 DEF AppStep

\* The handlers of the L2 cache, and the simulation thread going on.
LEMMA L2StepType ==
  ASSUME TypeOK, NEW s \in Tiles, NEW t \in Tiles,
         \/ L2RecvFromL1(t) \/ SimResume(t) \/ L2RecvReply(s, t)
         \/ L2RecvInvReq(s, t) \/ L2RecvFlushReq(s, t) \/ L2RecvWbReq(s, t)
  PROVE  TypeOK'
<1> USE DEF TypeOK
<1> DEFINE m == Head(chan[<<s, t>>])
           a == m.addr
<1>t. /\ l1[t] \in L1Caches /\ l2[t] \in L2Cache
      /\ appSem[t] \in Nat /\ simSem[t] \in Nat
  BY DEF CachesOK, ThreadsOK, L1Caches, L2Cache
<1>c. /\ \A L1 \in L1Caches : [l1 EXCEPT ![t] = L1] \in [Tiles -> L1Caches]
      /\ \A L2 \in L2Cache : [l2 EXCEPT ![t] = L2] \in [Tiles -> L2Cache]
      /\ l1 \in [Tiles -> L1Caches] /\ l2 \in [Tiles -> L2Cache]
  BY DEF CachesOK, L1Caches, L2Cache
<1>i. \A b \in Addrs : [l2 EXCEPT ![t][b] = InvalidL2] \in [Tiles -> L2Cache]
  BY <1>c, InvalidLines DEF L2Cache
<1>1. ASSUME L2RecvFromL1(t) PROVE TypeOK'
  <2> DEFINE n == Head(chan[<<t, t>>])
             b == n.addr
             req == Msg(n.type, "L2", b, None)
             upgrade == n.type = "EX_REQ" /\ l2[t][b].st = "S"
  <2>1. /\ Receives(t, t, n) /\ n.src \in Comps
        /\ n.type \in {"EX_REQ", "SH_REQ"}
    BY <1>1 DEF L2RecvFromL1
  <2>2. n \in ShmemMsg /\ b \in Addrs /\ chan[<<t, t>>] # <<>>
    BY <2>1, ReceivesType
  <2>3. CachesOK'
    BY <1>1, <2>2, <1>c, <1>i DEF L2RecvFromL1, CachesOK, L1Caches, L2Cache
  <2>4. [addr |-> b, comp |-> n.src] \in [addr : Addrs, comp : Comps]
    BY <2>1, <2>2
  <2>5. ThreadsOK'
    BY <1>1, <2>4 DEF L2RecvFromL1, ThreadsOK
  <2>6. req \in ShmemMsg /\ Msg("INV_REP", "L2", b, None) \in ShmemMsg
    BY <2>1, <2>2 DEF Msg, ShmemMsg, ControlMsg, MsgSource
  <2>7. /\ To(Home[b], <<Msg("INV_REP", "L2", b, None), req>>) \in Outgoing
        /\ To(Home[b], <<req>>) \in Outgoing
    BY <2>6, OutgoingType
  <2>8. To(Home[b], IF upgrade THEN <<Msg("INV_REP", "L2", b, None), req>>
                               ELSE <<req>>) \in Outgoing
    BY <2>7
  <2>9. NetworkOK'
    BY <1>1, <2>2, <2>8, DeliverType DEF L2RecvFromL1
  <2>10. DirectoryOK' /\ err' \subseteq Assertions
    BY <1>1 DEF L2RecvFromL1, DirectoryOK, dirVars, Check, Failure, Assertions
  <2> QED BY <2>3, <2>5, <2>9, <2>10
<1>2. ASSUME SimResume(t) PROVE TypeOK'
  BY <1>2, <1>t DEF SimResume, CachesOK, ThreadsOK, NetworkOK, DirectoryOK,
     cacheVars, dirVars
<1>3. ASSUME L2RecvReply(s, t) PROVE TypeOK'
  <2> DEFINE c == outst[t].comp
             new == [st |-> IF m.type = "EX_REP" THEN "M" ELSE "S",
                     loc |-> c, val |-> m.val]
  <2>1. Receives(s, t, m) /\ m.type \in {"EX_REP", "SH_REP"}
    BY <1>3 DEF L2RecvReply
  <2>2. m \in ShmemMsg /\ a \in Addrs /\ chan[<<s, t>>] # <<>>
    BY <2>1, ReceivesType
  <2>3. CASE outst[t] = None \/ outst[t].addr # a
    BY <1>3, <2>3 DEF L2RecvReply, CachesOK, ThreadsOK, NetworkOK, DirectoryOK,
       cacheVars, syncVars, dirVars, Check, Failure, Assertions
  <2>4. CASE ~(outst[t] = None \/ outst[t].addr # a)
    <3>1. /\ InsertInHierarchy(s, t, a, c, new)
          /\ outst' = [outst EXCEPT ![t] = None]
          /\ appSem' = [appSem EXCEPT ![t] = @ + 1]
          /\ sim' = [sim EXCEPT ![t] = "waitApp"]
          /\ UNCHANGED <<latest, app, lock, simSem, dirVars>>
      BY <1>3, <2>4 DEF L2RecvReply
    <3>2. c \in Comps
      BY <2>4 DEF ThreadsOK
    <3>3. new \in L2Line
      BY <2>1, <2>2, <3>2 DEF L2Line, ShmemMsg, DataMsg, ControlMsg
    <3> HIDE DEF c, new
    <3> DEFINE L1(e) == IF e = None THEN l1[t] ELSE InvalidateInL1(t, e)
               L2(e) == Insert(l2[t], a, new, e, InvalidL2)
               out(e) == IF e = None THEN Nothing
                         ELSE To(Home[e], <<EvictionMsg(e, l2[t][e])>>)
    <3>4. PICK e \in Victims(l2[t], L2Ways) :
            \E e1 \in Victims(L1(e)[c], L1Ways) :
              /\ l1' = [l1 EXCEPT ![t] = L1After(L1(e), c, a, new, e1)]
              /\ l2' = [l2 EXCEPT ![t] = ClearCachedLoc(L2(e), e1)]
              /\ Deliver(s, t, out(e))
              /\ Check(Failure("clearCachedLoc", e1 # None => L2(e)[e1].loc = c))
      BY <3>1 DEF InsertInHierarchy
    <3>5. PICK e1 \in Victims(L1(e)[c], L1Ways) :
              /\ l1' = [l1 EXCEPT ![t] = L1After(L1(e), c, a, new, e1)]
              /\ l2' = [l2 EXCEPT ![t] = ClearCachedLoc(L2(e), e1)]
              /\ Deliver(s, t, out(e))
              /\ Check(Failure("clearCachedLoc", e1 # None => L2(e)[e1].loc = c))
      BY <3>4
    <3>6. e \in Addrs \cup {None}
      BY VictimsType
    <3>7. L1(e) \in L1Caches
      BY <1>t, <3>6, InvalidateInL1Type
    <3>8. L2(e) \in L2Cache
      BY <1>t, <2>2, <3>3, InvalidLines DEF Insert, L2Cache
    <3> HIDE DEF L1, L2
    <3>9. /\ L1After(L1(e), c, a, new, e1) \in L1Caches
          /\ ClearCachedLoc(L2(e), e1) \in L2Cache
      BY <2>2, <3>2, <3>3, <3>7, <3>8, L1AfterType, ClearCachedLocType
    <3>10. CachesOK'
      BY <1>c, <3>1, <3>5, <3>9 DEF CachesOK, L1Caches, L2Cache
    <3>11. ThreadsOK'
      BY <1>t, <3>1 DEF ThreadsOK
    <3>12. e # None => EvictionMsg(e, l2[t][e]) \in ShmemMsg
      BY <1>t, <3>6 DEF EvictionMsg, DataReply, Msg, ShmemMsg, DataMsg,
         ControlMsg, MsgSource, L2Cache, L2Line
    <3>13. out(e) \in Outgoing
      BY <3>12, OutgoingType
    <3>14. NetworkOK'
      BY <2>2, <3>5, <3>13, DeliverType
    <3>15. DirectoryOK' /\ err' \subseteq Assertions
      BY <3>1, <3>5 DEF DirectoryOK, dirVars, Check, Failure, Assertions
    <3> QED BY <3>10, <3>11, <3>14, <3>15
  <2> QED BY <2>3, <2>4
<1>4. ASSUME \/ L2RecvInvReq(s, t) \/ L2RecvFlushReq(s, t)
             \/ L2RecvWbReq(s, t)
      PROVE  TypeOK'
  <2>1. Receives(s, t, m)
    BY <1>4 DEF L2RecvInvReq, L2RecvFlushReq, L2RecvWbReq
  <2>2. m \in ShmemMsg /\ a \in Addrs /\ chan[<<s, t>>] # <<>>
    BY <2>1, ReceivesType
  <2>3. InvalidateInL1(t, a) \in L1Caches
    BY <2>2, InvalidateInL1Type
  <2> DEFINE line == l2[t][a]
  <2>4. line \in L2Line
    BY <2>2, <1>t DEF L2Cache
  <2>5. /\ Msg("INV_REP", "L2", a, None) \in ShmemMsg
        /\ line.st # "I" => /\ DataReply("FLUSH_REP", a, line) \in ShmemMsg
                            /\ DataReply("WB_REP", a, line) \in ShmemMsg
    BY <2>2, <2>4 DEF DataReply, Msg, ShmemMsg, DataMsg, ControlMsg, MsgSource,
       L2Line
  <2>6. NetworkOK'
    <3>1. PICK out \in Outgoing : Deliver(s, t, out)
      BY <1>4, <2>5, OutgoingType DEF L2RecvInvReq, L2RecvFlushReq, L2RecvWbReq
    <3> QED BY <2>2, <3>1, DeliverType
  <2>7. CachesOK'
    <3>1. CASE L2RecvInvReq(s, t) \/ L2RecvFlushReq(s, t)
      <4>1. /\ l1' \in [Tiles -> L1Caches] /\ l2' \in [Tiles -> L2Cache]
            /\ latest' = latest
        BY <1>c, <1>i, <2>2, <2>3, <3>1 DEF L2RecvInvReq, L2RecvFlushReq
      <4> QED BY <4>1 DEF CachesOK, L1Caches, L2Cache
    <3>2. CASE L2RecvWbReq(s, t)
      <4>1. line.st # "I" => [line EXCEPT !.st = "S"] \in L2Line
        BY <2>4 DEF L2Line
      <4>2. line.st # "I" => [l2 EXCEPT ![t][a].st = "S"] \in [Tiles -> L2Cache]
        BY <1>c, <2>2, <4>1 DEF L2Cache
      <4>3. \A k \in Comps : [l1 EXCEPT ![t][k][a].st = "S"] \in [Tiles -> L1Caches]
        <5> SUFFICES ASSUME NEW k \in Comps
                     PROVE  [l1 EXCEPT ![t][k][a].st = "S"] \in [Tiles -> L1Caches]
          OBVIOUS
        <5>0. l1[t][k][a] \in L1Line
          BY <1>t, <2>2 DEF L1Caches
        <5>1. [l1[t][k][a] EXCEPT !.st = "S"] \in L1Line
          BY <5>0 DEF L1Line, CState
        <5>2. [l1[t] EXCEPT ![k][a].st = "S"] \in L1Caches
          BY <1>t, <2>2, <5>1 DEF L1Caches
        <5> QED BY <1>c, <5>2
      <4>4. line.loc \in Comps \cup {None}
        BY <2>4 DEF L2Line
      <4>5. /\ l1' \in [Tiles -> L1Caches] /\ l2' \in [Tiles -> L2Cache]
            /\ latest' = latest
        BY <1>c, <3>2, <4>2, <4>3, <4>4 DEF L2RecvWbReq
      <4> QED BY <4>5 DEF CachesOK, L1Caches, L2Cache
    <3> QED BY <1>4, <3>1, <3>2
  <2>8. ThreadsOK' /\ DirectoryOK'
    BY <1>4 DEF L2RecvInvReq, L2RecvFlushReq, L2RecvWbReq, ThreadsOK,
       DirectoryOK, syncVars, dirVars
  <2>9. err' \subseteq Assertions
    BY <1>4 DEF L2RecvInvReq, L2RecvFlushReq, L2RecvWbReq, Check, Failure,
       Assertions
  <2> QED BY <2>6, <2>7, <2>8, <2>9
<1> QED BY <1>1, <1>2, <1>3, <1>4

-----------------------------------------------------------------------------
(* Directory *)

WorkItem == {None} \cup [addr : Addrs, buf : Values \cup {None}]

\* The entry of a line, new or old, is an entry.
LEMMA EntryOfType ==
  ASSUME DirectoryOK, NEW a \in Addrs
  PROVE  EntryOf(a) \in Entry
<1>1. FreshEntry \in Entry
  BY DEF FreshEntry, Entry
<1> QED BY <1>1 DEF EntryOf, DirectoryOK

\* addSharer and removeSharer make entries of entries.
LEMMA SharersType ==
  ASSUME NEW e \in Entry, NEW t \in Tiles
  PROVE  addSharer(e, t) \in Entry /\ removeSharer(e, t) \in Entry
<1>1. /\ e.sharers \cup {t} \in SUBSET Tiles /\ e.hw \cup {t} \in SUBSET Tiles
      /\ e.sharers \ {t} \in SUBSET Tiles /\ e.hw \ {t} \in SUBSET Tiles
  BY DEF Entry
<1>2. addSharer(e, t) \in Entry
  <2>1. CASE Limited /\ ~Global(e) /\ Cardinality(e.hw) < MaxHwSharers
    BY <1>1, <2>1 DEF addSharer, Entry
  <2>2. CASE ~(Limited /\ ~Global(e) /\ Cardinality(e.hw) < MaxHwSharers)
    BY <1>1, <2>2 DEF addSharer, Entry
  <2> QED BY <2>1, <2>2
<1>3. removeSharer(e, t) \in Entry
  BY <1>1 DEF removeSharer, Entry
<1> QED BY <1>2, <1>3

\* Storing an entry keeps the types of the directory cache.
LEMMA SetEntryType ==
  ASSUME DirectoryOK, NEW a \in Addrs, NEW e \in Entry, SetEntry(a, e)
  PROVE  /\ way' \in [Addrs -> Entry \cup {None}]
         /\ repl' \in [Addrs -> Entry \cup {None}]
BY DEF SetEntry, DirectoryOK

\* A handler takes or releases the tile.
LEMMA ServingType ==
  ASSUME ThreadsOK, DirectoryOK, NEW h \in Tiles, NEW a \in Addrs,
         NEW buf \in Values \cup {None},
         \/ StartServing(h, a, buf) \/ StopServing(h) \/ UNCHANGED <<lock, work>>
  PROVE  /\ lock' \in [Tiles -> {"free", "app", "sim"}]
         /\ work' \in [Tiles -> WorkItem]
<1>1. [addr |-> a, buf |-> buf] \in WorkItem /\ None \in WorkItem
  BY DEF WorkItem
<1>2. lock \in [Tiles -> {"free", "app", "sim"}] /\ work \in [Tiles -> WorkItem]
  BY DEF ThreadsOK, DirectoryOK, WorkItem
<1> QED BY <1>1, <1>2 DEF StartServing, StopServing

\* The handlers of the directory that take a packet.
LEMMA DirRecvType ==
  ASSUME TypeOK, NEW s \in Tiles, NEW h \in Tiles,
         \/ DirRecvReq(s, h) \/ DirRecvInvRep(s, h)
         \/ DirRecvFlushRep(s, h) \/ DirRecvWbRep(s, h)
  PROVE  TypeOK'
<1> USE DEF TypeOK
<1> DEFINE m == Head(chan[<<s, h>>])
           a == m.addr
<1>1. Receives(s, h, m)
  BY DEF DirRecvReq, DirRecvInvRep, DirRecvFlushRep, DirRecvWbRep
<1>2. m \in ShmemMsg /\ a \in Addrs /\ chan[<<s, h>>] # <<>>
  BY <1>1, ReceivesType
<1>3. CachesOK' /\ err' \subseteq Assertions
  BY DEF DirRecvReq, DirRecvInvRep, DirRecvFlushRep, DirRecvWbRep, CachesOK,
     cacheVars, Check, Failure, Assertions
<1>4. NetworkOK'
  <2>1. Deliver(s, h, Nothing)
    BY DEF DirRecvReq, DirRecvInvRep, DirRecvFlushRep, DirRecvWbRep
  <2> QED BY <1>2, <2>1, OutgoingType, DeliverType
<1>5. m.type \in {"FLUSH_REP", "WB_REP"} => m.val \in Values
  BY <1>2 DEF ShmemMsg, DataMsg, ControlMsg
<1>6. /\ lock' \in [Tiles -> {"free", "app", "sim"}]
      /\ work' \in [Tiles -> WorkItem]
  <2>1. \E buf \in Values \cup {None} :
          \/ StartServing(h, a, buf) \/ UNCHANGED <<lock, work>>
    BY <1>5 DEF DirRecvReq, DirRecvInvRep, DirRecvFlushRep, DirRecvWbRep
  <2> QED BY <1>2, <2>1, ServingType
<1>7. ThreadsOK'
  BY <1>6 DEF DirRecvReq, DirRecvInvRep, DirRecvFlushRep, DirRecvWbRep, ThreadsOK
<1>8. EntryOf(a) \in Entry /\ removeSharer(EntryOf(a), s) \in Entry
  BY <1>2, EntryOfType, SharersType
<1>9. DirectoryOK'
  <2>1. CASE DirRecvReq(s, h)
    <3>1. [type |-> m.type, tile |-> s] \in ShmemReq
      BY <2>1 DEF DirRecvReq, ShmemReq
    <3>2. queue' \in [Addrs -> Seq(ShmemReq)]
      BY <1>2, <2>1, <3>1 DEF DirRecvReq, DirectoryOK
    <3> QED BY <1>6, <2>1, <3>2 DEF DirRecvReq, DirectoryOK, WorkItem
  <2>2. CASE DirRecvInvRep(s, h)
    <3> DEFINE r == removeSharer(EntryOf(a), s)
    <3>1. [r EXCEPT !.st = "U"] \in Entry
      BY <1>8 DEF Entry
    <3>2. PICK e \in Entry : SetEntry(a, e)
      BY <1>8, <2>2, <3>1 DEF DirRecvInvRep
    <3> QED BY <1>2, <1>6, <2>2, <3>2, SetEntryType
            DEF DirRecvInvRep, DirectoryOK, WorkItem
  <2>3. CASE DirRecvFlushRep(s, h)
    <3> DEFINE e == [removeSharer(EntryOf(a), s) EXCEPT !.owner = None, !.st = "U"]
    <3>1. e \in Entry
      BY <1>8 DEF Entry
    <3>2. SetEntry(a, e)
      BY <2>3 DEF DirRecvFlushRep
    <3>3. dram' \in [Addrs -> Values]
      BY <1>2, <1>5, <2>3 DEF DirRecvFlushRep, DirectoryOK
    <3> QED BY <1>2, <1>6, <2>3, <3>1, <3>2, <3>3, SetEntryType
            DEF DirRecvFlushRep, DirectoryOK, WorkItem
  <2>4. CASE DirRecvWbRep(s, h)
    <3> DEFINE e == [EntryOf(a) EXCEPT !.owner = None, !.st = "S"]
    <3>1. e \in Entry
      BY <1>8 DEF Entry
    <3>2. SetEntry(a, e)
      BY <2>4 DEF DirRecvWbRep
    <3>3. dram' \in [Addrs -> Values]
      BY <1>2, <1>5, <2>4 DEF DirRecvWbRep, DirectoryOK
    <3> QED BY <1>2, <1>6, <2>4, <3>1, <3>2, <3>3, SetEntryType
            DEF DirRecvWbRep, DirectoryOK, WorkItem
  <2> QED BY <2>1, <2>2, <2>3, <2>4
<1> QED BY <1>3, <1>4, <1>7, <1>9

\* The request a directory handler serves.
LEMMA FrontType ==
  ASSUME TypeOK, NEW h \in Tiles, NEW r, NEW types,
         Serving(h, work[h].addr, r, types)
  PROVE  /\ work[h] \in [addr : Addrs, buf : Values \cup {None}]
         /\ work[h].addr \in Addrs /\ queue[work[h].addr] # <<>>
         /\ r = Head(queue[work[h].addr]) /\ r \in ShmemReq /\ r.tile \in Tiles
<1>1. work[h] # None /\ queue[work[h].addr] # <<>> /\ r = Head(queue[work[h].addr])
  BY DEF Serving
<1>2. work[h] \in [addr : Addrs, buf : Values \cup {None}]
  BY <1>1 DEF TypeOK, DirectoryOK
<1>3. r \in ShmemReq
  BY <1>1, <1>2 DEF TypeOK, DirectoryOK
<1> QED BY <1>1, <1>2, <1>3 DEF ShmemReq

\* processNextReqFromL2Cache keeps the types.
LEMMA NextReqType ==
  ASSUME TypeOK, NEW h \in Tiles, NEW a \in Addrs, queue[a] # <<>>,
         work[h] \in [addr : Addrs, buf : Values \cup {None}], NextReq(h, a)
  PROVE  /\ queue' \in [Addrs -> Seq(ShmemReq)]
         /\ lock' \in [Tiles -> {"free", "app", "sim"}]
         /\ work' \in [Tiles -> WorkItem]
<1>1. Tail(queue[a]) \in Seq(ShmemReq)
  BY HeadTailProperties DEF TypeOK, DirectoryOK
<1>2. queue' \in [Addrs -> Seq(ShmemReq)]
  BY <1>1 DEF NextReq, TypeOK, DirectoryOK
<1>3. [work[h] EXCEPT !.buf = None] \in WorkItem /\ None \in WorkItem
  BY DEF WorkItem
<1>4. lock' \in [Tiles -> {"free", "app", "sim"}]
  BY DEF NextReq, StopServing, TypeOK, ThreadsOK
<1>5. work \in [Tiles -> WorkItem]
  BY DEF TypeOK, DirectoryOK, WorkItem
<1>6. work' \in [Tiles -> WorkItem]
  BY <1>3, <1>5 DEF NextReq, StopServing
<1> QED BY <1>2, <1>4, <1>6

\* So does answering a request.
LEMMA GrantType ==
  ASSUME TypeOK, NEW h \in Tiles, NEW a \in Addrs, queue[a] # <<>>, NEW r,
         work[h] \in [addr : Addrs, buf : Values \cup {None}],
         NEW type \in {"EX_REP", "SH_REP"}, Grant(h, a, r, type)
  PROVE  /\ NetworkOK' /\ dram' = dram
         /\ queue' \in [Addrs -> Seq(ShmemReq)]
         /\ lock' \in [Tiles -> {"free", "app", "sim"}]
         /\ work' \in [Tiles -> WorkItem]
<1> DEFINE v == IF work[h].buf = None THEN dram[a] ELSE work[h].buf
<1>1. v \in Values
  BY DEF TypeOK, DirectoryOK
<1>2. Msg(type, "DIR", a, v) \in ShmemMsg
  BY <1>1 DEF Msg, ShmemMsg, DataMsg, MsgSource
<1>3. NetworkOK'
  BY <1>2, OutgoingType, SendType DEF Grant, TypeOK
<1> QED BY <1>3, NextReqType DEF Grant

\* What a directory asks the caches to do is a message.
LEMMA RequestsType ==
  ASSUME NEW e, NEW a \in Addrs, NEW S
  PROVE  /\ FlushReq(e, a) \in Outgoing /\ WbReq(e, a) \in Outgoing
         /\ InvReq(S, a) \in Outgoing
<1>1. \A type \in {"FLUSH_REQ", "WB_REQ", "INV_REQ"} :
        Msg(type, "DIR", a, None) \in ShmemMsg
  BY DEF Msg, ShmemMsg, ControlMsg, MsgSource
<1>2. FlushReq(e, a) \in Outgoing
  BY <1>1, OutgoingType DEF FlushReq
<1>3. WbReq(e, a) \in Outgoing
  BY <1>1, OutgoingType DEF WbReq
<1>4. InvReq(S, a) \in Outgoing
  BY <1>1, OutgoingType DEF InvReq
<1> QED BY <1>2, <1>3, <1>4

\* A handler that waits for replies.
LEMMA AwaitType ==
  ASSUME TypeOK, NEW h \in Tiles, NEW a \in Addrs, NEW out \in Outgoing,
         Await(h, a, out)
  PROVE  /\ NetworkOK' /\ queue' = queue /\ dram' = dram
         /\ lock' \in [Tiles -> {"free", "app", "sim"}]
         /\ work' \in [Tiles -> WorkItem]
         /\ err' \subseteq Assertions
<1>1. NetworkOK'
  BY SendType DEF Await, TypeOK
<1>2. /\ lock' \in [Tiles -> {"free", "app", "sim"}]
      /\ work' \in [Tiles -> WorkItem]
  BY ServingType DEF Await, TypeOK
<1> QED BY <1>1, <1>2 DEF Await, Check, Failure, Assertions, TypeOK

\* The steps of a directory handler that serves a request.
LEMMA ServeStepType ==
  ASSUME TypeOK, NEW h \in Tiles, ServeStep(h)
  PROVE  TypeOK'
<1> USE DEF TypeOK
<1> DEFINE a == work[h].addr
           r == Head(queue[a])
           e == EntryOf(a)
<1>f. FreshEntry \in Entry
  BY DEF FreshEntry, Entry
<1>1. ASSUME DirAllocateFree(h) PROVE TypeOK'
  <2>1. CachesOK' /\ ThreadsOK' /\ NetworkOK' /\ err' \subseteq Assertions
    BY <1>1 DEF DirAllocateFree, CachesOK, ThreadsOK, NetworkOK, cacheVars,
       syncVars
  <2>2. DirectoryOK'
    BY <1>1, <1>f DEF DirAllocateFree, DirectoryOK
  <2> QED BY <2>1, <2>2
<1>2. ASSUME DirReplace(h) PROVE TypeOK'
  <2>1. a \in Addrs /\ r.tile \in Tiles
    BY <1>2, FrontType DEF DirReplace
  <2>2. CachesOK' /\ ThreadsOK' /\ UNCHANGED <<work, dram>>
    BY <1>2 DEF DirReplace, CachesOK, ThreadsOK, cacheVars, syncVars
  <2>3. CASE Candidates(h) = {}
    BY <1>2, <2>2, <2>3 DEF DirReplace, NetworkOK, DirectoryOK, Check, Failure,
       Assertions
  <2>4. CASE Candidates(h) # {}
    <3>1. PICK b \in Candidates(h) :
            /\ Check(Failure("nullify_alone", queue[b] = <<>>))
            /\ way' = [way EXCEPT ![b] = None, ![a] = FreshEntry]
            /\ IF Uncached(way[b]) THEN UNCHANGED <<repl, queue, chan>>
               ELSE /\ repl' = [repl EXCEPT ![b] = way[b]]
                    /\ queue' = [queue EXCEPT ![b] = Append(@,
                         [type |-> "NULLIFY_REQ", tile |-> r.tile])]
                    /\ Send(h, IF way[b].st = "M" THEN FlushReq(way[b], b)
                               ELSE InvReq(InvTargets(way[b]), b))
      BY <1>2, <2>4 DEF DirReplace
    <3>2. b \in Addrs
      BY DEF Candidates
    <3>3. [type |-> "NULLIFY_REQ", tile |-> r.tile] \in ShmemReq
      BY <2>1 DEF ShmemReq
    <3>4. DirectoryOK'
      <4>1. way' \in [Addrs -> Entry \cup {None}]
        BY <1>f, <3>1 DEF DirectoryOK
      <4>2. repl' \in [Addrs -> Entry \cup {None}]
        BY <3>1, <3>2 DEF DirectoryOK
      <4>n. Append(queue[b], [type |-> "NULLIFY_REQ", tile |-> r.tile])
              \in Seq(ShmemReq)
        BY <3>2, <3>3, AppendProperties DEF DirectoryOK
      <4>3. queue' \in [Addrs -> Seq(ShmemReq)]
        BY <3>1, <3>2, <4>n DEF DirectoryOK
      <4> QED BY <2>2, <4>1, <4>2, <4>3 DEF DirectoryOK
    <3>5. NetworkOK'
      <4>1. CASE Uncached(way[b])
        BY <3>1, <4>1 DEF NetworkOK
      <4>2. CASE ~Uncached(way[b])
        BY <3>1, <3>2, <4>2, RequestsType, SendType
      <4> QED BY <4>1, <4>2
    <3>6. err' \subseteq Assertions
      BY <3>1 DEF Check, Failure, Assertions
    <3> QED BY <2>2, <3>4, <3>5, <3>6
  <2> QED BY <2>3, <2>4
<1>3. ASSUME DirServeExReq(h) \/ DirServeShReq(h) PROVE TypeOK'
  <2>1. /\ work[h] \in [addr : Addrs, buf : Values \cup {None}]
        /\ a \in Addrs /\ queue[a] # <<>> /\ r.tile \in Tiles
    BY <1>3, FrontType DEF DirServeExReq, DirServeShReq
  <2>2. CachesOK'
    BY <1>3 DEF DirServeExReq, DirServeShReq, CachesOK, cacheVars
  <2>3. e \in Entry /\ addSharer(e, r.tile) \in Entry
    BY <2>1, EntryOfType, SharersType
  <2>4. /\ [addSharer(e, r.tile) EXCEPT !.owner = r.tile, !.st = "M"] \in Entry
        /\ [addSharer(e, r.tile) EXCEPT !.st = "S"] \in Entry
    BY <2>1, <2>3 DEF Entry
  <2>5. \/ \E out \in Outgoing : Await(h, a, out) /\ UNCHANGED <<way, repl>>
        \/ \E out \in Outgoing : /\ Send(h, out) /\ StopServing(h)
                                 /\ UNCHANGED <<queue, dram, way, repl>>
                                 /\ err' \subseteq Assertions
        \/ \E n \in Entry, type \in {"EX_REP", "SH_REP"} :
             /\ SetEntry(a, n) /\ Grant(h, a, r, type)
             /\ err' \subseteq Assertions
    <3>1. CASE DirServeExReq(h)
      BY <2>1, <2>4, <3>1, RequestsType
         DEF DirServeExReq, Check, Failure, Assertions
    <3>2. CASE DirServeShReq(h)
      <4>1. CASE e.st = "M" /\ Await(h, a, WbReq(e, a)) /\ UNCHANGED <<way, repl>>
        BY <2>1, <4>1, RequestsType
      <4>2. CASE /\ e.st = "S" /\ ~CanAddSharer(e)
                 /\ \E x \in e.hw : Send(h, InvReq({x}, a))
                 /\ Check(Failure("addSharer", r.tile \notin e.sharers))
                 /\ StopServing(h) /\ UNCHANGED <<queue, dram, way, repl>>
        BY <2>1, <4>2, RequestsType DEF Check, Failure, Assertions
      <4>3. CASE /\ Check(Failure("addSharer",
                                  CanAddSharer(e) /\ r.tile \notin e.sharers))
                 /\ SetEntry(a, [addSharer(e, r.tile) EXCEPT !.st = "S"])
                 /\ Grant(h, a, r, "SH_REP")
        BY <2>4, <4>3 DEF Check, Failure, Assertions
      <4> QED BY <3>2, <4>1, <4>2, <4>3 DEF DirServeShReq
    <3> QED BY <1>3, <3>1, <3>2
  <2> DEFINE Goal == /\ NetworkOK' /\ DirectoryOK' /\ err' \subseteq Assertions
                     /\ lock' \in [Tiles -> {"free", "app", "sim"}]
  <2>6. Goal
    <3>1. ASSUME NEW out \in Outgoing, Await(h, a, out), UNCHANGED <<way, repl>>
          PROVE  Goal
      BY <2>1, <3>1, AwaitType DEF DirectoryOK, WorkItem
    <3>2. ASSUME NEW out \in Outgoing, Send(h, out), StopServing(h),
                 UNCHANGED <<queue, dram, way, repl>>, err' \subseteq Assertions
          PROVE  Goal
      BY <2>1, <3>2, SendType, ServingType DEF DirectoryOK, WorkItem
    <3>3. ASSUME NEW n \in Entry, NEW type \in {"EX_REP", "SH_REP"},
                 SetEntry(a, n), Grant(h, a, r, type), err' \subseteq Assertions
          PROVE  Goal
      BY <2>1, <3>3, SetEntryType, GrantType DEF DirectoryOK, WorkItem
    <3> QED BY <2>5, <3>1, <3>2, <3>3
  <2>7. ThreadsOK'
    BY <1>3, <2>6 DEF DirServeExReq, DirServeShReq, ThreadsOK
  <2> QED BY <2>2, <2>6, <2>7
<1>4. ASSUME DirServeNullify(h) PROVE TypeOK'
  <2>1. /\ work[h] \in [addr : Addrs, buf : Values \cup {None}]
        /\ a \in Addrs /\ queue[a] # <<>>
    BY <1>4, FrontType DEF DirServeNullify
  <2>2. CachesOK' /\ NetworkOK' /\ err' \subseteq Assertions
    BY <1>4 DEF DirServeNullify, CachesOK, NetworkOK, cacheVars, Check, Failure,
       Assertions
  <2>3. /\ queue' \in [Addrs -> Seq(ShmemReq)]
        /\ lock' \in [Tiles -> {"free", "app", "sim"}]
        /\ work' \in [Tiles -> WorkItem]
    BY <1>4, <2>1, NextReqType DEF DirServeNullify
  <2>4. ThreadsOK' /\ DirectoryOK'
    BY <1>4, <2>1, <2>3 DEF DirServeNullify, ThreadsOK, DirectoryOK, WorkItem
  <2> QED BY <2>2, <2>4
<1> QED BY <1>1, <1>2, <1>3, <1>4 DEF ServeStep

\* Every step keeps the types.
LEMMA TypeStep ==
  ASSUME TypeOK, Next
  PROVE  TypeOK'
<1>1. PICK t \in Tiles :
        \/ AppStep(t) \/ L2RecvFromL1(t) \/ SimResume(t) \/ ServeStep(t)
        \/ \E s \in Tiles : RecvStep(s, t)
  BY DEF Next
<1>2. CASE AppStep(t)
  BY <1>2, AppStepType
<1>3. CASE L2RecvFromL1(t) \/ SimResume(t)
  BY <1>3, L2StepType
<1>4. CASE ServeStep(t)
  BY <1>4, ServeStepType
<1>5. ASSUME NEW s \in Tiles, RecvStep(s, t) PROVE TypeOK'
  <2>1. CASE \/ L2RecvReply(s, t) \/ L2RecvInvReq(s, t)
             \/ L2RecvFlushReq(s, t) \/ L2RecvWbReq(s, t)
    BY <2>1, L2StepType
  <2>2. CASE \/ DirRecvReq(s, t) \/ DirRecvInvRep(s, t)
             \/ DirRecvFlushRep(s, t) \/ DirRecvWbRep(s, t)
    BY <2>2, DirRecvType
  <2> QED BY <1>5, <2>1, <2>2 DEF RecvStep
<1> QED BY <1>1, <1>2, <1>3, <1>4, <1>5

\* Type correctness, for every instance: no step of any thread puts a value
\* of the wrong kind into a variable, and a line that is valid, in a message
\* or in DRAM always has its data.
THEOREM TypeCorrect == Spec => []TypeOK
<1>1. Init => TypeOK
  BY InitType
<1>2. TypeOK /\ [Next]_vars => TypeOK'
  <2>1. ASSUME TypeOK, UNCHANGED vars PROVE TypeOK'
    BY <2>1 DEF vars, cacheVars, syncVars, dirVars, TypeOK, CachesOK, ThreadsOK,
       NetworkOK, DirectoryOK
  <2> QED BY <2>1, TypeStep
<1> QED BY <1>1, <1>2, PTL DEF Spec

-----------------------------------------------------------------------------
(* Hand-over between the two threads of a tile *)

\* What the L2 cache and the directory send.
SimMsg == {m \in ShmemMsg : m.src \notin Comps}
SimOutgoing == [Tiles -> Seq(SimMsg)]

\* The lists that the handlers of a simulation thread send.
LEMMA SimOutgoingType ==
  /\ Nothing \in SimOutgoing
  /\ \A t, m : m \in SimMsg => To(t, <<m>>) \in SimOutgoing
  /\ \A t, m, n : m \in SimMsg /\ n \in SimMsg => To(t, <<m, n>>) \in SimOutgoing
  /\ \A S, m : m \in SimMsg => ToAll(S, m) \in SimOutgoing
BY DEF Nothing, To, ToAll, SimOutgoing

\* Sending such messages leaves the requests of the L1 caches where they are.
LEMMA SendL1Requests ==
  ASSUME NetworkOK, NEW t \in Tiles, NEW out \in SimOutgoing, Send(t, out),
         NEW u \in Tiles
  PROVE  L1Requests(u)' \subseteq L1Requests(u)
<1> DEFINE q == chan[<<u, u>>]
           y == IF u = t THEN out[u] ELSE <<>>
<1>1. q \in Seq(ShmemMsg) /\ y \in Seq(SimMsg)
  BY DEF NetworkOK, SimOutgoing
<1>2. chan'[<<u, u>>] = q \o y
  <2>1. CASE u = t
    BY <2>1 DEF Send
  <2>2. CASE u # t
    <3>1. chan'[<<u, u>>] = q
      BY <2>2 DEF Send
    <3>2. q \o <<>> = q
      BY <1>1, ConcatEmptySeq
    <3> QED BY <2>2, <3>1, <3>2
  <2> QED BY <2>1, <2>2
<1>3. y \in Seq(ShmemMsg) /\ \A i \in 1..Len(y) : y[i].src \notin Comps
  BY <1>1 DEF SimMsg
<1> HIDE DEF q, y
<1>4. ASSUME NEW i \in 1..Len(q \o y), (q \o y)[i].src \in Comps
      PROVE  i \in 1..Len(q) /\ q[i].src \in Comps
  BY <1>1, <1>3, <1>4, ConcatProperties
<1> QED BY <1>2, <1>4 DEF L1Requests, q

\* Taking a packet shifts the requests in its channel by one.
LEMMA DeliverL1Requests ==
  ASSUME NetworkOK, NEW s \in Tiles, NEW t \in Tiles, chan[<<s, t>>] # <<>>,
         NEW out \in SimOutgoing, Deliver(s, t, out), NEW u \in Tiles
  PROVE  /\ ~(s = u /\ t = u) => L1Requests(u)' \subseteq L1Requests(u)
         /\ s = u /\ t = u =>
              \A i \in L1Requests(u)' : i + 1 \in L1Requests(u) /\ i \in Nat \ {0}
<1> DEFINE q == chan[<<u, u>>]
           x == IF s = u /\ t = u THEN Tail(q) ELSE q
           y == IF u = t THEN out[u] ELSE <<>>
<1>1. q \in Seq(ShmemMsg) /\ y \in Seq(SimMsg)
  BY DEF NetworkOK, SimOutgoing
<1>2. chan'[<<u, u>>] = x \o y
  BY DEF Deliver
<1>3. y \in Seq(ShmemMsg) /\ \A i \in 1..Len(y) : y[i].src \notin Comps
  BY <1>1 DEF SimMsg
<1>4. x \in Seq(ShmemMsg)
  BY <1>1, HeadTailProperties
<1> HIDE DEF x, y
<1>5. ASSUME NEW i \in 1..Len(x \o y), (x \o y)[i].src \in Comps
      PROVE  i \in 1..Len(x) /\ x[i].src \in Comps
  BY <1>3, <1>4, <1>5, ConcatProperties
<1>6. \A i \in L1Requests(u)' : i \in 1..Len(x) /\ x[i].src \in Comps
  BY <1>2, <1>5 DEF L1Requests
<1>7. CASE s = u /\ t = u
  <2>1. /\ x = Tail(q) /\ q # <<>>
    BY <1>7 DEF x
  <2>2. Len(x) = Len(q) - 1 /\ \A i \in 1..Len(x) : x[i] = q[i + 1]
    BY <1>1, <2>1, HeadTailProperties
  <2>3. Len(q) \in Nat
    BY <1>1, LenProperties
  <2>4. ASSUME NEW i \in L1Requests(u)'
        PROVE  i + 1 \in L1Requests(u) /\ i \in Nat \ {0}
    <3>1. i \in 1..(Len(q) - 1) /\ q[i + 1].src \in Comps
      BY <1>6, <2>2
    <3> QED BY <2>3, <3>1 DEF L1Requests
  <2> QED BY <1>7, <2>4
<1>8. CASE ~(s = u /\ t = u)
  BY <1>6, <1>8 DEF x, L1Requests
<1> QED BY <1>7, <1>8

\* Every handler of the simulation thread takes its packet and sends only
\* messages of the L2 cache and the directory, or stops at an assertion.
LEMMA HandlerSends ==
  ASSUME TypeOK, NEW s \in Tiles, NEW t \in Tiles, RecvStep(s, t)
  PROVE  \/ UNCHANGED <<chan, app, sim, appSem, simSem, outst>>
         \/ /\ chan[<<s, t>>] # <<>>
            /\ \E out \in SimOutgoing : Deliver(s, t, out)
<1> USE DEF TypeOK
<1> DEFINE m == Head(chan[<<s, t>>])
           a == m.addr
<1>1. Receives(s, t, m)
  BY DEF RecvStep, L2RecvReply, L2RecvInvReq, L2RecvFlushReq, L2RecvWbReq,
     DirRecvReq, DirRecvInvRep, DirRecvFlushRep, DirRecvWbRep
<1>2. m \in ShmemMsg /\ a \in Addrs /\ chan[<<s, t>>] # <<>>
  BY <1>1, ReceivesType
<1>3. CASE L2RecvReply(s, t)
  <2>1. CASE outst[t] = None \/ outst[t].addr # a
    BY <1>3, <2>1 DEF L2RecvReply, syncVars
  <2>2. CASE ~(outst[t] = None \/ outst[t].addr # a)
    <3>1. PICK e \in Victims(l2[t], L2Ways) :
            Deliver(s, t, IF e = None THEN Nothing
                          ELSE To(Home[e], <<EvictionMsg(e, l2[t][e])>>))
      BY <1>3, <2>2 DEF L2RecvReply, InsertInHierarchy
    <3>2. e \in Addrs \cup {None}
      BY VictimsType
    <3>3. e # None => EvictionMsg(e, l2[t][e]) \in SimMsg
      BY <3>2 DEF EvictionMsg, DataReply, Msg, SimMsg, ShmemMsg, DataMsg,
         ControlMsg, MsgSource, L2Line, CachesOK, Comps
    <3> QED BY <1>2, <3>1, <3>3, SimOutgoingType
  <2> QED BY <2>1, <2>2
<1>4. CASE L2RecvInvReq(s, t) \/ L2RecvFlushReq(s, t) \/ L2RecvWbReq(s, t)
  <2> DEFINE line == l2[t][a]
  <2>1. line \in L2Line
    BY <1>2 DEF CachesOK
  <2>2. /\ Msg("INV_REP", "L2", a, None) \in SimMsg
        /\ line.st # "I" => /\ DataReply("FLUSH_REP", a, line) \in SimMsg
                            /\ DataReply("WB_REP", a, line) \in SimMsg
    BY <1>2, <2>1 DEF DataReply, Msg, SimMsg, ShmemMsg, DataMsg, ControlMsg,
       MsgSource, L2Line, Comps
  <2> QED BY <1>2, <1>4, <2>2, SimOutgoingType
          DEF L2RecvInvReq, L2RecvFlushReq, L2RecvWbReq
<1>5. CASE \/ DirRecvReq(s, t) \/ DirRecvInvRep(s, t)
           \/ DirRecvFlushRep(s, t) \/ DirRecvWbRep(s, t)
  BY <1>2, <1>5, SimOutgoingType
     DEF DirRecvReq, DirRecvInvRep, DirRecvFlushRep, DirRecvWbRep
<1> QED BY <1>3, <1>4, <1>5 DEF RecvStep

\* So does a directory handler that serves a request.
LEMMA ServeSends ==
  ASSUME TypeOK, NEW h \in Tiles, ServeStep(h)
  PROVE  \/ UNCHANGED chan
         \/ \E out \in SimOutgoing : Send(h, out)
<1> USE DEF TypeOK
<1> DEFINE a == work[h].addr
           r == Head(queue[a])
           e == EntryOf(a)
<1>m. \A b \in Addrs : \A type \in {"FLUSH_REQ", "WB_REQ", "INV_REQ"} :
        Msg(type, "DIR", b, None) \in SimMsg
  BY DEF Msg, SimMsg, ShmemMsg, ControlMsg, MsgSource, Comps
<1>r. ASSUME NEW b \in Addrs, NEW S, NEW f
      PROVE  /\ FlushReq(f, b) \in SimOutgoing
             /\ WbReq(f, b) \in SimOutgoing
             /\ InvReq(S, b) \in SimOutgoing
  <2>1. FlushReq(f, b) \in SimOutgoing
    BY <1>m, SimOutgoingType DEF FlushReq
  <2>2. WbReq(f, b) \in SimOutgoing
    BY <1>m, SimOutgoingType DEF WbReq
  <2>3. InvReq(S, b) \in SimOutgoing
    BY <1>m, SimOutgoingType DEF InvReq
  <2> QED BY <2>1, <2>2, <2>3
<1>1. CASE DirAllocateFree(h) \/ DirServeNullify(h)
  BY <1>1 DEF DirAllocateFree, DirServeNullify
<1>2. CASE DirReplace(h)
  <2>1. \/ UNCHANGED chan
        \/ \E b \in Candidates(h) :
             Send(h, IF way[b].st = "M" THEN FlushReq(way[b], b)
                     ELSE InvReq(InvTargets(way[b]), b))
    BY <1>2 DEF DirReplace
  <2>2. Candidates(h) \subseteq Addrs
    BY DEF Candidates
  <2> QED BY <1>r, <2>1, <2>2
<1>3. CASE DirServeExReq(h) \/ DirServeShReq(h)
  <2>1. /\ work[h] \in [addr : Addrs, buf : Values \cup {None}] /\ a \in Addrs
    BY <1>3, FrontType DEF DirServeExReq, DirServeShReq
  <2> DEFINE v == IF work[h].buf = None THEN dram[a] ELSE work[h].buf
  <2>2. v \in Values
    BY <2>1 DEF DirectoryOK
  <2> HIDE DEF v
  <2>3. \A type \in {"EX_REP", "SH_REP"} : Msg(type, "DIR", a, v) \in SimMsg
    BY <2>1, <2>2 DEF Msg, SimMsg, ShmemMsg, DataMsg, MsgSource, Comps
  <2>4. \/ \E S, f : \/ Send(h, FlushReq(f, a)) \/ Send(h, WbReq(f, a))
                     \/ Send(h, InvReq(S, a))
        \/ \E type \in {"EX_REP", "SH_REP"} :
             Send(h, To(r.tile, <<Msg(type, "DIR", a, v)>>))
    <3>1. CASE DirServeExReq(h)
      BY <3>1 DEF DirServeExReq, Await, Grant, v
    <3>2. CASE DirServeShReq(h)
      BY <3>2 DEF DirServeShReq, Await, Grant, v
    <3> QED BY <1>3, <3>1, <3>2
  <2> QED BY <1>r, <2>1, <2>3, <2>4, SimOutgoingType
<1> QED BY <1>1, <1>2, <1>3 DEF ServeStep

\* HandoverInv for one tile.
TileInv(u) ==
  /\ appSem[u] + simSem[u] <= 1
  /\ appSem[u] = 1 => app[u].pc = "wait" /\ sim[u] = "waitApp"
  /\ sim[u] = "waitApp" => appSem[u] + simSem[u] = 1
  /\ outst[u] # None => app[u].pc = "wait" /\ sim[u] = "recv"
  /\ sim[u] = "recv" => appSem[u] = 0 /\ simSem[u] = 0
  /\ \A i \in L1Requests(u) :
       /\ app[u].pc = "wait" /\ outst[u] = None /\ appSem[u] = 0
       /\ \A j \in L1Requests(u) : j = i

\* HandoverInv, tile by tile.
LEMMA TileInvs == HandoverInv <=> \A u \in Tiles : TileInv(u)
BY DEF HandoverInv, Handover, TileInv

\* A step that leaves the threads of u alone and adds no L1 request keeps u's
\* part of the invariant.
LEMMA TileFrame ==
  ASSUME NEW u \in Tiles, TileInv(u), L1Requests(u)' \subseteq L1Requests(u),
         app'[u] = app[u], sim'[u] = sim[u], appSem'[u] = appSem[u],
         simSem'[u] = simSem[u], outst'[u] = outst[u]
  PROVE  TileInv(u)'
BY DEF TileInv

\* L1 requests change only with the channels.
LEMMA SameChannels ==
  ASSUME NEW u, chan' = chan
  PROVE  L1Requests(u)' = L1Requests(u)
BY DEF L1Requests

\* A miss is the only step that adds a request of an L1 cache, and it adds
\* one.
LEMMA MissL1Requests ==
  ASSUME NetworkOK, NEW t \in Tiles, NEW m \in ShmemMsg, Send(t, To(t, <<m>>)),
         NEW u \in Tiles
  PROVE  /\ u # t => L1Requests(u)' \subseteq L1Requests(u)
         /\ u = t /\ L1Requests(u) = {} =>
              \A i \in L1Requests(u)' : i = Len(chan[<<u, u>>]) + 1
<1> DEFINE q == chan[<<u, u>>]
<1>1. q \in Seq(ShmemMsg)
  BY DEF NetworkOK
<1>2. CASE u # t
  <2>1. chan'[<<u, u>>] = q
    BY <1>2 DEF Send
  <2> QED BY <1>2, <2>1 DEF L1Requests
<1>3. CASE u = t
  <2>1. chan'[<<u, u>>] = q \o <<m>>
    BY <1>3 DEF Send, To
  <2> HIDE DEF q
  <2>2. ASSUME L1Requests(u) = {}, NEW i \in L1Requests(u)'
        PROVE  i = Len(q) + 1
    <3>1. i \in 1..Len(q \o <<m>>) /\ (q \o <<m>>)[i].src \in Comps
      BY <2>1 DEF L1Requests
    <3>2. <<m>> \in Seq(ShmemMsg) /\ Len(<<m>>) = 1
      OBVIOUS
    <3>3. i \in 1..(Len(q) + 1) /\ (i <= Len(q) => q[i].src \in Comps)
      BY <1>1, <3>1, <3>2, ConcatProperties
    <3>4. Len(q) \in Nat
      BY <1>1, LenProperties
    <3>5. i \notin 1..Len(q)
      BY <2>2, <3>3, <3>4 DEF L1Requests, q
    <3> QED BY <3>3, <3>4, <3>5
  <2> QED BY <1>3, <2>2 DEF q
<1> QED BY <1>2, <1>3

\* Initially nobody waits and nothing is under way.
LEMMA InitHandover == Init => HandoverInv
BY DEF Init, HandoverInv, Handover, L1Requests

\* The inductive step.
LEMMA HandoverStep ==
  ASSUME TypeOK, HandoverInv, Next
  PROVE  HandoverInv'
<1> SUFFICES ASSUME NEW u \in Tiles PROVE TileInv(u)'
  BY DEF HandoverInv, Handover, TileInv
<1> USE DEF TypeOK
<1>i. \A v \in Tiles : TileInv(v)
  BY TileInvs
<1>n. appSem[u] \in Nat /\ simSem[u] \in Nat
  BY DEF ThreadsOK
<1>1. ASSUME NEW t \in Tiles, NEW r \in Accesses,
             AppL1Hit(t, r) \/ AppL2Hit(t, r)
      PROVE  TileInv(u)'
  <2>1. /\ L1Requests(u)' = L1Requests(u)
        /\ UNCHANGED <<sim, appSem, simSem, outst>>
    BY <1>1, SameChannels DEF AppL1Hit, AppL2Hit
  <2>2. app[t].pc = "idle" /\ (u # t => app'[u] = app[u])
    BY <1>1 DEF AppL1Hit, AppL2Hit, Return, ThreadsOK
  <2> QED BY <1>i, <2>1, <2>2 DEF TileInv
<1>2. ASSUME NEW t \in Tiles, NEW r \in Accesses, AppMiss(t, r)
      PROVE  TileInv(u)'
  <2>1. Msg(ReqType(r.op), r.comp, r.addr, None) \in ShmemMsg
    BY AccessesType DEF Access, Msg, ReqType, ShmemMsg, ControlMsg, MsgSource
  <2>2. /\ UNCHANGED <<sim, appSem, simSem, outst>> /\ app[t].pc = "idle"
        /\ app' = [app EXCEPT ![t] = [pc |-> "wait", acc |-> r]]
        /\ Send(t, To(t, <<Msg(ReqType(r.op), r.comp, r.addr, None)>>))
    BY <1>2 DEF AppMiss
  <2>3. CASE u = t
    <3>1. L1Requests(u) = {} /\ outst[u] = None /\ appSem[u] # 1
      BY <1>i, <2>2, <2>3 DEF TileInv
    <3>2. \A i \in L1Requests(u)' : i = Len(chan[<<u, u>>]) + 1
      BY <2>1, <2>2, <2>3, <3>1, MissL1Requests
    <3>3. app'[u].pc = "wait"
      BY <2>2, <2>3 DEF ThreadsOK
    <3> QED BY <1>i, <1>n, <2>2, <3>1, <3>2, <3>3 DEF TileInv
  <2>4. CASE u # t
    <3>1. L1Requests(u)' \subseteq L1Requests(u)
      BY <2>1, <2>2, <2>4, MissL1Requests
    <3> QED BY <1>i, <2>2, <2>4, <3>1, TileFrame DEF ThreadsOK
  <2> QED BY <2>3, <2>4
<1>3. ASSUME NEW t \in Tiles, AppResume(t) PROVE TileInv(u)'
  <2>1. /\ L1Requests(u)' = L1Requests(u) /\ UNCHANGED <<sim, outst>>
    BY <1>3, SameChannels DEF AppResume
  <2>2. CASE u = t
    <3>1. /\ appSem[u] > 0 /\ appSem'[u] = appSem[u] - 1
          /\ simSem'[u] = simSem[u] + 1
      BY <1>3, <2>2 DEF AppResume, ThreadsOK
    <3>2. appSem[u] = 1 /\ simSem[u] = 0 /\ sim[u] = "waitApp"
      BY <1>i, <1>n, <3>1 DEF TileInv
    <3>3. outst[u] = None /\ L1Requests(u) = {}
      BY <1>i, <3>2 DEF TileInv
    <3> QED BY <2>1, <3>1, <3>2, <3>3 DEF TileInv
  <2>3. CASE u # t
    BY <1>3, <1>i, <2>1, <2>3, TileFrame DEF AppResume, Return, ThreadsOK
  <2> QED BY <2>2, <2>3
<1>4. ASSUME NEW t \in Tiles, NEW v \in Values, AppUnlock(t, v)
      PROVE  TileInv(u)'
  <2>1. /\ L1Requests(u)' = L1Requests(u)
        /\ UNCHANGED <<sim, appSem, simSem, outst>>
    BY <1>4, SameChannels DEF AppUnlock
  <2>2. app[t].pc = "locked" /\ (u # t => app'[u] = app[u])
    BY <1>4 DEF AppUnlock, Return, ThreadsOK
  <2> QED BY <1>i, <2>1, <2>2 DEF TileInv
<1>5. ASSUME NEW t \in Tiles, L2RecvFromL1(t) PROVE TileInv(u)'
  <2> DEFINE n == Head(chan[<<t, t>>])
             b == n.addr
             req == Msg(n.type, "L2", b, None)
             inv == Msg("INV_REP", "L2", b, None)
             upgrade == n.type = "EX_REQ" /\ l2[t][b].st = "S"
  <2>1. /\ Receives(t, t, n) /\ n.src \in Comps
        /\ n.type \in {"EX_REQ", "SH_REQ"}
        /\ outst' = [outst EXCEPT ![t] = [addr |-> b, comp |-> n.src]]
        /\ Deliver(t, t, To(Home[b], IF upgrade THEN <<inv, req>> ELSE <<req>>))
        /\ UNCHANGED <<app, sim, appSem, simSem>>
    BY <1>5 DEF L2RecvFromL1
  <2>2. n \in ShmemMsg /\ b \in Addrs /\ chan[<<t, t>>] # <<>>
    BY <2>1, ReceivesType
  <2>3. req \in SimMsg /\ inv \in SimMsg
    BY <2>1, <2>2 DEF Msg, SimMsg, ShmemMsg, ControlMsg, MsgSource, Comps
  <2>4. /\ To(Home[b], <<inv, req>>) \in SimOutgoing
        /\ To(Home[b], <<req>>) \in SimOutgoing
    BY <2>3, SimOutgoingType
  <2>5. PICK out \in SimOutgoing : Deliver(t, t, out)
    BY <2>1, <2>4
  <2>6. CASE u = t
    <3>1. 1 \in L1Requests(u)
      <4>1. chan[<<u, u>>] \in Seq(ShmemMsg) /\ chan[<<u, u>>] # <<>>
        BY <2>2, <2>6 DEF NetworkOK
      <4>2. 1 \in 1..Len(chan[<<u, u>>]) /\ Head(chan[<<u, u>>]) = chan[<<u, u>>][1]
        BY <4>1, EmptySeq, LenProperties
      <4> QED BY <2>1, <2>6, <4>2 DEF L1Requests
    <3>2. L1Requests(u)' = {}
      <4>1. \A i \in L1Requests(u)' : i + 1 \in L1Requests(u) /\ i \in Nat \ {0}
        BY <2>2, <2>5, <2>6, DeliverL1Requests
      <4>2. \A i \in L1Requests(u)' : i + 1 = 1 /\ i \in Nat \ {0}
        BY <1>i, <3>1, <4>1 DEF TileInv
      <4> QED BY <4>2
    <3>3. app[u].pc = "wait" /\ sim[u] = "recv"
      BY <1>i, <2>1, <2>6, <3>1 DEF TileInv, Receives
    <3> QED BY <1>i, <1>n, <2>1, <3>2, <3>3 DEF TileInv
  <2>7. CASE u # t
    <3>1. L1Requests(u)' \subseteq L1Requests(u)
      BY <2>2, <2>5, <2>7, DeliverL1Requests
    <3> QED BY <1>i, <2>1, <2>7, <3>1, TileFrame DEF ThreadsOK
  <2> QED BY <2>6, <2>7
<1>6. ASSUME NEW t \in Tiles, SimResume(t) PROVE TileInv(u)'
  <2>1. L1Requests(u)' = L1Requests(u) /\ UNCHANGED <<app, appSem, outst>>
    BY <1>6, SameChannels DEF SimResume
  <2>2. CASE u = t
    <3>1. /\ sim[u] = "waitApp" /\ simSem[u] > 0 /\ sim'[u] = "recv"
          /\ simSem'[u] = simSem[u] - 1
      BY <1>6, <2>2 DEF SimResume, ThreadsOK
    <3>2. simSem[u] = 1 /\ appSem[u] = 0 /\ outst[u] = None
      BY <1>i, <1>n, <3>1 DEF TileInv
    <3> QED BY <1>i, <2>1, <3>1, <3>2 DEF TileInv
  <2>3. CASE u # t
    BY <1>6, <1>i, <2>1, <2>3, TileFrame DEF SimResume, ThreadsOK
  <2> QED BY <2>2, <2>3
<1>7. ASSUME NEW t \in Tiles, ServeStep(t) PROVE TileInv(u)'
  <2>1. UNCHANGED <<app, sim, appSem, simSem, outst>>
    BY <1>7 DEF ServeStep, DirAllocateFree, DirReplace, DirServeExReq,
       DirServeShReq, DirServeNullify, syncVars
  <2>2. L1Requests(u)' \subseteq L1Requests(u)
    BY <1>7, ServeSends, SendL1Requests, SameChannels
  <2> QED BY <1>i, <2>1, <2>2, TileFrame
<1>8. ASSUME NEW s \in Tiles, NEW t \in Tiles, RecvStep(s, t) PROVE TileInv(u)'
  <2>1. CASE UNCHANGED <<chan, app, sim, appSem, simSem, outst>>
    BY <1>i, <2>1, SameChannels, TileFrame
  <2>2. CASE ~UNCHANGED <<chan, app, sim, appSem, simSem, outst>>
    <3>1. /\ chan[<<s, t>>] # <<>>
          /\ \E out \in SimOutgoing : Deliver(s, t, out)
      BY <1>8, <2>2, HandlerSends
    <3>2. PICK out \in SimOutgoing : Deliver(s, t, out)
      BY <3>1
    <3>3. /\ ~(s = u /\ t = u) => L1Requests(u)' \subseteq L1Requests(u)
          /\ s = u /\ t = u =>
               \A i \in L1Requests(u)' : i + 1 \in L1Requests(u) /\ i \in Nat \ {0}
      BY <3>1, <3>2, DeliverL1Requests
    <3>4. CASE UNCHANGED <<app, sim, appSem, simSem, outst>>
      BY <1>i, <3>3, <3>4 DEF TileInv
    <3>5. CASE ~UNCHANGED <<app, sim, appSem, simSem, outst>>
      <4>1. /\ outst[t] # None /\ sim[t] = "recv"
            /\ outst' = [outst EXCEPT ![t] = None]
            /\ appSem' = [appSem EXCEPT ![t] = @ + 1]
            /\ sim' = [sim EXCEPT ![t] = "waitApp"]
            /\ UNCHANGED <<app, simSem>>
        BY <1>8, <3>5 DEF RecvStep, L2RecvReply, L2RecvInvReq, L2RecvFlushReq,
           L2RecvWbReq, DirRecvReq, DirRecvInvRep, DirRecvFlushRep,
           DirRecvWbRep, Receives, syncVars
      <4>2. CASE u = t
        <5>1. /\ appSem[u] = 0 /\ simSem[u] = 0 /\ app[u].pc = "wait"
              /\ L1Requests(u) = {}
          BY <1>i, <4>1, <4>2 DEF TileInv
        <5>2. L1Requests(u)' = {}
          BY <3>3, <5>1
        <5>3. /\ appSem'[u] = 1 /\ simSem'[u] = 0 /\ sim'[u] = "waitApp"
              /\ outst'[u] = None /\ app'[u].pc = "wait"
          BY <4>1, <4>2, <5>1 DEF ThreadsOK
        <5> QED BY <5>2, <5>3 DEF TileInv
      <4>3. CASE u # t
        BY <1>i, <3>3, <4>1, <4>3, TileFrame DEF ThreadsOK
      <4> QED BY <4>2, <4>3
    <3> QED BY <3>4, <3>5
  <2> QED BY <2>1, <2>2
<1> QED BY <1>1, <1>2, <1>3, <1>4, <1>5, <1>6, <1>7, <1>8 DEF Next, AppStep

\* The hand-over between the application and the simulation thread of every
\* tile, for every instance: a signal of _app_thread_sem or _sim_thread_sem is
\* only ever pending for a thread that is parked on it, never two at once, and
\* a request is outstanding only while the application waits for it.
THEOREM HandoverHolds == Spec => []Handover
<1>1. Init => HandoverInv
  BY InitHandover
<1>2. TypeOK /\ HandoverInv /\ [Next]_vars => HandoverInv'
  <2>1. ASSUME TypeOK, HandoverInv, UNCHANGED vars PROVE HandoverInv'
    BY <2>1 DEF HandoverInv, Handover, L1Requests, vars, syncVars
  <2> QED BY <2>1, HandoverStep
<1>3. HandoverInv => Handover
  BY DEF HandoverInv
<1> QED BY <1>1, <1>2, <1>3, TypeCorrect, PTL DEF Spec
=============================================================================
