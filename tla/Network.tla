------------------------------- MODULE Network -------------------------------
(***************************************************************************)
(* Network: netSend in the thread that sends, netPullFromTransport in the  *)
(* simulation thread of every tile, hop by hop over the transport.  With   *)
(* the shared-memory shortcut the sending thread walks the whole route     *)
(* itself and only the last hop goes through the transport.                *)
(*                                                                         *)
(* A packet is followed from its netSend (sent) to its reception (got);    *)
(* the packets of the system network also reach the queue that netRecv     *)
(* reads (queue; the module NetQueue looks inside netRecv).  One           *)
(* forwardPacket is one step: what the steps of others may do between its  *)
(* sends to different tiles does not matter to any pair of tiles.          *)
(***************************************************************************)
EXTENDS Transport, Topology, SequencesExt

VARIABLES
  net,       \* the parameters of the network
  sent,      \* every packet given to netSend, in order
  got,       \* got[t]: positions in sent of what tile t has received
  queue,     \* queue[t]: _netQueue of tile t, system packets only
  sim        \* sim[t]: the simulation thread of tile t

networkVars == <<net, sent, got, queue, sim>>

T == DOMAIN owner

Packet(from, to, id) ==
  [kind |-> "data", system |-> FALSE, from |-> from, to |-> to, id |-> id, node |-> "SEND_TILE"]

SystemPacket(kind, from, to) ==
  [kind |-> kind, system |-> TRUE, from |-> from, to |-> to, id |-> 0, node |-> "SEND_TILE"]

\* One simulation thread for every tile of a process
spawnSimThreads(n) == [t \in 0 .. totalTiles(n) - 1 |-> "running"]

NetworkInit(n) ==
  /\ net = n
  /\ TransportInit(n.procs, processOf(n))
  /\ sent = <<>>
  /\ got = [t \in 0 .. totalTiles(n) - 1 |-> <<>>]
  /\ queue = [t \in 0 .. totalTiles(n) - 1 |-> <<>>]
  /\ sim = spawnSimThreads(n)

------------------------------------------------------------------------------
\* The hops that forwardPacket hands to the transport, in its order: with
\* the shortcut each hop but the last is routed at once in the network of
\* its tile, and what comes out goes to the end of the hop queue.
RECURSIVE hopQueue(_, _, _)
hopQueue(n, pkt, hops) ==
  IF hops = <<>> THEN <<>>
  ELSE LET h == Head(hops) IN
       IF h.node # "RECEIVE_TILE" /\ n.shortcut
         THEN hopQueue(n, pkt, Tail(hops) \o routePacket(n, h.tile, [pkt EXCEPT !.node = h.node]))
         ELSE <<h>> \o hopQueue(n, pkt, Tail(hops))

\* Network::forwardPacket of tile here, on the wires s
forwardPacket(s, here, pkt) ==
  FoldLeft(LAMBDA w, h : send(w, owner[here], h.tile, [pkt EXCEPT !.node = h.node]),
           s, hopQueue(net, pkt, routePacket(net, here, pkt)))

\* Without broadcast capability one packet for each tile
receivers(pkt) ==
  IF pkt.to = BROADCAST /\ (pkt.system \/ ~hasBroadcastCapability(net))
    THEN [t \in 1 .. totalTiles(net) |-> t - 1] ELSE <<pkt.to>>

\* Network::netSend
netSend(s, here, pkt) ==
  FoldLeft(LAMBDA w, to : forwardPacket(w, here, [pkt EXCEPT !.to = to]), s, receivers(pkt))

\* A thread on tile from sends a packet to tile to, or to all
NetSend(from, to) ==
  /\ Up(owner[from])
  /\ Len(sent) < net.sends
  /\ Written(netSend(Wires, from, Packet(from, to, Len(sent) + 1)))
  /\ sent' = Append(sent, [from |-> from, to |-> to])
  /\ UNCHANGED <<nprocs, owner, boot, barrierSem, updater, net, got, queue, sim>>

------------------------------------------------------------------------------
(* netPullFromTransport by the simulation thread of tile t.                *)

\* isPacketReadyToBeReceived
Ready(pkt) == pkt.system \/ pkt.node = "RECEIVE_TILE"

\* The quit packet has a callback that clears cont; the others are queued
\* for netRecv (here: the history of data packets, the queue of system ones).
Receive(t, pkt) ==
  /\ got' = [got EXCEPT ![t] = IF pkt.kind = "data" THEN Append(@, pkt.id) ELSE @]
  /\ queue' = [queue EXCEPT ![t] = IF pkt.system /\ pkt.kind # "TERMINATE_THREADS"
                                     THEN Append(@, [kind |-> pkt.kind, from |-> pkt.from]) ELSE @]

\* After a quit packet the thread goes on pulling while there is something
\* to pull (the loop asks query, not cont), and only then exits.
netPull(t) ==
  LET pkt == Head(lists[t])
      rest == [Wires EXCEPT !.lists[t] = Tail(@)]
      last == sim[t] = "last" \/ pkt.kind = "TERMINATE_THREADS"
  IN /\ Up(owner[t])
     /\ sim[t] # "exited"
     /\ lists[t] # <<>>
     /\ IF Ready(pkt)
          THEN Receive(t, pkt) /\ Written(rest)
          ELSE Written(forwardPacket(rest, t, pkt)) /\ UNCHANGED <<got, queue>>
     /\ sim' = [sim EXCEPT ![t] = CASE ~last -> @
                                    [] last /\ lists'[t] = <<>> -> "exited"
                                    [] OTHER -> "last"]
     /\ UNCHANGED <<nprocs, owner, boot, barrierSem, updater, net, sent>>

------------------------------------------------------------------------------
(* Properties.                                                             *)

Addressed(i, t) == sent[i].to \in {t, BROADCAST}

\* Positions in sent of what tile a sent to tile b, and of what b got from a
SentTo(a, b) ==
  SelectSeq([i \in 1 .. Len(sent) |-> i], LAMBDA i : sent[i].from = a /\ Addressed(i, b))
ReceivedFrom(b, a) == SelectSeq(got[b], LAMBDA i : sent[i].from = a)

\* Does the network keep the order of a pair of tiles?  In ATAC a broadcast
\* takes the optical network and a packet to the same cluster the mesh, so
\* only the shortcut does.
Ordered(n) == n.model # "atac" \/ n.shortcut

\* Between any two tiles every packet arrives at most once, nothing arrives
\* that was not sent there, and (where the network is Ordered) in the order
\* of sending: a broadcast tree and the unicast route to the same tile are
\* the same path.  The coherence protocols rest on it (network.cc:228).
DeliveredOnceInOrder ==
  \A a, b \in T :
    /\ IsInjective(got[b])
    /\ \A i \in Range(got[b]) : Addressed(i, b)
    /\ Ordered(net) => IsPrefix(ReceivedFrom(b, a), SentTo(a, b))

\* Nothing is lost on the way: once the sockets and the lists are empty
\* every packet has arrived wherever it was sent.
NothingLost ==
  (\A p, q \in P : sock[p][q] = <<>>) /\ (\A t \in T : lists[t] = <<>>) =>
    \A i \in 1 .. Len(sent), t \in T : Addressed(i, t) => i \in Range(got[t])

\* Nothing has happened yet: what follows is about the parameters alone
Standing == \A p \in P : ~boot[p].listening

\* Every tile is simulated by exactly one process and Config's two maps
\* agree; the memory controllers sit on application tiles, on different
\* ones when the mesh has room for the grid of them.
TilesPlaced ==
  LET C(m) == computeMemoryControllerPositions(net, m)
      room(m) == net.model # "emesh_hop_by_hop" \/ ( /\ floorSqrt(m) <= net.width
                                                     /\ ceilDiv(m, floorSqrt(m)) <= net.height )
      most == IF net.model = "atac" THEN numClusters(net) ELSE net.app
  IN Standing =>
       /\ \A t \in T : {pt \in GenerateTileMap(net) : pt[2] = t} = {<<owner[t], t>>}
       /\ \A m \in 1 .. most :
            /\ \A k \in DOMAIN C(m) : isApplicationTile(net, C(m)[k])
            /\ room(m) => IsInjective(C(m))

\* The routes of larger networks than those whose traffic is explored: a
\* packet followed hop by hop from any tile reaches its receiver, or every
\* tile, exactly once and nothing else, and every tile is somewhere.
RoutesReachReceivers ==
  LET whole == [net EXCEPT !.shortcut = TRUE]
      ends(from, to) == LET p == Packet(from, to, 0)
                            h == hopQueue(whole, p, routePacket(whole, from, p))
                        IN [i \in 1 .. Len(h) |-> h[i].tile]
  IN /\ TilesPlaced
     /\ Standing => \A from \in 0 .. net.app - 1 :
         /\ hasBroadcastCapability(net) =>
              IsInjective(ends(from, BROADCAST)) /\ Range(ends(from, BROADCAST)) = T
         /\ \A to \in T : ends(from, to) = <<to>>

==============================================================================
