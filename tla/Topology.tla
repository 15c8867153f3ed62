------------------------------ MODULE Topology -------------------------------
(***************************************************************************)
(* Where the tiles are and how a packet finds its way: the mesh and ATAC   *)
(* network models, the corner cases every model shares, and Config's map   *)
(* of tiles to processes.  Everything here is a function of the network's  *)
(* parameters n, a record with the fields                                  *)
(*   model, app (application tiles), procs, mode, shortcut,                *)
(*   tree (broadcast_tree_enabled),                                        *)
(*   cluster (tiles in a cluster), access (access points in a cluster),    *)
(*   strategy, threshold, lasers (laser_modes)                             *)
(* to which initialization adds, as the static members of the models do,   *)
(*   width, height (of the mesh), grid, subGrid (of ATAC's clusters).      *)
(***************************************************************************)
EXTENDS Integers, Sequences, TLC

INVALID_TILE_ID == -1
BROADCAST == -2

Hop(tile, node) == [tile |-> tile, node |-> node]

floorSqrt(k) == CHOOSE i \in 0 .. k : i * i <= k /\ k < (i + 1) * (i + 1)
ceilDiv(a, b) == (a + b - 1) \div b
floorLog2(k) == CHOOSE i \in 0 .. k : 2 ^ i <= k /\ k < 2 ^ (i + 1)

------------------------------------------------------------------------------
(* Config: the MCP's tile comes last, the thread spawners' before it.      *)

totalTiles(n) == n.app + 1 + (IF n.mode = "FULL" THEN n.procs ELSE 0)
MCPTile(n) == totalTiles(n) - 1
ThreadSpawnerTile(n, p) == totalTiles(n) - (1 + n.procs - p)
isApplicationTile(n, t) == t \in 0 .. n.app - 1
isSystemTile(n, t) == t \in n.app .. totalTiles(n) - 1

------------------------------------------------------------------------------
(* The electrical mesh.                                                    *)

meshWidth(n) == floorSqrt(n.app)
meshHeight(n) == ceilDiv(n.app, meshWidth(n))
emeshPermissible(n) == n.app = meshWidth(n) * meshHeight(n)

computePosition(n, t) == [x |-> t % n.width, y |-> t \div n.width]

computeTileID(n, x, y) ==
  IF x < 0 \/ y < 0 \/ x >= n.width \/ y >= n.height
    THEN INVALID_TILE_ID
    ELSE y * n.width + x

\* A mutant: along the column first
routeYX(n, here, dest) ==
  LET c == computePosition(n, here)
      d == computePosition(n, dest)
  IN CASE c.y > d.y -> Hop(computeTileID(n, c.x, c.y - 1), "EMESH")
       [] c.y < d.y -> Hop(computeTileID(n, c.x, c.y + 1), "EMESH")
       [] c.y = d.y /\ c.x > d.x -> Hop(computeTileID(n, c.x - 1, c.y), "EMESH")
       [] c.y = d.y /\ c.x < d.x -> Hop(computeTileID(n, c.x + 1, c.y), "EMESH")
       [] OTHER -> Hop(here, "RECEIVE_TILE")

\* One hop towards dest: along the row first, then along the column
routeXY(n, here, dest) ==
  LET c == computePosition(n, here)
      d == computePosition(n, dest)
  IN CASE c.x > d.x -> Hop(computeTileID(n, c.x - 1, c.y), "EMESH")
       [] c.x < d.x -> Hop(computeTileID(n, c.x + 1, c.y), "EMESH")
       [] c.x = d.x /\ c.y > d.y -> Hop(computeTileID(n, c.x, c.y - 1), "EMESH")
       [] c.x = d.x /\ c.y < d.y -> Hop(computeTileID(n, c.x, c.y + 1), "EMESH")
       [] OTHER -> Hop(here, "RECEIVE_TILE")

\* A mutant: the trunk of the tree stops at the sender
OneSidedTree(s, c) ==
  << [dx |-> 0, dy |-> 1, if |-> c.y >= s.y],
     [dx |-> 0, dy |-> -1, if |-> c.y <= s.y],
     [dx |-> 1, dy |-> 0, if |-> c.y = s.y /\ c.x > s.x],
     [dx |-> -1, dy |-> 0, if |-> c.y = s.y /\ c.x <= s.x] >>

\* Which neighbours a broadcast goes to next: the row of the sender is the
\* trunk, every tile of it starts a branch up and one down its column.
broadcastTree(s, c) ==
  << [dx |-> 0, dy |-> 1, if |-> c.y >= s.y],
     [dx |-> 0, dy |-> -1, if |-> c.y <= s.y],
     [dx |-> 1, dy |-> 0, if |-> c.y = s.y /\ c.x >= s.x],
     [dx |-> -1, dy |-> 0, if |-> c.y = s.y /\ c.x <= s.x] >>

\* The branches that leave the mesh are dropped.
routeBroadcast(n, here, sender) ==
  LET c == computePosition(n, here)
      OnMesh(b) == b.if /\ computeTileID(n, c.x + b.dx, c.y + b.dy) # INVALID_TILE_ID
      next == SelectSeq(broadcastTree(computePosition(n, sender), c), OnMesh)
  IN [i \in 1 .. Len(next) |-> Hop(computeTileID(n, c.x + next[i].dx, c.y + next[i].dy), "EMESH")]
       \o <<Hop(here, "RECEIVE_TILE")>>

\* NetworkModelEMeshHopByHop::routePacket
emeshRoute(n, here, pkt) ==
  CASE pkt.node = "SEND_TILE" -> <<Hop(here, "EMESH")>>
    [] pkt.node = "EMESH" /\ pkt.to = BROADCAST -> routeBroadcast(n, here, pkt.from)
    [] OTHER -> <<routeXY(n, here, pkt.to)>>

------------------------------------------------------------------------------
(* ATAC: the mesh inside a cluster, an optical hub in each cluster.        *)

numClusters(n) == n.app \div n.cluster

\* What initializeANetTopologyParams demands
atacPermissible(n) ==
  LET Power2(k) == \E i \in 0 .. k : 2 ^ i = k IN
  /\ n.access <= n.cluster /\ Power2(n.access)
  /\ meshWidth(n) * meshWidth(n) = n.app /\ Power2(n.app)
  /\ Power2(n.cluster) /\ n.app % n.cluster = 0
  /\ numClusters(n) > 1

\* A grid of numX by numY rectangles over one of width by height
Divided(width, height, numX, numY) ==
  [numX |-> numX, width |-> width \div numX, height |-> height \div numY]

\* initializeClusters: clusters and sub-clusters tile the mesh as squares,
\* or as rectangles when their number k is not a square.
clusterGrid(width, k) ==
  IF floorLog2(k) % 2 = 0 THEN Divided(width, width, floorSqrt(k), floorSqrt(k))
  ELSE Divided(width, width, floorSqrt(k \div 2), floorSqrt(k * 2))

subClusterGrid(g, k) ==
  IF floorLog2(k) % 2 = 0 THEN Divided(g.width, g.height, floorSqrt(k), floorSqrt(k))
  ELSE Divided(g.width, g.height, floorSqrt(k * 2), floorSqrt(k \div 2))

\* What initialization makes of the parameters
withMesh(n) == n @@ [width |-> meshWidth(n), height |-> meshHeight(n)]
withClusters(n) ==
  LET g == clusterGrid(meshWidth(n), numClusters(n))
  IN n @@ [grid |-> g, subGrid |-> subClusterGrid(g, n.access)]
Initialized(n) == IF n.model = "atac" THEN withClusters(withMesh(n)) ELSE withMesh(n)

ClusterAt(n, g, c) == (c.y \div g.height) * (n.width \div g.width) + (c.x \div g.width)

getClusterID(n, t) == ClusterAt(n, n.grid, computePosition(n, t))

\* The corner of cluster k with the smallest coordinates
clusterBase(n, k) ==
  LET meshOfClusters == n.width \div n.grid.width
  IN [x |-> (k % meshOfClusters) * n.grid.width, y |-> (k \div meshOfClusters) * n.grid.height]

\* The tile in the middle of the rectangle of g at b
Middle(n, g, b) == (b.y + (g.height \div 2)) * n.width + b.x + (g.width \div 2)

getTileIDWithOpticalHub(n, k) == Middle(n, n.grid, clusterBase(n, k))

\* A mutant: as many rows as columns
SquareClusters(n, g, b) ==
  [i \in 1 .. g.width * g.height |->
     (b.y + ((i - 1) % g.width)) * n.width + b.x + ((i - 1) \div g.width)]

\* getTileIDListInCluster: column by column
tilesFrom(n, g, b) ==
  [i \in 1 .. g.width * g.height |->
     (b.y + ((i - 1) % g.height)) * n.width + b.x + ((i - 1) \div g.height)]

getTileIDListInCluster(n, k) == tilesFrom(n, n.grid, clusterBase(n, k))

\* Where sub-cluster sub of the cluster at b begins
subClusterBase(g, b, sub) ==
  [x |-> b.x + (sub % g.numX) * g.width, y |-> b.y + (sub \div g.numX) * g.height]

getSubClusterID(g, b, c) == ((c.y - b.y) \div g.height) * g.numX + ((c.x - b.x) \div g.width)

\* getSubClusterID indexes the list initializeAccessPointList made.
accessPointOf(n, g, b, c) == Middle(n, g, subClusterBase(g, b, getSubClusterID(g, b, c)))

getNearestAccessPoint(n, t) ==
  accessPointOf(n, n.subGrid, clusterBase(n, getClusterID(n, t)), computePosition(n, t))

isAccessPoint(n, t) == t = getNearestAccessPoint(n, t)

computeNumHopsOnENet(n, s, r) ==
  LET a == computePosition(n, s)
      b == computePosition(n, r)
      Abs(i) == IF i < 0 THEN -i ELSE i
  IN Abs(a.x - b.x) + Abs(a.y - b.y)

computeGlobalRoute(n, s, r) ==
  CASE r = BROADCAST -> "ONET"
    [] r # BROADCAST /\ getClusterID(n, s) = getClusterID(n, r) -> "ENET"
    [] OTHER -> IF n.strategy = "DISTANCE_BASED" /\ computeNumHopsOnENet(n, s, r) <= n.threshold
                  THEN "ENET" ELSE "ONET"

\* A laser that can only be idle: a broadcast ends in an error.
laserSends(n) == n.lasers \cap {"unicast", "broadcast"} # {}

\* The hub of the sender's cluster reaches the hubs of all clusters, or the
\* receiver's; the hub there reaches all tiles of its cluster, or the receiver.
routePacketOnONet(n, here, pkt) ==
  CASE pkt.node = "EMESH" ->
         IF isAccessPoint(n, here)
           THEN <<Hop(getTileIDWithOpticalHub(n, getClusterID(n, here)), "SEND_HUB")>>
           ELSE <<routeXY(n, here, getNearestAccessPoint(n, pkt.from))>>
    [] pkt.node = "SEND_HUB" ->
         IF pkt.to = BROADCAST
           THEN [i \in 1 .. (IF laserSends(n) THEN numClusters(n) ELSE 0) |->
                   Hop(getTileIDWithOpticalHub(n, i - 1), "RECEIVE_HUB")]
           ELSE <<Hop(getTileIDWithOpticalHub(n, getClusterID(n, pkt.to)), "RECEIVE_HUB")>>
    [] pkt.node = "RECEIVE_HUB" ->
         IF pkt.to = BROADCAST
           THEN LET in == getTileIDListInCluster(n, getClusterID(n, here))
                IN [i \in 1 .. Len(in) |-> Hop(in[i], "RECEIVE_TILE")]
           ELSE <<Hop(pkt.to, "RECEIVE_TILE")>>

\* NetworkModelAtac::routePacket
atacRoute(n, here, pkt) ==
  IF pkt.node = "SEND_TILE" THEN <<Hop(here, "EMESH")>>
  ELSE IF computeGlobalRoute(n, pkt.from, pkt.to) = "ENET"
         THEN <<routeXY(n, here, pkt.to)>>
         ELSE routePacketOnONet(n, here, pkt)

------------------------------------------------------------------------------
(* What all models share.                                                  *)

hasBroadcastCapability(n) == n.model = "atac" \/ (n.model = "emesh_hop_by_hop" /\ n.tree)

isTileCountPermissible(n) ==
  CASE n.model = "emesh_hop_by_hop" -> emeshPermissible(n)
    [] n.model = "atac" -> atacPermissible(n)
    [] OTHER -> TRUE

\* NetworkModelMagic and NetworkModelEMeshHopCounter::routePacket
directRoute(pkt) == <<Hop(pkt.to, "RECEIVE_TILE")>>

\* NetworkModel::processCornerCases: the hops it makes, and whether the
\* packet is done with.
processCornerCases(n, pkt) ==
  LET toEach(from, to) == [i \in 1 .. to - from + 1 |-> Hop(from + i - 1, "RECEIVE_TILE")]
      all == pkt.to = BROADCAST
  IN IF ~isSystemTile(n, pkt.from) /\ ~isSystemTile(n, pkt.to) /\ pkt.from # pkt.to
       THEN [done |-> FALSE,
             hops |-> IF all THEN toEach(n.app, totalTiles(n) - 1) ELSE <<>>]
       ELSE [done |-> TRUE,
             hops |-> IF all THEN toEach(0, totalTiles(n) - 1) ELSE directRoute(pkt)]

\* NetworkModel::__routePacket in the network of tile here.  The system
\* network is always a magic one.
routePacket(n, here, pkt) ==
  LET corner == IF pkt.node = "SEND_TILE" THEN processCornerCases(n, pkt)
                ELSE [done |-> FALSE, hops |-> <<>>]
      onward == CASE pkt.system \/ n.model \in {"magic", "emesh_hop_counter"} -> directRoute(pkt)
                  [] n.model = "emesh_hop_by_hop" -> emeshRoute(n, here, pkt)
                  [] n.model = "atac" -> atacRoute(n, here, pkt)
  IN corner.hops \o (IF corner.done THEN <<>> ELSE onward)

\* What it asserts of the hops it finds, and the assertions of the two models
hopAsserts(n, here, pkt, hops) ==
  /\ pkt.node = "SEND_TILE" => pkt.from = here
  /\ pkt.node # "SEND_TILE" =>
       /\ isApplicationTile(n, pkt.from) /\ pkt.from # pkt.to
       /\ isApplicationTile(n, pkt.to) \/ pkt.to = BROADCAST
  /\ \A i \in DOMAIN hops : hops[i].tile \in 0 .. totalTiles(n) - 1
  /\ n.model = "atac" /\ pkt.node = "EMESH" /\ computeGlobalRoute(n, pkt.from, pkt.to) = "ONET"
       => getClusterID(n, pkt.from) = getClusterID(n, here)
  /\ n.model = "atac" /\ pkt.node = "SEND_HUB" /\ pkt.to = BROADCAST => laserSends(n)

routeAsserts(n, here, pkt) == hopAsserts(n, here, pkt, routePacket(n, here, pkt))

------------------------------------------------------------------------------
(* Which process simulates which tile, as pairs <<process, tile>>.         *)

\* NetworkModelEMeshHopByHop: a grid of processes over the upper part of
\* the mesh; those that do not fit in the grid share the rows that are left.
processGrid(n) ==
  LET width == floorSqrt(n.procs)
      height == n.procs \div width
  IN [width |-> width, height |-> height,
      rows |-> (n.height * width * height) \div n.procs]

processRectangle(n, p) ==
  LET g == processGrid(n)
      inGrid == g.width * g.height
      left == n.procs - inGrid
      i == IF p < inGrid THEN p % g.width ELSE p - inGrid
      j == p \div g.width
      sizeX == n.width \div (IF p < inGrid THEN g.width ELSE left)
      sizeY == IF p < inGrid THEN g.rows \div g.height ELSE n.height - g.rows
      lastX == IF p < inGrid THEN i = g.width - 1 ELSE p = n.procs - 1
      lastY == p < inGrid /\ j = g.height - 1
  IN [x |-> i * sizeX,
      y |-> IF p < inGrid THEN j * sizeY ELSE g.rows,
      width |-> IF lastX THEN n.width - i * sizeX ELSE sizeX,
      height |-> IF lastY THEN g.rows - j * sizeY ELSE sizeY]

tilesIn(n, r) ==
  {x + y * n.width : x \in r.x .. r.x + r.width - 1, y \in r.y .. r.y + r.height - 1}

emeshProcessToTile(n) ==
  UNION {{<<p, t>> : t \in tilesIn(n, processRectangle(n, p))} : p \in 0 .. n.procs - 1}

\* NetworkModelAtac: whole clusters, dealt out in turn
atacProcessToTile(n) ==
  {<<getClusterID(n, t) % n.procs, t>> : t \in 0 .. n.app - 1}

\* Config::computeProcessToTileMapping when no network has a map of its own
dealtProcessToTile(n) == {<<t % n.procs, t>> : t \in 0 .. totalTiles(n) - 1}

computeProcessToTileMapping(n) ==
  CASE n.model = "emesh_hop_by_hop" -> emeshProcessToTile(n)
    [] n.model = "atac" -> atacProcessToTile(n)
    [] OTHER -> dealtProcessToTile(n)

\* Config::GenerateTileMap.  In lite mode there are no thread spawners, and
\* the last application tile takes the place of one.
GenerateTileMap(n) ==
  LET firstSpawner == totalTiles(n) - n.procs - 1 IN
  {pt \in computeProcessToTileMapping(n) : pt[2] < firstSpawner}
    \cup {<<t - firstSpawner, t>> : t \in firstSpawner .. totalTiles(n) - 2}
    \cup {<<0, MCPTile(n)>>}

\* m_tile_to_proc_map
processIn(map, n) ==
  [t \in 0 .. totalTiles(n) - 1 |->
     IF \E pt \in map : pt[2] = t THEN (CHOOSE pt \in map : pt[2] = t)[1] ELSE 0]

processOf(n) == processIn(GenerateTileMap(n), n)

------------------------------------------------------------------------------
(* Where the k-th of m memory controllers goes.                            *)

\* NetworkModelEMeshHopByHop: in the middle of its rectangle
emeshController(n, m, k) ==
  LET width == floorSqrt(m)
      height == ceilDiv(m, width)
      i == k % width
      j == k \div width
      sizeX == n.width \div width
      sizeY == n.height \div height
      lastX == IF i = width - 1 THEN n.width - (width - 1) * sizeX ELSE sizeX
      lastY == IF j = height - 1 THEN n.height - (height - 1) * sizeY ELSE sizeY
  IN (i * sizeX + (lastX \div 2)) + (j * sizeY + (lastY \div 2)) * n.width

\* NetworkModelAtac: at the hub of cluster k
atacController(n, k) == getTileIDWithOpticalHub(n, k)

\* The other models: evenly spaced
spacedController(n, m, k) == k * (n.app \div m)

computeMemoryControllerPositions(n, m) ==
  [k \in 0 .. m - 1 |->
     CASE n.model = "atac" -> atacController(n, k)
       [] n.model = "emesh_hop_by_hop" -> emeshController(n, m, k)
       [] OTHER -> spacedController(n, m, k)]
==============================================================================
