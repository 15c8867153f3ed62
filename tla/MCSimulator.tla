----------------------------- MODULE MCSimulator -----------------------------
(* Networks to look at: a few that carry traffic, three that are taken     *)
(* down, and many whose maps and routes are computed but that do not run.  *)
EXTENDS Simulator

Mesh(app, procs) ==
  [model |-> "emesh_hop_by_hop", app |-> app, procs |-> procs, mode |-> "FULL", shortcut |-> FALSE,
   tree |-> TRUE, cluster |-> 1, access |-> 1, strategy |-> "CLUSTER_BASED", threshold |-> 0,
   lasers |-> {"idle", "unicast", "broadcast"},
   traffic |-> {}, sends |-> 0, runs |-> FALSE, ends |-> FALSE]

Atac(app, cluster, access, procs) ==
  [Mesh(app, procs) EXCEPT !.model = "atac", !.cluster = cluster, !.access = access]

Carries(n, pairs) == [n EXCEPT !.traffic = pairs, !.sends = 2, !.runs = TRUE]

\* A broadcast and a packet of the same tile, crossing each other and
\* two processes
Pairs == {<<0, BROADCAST>>, <<0, 3>>, <<3, BROADCAST>>}

Running ==
  { Carries([Mesh(4, 1) EXCEPT !.mode = "LITE", !.model = "magic"], {<<0, BROADCAST>>, <<0, 3>>}),
    Carries([Mesh(2, 1) EXCEPT !.mode = "LITE", !.model = "emesh_hop_counter"],
            {<<0, BROADCAST>>, <<0, 1>>}),
    Carries([Mesh(4, 1) EXCEPT !.mode = "LITE", !.tree = FALSE], {<<0, BROADCAST>>, <<0, 3>>}),
    Carries([Atac(4, 2, 1, 1) EXCEPT !.mode = "LITE", !.shortcut = TRUE], {<<0, BROADCAST>>, <<0, 1>>}),
    Carries([Atac(4, 2, 1, 1) EXCEPT !.mode = "LITE"], {<<0, BROADCAST>>, <<0, 3>>}),
    Carries([Mesh(4, 1) EXCEPT !.mode = "LITE"], Pairs),
    Carries(Mesh(2, 2), {<<0, BROADCAST>>, <<0, 1>>}),
    Carries(Mesh(3, 2), {<<0, BROADCAST>>, <<0, 2>>}),
    [Carries(Mesh(4, 2), {<<0, BROADCAST>>}) EXCEPT !.sends = 1] }

\* One with a packet that may still be on its way when the simulation ends, and
\* one that carries nothing
Ending ==
  { [Carries(Mesh(2, 2), {<<0, 1>>}) EXCEPT !.sends = 1, !.ends = TRUE],
    [Mesh(1, 1) EXCEPT !.runs = TRUE, !.ends = TRUE, !.mode = "LITE"] }

Still ==
  {Mesh(a, p) : a \in {1, 2, 4, 6, 9, 12}, p \in 1 .. 6}
  \cup {Atac(16, c, a, p) : c \in {2, 4, 8}, a \in {1, 2}, p \in {1, 3}}
  \cup {[Atac(16, 4, 4, 1) EXCEPT !.strategy = "DISTANCE_BASED", !.threshold = d,
        !.lasers = {"unicast"}] : d \in {1, 3}}

\* One process in full mode, which is how the simulator is started by default
OneProcess == {[Mesh(1, 1) EXCEPT !.runs = TRUE, !.ends = TRUE]}

AllNets == Running \cup Ending \cup OneProcess \cup Still
==============================================================================
