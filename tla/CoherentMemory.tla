--------------------------- MODULE CoherentMemory ---------------------------
(***************************************************************************)
(* What a coherence protocol of the memory subsystem promises, without     *)
(* caches, messages or directory: every tile has a permission on every     *)
(* line, and a store needs the only write permission there is.             *)
(***************************************************************************)
CONSTANTS Tiles, Addrs, Values, InitVal

VARIABLES
  mem,   \* the value of every line
  perm   \* [Tiles -> [Addrs -> {"I", "S", "M"}]]

Init ==
  /\ mem = [a \in Addrs |-> InitVal]
  /\ perm = [t \in Tiles |-> [a \in Addrs |-> "I"]]

Store(t, a, v) ==
  /\ perm[t][a] = "M"
  /\ mem' = [mem EXCEPT ![a] = v]
  /\ perm' = perm

\* p is a new permission for t next to what the other tiles have.
MayHave(t, a, p) ==
  \/ p = "I"
  \/ p = "S" /\ \A u \in Tiles \ {t} : perm[u][a] # "M"
  \/ p = "M" /\ \A u \in Tiles \ {t} : perm[u][a] = "I"

\* Tile t gains or loses permissions (a fill may evict another line).
Change(t) ==
  /\ \E p \in [Addrs -> {"I", "S", "M"}] :
       /\ perm' = [perm EXCEPT ![t] = p]
       /\ \A a \in Addrs : MayHave(t, a, p[a])
  /\ mem' = mem

Next == \E t \in Tiles : Change(t) \/ \E a \in Addrs, v \in Values : Store(t, a, v)

Spec == Init /\ [][Next]_<<mem, perm>>
=============================================================================
