----------------------------- MODULE Schedulers -----------------------------
(***************************************************************************)
(* batch_node_select of the four scheduler plugins: the lists of nodes     *)
(* they may return for h hosts, given the NodeInfo records in snap (a      *)
(* function from nodes to count and capacity).  Nodes are numbers, in the  *)
(* order of their hostnames.                                               *)
(***************************************************************************)
EXTENDS Integers, Sequences, FiniteSets, SequencesExt

Plugins == {"greedy", "least_load", "least_load_random", "load_weighted_random"}

Room(snap, n) == snap[n].cap - snap[n].count
Available(snap) == {n \in DOMAIN snap : snap[n].count < snap[n].cap}

(* What the nodes in S can take: a place for each host.  No node has more  *)
(* hosts than its capacity (CapacityRespected of PinnedPool), so the       *)
(* number of places is the sum of what is left.                            *)
Places(snap, S) == UNION {{n} \X (1..Room(snap, n)) : n \in S}

(* The check all of them begin with. *)
TotalRoom(snap) == Cardinality(Places(snap, DOMAIN snap))

(* Mutant: no room may be left. *)
NoneLeft(snap, h) == TotalRoom(snap) <= h
TooMany(snap, h) == TotalRoom(snap) < h

(* Mutant: a node is filled one host past its capacity. *)
OneTooMany(a, b) == IF a < b THEN a + 1 ELSE b
AtMost(a, b) == IF a < b THEN a ELSE b

(* Each node in turn takes as many hosts as it has room for. *)
Fill(snap, order, h) ==
  LET list[k \in 0..Len(order)] ==
        IF k = 0 THEN <<>>
        ELSE list[k - 1] \o
               [i \in 1..AtMost(Room(snap, order[k]), h - Len(list[k - 1])) |-> order[k]]
  IN list[Len(order)]

(* Sort keys: greedy takes the fullest node first, least_load the emptiest *)
(* one; then the one with more room, then the hostname.  FullestFirst also *)
(* serves as a mutant of EmptiestFirst: the sign of the first key is lost. *)
MoreRoom(snap, m, n) ==
  \/ Room(snap, m) > Room(snap, n)
  \/ Room(snap, m) = Room(snap, n) /\ m < n

FullestFirst(snap, m, n) ==
  \/ snap[m].count > snap[n].count
  \/ snap[m].count = snap[n].count /\ MoreRoom(snap, m, n)

EmptiestFirst(snap, m, n) ==
  \/ snap[m].count < snap[n].count
  \/ snap[m].count = snap[n].count /\ MoreRoom(snap, m, n)

(* The available nodes in the order of a sort key: one list, since the     *)
(* keys are linear orders.                                                 *)
ByFullest(snap) ==
  {s \in SetToSeqs(Available(snap)) :
     \A i, j \in DOMAIN s : i < j => FullestFirst(snap, s[i], s[j])}

ByEmptiest(snap) ==
  {s \in SetToSeqs(Available(snap)) :
     \A i, j \in DOMAIN s : i < j => EmptiestFirst(snap, s[i], s[j])}

Greedy(snap, h) == {Fill(snap, order, h) : order \in ByFullest(snap)}
LeastLoad(snap, h) == {Fill(snap, order, h) : order \in ByEmptiest(snap)}

Times(r, n) == Cardinality({i \in DOMAIN r : r[i] = n})
WithinRoom(snap, r) == \A n \in DOMAIN snap : Times(r, n) <= Room(snap, n)

LoadWeightedRandom(snap, h) ==
  {r \in [1..h -> Available(snap)] : WithinRoom(snap, r)}

(* least_load_random: of the nodes with the same count only those with the *)
(* most room take part; what does not fit on them goes to the next count,  *)
(* and past the last count there is no node.                               *)
Level(snap, c) == {n \in Available(snap) : snap[n].count = c}
BestOf(snap, c) == {n \in Level(snap, c) : \A m \in Level(snap, c) : Room(snap, m) <= Room(snap, n)}
RoomOfBest(snap, c) == Cardinality(Places(snap, BestOf(snap, c)))
BestBelow(snap, c) == UNION {BestOf(snap, b) : b \in 0..(c - 1)}
RoomBelow(snap, c) == Cardinality(Places(snap, BestBelow(snap, c)))

NodesFor(snap, i) ==
  UNION {BestOf(snap, c) : c \in {b \in {snap[n].count : n \in Available(snap)} :
           RoomBelow(snap, b) < i /\ i <= RoomBelow(snap, b) + RoomOfBest(snap, b)}}

LeastLoadRandom(snap, h, none) ==
  {r \in [1..h -> Available(snap) \cup {none}] :
     /\ \A i \in 1..h : IF NodesFor(snap, i) = {} THEN r[i] = none ELSE r[i] \in NodesFor(snap, i)
     /\ WithinRoom(snap, r)}

BatchNodeSelect(plugin, snap, h, none) ==
  CASE plugin = "greedy"               -> Greedy(snap, h)
    [] plugin = "least_load"           -> LeastLoad(snap, h)
    [] plugin = "least_load_random"    -> LeastLoadRandom(snap, h, none)
    [] plugin = "load_weighted_random" -> LoadWeightedRandom(snap, h)
=============================================================================
