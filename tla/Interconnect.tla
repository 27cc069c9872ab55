------------------------------ MODULE Interconnect ------------------------------
(***************************************************************************)
(* The interconnection network of mini-computer-arch                       *)
(* (src/interconnect.c): five topologies, the route between two nodes and  *)
(* its latency.  The bus, the crossbar and the tree take one hop, the mesh *)
(* goes along the row and then along the column, the ring the shorter way  *)
(* round.                                                                  *)
(*                                                                         *)
(* A path buffer of INTERCONNECT_MAX_HOPS entries is shorter than the      *)
(* longest path of a large mesh or ring and is written without a test: the *)
(* instances stay below that size.  Latencies are doubled, to be whole.    *)
(* Left out: the tree's latency and bandwidth, which are logarithms, and   *)
(* the coordinates and the routing table, which nothing uses.              *)
(***************************************************************************)
EXTENDS Integers, Sequences, FiniteSets, SequencesExt

CONSTANTS
    INTERCONNECT_MAX_NODES,  \* nodes the network holds
    MeshWidths               \* bound: the widths asked for

ASSUME IntcnAssumption == INTERCONNECT_MAX_NODES \in Nat /\ MeshWidths \subseteq Nat

Topology == {"BUS", "CROSSBAR", "MESH", "RING", "TREE"}

VARIABLE icn   \* topology, node_count and mesh_width

--------------------------------------------------------------------------------
Towards(from, to) == IF from = to THEN <<>>
                     ELSE IF from < to THEN [i \in 1 .. to - from |-> from + i]
                          ELSE [i \in 1 .. from - to |-> from - i]

\* A node outside the mesh: the path ends where it starts.
mesh_route(w, src, dst) ==
    IF src >= w * w \/ dst >= w * w THEN [path |-> <<src>>, hops |-> 1]
    ELSE LET row    == src \div w
             along  == Towards(src % w, dst % w)
             column == Towards(row, dst \div w)
         IN  [path |-> <<src>> \o [i \in DOMAIN along |-> row * w + along[i]]
                               \o [i \in DOMAIN column |-> column[i] * w + (dst % w)],
              hops |-> Len(along) + Len(column)]

\* Mutant of ring_route: going backwards is not wrapped at node 0.
RingForward(n, src, dst) ==
    LET forward == IF dst >= src THEN dst - src ELSE n - src + dst
    IN  [path |-> <<src>> \o [i \in 1 .. forward |-> (src + i) % n], hops |-> forward]

\* Equal ways are walked forward.
ring_route(n, src, dst) ==
    LET forward  == IF dst >= src THEN dst - src ELSE n - src + dst
        backward == IF src >= dst THEN src - dst ELSE src + n - dst
    IN  IF n = 0 THEN [path |-> <<>>, hops |-> 0]
        ELSE IF forward <= backward
             THEN [path |-> <<src>> \o [i \in 1 .. forward |-> (src + i) % n], hops |-> forward]
             ELSE [path |-> <<src>> \o [i \in 1 .. backward |-> (src + n - i) % n], hops |-> backward]

\* Bus, crossbar and tree; the hop is counted even from a node to itself.
bus_route(src, dst) == [path |-> IF src = dst THEN <<src>> ELSE <<src, dst>>, hops |-> 1]

intcn_route(src, dst) ==
    IF src >= INTERCONNECT_MAX_NODES \/ dst >= INTERCONNECT_MAX_NODES
    THEN [path |-> <<>>, hops |-> 0]
    ELSE CASE icn.topology = "MESH" -> mesh_route(icn.mesh_width, src, dst)
           [] icn.topology = "RING" -> ring_route(icn.node_count, src, dst)
           [] OTHER                 -> bus_route(src, dst)

\* Twice the latency in nanoseconds.
intcn_latency(src, dst) ==
    CASE icn.topology = "BUS"      -> IF src = dst THEN 2 ELSE 4
      [] icn.topology = "CROSSBAR" -> 4
      [] icn.topology = "MESH"     -> 4 * intcn_route(src, dst).hops + 2
      [] icn.topology = "RING"     -> 3 * intcn_route(src, dst).hops + 2

intcn_bandwidth ==
    CASE icn.topology = "BUS"      -> 1
      [] icn.topology = "CROSSBAR" -> icn.node_count
      [] icn.topology = "MESH"     -> 2 * icn.mesh_width
      [] icn.topology = "RING"     -> 2
--------------------------------------------------------------------------------
\* A width of zero asks for the default.
IntcnInit ==
    \E t \in Topology, w \in MeshWidths :
        icn = [topology |-> t, node_count |-> 0, mesh_width |-> IF w > 0 THEN w ELSE 4]

\* A full network takes no more nodes.
intcn_add_node ==
    /\ icn.node_count < INTERCONNECT_MAX_NODES
    /\ icn' = [icn EXCEPT !.node_count = @ + 1]

IntcnSpec == IntcnInit /\ [][intcn_add_node]_icn
--------------------------------------------------------------------------------
(* Properties. *)

Nodes == 0 .. icn.node_count - 1
OnMesh(n) == icn.topology = "MESH" => n < icn.mesh_width * icn.mesh_width

Distance(a, b) == IF a <= b THEN b - a ELSE a - b

\* Nodes with a wire between them, and the fewest wires from one node to another.
Wired(a, b) ==
    LET w == icn.mesh_width n == icn.node_count
    IN  CASE icn.topology = "MESH" -> \/ a \div w = b \div w /\ Distance(a % w, b % w) = 1
                                      \/ a % w = b % w /\ Distance(a \div w, b \div w) = 1
          [] icn.topology = "RING" -> (a + 1) % n = b \/ (b + 1) % n = a
          [] OTHER -> a # b
Fewest(a, b) ==
    LET w == icn.mesh_width n == icn.node_count
    IN  CASE icn.topology = "MESH" -> Distance(a % w, b % w) + Distance(a \div w, b \div w)
          [] icn.topology = "RING" -> IF Distance(a, b) <= n - Distance(a, b) THEN Distance(a, b)
                                      ELSE n - Distance(a, b)
          [] OTHER -> IF a = b THEN 0 ELSE 1

\* The channels of a path in order, and which channel a packet holds while it waits for which.
Channels(p) == [i \in 1 .. Len(p) - 1 |-> <<p[i], p[i + 1]>>]
Waits ==
    UNION {LET c == Channels(intcn_route(a, b).path) IN {<<c[i], c[i + 1]>> : i \in 1 .. Len(c) - 1} :
              a \in Nodes, b \in Nodes}

\* Channels from which a wait leads on, with those that only lead to an end taken away.
Acyclic(waits) ==
    LET Trim(E) == {e \in E : \E f \in E : f[1] = e[2]}
        Trimmed[n \in 0 .. Cardinality(waits)] == IF n = 0 THEN waits ELSE Trim(Trimmed[n - 1])
    IN  Trimmed[Cardinality({e[1] : e \in waits})] = {}

\* Every route starts and ends where it should, over wires that exist, by the fewest
\* hops, as fast there as back; and on the mesh the routes together make no cycle of
\* channels that wait for each other, so that packets cannot block one another for ever
\* (on the ring they may).
RoutesDeliver ==
    /\ \A a, b \in {n \in Nodes : OnMesh(n)} :
          LET r == intcn_route(a, b)
          IN  /\ r.path[1] = a /\ r.path[Len(r.path)] = b
              /\ \A i \in 1 .. Len(r.path) - 1 : Wired(r.path[i], r.path[i + 1])
              /\ Len(r.path) - 1 = Fewest(a, b)
              /\ icn.topology \in {"MESH", "RING"} => r.hops = Fewest(a, b)
              /\ icn.topology # "TREE" => intcn_latency(a, b) = intcn_latency(b, a)
    /\ icn.topology = "MESH" => Acyclic(Waits)
================================================================================
