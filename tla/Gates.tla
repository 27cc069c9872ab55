--------------------------------- MODULE Gates ---------------------------------
(* mini-digital-circuit: networks of gates and their evaluation order              *)
(* (src/logic_gate.c), the arithmetic built from them (src/combinational.c,        *)
(* src/alu.c) and static timing (src/timing.c).  Wires are numbers, delays are     *)
(* integers; names, printing, delays of gates and tri-state values are left out.   *)
EXTENDS Integers, Sequences, FiniteSets, SequencesExt, FiniteSetsExt

CONSTANTS
    GateTypes,          \* the gate types a network is built from
    GATE_NET_MAX_GATES, \* capacity of the gate table
    NetWires,           \* wires 0 .. NetWires-1 of the network
    GateMenu,           \* bound: gates a network is built from, [type, inputs, output]
    Width,              \* bits of the arithmetic units, 32 or 64 in the code
    TIMING_MAX_NODES, TIMING_MAX_PATHS,
    TimingArcs,         \* bound: edges of a timing graph, <<from, to, delay>>
    Periods,            \* bound: clock periods
    Setup, Hold         \* t_setup_ps and t_hold_ps

VARIABLES
    net,        \* GateNetwork: gates, wires, sorted, order; and whether it was just evaluated
    operands,   \* what the arithmetic units were given
    tg          \* TimingGraph, and whether its slacks are up to date

gates_vars == <<net, operands, tg>>

-----------------------------------------------------------------------------
(* Gates. *)

\* A gate of one input looks at the first wire only.
GateValue(type, in) ==
    LET ones == Cardinality({i \in DOMAIN in : in[i]})
        all == ones = Len(in)
        some == ones > 0
        odd == ones % 2 = 1
    IN  CASE type = "AND" -> all [] type = "NAND" -> ~all
          [] type = "OR" -> some [] type = "NOR" -> ~some
          [] type = "XOR" -> odd [] type = "XNOR" -> ~odd
          [] type = "NOT" -> ~in[1] [] type = "BUF" -> in[1]

Bit(n, i) == (n \div (2 ^ i)) % 2
Bits(n, width) == [i \in 1 .. width |-> Bit(n, i - 1) = 1]

truth_table_create(type, num_inputs) ==
    [row \in 0 .. 2 ^ num_inputs - 1 |-> GateValue(type, Bits(row, num_inputs))]

gate_complement(type) ==
    CASE type = "AND" -> "OR" [] type = "OR" -> "AND" [] type = "NAND" -> "NOR" [] type = "NOR" -> "NAND"
      [] type = "XOR" -> "XNOR" [] type = "XNOR" -> "XOR" [] OTHER -> type

-----------------------------------------------------------------------------
(* The network: gates by number from 1, in the order they were added. *)

gate_net_create ==
    [gates |-> <<>>, wires |-> [w \in 0 .. NetWires - 1 |-> FALSE], sorted |-> FALSE, order |-> <<>>, fresh |-> FALSE]

\* How many inputs of gate j the output of gate i drives; a gate that drives itself is skipped.
Drives(gates, i, j) ==
    IF i = j THEN 0 ELSE Cardinality({k \in DOMAIN gates[j].inputs : gates[j].inputs[k] = gates[i].output})

Consumers(gates, i) == {j \in DOMAIN gates : Drives(gates, i, j) > 0}

\* Mutant of TopoOrder: a gate is ready as soon as its first driver is placed.
TopoOrderFirst(gates) ==
    LET InOrder(S) == SetToSortSeq(S, <)
        Visit[queue \in Seq(DOMAIN gates), head \in Nat] ==
            IF head > Len(queue) THEN queue
            ELSE Visit[queue \o InOrder(Consumers(gates, queue[head]) \ ToSet(queue)), head + 1]
    IN  Visit[InOrder({j \in DOMAIN gates : \A i \in DOMAIN gates : Drives(gates, i, j) = 0}), 1]

\* Kahn's algorithm: a queue in order of insertion, in-degrees counted per connected input.
TopoOrder(gates) ==
    LET G == DOMAIN gates
        indegree == [j \in G |-> MapThenSumSet(LAMBDA i : Drives(gates, i, j), G)]
        InOrder(S) == SetToSortSeq(S, <)
        Visit[queue \in Seq(G), head \in Nat, left \in [G -> Nat]] ==
            IF head > Len(queue) THEN queue
            ELSE LET rest == [j \in G |-> left[j] - Drives(gates, queue[head], j)]
                     ready == {j \in Consumers(gates, queue[head]) : rest[j] = 0}
                 IN  Visit[queue \o InOrder(ready), head + 1, rest]
    IN  Visit[InOrder({j \in G : indegree[j] = 0}), 1, indegree]

gate_net_topo_sort(n) ==
    LET order == TopoOrder(n.gates)
    IN  [n EXCEPT !.order = order, !.sorted = Len(order) = Len(n.gates)]

logic_eval(wires, gate) ==
    [wires EXCEPT ![gate.output] = GateValue(gate.type, [k \in DOMAIN gate.inputs |-> wires[gate.inputs[k]]])]

\* A network that cannot be sorted evaluates the gates before its loops only.
gate_net_evaluate(n) ==
    LET ready == IF n.sorted THEN n ELSE gate_net_topo_sort(n)
        After[i \in 0 .. Len(ready.order)] ==
            IF i = 0 THEN ready.wires ELSE logic_eval(After[i - 1], ready.gates[ready.order[i]])
    IN  [ready EXCEPT !.wires = After[Len(ready.order)], !.fresh = TRUE]

gate_net_is_cyclic(gates) ==
    LET Reach[k \in 0 .. Len(gates)] ==
            IF k = 0 THEN [i \in DOMAIN gates |-> Consumers(gates, i)]
            ELSE [i \in DOMAIN gates |-> Reach[k - 1][i] \cup UNION {Consumers(gates, j) : j \in Reach[k - 1][i]}]
    IN  \E i \in DOMAIN gates : i \in Reach[Len(gates)][i]

\* Levels are relaxed along the order.
gate_net_logic_depth(n) ==
    LET ready == gate_net_topo_sort(n)
        Depth[k \in 0 .. Len(ready.order)] ==
            IF k = 0 THEN [j \in DOMAIN n.gates |-> 0]
            ELSE [j \in DOMAIN n.gates |->
                     IF j \in Consumers(n.gates, ready.order[k])
                     THEN Max({Depth[k - 1][j], Depth[k - 1][ready.order[k]] + 1}) ELSE Depth[k - 1][j]]
    IN  IF ~ready.sorted THEN -1 ELSE Max({0} \cup Range(Depth[Len(ready.order)]))

\* Pairs of drivers of one gate, an inverter and something else.
gate_net_detect_hazards(gates) ==
    LET Drivers(i) == {k \in DOMAIN gates : \E j \in DOMAIN gates[i].inputs : gates[k].output = gates[i].inputs[j]}
        Inverted(k) == gates[k].type = "NOT"
    IN  MapThenSumSet(LAMBDA i : Cardinality({p \in Drivers(i) \X Drivers(i) :
                                                  p[1] < p[2] /\ Inverted(p[1]) # Inverted(p[2])}), DOMAIN gates)

-----------------------------------------------------------------------------
(* Arithmetic on Width bits. *)

Top == 2 ^ Width
Words == 0 .. Top - 1
Signed(x) == IF x >= Top \div 2 THEN x - Top ELSE x
Negative(x) == x >= Top \div 2
And(x, y) == MapThenSumSet(LAMBDA i : Bit(x, i) * Bit(y, i) * 2 ^ i, 0 .. Width - 1)
Xor(x, y) == x + y - 2 * And(x, y)

full_adder(a, b, cin) == [sum |-> (a + b + cin) % 2, cout |-> IF a * b = 1 \/ (a # b /\ cin = 1) THEN 1 ELSE 0]

\* The carry runs through the full adders.
ripple_adder_compute(a, b) ==
    LET At[i \in 0 .. Width] ==
            IF i = 0 THEN [sum |-> 0, carry |-> 0]
            ELSE LET fa == full_adder(Bit(a, i - 1), Bit(b, i - 1), At[i - 1].carry)
                 IN  [sum |-> At[i - 1].sum + fa.sum * 2 ^ (i - 1), carry |-> fa.cout]
    IN  At[Width]

\* The carries come from generate and propagate signals alone.
cla_compute(a, b, cin) ==
    LET p == [i \in 0 .. Width - 1 |-> Bit(a, i) # Bit(b, i)]
        g == [i \in 0 .. Width - 1 |-> Bit(a, i) = 1 /\ Bit(b, i) = 1]
        c[i \in 0 .. Width] == IF i = 0 THEN cin = 1 ELSE g[i - 1] \/ (p[i - 1] /\ c[i - 1])
    IN  [sum |-> MapThenSumSet(LAMBDA i : IF p[i] # c[i] THEN 2 ^ i ELSE 0, 0 .. Width - 1),
         carry |-> IF c[Width] THEN 1 ELSE 0]

array_mul_compute(a, b) == MapThenSumSet(LAMBDA i : Bit(b, i) * a * 2 ^ i, 0 .. Width - 1)

pr_encoder(mask) ==
    LET set == {i \in 0 .. Width - 1 : Bit(mask, i) = 1}
    IN  [valid |-> set # {}, output_val |-> IF set = {} THEN 0 ELSE Max(set)]

decoder_set_input(val) == [i \in 0 .. Width - 1 |-> IF i = val THEN 1 ELSE 0]

\* The amount is taken modulo the width.
barrel_compute(type, in, amount) ==
    LET sh == amount % Width
        left == in * 2 ^ sh
        right == in \div 2 ^ sh
    IN  CASE type = "SHIFT_LL" -> left % Top
          [] type = "SHIFT_LR" -> right
          [] type = "SHIFT_AR" -> (right + (IF Negative(in) THEN (2 ^ sh - 1) * 2 ^ (Width - sh) ELSE 0)) % Top
          [] type = "SHIFT_ROL" -> (left % Top) + ((in \div 2 ^ (Width - sh)) % Top)
          [] type = "SHIFT_ROR" -> right + ((in * 2 ^ (Width - sh)) % Top)

alu_result(op, a, b) ==
    CASE op = "ADD" -> (a + b) % Top
      [] op = "SUB" -> (a - b) % Top
      [] op = "MUL" -> (a * b) % Top
      [] op = "DIV" -> IF b = 0 THEN 0 ELSE a \div b
      [] op = "MOD" -> IF b = 0 THEN 0 ELSE a % b
      [] op = "SHL" -> (a * 2 ^ (b % Width)) % Top
      [] op = "SHR" -> a \div 2 ^ (b % Width)
      [] op = "SAR" -> (Signed(a) \div 2 ^ (b % Width)) % Top
      [] op = "CMP" -> a

\* A comparison sets its flags first and its result, the first operand, adds to them.
alu_flags(op, a, b) ==
    LET res == alu_result(op, a, b)
        Parity == MapThenSumSet(LAMBDA i : Bit(res, i), 0 .. Width - 1) % 2
    IN  [CARRY    |-> (op = "ADD" /\ res < a) \/ (op = "SUB" /\ a >= b),
         OVERFLOW |-> \/ op = "ADD" /\ Negative(a) = Negative(b) /\ Negative(a) # Negative(res)
                      \/ op = "SUB" /\ Negative(a) # Negative(b) /\ Negative(a) # Negative(res)
                      \/ op = "MUL" /\ a * b >= Top
                      \/ op \in {"DIV", "MOD"} /\ b = 0,
         ZERO     |-> res = 0 \/ (op = "CMP" /\ a = b),
         NEGATIVE |-> Negative(res) \/ (op = "CMP" /\ a # b /\ Signed(a) < Signed(b)),
         PARITY   |-> Parity = 1]

-----------------------------------------------------------------------------
(* Static timing.  The loops run until nothing changes; on a loop of edges they    *)
(* would never end, and the call does not return.                                   *)

timing_graph_create(period) == [nodes |-> <<>>, edges |-> <<>>, clock_period |-> period, current |-> FALSE]

timing_add_node(g, is_in, is_out) ==
    IF Len(g.nodes) >= TIMING_MAX_NODES THEN g
    ELSE [g EXCEPT !.nodes = Append(@, [arrival |-> 0, required |-> g.clock_period, slack |-> 0,
                                        is_input |-> is_in, is_output |-> is_out]), !.current = FALSE]

timing_add_edge(g, from, to, delay) ==
    IF Len(g.edges) >= TIMING_MAX_PATHS \/ ~({from, to} \subseteq DOMAIN g.nodes) THEN g
    ELSE [g EXCEPT !.edges = Append(@, [from |-> from, to |-> to, delay |-> delay]), !.current = FALSE]

Loops(g) ==
    LET Next(S) == {g.edges[e].to : e \in {x \in DOMAIN g.edges : g.edges[x].from \in S}}
        From[k \in 0 .. Len(g.nodes), n \in DOMAIN g.nodes] ==
            IF k = 0 THEN Next({n}) ELSE From[k - 1, n] \cup Next(From[k - 1, n])
    IN  \E n \in DOMAIN g.nodes : n \in From[Len(g.nodes), n]

\* One sweep over the edges, in the order they were added.
ArrivalSweep(g, arrival) ==
    LET After[e \in 0 .. Len(g.edges)] ==
            IF e = 0 THEN arrival
            ELSE LET ed == g.edges[e] IN
                 [n \in DOMAIN arrival |-> IF n = ed.to THEN Max({After[e - 1][n], After[e - 1][ed.from] + ed.delay})
                                           ELSE After[e - 1][n]]
    IN  After[Len(g.edges)]

RequiredSweep(g, required) ==
    LET After[e \in 0 .. Len(g.edges)] ==
            IF e = 0 THEN required
            ELSE LET ed == g.edges[e] IN
                 [n \in DOMAIN required |-> IF n = ed.from THEN Min({After[e - 1][n], After[e - 1][ed.to] - ed.delay})
                                            ELSE After[e - 1][n]]
    IN  After[Len(g.edges)]

\* Without a loop the sweeps settle within one per node.
timing_compute_slack(g) ==
    LET N == DOMAIN g.nodes
        Arrival[k \in 0 .. Len(g.nodes)] ==
            IF k = 0 THEN [n \in N |-> IF g.nodes[n].is_input THEN 0 ELSE g.nodes[n].arrival]
            ELSE ArrivalSweep(g, Arrival[k - 1])
        Required[k \in 0 .. Len(g.nodes)] ==
            IF k = 0 THEN [n \in N |-> IF g.nodes[n].is_output THEN g.clock_period - Setup ELSE g.nodes[n].required]
            ELSE RequiredSweep(g, Required[k - 1])
        a == Arrival[Len(g.nodes)]
        r == Required[Len(g.nodes)]
    IN  [g EXCEPT !.nodes = [n \in N |-> [g.nodes[n] EXCEPT !.arrival = a[n], !.required = r[n], !.slack = r[n] - a[n]]],
                  !.current = TRUE]

timing_check_setup(g) == \A n \in DOMAIN g.nodes : g.nodes[n].slack >= 0
timing_check_hold(g) == \A e \in DOMAIN g.edges : g.edges[e].delay >= Hold
timing_count_violations(g) == Cardinality({n \in DOMAIN g.nodes : g.nodes[n].slack < 0})

\* The first node of least slack.
timing_find_critical_path(g) ==
    LET least == Min({g.nodes[n].slack : n \in DOMAIN g.nodes})
        worst == Min({n \in DOMAIN g.nodes : g.nodes[n].slack = least})
    IN  [end_node |-> worst, max_delay |-> g.nodes[worst].arrival]

\* The shortest period of timing_max_frequency_mhz.
LeastPeriod(g) == Max({0} \cup {g.nodes[n].arrival : n \in {x \in DOMAIN g.nodes : g.nodes[x].is_output}}) + Setup

-----------------------------------------------------------------------------
(* Steps: a network is built, its inputs are set, it is evaluated or reset; the     *)
(* units get operands; a timing graph is built and analysed.                        *)

Driven == {net.gates[i].output : i \in DOMAIN net.gates}

gate_net_add_gate ==
    \E g \in GateMenu :
        /\ Len(net.gates) < GATE_NET_MAX_GATES
        /\ net' = [net EXCEPT !.gates = Append(@, g), !.sorted = FALSE, !.fresh = FALSE]

SetInput ==
    \E w \in (0 .. NetWires - 1) \ Driven, v \in BOOLEAN :
        /\ net.wires[w] # v
        /\ net' = [net EXCEPT !.wires[w] = v, !.fresh = FALSE]

Evaluate == net' = gate_net_evaluate(net)

gate_net_reset == net' = [net EXCEPT !.wires = [w \in DOMAIN net.wires |-> FALSE], !.fresh = FALSE]

NetNext == (gate_net_add_gate \/ SetInput \/ Evaluate \/ gate_net_reset) /\ UNCHANGED <<operands, tg>>

UnitNext ==
    /\ operands' \in [a : Words, b : Words, cin : 0 .. 1]
    /\ UNCHANGED <<net, tg>>

TimingNext ==
    /\ \/ \E is_in, is_out \in BOOLEAN : tg' = timing_add_node(tg, is_in, is_out)
       \/ \E arc \in TimingArcs : tg' = timing_add_edge(tg, arc[1], arc[2], arc[3])
       \/ ~Loops(tg) /\ tg' = timing_compute_slack(tg)
    /\ UNCHANGED <<net, operands>>

GatesInit ==
    /\ net = gate_net_create
    /\ operands = [a |-> 0, b |-> 0, cin |-> 0]
    /\ \E p \in Periods : tg = timing_graph_create(p)

-----------------------------------------------------------------------------
(* Properties. *)

\* An evaluated network is settled, whatever order its gates were added in: every gate
\* shows the value of its inputs, unless the network loops, a gate drives its own input
\* or two gates drive one wire; it is sortable exactly when no loop is reported, and
\* its depth is then below the number of gates (gate_net_evaluate, gate_net_topo_sort).
NetworkSettles ==
    LET gates == net.gates
        Proper == \A i, j \in DOMAIN gates : /\ gates[i].output = gates[j].output => i = j
                                             /\ gates[i].output \notin Range(gates[i].inputs)
    IN  /\ net.fresh /\ gates # <<>> => net.sorted = ~gate_net_is_cyclic(gates)
        /\ net.fresh /\ net.sorted /\ Proper => \A i \in DOMAIN gates : logic_eval(net.wires, gates[i]) = net.wires
        /\ net.fresh /\ net.sorted =>
              /\ gate_net_logic_depth(net) < Max({1, Len(gates)})
              /\ \A k, l \in DOMAIN net.order : net.order[l] \in Consumers(gates, net.order[k]) => k < l

\* gate_complement names the dual: the table of the complement at the inverted row is
\* the inverted entry, for an even number of inputs (an odd parity has no such dual).
ComplementIsDual ==
    \A type \in GateTypes, n \in {2, 4} : \A row \in 0 .. 2 ^ n - 1 :
        truth_table_create(gate_complement(type), n)[2 ^ n - 1 - row] = ~truth_table_create(type, n)[row]

\* Both adders and the multiplier are exact, rotations undo each other, an arithmetic
\* shift divides rounding down, and the flags of the ALU give back the exact result of
\* an addition, a subtraction, a product and a division.
ArithmeticExact ==
    LET a == operands.a
        b == operands.b
        ripple == ripple_adder_compute(a, b)
        cla == cla_compute(a, b, operands.cin)
        Overflow(op) == alu_flags(op, a, b).OVERFLOW
        Carry(op) == alu_flags(op, a, b).CARRY
        Wrapped(x) == IF x >= Top \div 2 THEN x - Top ELSE IF x < -(Top \div 2) THEN x + Top ELSE x
        OneSign(x) == x \in -(Top \div 2) .. Top \div 2 - 1
    IN  /\ ripple.sum + Top * ripple.carry = a + b
        /\ cla.sum + Top * cla.carry = a + b + operands.cin
        /\ array_mul_compute(a, b) = a * b
        /\ \A n \in 0 .. 2 * Width : /\ barrel_compute("SHIFT_ROR", barrel_compute("SHIFT_ROL", a, n), n) = a
                                     /\ Signed(barrel_compute("SHIFT_AR", a, n)) = Signed(a) \div 2 ^ (n % Width)
        /\ pr_encoder(a).valid => /\ decoder_set_input(pr_encoder(a).output_val)[pr_encoder(a).output_val] = 1
                                  /\ a \div 2 ^ pr_encoder(a).output_val = 1
        /\ Signed(alu_result("ADD", a, b)) = Wrapped(Signed(a) + Signed(b))
        /\ Overflow("ADD") = ~OneSign(Signed(a) + Signed(b)) /\ Carry("ADD") = (a + b >= Top)
        /\ Signed(alu_result("SUB", a, b)) = Wrapped(Signed(a) - Signed(b))
        /\ Overflow("SUB") = ~OneSign(Signed(a) - Signed(b)) /\ Carry("SUB") = (a >= b)
        /\ ~Overflow("MUL") => alu_result("MUL", a, b) = a * b
        /\ ~Overflow("DIV") => a = b * alu_result("DIV", a, b) + alu_result("MOD", a, b)

\* After timing_compute_slack the checks are about paths: the setup check passes exactly
\* when every path, from any node, arrives in time at its last one, the critical end is
\* the worst of them and a passing graph meets the period timing_max_frequency_mhz names.
TimingMeansPaths ==
    LET N == DOMAIN tg.nodes
        Longest[k \in 0 .. Len(tg.nodes)] ==    \* longest path of at most k edges, ending at each node
            [n \in N |-> IF k = 0 THEN 0
                         ELSE Max({0} \cup {Longest[k - 1][tg.edges[e].from] + tg.edges[e].delay :
                                               e \in {x \in DOMAIN tg.edges : tg.edges[x].to = n}})]
        length == Longest[Len(tg.nodes)]
        Due(n) == tg.clock_period - (IF tg.nodes[n].is_output THEN Setup ELSE 0)
    IN  tg.current /\ tg.nodes # <<>> =>
            /\ timing_check_setup(tg) = (\A n \in N : length[n] <= Due(n))
            /\ timing_check_setup(tg) = (timing_count_violations(tg) = 0)
            /\ timing_check_setup(tg) => LeastPeriod(tg) <= Max({tg.clock_period, Setup})
            /\ \A n \in N : tg.nodes[n].slack >= tg.nodes[timing_find_critical_path(tg).end_node].slack

GatesSound == NetworkSettles /\ ComplementIsDual /\ ArithmeticExact /\ TimingMeansPaths
================================================================================
