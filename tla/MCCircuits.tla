------------------------------- MODULE MCCircuits -------------------------------
(* Instances of the components of mini-digital-circuit, and of the queues and codes *)
(* of mini-storage-hardware, for TLC.  They share no state, so a behaviour exercises *)
(* one of them; the others stay at one of their starts.                             *)
EXTENDS StateMachines, ClockedCircuits, Gates, BooleanAlgebra, Codes, StorageQueues

VARIABLE part

circuit_vars == <<mach, clocked_vars, gates_vars, boolean_vars, codec, storageq_vars>>

\* Patterns that overlap themselves or not.
MCPatterns == {<<1>>, <<1, 2>>, <<1, 2, 1>>, <<1, 1, 2, 1, 1>>}

\* Gates in and out of order, one closing a loop; a circle of timing arcs.
Gate(t, i, o) == [type |-> t, inputs |-> i, output |-> o]
MCGateMenu ==
    {Gate("NOT", <<0>>, 2), Gate("XOR", <<2, 1>>, 3), Gate("OR", <<3, 2>>, 4), Gate("AND", <<4, 0>>, 1),
     Gate("NAND", <<0, 2>>, 2)}
MCTimingArcs == {<<1, 2, 1>>, <<2, 3, 2>>, <<3, 1, 1>>}

MCTerm(m, v) == [mask |-> m, values |-> v]
MCTermMenu ==
    {MCTerm({0, 1, 2}, {0}), MCTerm({0, 1, 2}, {0, 2}),
     MCTerm({0}, {0}), MCTerm({1}, {}), MCTerm({0, 1}, {1}), MCTerm({2}, {2})}

\* A short code word of two checks per bit; the reliabilities the decoder weighs.
MCRsSymbols     == {{}, {0}, {1, 7}}
MCLdpcShape     == [N |-> 24, dv |-> 2, dc |-> 3]
MCLdpcInfos     == {{}, {1, 2}, {1, 2, 4, 5}, {0}}
MCReliabilities == {[r \in 0 .. 2 |-> 1], [r \in 0 .. 2 |-> r + 1]}

MCQosCredits == <<3, 2, 1>>
Contents(valid, invalid, erased) ==
    [state |-> IF valid + invalid = 0 THEN "FREE" ELSE "OPEN", valid |-> valid, invalid |-> invalid,
     erased |-> erased, cleaned |-> 0]
MCGcBlocks ==
    [0 .. 2 -> {Contents(0, 0, 0), Contents(0, 5, 1), Contents(10, 5, 0), Contents(10, 1, 1), Contents(19, 1, 0),
                Contents(20, 0, 0)}]
IdleBlocks == [b \in 0 .. 2 |-> Contents(0, 0, 0)]

IdleMachine == [fsm |-> fsm_create("MOORE"), pattern |-> <<>>, heard |-> <<>>, copies |-> <<>>]
IdleCodec   == Sent("HAMMING", {}, ecc_hamming_encode({}), Even)

CircInit ==
    /\ part \in {"machine", "flipflop", "shift", "counter", "arbiter", "dcache", "dtlb", "net", "unit", "timing",
                 "expression", "terms", "codes", "nvme", "rounds", "ssd", "victims"}
    /\ IF part = "machine" THEN MachInit ELSE mach = IdleMachine
    /\ ClockedInit
    /\ part # "shift" => shr.direction = "LEFT"
    /\ part # "counter" => cnt.type = "BCD"
    /\ part # "arbiter" => DOMAIN bus.arb = {"address", "data"}
    /\ part # "dcache" => dcache.policy = "WRITE_BACK"
    /\ GatesInit /\ (part # "timing" => tg.clock_period = 2)
    /\ BooleanInit /\ (part # "expression" => expr = bool_expr_var(0))
    /\ IF part = "codes" THEN CodesInit ELSE codec = IdleCodec
    /\ StorageQueuesInit
    /\ part # "victims" => gcs.blocks = IdleBlocks
    /\ part # "rounds" => arb.arb_burst = 0

Idle(p, vars) == part # p => UNCHANGED vars

CircNext ==
    /\ UNCHANGED part
    /\ \/ part = "machine"    /\ MachNext
       \/ part = "flipflop"   /\ FlipNext
       \/ part = "shift"      /\ ShiftNext
       \/ part = "counter"    /\ CountNext
       \/ part = "arbiter"    /\ BusNext
       \/ part = "dcache"     /\ DcacheNext
       \/ part = "dtlb"       /\ DtlbNext
       \/ part = "net"        /\ NetNext
       \/ part = "unit"       /\ UnitNext
       \/ part = "timing"     /\ TimingNext
       \/ part = "expression" /\ ExprNext
       \/ part = "terms"      /\ SopNext
       \/ part = "codes"      /\ CodesNext
       \/ part = "nvme"       /\ NvmeNext
       \/ part = "rounds"     /\ ArbiterNext
       \/ part = "ssd"        /\ SsdNext
       \/ part = "victims"    /\ GcChoiceNext
    /\ Idle("machine", mach) /\ Idle("codes", codec)
    /\ Idle("flipflop", ff) /\ Idle("shift", shr) /\ Idle("counter", cnt) /\ Idle("arbiter", bus)
    /\ Idle("dcache", dcache) /\ Idle("dtlb", dtlb)
    /\ part \notin {"net", "unit", "timing"} => UNCHANGED gates_vars
    /\ part \notin {"expression", "terms"} => UNCHANGED boolean_vars
    /\ Idle("nvme", nv) /\ Idle("rounds", arb) /\ Idle("ssd", ssdm) /\ Idle("victims", gcs)

CircSpec == CircInit /\ [][CircNext]_<<part, circuit_vars>>

--------------------------------------------------------------------------------
(* Each component is looked at while it moves; idle it is at one of its starts,     *)
(* which its own parts include.                                                     *)


\* Networks of gates, arithmetic units and timing paths, then expressions and sums of
\* products, compute what their references do; and what was sent through a code is what
\* arrives, within the errors it promises to correct.
CombinationalHolds ==
    /\ part \in {"net", "unit", "timing"} => GatesSound
    /\ part \in {"expression", "terms"} => BooleanSound
    /\ part = "codes" => CodesCorrect
================================================================================
