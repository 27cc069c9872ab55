------------------------------ MODULE MCProcessors ------------------------------
(* Instances of the components of mini-cpu-arch for TLC.  They share no state, so a *)
(* behaviour exercises one of them; the others stay at one of their starts.         *)
EXTENDS OutOfOrder, SnoopCache, CpuMemorySystem, InOrderCpu, Superscalar

VARIABLE part

cpuarch_vars == <<ooo_vars, sc, cpumem_vars, pl, superscalar_vars>>

(* Out of order: three registers, of which register 0 is never written; the         *)
(* instructions form chains, fan-out and repeated destinations, with an unused      *)
(* result, loads, and stores with and without a destination field.                  *)
Compute(rd, rs1, rs2) == [rd |-> rd, rs1 |-> rs1, rs2 |-> rs2, is_store |-> FALSE, is_load |-> FALSE]
Store(rd, rs1)        == [rd |-> rd, rs1 |-> rs1, rs2 |-> 0, is_store |-> TRUE, is_load |-> FALSE]
Load(rd, rs1)         == [rd |-> rd, rs1 |-> rs1, rs2 |-> 0, is_store |-> FALSE, is_load |-> TRUE]

MCInstructions ==
    {Compute(1, 0, 0), Compute(1, 2, 1), Compute(2, 1, 2), Compute(0, 1, 0),
     Store(0, 2), Store(1, 2), Load(2, 0), Load(1, 2)}

(* Buses of one to three caches: each replacement and write policy with some geometry. *)
Geometry(ways, sets) == [line_size |-> 4, associativity |-> ways, num_sets |-> sets]
Setup(cores, geom, replace, write, addrs, accesses) ==
    [cores |-> cores, geom |-> geom, replace |-> replace, write |-> write, addrs |-> addrs, accesses |-> accesses]
MCBuses ==
    {Setup({1, 2}, Geometry(2, 1), r, "BACK_ALLOC", {0, 4, 8}, 4) : r \in {"LRU", "RANDOM"}}
    \cup {Setup({1, 2}, Geometry(1, 2), "FIFO", w, {0, 8}, 4) : w \in WritePolicies}
    \cup {Setup({1}, Geometry(4, 1), "PLRU", "BACK_ALLOC", {0, 4, 8, 12, 16}, 5),
          Setup({1, 2, 3}, Geometry(2, 1), "PLRU", "THROUGH_ALLOC", {0}, 5)}
MCLevelGeometries ==
    [l \in Levels |-> CASE l = "L3" -> Geometry(2, 2) [] l = "L2" -> Geometry(2, 1) [] OTHER -> Geometry(1, 1)]

MCCtrlAddresses == [bank : {0, 1}, row : {0, 1}]

(* In order: words of three instructions with dependences at every distance. *)
Addi(rd, rs1, imm) == Word(19, rd, 0, rs1, imm % 32, imm \div 32)
MCInOrderPrograms ==
    [1 .. 3 -> {Addi(1, 0, 3), Addi(1, 1, 2), Word(51, 3, 0, 1, 3, 0), Word(51, 1, 0, 3, 1, 32), Addi(3, 1, 20),
                Word(3, 3, 2, 0, 20, 0), Word(3, 1, 2, 3, 0, 0), Word(35, 4, 2, 1, 3, 0), Word(35, 20, 2, 0, 1, 0),
                Word(99, 8, 0, 1, 3, 0), Word(99, 8, 1, 1, 0, 0), Word(111, 0, 0, 0, 16, 0), Word(103, 0, 0, 0, 8, 0),
                Word(55, 3, 1, 0, 0, 0), Word(111, 1, 0, 0, 16, 0), Word(3, 0, 2, 0, 20, 0)}]
MCDataAt == [a \in {20, 24} |-> 44 - a]

(* Superscalar: each instruction reads any of the ones before it. *)
Inst(op, rd, rs1, rs2, imm) == [opcode |-> op, rd |-> rd, rs1 |-> rs1, rs2 |-> rs2, imm |-> imm]
Kth(k) == {Inst("ADDI", k, 0, 0, k), Inst("LW", k, 0, 0, 4)} \cup {Inst("ADD", k, j, l, 0) : j, l \in 0 .. k - 1}
MCSuperPrograms ==
    {<<a, b, c>> : a \in Kth(1), b \in Kth(2), c \in Kth(3)}
    \cup {<<Inst("ADDI", 1, 0, 0, 1), b, Inst("ADDI", 3, 0, 0, 3), d>> :
             b \in {Inst("ADD", 2, 1, 0, 2), Inst("ADDI", 2, 0, 0, 2)}, d \in Kth(4)}
    \cup {<<Inst("ADDI", 1, 0, 0, 8), Inst("SW", 0, 0, 1, 4), Inst("LW", 2, 0, 0, 4), Inst("AND", 1, 1, 2, 0)>>}
MCSuperMemory == [a \in {4} |-> 7]
MCPortWrites  == [en : BOOLEAN, addr : {0, 1}, val : {5, 6}]

IdleInOrder == pipeline_init(CHOOSE p \in MCInOrderPrograms : TRUE)
IdleSuper   == superscalar_init(CHOOSE p \in MCSuperPrograms : TRUE)
IdleBus     == mesi_bus_init(CHOOSE b \in MCBuses : TRUE)

ProcInit ==
    /\ part \in {"ooo", "bus", "mmu", "controller", "inorder", "super", "registers"}
    /\ OooInit
    /\ CpuMemInit /\ (part # "mmu" => mmu.policy = "LRU")
    /\ IF part = "bus" THEN SnoopInit ELSE sc = IdleBus
    /\ IF part = "inorder" THEN InOrderInit ELSE pl = IdleInOrder
    /\ IF part = "super" THEN SuperInit ELSE ss = IdleSuper /\ regf = regf_init

Idle(p, vars) == part # p => UNCHANGED vars

ProcNext ==
    /\ UNCHANGED part
    /\ \/ part = "ooo"        /\ OooNext
       \/ part = "bus"        /\ SnoopNext
       \/ part = "mmu"        /\ MmuNext
       \/ part = "controller" /\ CtrlNext
       \/ part = "inorder"    /\ pipeline_cycle
       \/ part = "super"      /\ SuperNext
       \/ part = "registers"  /\ RegfNext
    /\ Idle("ooo", ooo_vars) /\ Idle("bus", sc) /\ Idle("inorder", pl)
    /\ Idle("mmu", <<mmu, held>>) /\ Idle("controller", mc)
    /\ part \notin {"super", "registers"} => UNCHANGED superscalar_vars

\* Only the out-of-order core has a driver that keeps stepping it.
ProcSpec ==
    /\ ProcInit /\ [][ProcNext]_<<part, cpuarch_vars>>
    /\ WF_ooo_vars(part = "ooo" /\ ooo_step)

\* Programs leave on both pipelines the registers and memory an interpreter leaves.
PipelinesInterpret == PipelineIsInterpreter /\ SuperscalarValues
================================================================================
