------------------------------ MODULE ArchPipeline ------------------------------
(***************************************************************************)
(* The five-stage pipeline of mini-computer-arch (src/pipeline.c), one     *)
(* action per cycle, with the encoder and the decoder of its instructions. *)
(*                                                                         *)
(* An instruction word is the record of its six bit fields.  The stages    *)
(* run from write-back to fetch, each on what the earlier ones of the same *)
(* cycle left.  That the code forwards the result that lay in EX/MEM       *)
(* before the new one is computed, refetches over the instruction a stall  *)
(* holds back, and lets the second instruction after a taken branch        *)
(* through, is modelled as it is.                                          *)
(* Left out: statistics, the bit-wise and shift instructions, which the    *)
(* encoder has no form for, and printing.                                  *)
(***************************************************************************)
EXTENDS Integers, Sequences

CONSTANTS
    PIPELINE_IMEM_SIZE, PIPELINE_DMEM_SIZE,   \* words of the two memories
    Programs,          \* bound: the programs loaded, sequences of words
    Memories,          \* bound: what the data memory holds at the start
    MaxCycles,         \* bound: max_cycles of pipeline_run
    Immediates         \* bound: the immediates whose encoding is followed

ASSUME PipelineAssumption == PIPELINE_IMEM_SIZE \in Nat /\ PIPELINE_DMEM_SIZE \in Nat

Opcode == {"ADD", "SUB", "SLT", "SLTU", "ADDI", "LW", "SW", "BEQ", "BNE", "BLT", "JAL", "JALR",
           "LUI", "AUIPC", "NOP"}
Regs == 0 .. 31
REG_SP == 2

VARIABLE pl   \* the PipelineProcessor, and at_start: its data memory when the program was loaded

--------------------------------------------------------------------------------
(* Words. *)

sign_extend(v, bits) == IF v >= 2 ^ (bits - 1) THEN v - 2 ^ bits ELSE v

Word(op, rd, f3, rs1, rs2, f7) == [op |-> op, rd |-> rd, f3 |-> f3, rs1 |-> rs1, rs2 |-> rs2, f7 |-> f7]

ImmI(w) == sign_extend(w.f7 * 32 + w.rs2, 12)
ImmS(w) == sign_extend(w.f7 * 32 + w.rd, 12)
ImmB(w) == sign_extend((w.f7 \div 64) * 4096 + (w.rd % 2) * 2048 + (w.f7 % 64) * 32 + (w.rd \div 2) * 2, 13)
ImmU(w) == sign_extend(w.f7 * 8192 + w.rs2 * 256 + w.rs1 * 8 + w.f3, 20) * 4096
ImmJ(w) == sign_extend((w.f7 \div 64) * 2 ^ 20 + (w.rs1 * 8 + w.f3) * 4096 + (w.rs2 % 2) * 2048
                         + (w.f7 % 64) * 32 + (w.rs2 \div 2) * 2, 21)

\* The register-register and register-immediate words of the instructions kept.
DecodedOp(w) ==
    CASE w.op = 51  -> CASE w.f3 = 0 -> IF w.f7 = 32 THEN "SUB" ELSE "ADD"
                         [] w.f3 = 2 -> "SLT" [] w.f3 = 3 -> "SLTU" [] OTHER -> "NOP"
      [] w.op = 19  -> CASE w.f3 = 2 -> "SLT" [] w.f3 = 3 -> "SLTU" [] OTHER -> "ADDI"
      [] w.op = 3   -> "LW"
      [] w.op = 35  -> "SW"
      [] w.op = 99  -> CASE w.f3 = 0 -> "BEQ" [] w.f3 = 1 -> "BNE" [] w.f3 = 4 -> "BLT" [] OTHER -> "NOP"
      [] w.op = 55  -> "LUI"
      [] w.op = 23  -> "AUIPC"
      [] w.op = 111 -> "JAL"
      [] w.op = 103 -> "JALR"
      [] OTHER      -> "NOP"

pipeline_decode(w, pc) ==
    [opcode |-> DecodedOp(w), rd |-> w.rd, rs1 |-> w.rs1, rs2 |-> w.rs2, pc |-> pc,
     imm |-> CASE w.op \in {19, 3, 103} -> ImmI(w) [] w.op = 35 -> ImmS(w) [] w.op = 99 -> ImmB(w)
               [] w.op \in {55, 23} -> ImmU(w) [] w.op = 111 -> ImmJ(w) [] OTHER -> 0]

\* Mutant of EncodeJ: bit 11 stays where bit 20 belongs.
EncodeJPlain(rd, imm) ==
    LET j == imm % 2 ^ 21
    IN  Word(111, rd, (j \div 4096) % 8, (j \div 32768) % 32, ((j \div 2) % 16) * 2, (j \div 32) % 128)

EncodeJ(rd, imm) ==
    LET j == imm % 2 ^ 21
    IN  Word(111, rd, (j \div 4096) % 8, (j \div 32768) % 32,
             ((j \div 2) % 16) * 2 + ((j \div 2048) % 2),
             (j \div 2 ^ 20) * 64 + ((j \div 32) % 64))

\* A branch loses bit 11 of its offset.
pipeline_encode(op, rd, rs1, rs2, imm) ==
    LET i == imm % 4096
        u == (imm \div 4096) % 2 ^ 20
        U(code) == Word(code, rd, u % 8, (u \div 8) % 32, (u \div 256) % 32, u \div 8192)
    IN  CASE op = "ADD"   -> Word(51, rd, 0, rs1, rs2, 0)
          [] op = "SUB"   -> Word(51, rd, 0, rs1, rs2, 32)
          [] op = "ADDI"  -> Word(19, rd, 0, rs1, i % 32, i \div 32)
          [] op = "LW"    -> Word(3, rd, 2, rs1, i % 32, i \div 32)
          [] op = "SW"    -> Word(35, i % 32, 2, rs1, rs2, i \div 32)
          [] op = "BEQ"   -> Word(99, ((imm \div 2) % 16) * 2, 0, rs1, rs2,
                                  ((imm \div 4096) % 2) * 64 + ((imm \div 32) % 64))
          [] op = "JAL"   -> EncodeJ(rd, imm)
          [] op = "LUI"   -> U(55)
          [] op = "AUIPC" -> U(23)
          [] op = "JALR"  -> Word(103, rd, 0, rs1, i % 32, i \div 32)
          [] op = "HALT"  -> Word(111, 0, 0, 0, 0, 0)
          [] OTHER        -> Word(19, 0, 0, 0, 0, 0)
--------------------------------------------------------------------------------
(* The stages. *)

NoInst == [opcode |-> "ADD", rd |-> 0, rs1 |-> 0, rs2 |-> 0, pc |-> 0, imm |-> 0]
NoIF == [valid |-> FALSE, inst |-> NoInst]
NoID == [valid |-> FALSE, inst |-> NoInst, rs1_val |-> 0, rs2_val |-> 0]
NoEX == [valid |-> FALSE, inst |-> NoInst, rs1_val |-> 0, rs2_val |-> 0, alu_result |-> 0,
         store_data |-> 0, branch_taken |-> FALSE, branch_target |-> 0]
NoWB == [valid |-> FALSE, inst |-> NoInst, mem_data |-> 0, alu_result |-> 0, reg_write |-> FALSE]

pipeline_alu_compute(op, a, b) ==
    CASE op \in {"ADD", "ADDI"}  -> a + b
      [] op = "SUB"              -> a - b
      [] op \in {"SLT", "SLTU", "BLT"} -> IF a < b THEN 1 ELSE 0
      [] op = "BEQ"              -> IF a = b THEN 1 ELSE 0
      [] op = "BNE"              -> IF a # b THEN 1 ELSE 0
      [] OTHER                   -> 0

\* The address arithmetic is unsigned: a negative one is beyond every memory.
Below(a, size) == a >= 0 /\ a \div 4 < size

writeback(p) ==
    LET w == p.mem_wb
    IN  IF w.valid /\ w.inst.rd # 0 /\ w.reg_write
        THEN [p EXCEPT !.regfile[w.inst.rd] = IF w.inst.opcode = "LW" THEN w.mem_data ELSE w.alu_result]
        ELSE p

memory(p) ==
    LET x == p.ex_mem
        load  == x.valid /\ x.inst.opcode = "LW" /\ Below(x.alu_result, PIPELINE_DMEM_SIZE)
        store == x.valid /\ x.inst.opcode = "SW" /\ Below(x.alu_result, PIPELINE_DMEM_SIZE)
    IN  [p EXCEPT
           !.mem_wb  = [valid |-> x.valid, inst |-> x.inst, alu_result |-> x.alu_result,
                        reg_write |-> ~(x.valid /\ x.inst.opcode = "SW"),
                        mem_data |-> IF load THEN p.dmem[x.alu_result \div 4] ELSE @.mem_data],
           !.fw_mem  = IF x.valid THEN [rd |-> x.inst.rd, result |-> x.alu_result] ELSE @,
           !.dmem    = IF store THEN [@ EXCEPT ![x.alu_result \div 4] = x.store_data] ELSE @]

\* What an instruction in EX computes, where it branches, and what it stores.
Executed(x) ==
    LET i == x.inst a == x.rs1_val b == x.rs2_val
        Branch(taken, target) == [x EXCEPT !.branch_taken = taken, !.alu_result = i.pc + 4,
                                           !.branch_target = IF taken THEN target ELSE @]
    IN  CASE i.opcode = "LUI"   -> [x EXCEPT !.alu_result = i.imm]
          [] i.opcode = "AUIPC" -> [x EXCEPT !.alu_result = i.pc + i.imm]
          [] i.opcode = "SW"    -> [x EXCEPT !.alu_result = a + i.imm, !.store_data = b]
          [] i.opcode = "LW"    -> [x EXCEPT !.alu_result = a + i.imm]
          [] i.opcode \in {"BEQ", "BNE", "BLT"} ->
                Branch(pipeline_alu_compute(i.opcode, a, b) = 1, i.pc + i.imm)
          [] i.opcode = "JAL"   -> Branch(TRUE, i.pc + i.imm)
          [] i.opcode = "JALR"  -> Branch(TRUE, 2 * ((a + i.imm) \div 2))
          [] OTHER              -> [x EXCEPT !.alu_result = pipeline_alu_compute(i.opcode, a, b)]

\* The forwarded result is the one EX/MEM held before.
execute(p) ==
    LET d == p.id_ex
        x == IF p.flush THEN NoEX
             ELSE IF p.stall THEN p.ex_mem
             ELSE [p.ex_mem EXCEPT !.valid = d.valid, !.inst = d.inst, !.rs1_val = d.rs1_val,
                                   !.rs2_val = d.rs2_val, !.branch_taken = FALSE, !.branch_target = 0]
    IN  [p EXCEPT !.flush  = FALSE,
                  !.fw_ex  = IF x.valid THEN [rd |-> x.inst.rd, result |-> x.alu_result] ELSE @,
                  !.ex_mem = IF x.valid THEN Executed(x) ELSE x]

\* Mutant of pipeline_detect_forwarding: nothing comes from MEM.
ForwardFromEx(p, r) ==
    IF p.fw_ex.rd # 0 /\ p.fw_ex.rd = r THEN p.fw_ex.result ELSE p.regfile[r]

\* The value of a source register in ID.
pipeline_detect_forwarding(p, r) ==
    IF p.fw_ex.rd # 0 /\ p.fw_ex.rd = r THEN p.fw_ex.result
    ELSE IF p.fw_mem.rd # 0 /\ p.fw_mem.rd = r THEN p.fw_mem.result
    ELSE p.regfile[r]

\* Only a load in EX stalls; the register fields are compared in every format.
pipeline_needs_stall(p) ==
    /\ p.id_ex.valid /\ p.ex_mem.valid
    /\ p.ex_mem.inst.opcode = "LW"
    /\ p.ex_mem.inst.rd # 0 /\ p.ex_mem.inst.rd \in {p.id_ex.inst.rs1, p.id_ex.inst.rs2}

\* EX has just cleared flush, so nothing is squashed here.
decode(p) ==
    IF p.stall THEN [p EXCEPT !.id_ex = NoID, !.stall = FALSE]
    ELSE LET i == p.if_id.inst
             second == IF i.opcode \in {"ADDI", "LW", "SW"} THEN i.imm
                       ELSE pipeline_detect_forwarding(p, i.rs2)
             q == [p EXCEPT !.id_ex = [valid |-> p.if_id.valid, inst |-> i,
                      rs1_val |-> IF p.if_id.valid THEN pipeline_detect_forwarding(p, i.rs1) ELSE 0,
                      rs2_val |-> IF p.if_id.valid THEN second ELSE 0]]
         IN  [q EXCEPT !.stall = pipeline_needs_stall(q)]

fetch(p) ==
    IF p.stall THEN p
    ELSE [p EXCEPT !.if_id = IF Below(p.pc, PIPELINE_IMEM_SIZE)
                             THEN [valid |-> TRUE, inst |-> pipeline_decode(p.imem[p.pc \div 4], p.pc)]
                             ELSE [@ EXCEPT !.valid = FALSE]]

\* A pc beyond the memory stays there.
update_pc(p) ==
    LET taken == p.ex_mem.valid /\ p.ex_mem.branch_taken
        next  == IF taken THEN p.ex_mem.branch_target ELSE IF p.stall THEN p.pc ELSE p.pc + 4
        q     == [p EXCEPT !.pc = IF Below(next, PIPELINE_IMEM_SIZE) THEN next ELSE 4 * PIPELINE_IMEM_SIZE,
                           !.flush = @ \/ taken]
    IN  [q EXCEPT !.halted = ~Below(next, PIPELINE_IMEM_SIZE) /\ ~q.if_id.valid]
--------------------------------------------------------------------------------
StartRegs == [r \in Regs |-> IF r = REG_SP THEN PIPELINE_DMEM_SIZE - 16 ELSE 0]

pipeline_load_program(program, memory0) ==
    [regfile |-> StartRegs,
     pc |-> 0, dmem |-> memory0, at_start |-> memory0,
     imem |-> [i \in 0 .. PIPELINE_IMEM_SIZE - 1 |-> IF i < Len(program) THEN program[i + 1]
                                                      ELSE Word(0, 0, 0, 0, 0, 0)],
     if_id |-> NoIF, id_ex |-> NoID, ex_mem |-> NoEX, mem_wb |-> NoWB,
     stall |-> FALSE, flush |-> FALSE, halted |-> FALSE, cycles |-> 0,
     fw_ex |-> [rd |-> 0, result |-> 0], fw_mem |-> [rd |-> 0, result |-> 0]]

PipelineInit == \E program \in Programs, m \in Memories : pl = pipeline_load_program(program, m)

pipeline_cycle ==
    /\ ~pl.halted /\ pl.cycles < MaxCycles
    /\ pl' = update_pc(fetch(decode(execute(memory(writeback([pl EXCEPT !.cycles = @ + 1]))))))

PipelineSpec == PipelineInit /\ [][pipeline_cycle]_pl
--------------------------------------------------------------------------------
(* Properties. *)

\* One instruction at a time: the state after the first n of a program without branches.
Inst(n) == pipeline_decode(pl.imem[n - 1], 4 * (n - 1))
Sequential[n \in Nat] ==
    IF n = 0 THEN StartRegs
    ELSE LET before == Sequential[n - 1]
             i == Inst(n)
             a == before[i.rs1]
             value == CASE i.opcode = "LW"    -> IF Below(a + i.imm, PIPELINE_DMEM_SIZE)
                                                 THEN pl.at_start[(a + i.imm) \div 4] ELSE 0
                        [] i.opcode = "ADDI"  -> a + i.imm
                        [] i.opcode = "LUI"   -> i.imm
                        [] i.opcode = "AUIPC" -> i.pc + i.imm
                        [] i.opcode = "NOP"   -> 0
                        [] OTHER              -> pipeline_alu_compute(i.opcode, a, before[i.rs2])
         IN  IF i.rd = 0 THEN before ELSE [before EXCEPT ![i.rd] = value]

\* No branch, no store (which stores its own offset), no word that reads what the one
\* before it writes or what a load two before it loads, and none after a load in which
\* the load's register stands where a format has source fields.
Spaced ==
    \A n \in 1 .. PIPELINE_IMEM_SIZE :
        LET i == Inst(n)
            After(k) == IF n > k THEN Inst(n - k) ELSE Inst(n)
            reads == (IF i.opcode \in {"LUI", "AUIPC", "NOP"} THEN {} ELSE {i.rs1})
                        \cup (IF i.opcode \in {"ADD", "SUB", "SLT", "SLTU"} THEN {i.rs2} ELSE {})
        IN  /\ i.opcode \in {"ADD", "SUB", "ADDI", "LW", "LUI", "AUIPC", "NOP"}
            /\ n > 1 /\ After(1).rd # 0 => After(1).rd \notin reads
            /\ n > 1 /\ After(1).opcode = "LW" /\ After(1).rd # 0 => After(1).rd \notin {i.rs1, i.rs2}
            /\ n > 2 /\ After(2).opcode = "LW" /\ After(2).rd # 0 => After(2).rd \notin reads

\* What the encoder makes the decoder reads back, field by field, for every immediate
\* that fits (forward branches of less than 2048 bytes: the encoder drops bit 11).
EncodingRoundTrips ==
    \A op \in {"ADDI", "LW", "SW", "BEQ", "JAL", "JALR", "LUI", "AUIPC"}, imm \in Immediates :
        LET i == pipeline_decode(pipeline_encode(op, 1, 2, 3, imm), 0)
            Fits == CASE op \in {"LUI", "AUIPC"} -> imm % 4096 = 0
                      [] op = "BEQ" -> imm \in 0 .. 2047 /\ imm % 2 = 0
                      [] op = "JAL" -> imm \in -(2 ^ 20) .. 2 ^ 20 - 1 /\ imm % 2 = 0
                      [] OTHER      -> imm \in -2048 .. 2047
        IN  /\ Fits => i.opcode = op /\ i.imm = imm
            /\ op \in {"ADDI", "LW", "SW", "BEQ", "JALR"} => i.rs1 = 2
            /\ op \in {"ADDI", "LW", "JAL", "JALR", "LUI", "AUIPC"} => i.rd = 1

\* When the pipeline stops, a program whose dependences are far enough apart for its
\* forwarding has left the registers as executing its instructions one by one does.
PipelineSequential ==
    /\ pl.halted => EncodingRoundTrips
    /\ pl.halted /\ Spaced =>
          LET final == Sequential[PIPELINE_IMEM_SIZE - 4]
          IN  \A r \in {Inst(n).rd : n \in 1 .. PIPELINE_IMEM_SIZE - 4} \ {0} : pl.regfile[r] = final[r]
================================================================================
