------------------------------ MODULE InOrderCpu ------------------------------
(***************************************************************************)
(* The instruction set of mini-cpu-arch (src/isa.c) and its five-stage     *)
(* pipeline (src/pipeline.c), which runs the same programs.                *)
(*                                                                         *)
(* A word is a record of its fields.  Memory is read and written by        *)
(* aligned words, and values stay in the range where 32-bit arithmetic     *)
(* does not wrap.  A program's words lie at 0, 4, ...; its data after them.*)
(***************************************************************************)
EXTENDS Integers, Sequences, FiniteSets, FiniteSetsExt, Bitwise

CONSTANTS
    InOrderPrograms,   \* bound: the programs, sequences of words
    MEMORY_SIZE,       \* bytes of memory
    DataAt,            \* bound: function from the addresses of the data to their first values
    MaxInOrderCycles   \* bound: cycles followed

ASSUME InOrderAssumption ==
    /\ MEMORY_SIZE \in Nat /\ MaxInOrderCycles \in Nat
    /\ \A a \in DOMAIN DataAt : a % 4 = 0 /\ a + 4 <= MEMORY_SIZE
    /\ \A p \in InOrderPrograms, a \in DOMAIN DataAt : 4 * Len(p) <= a

RegisterNumbers == 0 .. 15                      \* MAX_REGISTERS is 16

VARIABLE pl     \* [prog, regs, mem, pc, if_id, id_ex, ex_mem, mem_wb, stall_count, cycles, retired: history]
--------------------------------------------------------------------------------
Word(op, rd, f3, rs1, rs2, f7) == [op |-> op, rd |-> rd, f3 |-> f3, rs1 |-> rs1, rs2 |-> rs2, f7 |-> f7]

Signed(x, bits) == IF x >= 2 ^ (bits - 1) THEN x - 2 ^ bits ELSE x

\* The branch offset as decoded: its pieces overlap, so it is never negative.
imm_b(w) == ((w.rd - (w.rd % 2)) | (w.f7 - (w.f7 % 2))) | ((w.rd % 2) | (w.f7 \div 64))

\* The jump offset as decoded: the pieces overlap in the low ten bits.
imm_j(w) == (((w.rs2 \div 2) + 16 * (w.f7 % 64)) | (w.f3 + 8 * w.rs1)) | ((w.rs2 % 2) | (w.f7 \div 64))

imm_u(w) == 4096 * Signed(w.f3 + 8 * w.rs1 + 256 * w.rs2 + 8192 * w.f7, 20)

NOP == [opcode |-> "NOP", rd |-> 0, rs1 |-> 0, rs2 |-> 0, imm |-> 0]

\* Loads and stores decode to words whatever their width.
isa_decode(w) ==
    LET zero == w.f7 = 0
        Alu(imm) == CASE w.f3 = 0 -> IF imm \/ zero THEN "ADD" ELSE "SUB"
                      [] w.f3 = 1 -> "SLL" [] w.f3 = 2 -> "SLT" [] w.f3 = 3 -> "SLTU" [] w.f3 = 4 -> "XOR"
                      [] w.f3 = 5 -> IF zero THEN "SRL" ELSE "SRA" [] w.f3 = 6 -> "OR" [] w.f3 = 7 -> "AND"
        Branch == CASE w.f3 = 0 -> "BEQ" [] w.f3 = 1 -> "BNE" [] w.f3 = 4 -> "BLT" [] w.f3 = 5 -> "BGE"
                    [] w.f3 = 6 -> "BLTU" [] w.f3 = 7 -> "BGEU" [] OTHER -> "NOP"
        I == Signed(w.rs2 + 32 * w.f7, 12)
        Is(opcode, imm) == [opcode |-> opcode, rd |-> w.rd % 16, rs1 |-> w.rs1 % 16, rs2 |-> w.rs2 % 16, imm |-> imm]
    IN  CASE w.op = 51  -> Is(Alu(FALSE), 0)          \* 0x33
          [] w.op = 19  -> Is(Alu(TRUE) \o "I", I)    \* 0x13
          [] w.op = 3   -> Is("LW", I)
          [] w.op = 35  -> Is("SW", Signed(w.rd + 32 * w.f7, 12))
          [] w.op = 99  -> Is(Branch, imm_b(w))
          [] w.op = 111 -> Is("JAL", imm_j(w))
          [] w.op = 103 -> Is("JALR", I)
          [] w.op = 55  -> Is("LUI", imm_u(w))
          [] w.op = 23  -> Is("AUIPC", imm_u(w))
          [] OTHER      -> NOP

AluOps == {"ADD", "SUB", "AND", "OR", "XOR", "SLL", "SRL", "SRA", "SLT", "SLTU"}
ImmOps == {"ADDI", "ANDI", "ORI", "XORI", "SLLI", "SRLI", "SRAI", "SLTI", "SLTUI"}
BranchOps == {"BEQ", "BNE", "BLT", "BGE", "BLTU", "BGEU"}
JumpOps == {"JAL", "JALR"}
Writers == AluOps \cup ImmOps \cup JumpOps \cup {"LUI", "AUIPC", "LW"}

ByteOfWord(w, k) == CASE k = 0 -> w.op + 128 * (w.rd % 2)
                      [] k = 1 -> (w.rd \div 2) + 16 * w.f3 + 128 * (w.rs1 % 2)
                      [] k = 2 -> (w.rs1 \div 2) + 16 * (w.rs2 % 16)
                      [] k = 3 -> (w.rs2 \div 16) + 2 * w.f7

\* Memory: the program, the data, and zeros elsewhere.
MemoryByte(m, a) == IF a \div 4 < Len(m.prog) THEN ByteOfWord(m.prog[a \div 4 + 1], a % 4)
                    ELSE IF a - (a % 4) \in DOMAIN m.mem THEN (m.mem[a - (a % 4)] \div 256 ^ (a % 4)) % 256
                    ELSE 0

\* Four bytes wherever the counter points, data and misaligned words included.
isa_fetch(m) ==
    LET b(k) == MemoryByte(m, m.pc + k)
    IN  IF m.pc + 4 > MEMORY_SIZE THEN NOP
        ELSE isa_decode(Word(b(0) % 128, (b(0) \div 128) + 2 * (b(1) % 16), (b(1) \div 16) % 8,
                             (b(1) \div 128) + 2 * (b(2) % 16), (b(2) \div 16) + 16 * (b(3) % 2), b(3) \div 2))

Bool(b) == IF b THEN 1 ELSE 0
\* An operand as the unsigned word.  TLC's integers have 32 bits too: negative ones compare above.
Below(a, b) == IF (a < 0) = (b < 0) THEN a < b ELSE a >= 0

\* The result of an operation on a and its second operand, the register or the immediate.
Alu(i, a, b, pc) ==
    LET y == IF i.opcode \in ImmOps THEN i.imm ELSE b
    IN  CASE i.opcode \in {"ADD", "ADDI"}   -> a + y
          [] i.opcode = "SUB"               -> a - y
          [] i.opcode \in {"AND", "ANDI"}   -> a & y
          [] i.opcode \in {"OR", "ORI"}     -> a | y
          [] i.opcode \in {"XOR", "XORI"}   -> a ^^ y
          [] i.opcode \in {"SLL", "SLLI"}   -> a * 2 ^ (y % 32)
          [] i.opcode \in {"SRL", "SRLI", "SRA", "SRAI"} -> a \div 2 ^ (y % 32)
          [] i.opcode \in {"SLT", "SLTI"}   -> Bool(a < y)
          [] i.opcode \in {"SLTU", "SLTUI"} -> Bool(Below(a, y))
          [] i.opcode = "LUI"               -> i.imm
          [] i.opcode = "AUIPC"             -> pc + i.imm
          [] OTHER                          -> 0

Taken(i, a, b) ==
    CASE i.opcode = "BEQ"  -> a = b  [] i.opcode = "BNE"  -> a # b
      [] i.opcode = "BLT"  -> a < b  [] i.opcode = "BGE"  -> a >= b
      [] i.opcode = "BLTU" -> Below(a, b) [] i.opcode = "BGEU" -> ~Below(a, b)
      [] OTHER -> FALSE

Target(i, a, pc) == IF i.opcode = "JALR" THEN LET t == a + i.imm IN t - (t % 2) ELSE pc + i.imm

\* One instruction of the interpreter: the machine after it.
isa_execute(m, i) ==
    LET a    == m.regs[i.rs1]
        b    == m.regs[i.rs2]
        addr == a + i.imm
        jump == i.opcode \in JumpOps \/ Taken(i, a, b)
        val  == IF i.opcode \in JumpOps THEN m.pc + 4
                ELSE IF i.opcode = "LW" THEN (IF addr \in DOMAIN m.mem THEN m.mem[addr] ELSE 0)
                ELSE Alu(i, a, b, m.pc)
    IN  [m EXCEPT !.regs = IF i.rd > 0 /\ i.opcode \in Writers THEN [@ EXCEPT ![i.rd] = val] ELSE @,
                  !.mem = IF i.opcode = "SW" /\ addr \in DOMAIN @ THEN [@ EXCEPT ![addr] = b] ELSE @,
                  !.pc = IF jump THEN Target(i, a, m.pc) ELSE @ + 4]

isa_step(m) == isa_execute(m, isa_fetch(m))
--------------------------------------------------------------------------------
Nothing == [valid |-> FALSE, i |-> NOP, pc |-> 0, a |-> 0, b |-> 0, val |-> 0, taken |-> FALSE]

\* isa_init and pipeline_load_program: registers zero, the program at address 0.
pipeline_init(prog) ==
    [prog |-> prog, regs |-> [r \in RegisterNumbers |-> 0], mem |-> DataAt, pc |-> 0, if_id |-> Nothing,
     id_ex |-> Nothing, ex_mem |-> Nothing, mem_wb |-> Nothing, stall_count |-> 0, cycles |-> 0, retired |-> << >>]

Writes(stage) == stage.valid /\ stage.i.opcode \in Writers /\ stage.i.rd # 0

\* if_id.rs1 and if_id.rs2 are never assigned: the comparison is with register 0.
detect_load_use_hazard(p) == p.id_ex.i.opcode = "LW" /\ p.id_ex.i.rd = 0

\* A write-back, with the instruction's place and value kept as history.
pipeline_writeback(p) ==
    [p EXCEPT !.regs = IF Writes(p.mem_wb) THEN [@ EXCEPT ![p.mem_wb.i.rd] = p.mem_wb.val] ELSE @,
              !.retired = IF p.mem_wb.valid THEN Append(@, p.mem_wb.pc) ELSE @,
              !.mem_wb.valid = FALSE]

\* Out of range, a load returns its address.
pipeline_memory(p) ==
    LET s == p.ex_mem
    IN  IF ~s.valid THEN [p EXCEPT !.mem_wb.valid = FALSE]
        ELSE [p EXCEPT
                !.mem_wb = IF s.i.opcode = "LW" /\ s.val \in DOMAIN p.mem THEN [s EXCEPT !.val = p.mem[s.val]] ELSE s,
                !.mem = IF s.i.opcode = "SW" /\ s.val \in DOMAIN @ THEN [@ EXCEPT ![s.val] = s.b] ELSE @,
                !.ex_mem.valid = FALSE]

\* Mutant of forwarding_unit: nothing is forwarded from the stage behind.
ForwardNothing(p, r, read) == IF p.ex_mem.valid /\ Writes(p.ex_mem) /\ p.ex_mem.i.rd = r THEN p.ex_mem.val ELSE read

\* The stage ahead first; since the memory stage has run, it is always the one behind it.
forwarding_unit(p, r, read) ==
    CASE Writes(p.ex_mem) /\ p.ex_mem.i.rd = r -> p.ex_mem.val
      [] ~(Writes(p.ex_mem) /\ p.ex_mem.i.rd = r) /\ Writes(p.mem_wb) /\ p.mem_wb.i.rd = r -> p.mem_wb.val
      [] OTHER -> read

\* The register a jump writes gets the target; a store's data is what decode left in b.
pipeline_execute(p) ==
    LET s == p.id_ex
        a == forwarding_unit(p, s.i.rs1, s.a)
        b == forwarding_unit(p, s.i.rs2, s.b)
        taken == s.i.opcode \in JumpOps \/ Taken(s.i, a, b)
        val == CASE s.i.opcode \in {"LW", "SW"} -> a + s.i.imm
                 [] s.i.opcode \in JumpOps \cup BranchOps -> IF taken THEN Target(s.i, a, s.pc) ELSE s.pc + 4
                 [] OTHER -> Alu(s.i, a, b, s.pc)
    IN  IF ~s.valid THEN [p EXCEPT !.ex_mem.valid = FALSE]
        ELSE [p EXCEPT !.ex_mem = [s EXCEPT !.a = a, !.b = b, !.val = val, !.taken = taken],
                       !.pc = IF taken THEN val ELSE @,
                       !.if_id.valid = @ /\ ~taken,
                       !.id_ex.valid = FALSE]

\* Reads the registers as they are; a store's second operand is its immediate.
pipeline_decode(p) ==
    LET i == p.if_id.i
        imm == i.opcode \in ImmOps \cup {"LW", "SW"}
    IN  IF ~p.if_id.valid THEN [p EXCEPT !.id_ex.valid = FALSE]
        ELSE [p EXCEPT !.id_ex = [p.if_id EXCEPT !.a = p.regs[i.rs1], !.b = IF imm THEN i.imm ELSE p.regs[i.rs2]],
                       !.if_id.valid = FALSE]

pipeline_fetch(p) ==
    IF p.pc + 4 > MEMORY_SIZE THEN [p EXCEPT !.if_id.valid = FALSE]
    ELSE [p EXCEPT !.if_id = [Nothing EXCEPT !.valid = TRUE, !.i = isa_fetch(p), !.pc = p.pc],
                   !.pc = @ + 4]

\* Backwards through the stages; a stall runs the last two only, and is not counted as a cycle.
CycleOf(p) ==
    IF detect_load_use_hazard(p) THEN [pipeline_memory(pipeline_writeback(p)) EXCEPT !.stall_count = @ + 1]
    ELSE [pipeline_fetch(pipeline_decode(pipeline_execute(pipeline_memory(pipeline_writeback(p))))) EXCEPT
            !.cycles = @ + 1]

pipeline_cycle == pl.cycles + pl.stall_count < MaxInOrderCycles /\ pl' = CycleOf(pl)

InOrderInit == \E prog \in InOrderPrograms : pl = pipeline_init(prog)
--------------------------------------------------------------------------------
\* The interpreter after n instructions of the program.
RECURSIVE isa_after(_, _)
isa_after(prog, n) == IF n = 0 THEN pipeline_init(prog) ELSE isa_step(isa_after(prog, n - 1))

Reads(i) == CASE i.opcode \in AluOps \cup BranchOps \cup {"SW"} -> {i.rs1, i.rs2}
              [] i.opcode \in ImmOps \cup {"LW", "JALR"}        -> {i.rs1}
              [] OTHER                                          -> {}

\* What the pipeline gets wrong, as a condition on the instructions the interpreter ran
\* before the n-th: an operand written two instructions before, with no taken jump between,
\* is read too early; a store's data is right only when the instruction before wrote it; a
\* jump links to its target; a load into register 0 stalls for ever.  (An access outside the
\* data, which may read or write the program, is beyond this model.)
Deviates(prog, n) ==
    LET At(k) == isa_after(prog, k)
        I(k) == isa_fetch(At(k))
        Dest(k) == IF k >= 0 /\ I(k).opcode \in Writers /\ I(k).rd # 0 THEN {I(k).rd} ELSE {}
        Jumps(k) == k >= 0 /\ At(k + 1).pc # At(k).pc + 4
    IN  \/ Dest(n - 2) \cap (Reads(I(n)) \ Dest(n - 1)) # {} /\ ~Jumps(n - 1)
        \/ I(n).opcode = "SW" /\ I(n).rs2 \notin Dest(n - 1)
        \/ I(n).opcode \in JumpOps /\ I(n).rd # 0
        \/ I(n).opcode = "LW" /\ I(n).rd = 0
        \/ I(n).opcode \in {"LW", "SW"} /\ At(n).regs[I(n).rs1] + I(n).imm \notin DOMAIN DataAt

LastRetired(p) == p.retired[Len(p.retired)]

\* Until an instruction of one of the kinds above, the pipeline is the interpreter: the
\* n-th instruction to leave it is the n-th the interpreter runs, none of a squashed path
\* among them, and leaves the registers the interpreter has then.
PipelineIsInterpreter ==
    LET n == Len(pl.retired)
    IN  (n > 0 /\ \A k \in 0 .. n - 1 : ~Deviates(pl.prog, k)) =>
            /\ LastRetired(pl) = isa_after(pl.prog, n - 1).pc
            /\ pl.regs = isa_after(pl.prog, n).regs
================================================================================
