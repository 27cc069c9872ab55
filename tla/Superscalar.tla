------------------------------ MODULE Superscalar ------------------------------
(***************************************************************************)
(* The two-wide core of mini-cpu-arch with a reorder buffer                *)
(* (src/superscalar.c) and the register file with clocked ports            *)
(* (src/register_file.c).                                                  *)
(*                                                                         *)
(* reg_rob_mapping is never cleared: an instruction that reads a register  *)
(* whose last writer has committed waits for ever, and so does one that    *)
(* reads the register it writes.  Commit walks from rob_head while it      *)
(* moves rob_head, so that it skips every second entry.  An entry of the   *)
(* buffer used again, a mapping names an instruction that is not the       *)
(* register's writer, whose value is then taken.                           *)
(***************************************************************************)
EXTENDS Integers, Sequences, FiniteSets, FiniteSetsExt, SequencesExt, Bitwise

CONSTANTS
    MAX_ROB_ENTRIES,     \* entries of the reorder buffer
    SuperPrograms,       \* bound: the programs, sequences of [opcode, rd, rs1, rs2, imm]
    SuperRegisters,      \* registers, with 0 among them
    SuperMemory,         \* bound: function from the addresses accessed to their first values
    MaxSuperSteps,       \* bound: issues and steps
    PortWrites           \* bound: [en, addr, val] of a write port of the register file

ASSUME SuperAssumption == MAX_ROB_ENTRIES \in Nat \ {0} /\ 0 \in SuperRegisters /\ MaxSuperSteps \in Nat

MAX_ISSUE_WIDTH == 2
MAX_DISPATCH_WIDTH == 2
REGF_WRITE_PORTS == 2
Unmapped == -1
ROB == 0 .. MAX_ROB_ENTRIES - 1

VARIABLES
    ss,     \* [rob, rob_head, registers, reg_rob_mapping, memory, todo: program, next: issued, steps, reused: history]
    regf    \* [regs, ports, clocks]

superscalar_vars == <<ss, regf>>
--------------------------------------------------------------------------------
EmptyEntry == [busy |-> FALSE, done |-> FALSE, n |-> 0, value |-> 0]

superscalar_init(prog) ==
    [rob |-> [i \in ROB |-> EmptyEntry], rob_head |-> 0, registers |-> [r \in SuperRegisters |-> 0],
     reg_rob_mapping |-> [r \in SuperRegisters |-> Unmapped], memory |-> SuperMemory, todo |-> prog, next |-> 0,
     steps |-> 0, reused |-> FALSE]

\* The result of an operation; every other opcode gives 0.
ResultOf(i, a, b, memory) ==
    LET addr == a + i.imm
    IN  CASE i.opcode = "ADD"  -> a + b  [] i.opcode = "SUB" -> a - b
          [] i.opcode = "AND"  -> a & b  [] i.opcode = "OR"  -> a | b  [] i.opcode = "XOR" -> a ^^ b
          [] i.opcode = "ADDI" -> a + i.imm
          [] i.opcode = "SLTI" -> IF a < i.imm THEN 1 ELSE 0
          [] i.opcode = "LW"   -> IF addr \in DOMAIN memory THEN memory[addr] ELSE 0
          [] OTHER -> 0

Stored(i, a, b, memory) ==
    IF i.opcode = "SW" /\ a + i.imm \in DOMAIN memory THEN [memory EXCEPT ![a + i.imm] = b] ELSE memory

\* The writer the register is mapped to has not finished, or has already left.
Waits(s, r) ==
    /\ r # 0 /\ s.reg_rob_mapping[r] # Unmapped
    /\ ~(s.rob[s.reg_rob_mapping[r]].busy /\ s.rob[s.reg_rob_mapping[r]].done)

\* Mutant of OperandValue: the register is read though its writer has not committed.
FromRegister(s, r) == s.registers[r]

OperandValue(s, r) ==
    IF r # 0 /\ s.reg_rob_mapping[r] # Unmapped THEN s.rob[s.reg_rob_mapping[r]].value ELSE s.registers[r]

\* One entry after another in the order of the slots: each with its operands executes.
superscalar_dispatch(s0) ==
    FoldLeft(LAMBDA s, slot :
        LET e == s.rob[slot]
            i == s.todo[e.n]
            a == OperandValue(s, i.rs1)
            b == OperandValue(s, i.rs2)
        IN  IF ~e.busy \/ e.done THEN s
            ELSE IF Waits(s, i.rs1) \/ Waits(s, i.rs2) THEN s
            ELSE [s EXCEPT !.rob[slot] = [e EXCEPT !.done = TRUE, !.value = ResultOf(i, a, b, s.memory)],
                           !.memory = Stored(i, a, b, @)],
        s0, [k \in 1 .. MAX_ROB_ENTRIES |-> k - 1])

\* Up to two instructions take the first free slots, in program order; then dispatch.
superscalar_issue(count) ==
    LET One(s) ==
            LET free == {i \in ROB : ~s.rob[i].busy}
                slot == Min(free)
                rd   == s.todo[s.next + 1].rd
            IN  IF free = {} THEN s
                ELSE [s EXCEPT !.rob[slot] = [busy |-> TRUE, done |-> FALSE, n |-> s.next + 1, value |-> 0],
                               !.reg_rob_mapping = IF rd # 0 THEN [@ EXCEPT ![rd] = slot] ELSE @,
                               !.next = @ + 1, !.reused = @ \/ s.rob[slot].n # 0]
    IN  /\ ss.next + count <= Len(ss.todo)
        /\ ss' = [superscalar_dispatch(IF count = 1 THEN One(ss) ELSE One(One(ss))) EXCEPT !.steps = @ + 1]

\* Two at most: i counts the entries from a head that each commit moves on.
superscalar_commit(s0) ==
    LET Visit(acc, i) ==
            LET s == acc.s
                slot == (s.rob_head + i) % MAX_ROB_ENTRIES
                e == s.rob[slot]
                rd == s.todo[e.n].rd
            IN  IF acc.stop \/ acc.count >= MAX_DISPATCH_WIDTH \/ ~e.busy THEN acc
                ELSE IF ~e.done THEN [acc EXCEPT !.stop = TRUE]
                ELSE [acc EXCEPT
                        !.s = [s EXCEPT !.rob[slot].busy = FALSE,
                                        !.registers = IF rd # 0 THEN [@ EXCEPT ![rd] = e.value] ELSE @,
                                        !.rob_head = (@ + 1) % MAX_ROB_ENTRIES],
                        !.count = @ + 1]
    IN  FoldLeft(Visit, [s |-> s0, count |-> 0, stop |-> FALSE], [k \in 1 .. MAX_ROB_ENTRIES |-> k - 1]).s

superscalar_step == ss' = [superscalar_commit(superscalar_dispatch(ss)) EXCEPT !.steps = @ + 1]
--------------------------------------------------------------------------------
regf_init == [regs |-> [r \in SuperRegisters |-> 0], clocks |-> 0]

regf_write(regs, index, value) == IF index = 0 THEN regs ELSE [regs EXCEPT ![index] = value]

\* The enabled ports in their order, so that the later wins.
regf_clock(ports) ==
    regf' = [regf EXCEPT
        !.regs = FoldLeft(LAMBDA rs, p : IF p.en THEN regf_write(rs, p.addr, p.val) ELSE rs, @, ports),
        !.clocks = @ + 1]
--------------------------------------------------------------------------------
SuperInit == (\E p \in SuperPrograms : ss = superscalar_init(p)) /\ regf = regf_init

SuperNext ==
    /\ ss.steps < MaxSuperSteps
    /\ UNCHANGED regf
    /\ superscalar_step \/ \E count \in 1 .. MAX_ISSUE_WIDTH : superscalar_issue(count)

RegfNext ==
    /\ regf.clocks < 2
    /\ UNCHANGED ss
    /\ \E ports \in [1 .. REGF_WRITE_PORTS -> PortWrites] : regf_clock(ports)
--------------------------------------------------------------------------------
\* The value the n-th instruction of the program has in program order.
RECURSIVE After(_, _)
After(prog, n) ==
    IF n = 0 THEN [regs |-> [r \in SuperRegisters |-> 0], mem |-> SuperMemory, val |-> 0]
    ELSE LET m == After(prog, n - 1)
             i == prog[n]
             v == ResultOf(i, m.regs[i.rs1], m.regs[i.rs2], m.mem)
         IN  [regs |-> IF i.rd # 0 THEN [m.regs EXCEPT ![i.rd] = v] ELSE m.regs,
              mem |-> Stored(i, m.regs[i.rs1], m.regs[i.rs2], m.mem), val |-> v]

\* A program that writes each register once, before it is read, and each address once.
WrittenOnce(prog) ==
    /\ \A m, n \in DOMAIN prog : m < n => prog[m].rd # prog[n].rd \/ prog[m].rd = 0
    /\ \A m, n \in DOMAIN prog : m <= n => prog[n].rd \notin {prog[m].rs1, prog[m].rs2} \ {0}
    /\ Cardinality({n \in DOMAIN prog : prog[n].opcode = "SW"}) = 0

\* Until an entry of the buffer is used a second time (from then on an operand may be
\* mapped to an instruction that is not its writer): however issue, dispatch and the
\* skipping commit interleave, and whichever instructions are left waiting for ever, an
\* instruction that executes gets its operands' values in program order, and a register
\* that has been committed holds its program-order value.
SuperscalarValues ==
    (WrittenOnce(ss.todo) /\ ~ss.reused) =>
        /\ \A e \in Range(ss.rob) : e.busy /\ e.done => e.value = After(ss.todo, e.n).val
        /\ \A r \in SuperRegisters : ss.registers[r] \in {0, After(ss.todo, Len(ss.todo)).regs[r]}
================================================================================
