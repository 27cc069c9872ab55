------------------------------- MODULE OutOfOrder -------------------------------
(***************************************************************************)
(* The out-of-order core of mini-cpu-arch (src/ooo_exec.c): reservation    *)
(* stations, register renaming through a reorder buffer, one common data   *)
(* bus.                                                                    *)
(*                                                                         *)
(* Instructions are numbered in the order they are issued, and a value is  *)
(* the number of the instruction that produced it (0: the initial zero).   *)
(* A result is right exactly if its operands and, for a load, the word it  *)
(* reads are, so nothing about the flow of data is lost.  Memory is one    *)
(* word, the worst case: any two accesses may meet.  It holds the number   *)
(* of the store that wrote it; stores write it as soon as they execute.    *)
(* Left out: pc and the counters; and what a free station or a retired     *)
(* entry still contains, which nothing reads.                              *)
(* A station never stays in execution between two calls (cycles_left is    *)
(* 1), so busy is all that is left of its progress.                        *)
(***************************************************************************)
EXTENDS Integers, FiniteSets, Sequences, FiniteSetsExt

CONSTANTS
    MAX_RS,          \* 16
    MAX_ROB,         \* 32
    MAX_REGISTERS,   \* 16
    Instructions,    \* the instructions a program is made of
    MaxIssued        \* bound: length of a program

Registers == 0 .. MAX_REGISTERS - 1
Stations  == 0 .. MAX_RS - 1
Entries   == 0 .. MAX_ROB - 1
Number    == 1 .. MaxIssued

ASSUME OooAssumption ==
    /\ MAX_RS \in Nat \ {0} /\ MAX_ROB \in Nat \ {0} /\ MAX_REGISTERS \in Nat \ {0}
    /\ MaxIssued \in Nat \ {0}
    \* rs2 is 0 for an instruction with an immediate operand
    /\ Instructions \subseteq
          [rd : Registers, rs1 : Registers, rs2 : Registers, is_store : BOOLEAN, is_load : BOOLEAN]
    /\ \A inst \in Instructions : inst.is_store \/ inst.is_load => inst.rs2 = 0

NoRob == -1

VARIABLES
    cpu,       \* the OOOProcessor
    issued,    \* history: the instructions issued, each with the producers its operands have in
               \* program order, and the last store before it
    writer,    \* history: the last instruction to write each register, in program order
    loads,     \* history: the loads executed, each with the store it read
    faults     \* history: "lost" two results met on the bus; "aliased" a result went to a register
               \* of an earlier program; "stale" a commit undid a younger result; "store" a store was
               \* issued with a destination

ooo_vars == <<cpu, issued, writer, loads, faults>>
--------------------------------------------------------------------------------
(* The calls, as functions from a processor to its successor. *)

FreeStation == [busy |-> FALSE]
FreeEntry   == [busy |-> FALSE]

\* Mutant of Operand: registers are read whether they are ready or not.
OperandUnchecked(p, r) == [wait |-> FALSE, v |-> p.registers[r]]

\* What issue puts into vj or qj: the value, or the entry that will produce it.
Operand(p, r) ==
    IF r # 0 /\ ~p.reg_status[r].ready
    THEN [wait |-> TRUE, v |-> p.reg_status[r].rob_num]
    ELSE [wait |-> FALSE, v |-> p.registers[r]]

CanIssue(p) == (\E i \in Stations : ~p.rs[i].busy) /\ p.rob_count < MAX_ROB

\* Mutant of Renamed: the tail has moved on and is not reduced.
RenamedWide(p, rd) ==
    IF rd = 0 THEN p.reg_status
    ELSE [p.reg_status EXCEPT ![rd] = [rob_num |-> p.rob_tail + 1, ready |-> FALSE]]

\* Mutant of Renamed: the tail has already moved on.
RenamedAfter(p, rd) ==
    IF rd = 0 THEN p.reg_status
    ELSE [p.reg_status EXCEPT ![rd] = [rob_num |-> (p.rob_tail + 1) % MAX_ROB, ready |-> FALSE]]

Renamed(p, rd) ==
    IF rd = 0 THEN p.reg_status
    ELSE [p.reg_status EXCEPT ![rd] = [rob_num |-> p.rob_tail, ready |-> FALSE]]

Issue(p, inst, n) ==
    [p EXCEPT !.rs[Min({i \in Stations : ~p.rs[i].busy})] =
                  [busy |-> TRUE, j |-> Operand(p, inst.rs1), k |-> Operand(p, inst.rs2),
                   dest |-> p.rob_tail, n |-> n,
                   op |-> IF inst.is_store THEN "SW" ELSE IF inst.is_load THEN "LW" ELSE "ALU"],
              !.rob[p.rob_tail] =
                  [busy |-> TRUE, ready |-> FALSE, rd |-> inst.rd, is_store |-> inst.is_store,
                   value |-> 0, n |-> n],
              !.reg_status = Renamed(p, inst.rd),
              !.rob_tail  = (@ + 1) % MAX_ROB,
              !.rob_count = @ + 1]

Ready(p) == {i \in Stations : p.rs[i].busy /\ ~p.rs[i].j.wait /\ ~p.rs[i].k.wait}

\* The store a load in station i reads, and the last one in memory for i = MAX_RS: the
\* stations that complete in one call do so in the order of their indices.
StoreBefore(p, i) ==
    LET stores == {k \in Ready(p) : k < i /\ p.rs[k].op = "SW"}
    IN  IF stores = {} THEN p.memory ELSE p.rs[Max(stores)].n

\* Every station with its operands completes in the one call; each overwrites the
\* bus, so that only the result of the last one is left.
Execute(p) ==
    IF Ready(p) = {} THEN p
    ELSE LET last == p.rs[Max(Ready(p))]
         IN  [p EXCEPT !.cdb = [valid |-> TRUE, tag |-> last.dest, value |-> last.n],
                       !.memory = StoreBefore(p, MAX_RS),
                       !.rs = [i \in Stations |-> IF i \in Ready(p) THEN FreeStation ELSE @[i]]]

Received(p, o) ==
    IF o.wait /\ o.v = p.cdb.tag THEN [wait |-> FALSE, v |-> p.cdb.value] ELSE o

Forwarded(p, station) == [station EXCEPT !.j = Received(p, @), !.k = Received(p, @)]

\* The registers a result is written to: those whose last known producer is the
\* entry, whether they still wait for it or not.
Listeners(p) == {r \in Registers : p.reg_status[r].rob_num = p.cdb.tag}

WriteResult(p) ==
    IF ~p.cdb.valid THEN p
    ELSE [p EXCEPT !.rob = [@ EXCEPT ![p.cdb.tag] =
                        [p.rob[p.cdb.tag] EXCEPT !.value = p.cdb.value, !.ready = TRUE]],
                   !.reg_status = [r \in Registers |->
                        IF r \in Listeners(p) THEN [p.reg_status[r] EXCEPT !.ready = TRUE] ELSE @[r]],
                   !.registers = [r \in Registers |->
                        IF r \in Listeners(p) THEN p.cdb.value ELSE @[r]],
                   !.rs = [i \in Stations |-> IF @[i].busy THEN Forwarded(p, @[i]) ELSE @[i]],
                   !.cdb = [p.cdb EXCEPT !.valid = FALSE]]

Entry(p, m) == (p.rob_head + m) % MAX_ROB

\* Mutant of Commits: the loop stops with one entry left.
CommitsLeavesOne(p) ==
    Max({0} \cup {m \in 1 .. p.rob_count - 1 :
            \A l \in 0 .. m - 1 : p.rob[Entry(p, l)].busy /\ p.rob[Entry(p, l)].ready})

\* The loop of ooo_commit retires the results that are ready, from the head on, up
\* to the first that is not.
Commits(p) ==
    Max({m \in 0 .. p.rob_count :
            \A l \in 0 .. m - 1 : p.rob[Entry(p, l)].busy /\ p.rob[Entry(p, l)].ready})

\* Mutant of Retiring: register 0 is written like the others.
RetiringZero(p, r) ==
    {l \in 0 .. Commits(p) - 1 : p.rob[Entry(p, l)].rd = r /\ ~p.rob[Entry(p, l)].is_store}

\* The retired entries that write register r, by their distance from the head.
Retiring(p, r) ==
    {l \in 0 .. Commits(p) - 1 : r # 0 /\ p.rob[Entry(p, l)].rd = r /\ ~p.rob[Entry(p, l)].is_store}

Commit(p) ==
    [p EXCEPT !.registers = [r \in Registers |->
                  IF Retiring(p, r) = {} THEN @[r] ELSE p.rob[Entry(p, Max(Retiring(p, r)))].value],
              !.rob = [k \in Entries |->
                  IF \E l \in 0 .. Commits(p) - 1 : k = Entry(p, l) THEN FreeEntry ELSE @[k]],
              !.rob_head  = (@ + Commits(p)) % MAX_ROB,
              !.rob_count = @ - Commits(p)]
--------------------------------------------------------------------------------
(* What can go wrong in a call. *)

Completing(p) == {i \in Stations : p.rs[i].busy /\ ~Execute(p).rs[i].busy}

Loses(p) ==
    IF Completing(p) # {} /\ (p.cdb.valid \/ Cardinality(Completing(p)) > 1) THEN {"lost"} ELSE {}

\* The loads of the call, each with the store it reads.
Loads(p) == {<<p.rs[i].n, StoreBefore(p, i)>> : i \in {k \in Completing(p) : p.rs[k].op = "LW"}}

Aliases(p) ==
    IF p.cdb.valid /\ \E r \in Listeners(p) : p.rob[p.cdb.tag].rd # r THEN {"aliased"} ELSE {}

Undoes(p) ==
    IF \E r \in Registers :
           /\ Retiring(p, r) # {}
           /\ p.reg_status[r].ready
           /\ p.reg_status[r].rob_num # Entry(p, Max(Retiring(p, r)))
    THEN {"stale"} ELSE {}
--------------------------------------------------------------------------------
OooInit ==
    /\ cpu = [rs |-> [i \in Stations |-> FreeStation],
              reg_status |-> [r \in Registers |-> [rob_num |-> NoRob, ready |-> TRUE]],
              rob |-> [k \in Entries |-> FreeEntry],
              rob_head |-> 0, rob_tail |-> 0, rob_count |-> 0,
              cdb |-> [valid |-> FALSE, tag |-> 0, value |-> 0],
              registers |-> [r \in Registers |-> 0],
              memory |-> 0]
    /\ issued = <<>>
    /\ writer = [r \in Registers |-> 0]
    /\ loads = {}
    /\ faults = {}

\* An instruction that finds no station or no entry is not issued, and nothing changes.
ooo_issue(inst) ==
    /\ Len(issued) < MaxIssued
    /\ CanIssue(cpu)
    /\ cpu' = Issue(cpu, inst, Len(issued) + 1)
    /\ issued' = Append(issued, [j |-> writer[inst.rs1], k |-> writer[inst.rs2],
                                 store |-> Max({0} \cup {n \in 1 .. Len(issued) : issued[n].is_store}),
                                 is_store |-> inst.is_store])
    /\ writer' = IF inst.rd # 0 /\ ~inst.is_store
                 THEN [writer EXCEPT ![inst.rd] = Len(issued')] ELSE writer
    /\ faults' = IF inst.is_store /\ inst.rd # 0 THEN faults \cup {"store"} ELSE faults
    /\ UNCHANGED loads

ooo_execute ==
    /\ cpu' = Execute(cpu)
    /\ faults' = faults \cup Loses(cpu)
    /\ loads' = loads \cup Loads(cpu)
    /\ UNCHANGED <<issued, writer>>

ooo_write_result ==
    /\ cpu' = WriteResult(cpu)
    /\ faults' = faults \cup Aliases(cpu)
    /\ UNCHANGED <<issued, writer, loads>>

ooo_commit ==
    /\ cpu' = Commit(cpu)
    /\ faults' = faults \cup Undoes(cpu)
    /\ UNCHANGED <<issued, writer, loads>>

ooo_step ==
    \E written \in {WriteResult(cpu)} : \E executed \in {Execute(written)} :
        /\ cpu' = Commit(executed)
        /\ faults' = faults \cup Aliases(cpu) \cup Loses(written) \cup Undoes(executed)
        /\ loads' = loads \cup Loads(written)
        /\ UNCHANGED <<issued, writer>>

OooNext ==
    \/ \E inst \in Instructions : ooo_issue(inst)
    \/ ooo_execute
    \/ ooo_write_result
    \/ ooo_commit
    \/ ooo_step

\* The drivers call ooo_step until everything has been committed.
OooFairness == WF_ooo_vars(ooo_step)

OooSpec == OooInit /\ [][OooNext]_ooo_vars /\ OooFairness
--------------------------------------------------------------------------------
(* Properties. *)

OperandType == [wait : {TRUE}, v : Entries] \cup [wait : {FALSE}, v : 0 .. MaxIssued]

OooTypeOK ==
    /\ \A i \in Stations : cpu.rs[i] \in
           {FreeStation} \cup [busy : {TRUE}, j : OperandType, k : OperandType, dest : Entries, n : Number,
                               op : {"ALU", "LW", "SW"}]
    /\ \A k \in Entries : cpu.rob[k] \in
           {FreeEntry} \cup [busy : {TRUE}, ready : BOOLEAN, rd : Registers, is_store : BOOLEAN,
                             value : 0 .. MaxIssued, n : Number]
    /\ cpu.reg_status \in [Registers -> [rob_num : Entries \cup {NoRob}, ready : BOOLEAN]]
    /\ cpu.registers \in [Registers -> 0 .. MaxIssued] /\ cpu.memory \in 0 .. MaxIssued
    /\ cpu.rob_head \in Entries /\ cpu.rob_tail \in Entries /\ cpu.rob_count \in 0 .. MAX_ROB
    /\ cpu.cdb \in [valid : BOOLEAN, tag : Entries, value : 0 .. MaxIssued]

\* The instruction in flight whose result entry k will hold.
InFlight(k) == {i \in Stations : cpu.rs[i].busy /\ cpu.rs[i].dest = k}

\* The reorder buffer holds the youngest instructions in program order, each
\* unfinished one is in one station at most, and every operand waits for an
\* unfinished older instruction: no circle of waiting can form, also when the ring
\* wraps and its entries are used again.
WaitsForOlder ==
    /\ cpu.rob_tail = (cpu.rob_head + cpu.rob_count) % MAX_ROB
    /\ \A k \in Entries :
          cpu.rob[k].busy <=> \E m \in 0 .. cpu.rob_count - 1 : k = Entry(cpu, m)
    /\ \A m \in 0 .. cpu.rob_count - 1 :
          cpu.rob[Entry(cpu, m)].n = Len(issued) - cpu.rob_count + m + 1
    /\ \A k \in Entries : Cardinality(InFlight(k)) <= 1
    /\ \A i \in Stations : cpu.rs[i].busy =>
          LET own == cpu.rob[cpu.rs[i].dest]
          IN  /\ own.busy /\ ~own.ready /\ own.n = cpu.rs[i].n
              /\ \A o \in {cpu.rs[i].j, cpu.rs[i].k} : o.wait =>
                    cpu.rob[o.v].busy /\ ~cpu.rob[o.v].ready /\ cpu.rob[o.v].n < own.n

\* An instruction has the operands program order gives it, wherever it got them:
\* from a register or from the bus.
OperandsInProgramOrder ==
    faults = {} => \A i \in Stations : cpu.rs[i].busy =>
        LET need == issued[cpu.rs[i].n]
        IN  /\ \/ cpu.rs[i].j.wait /\ cpu.rob[cpu.rs[i].j.v].n = need.j
               \/ ~cpu.rs[i].j.wait /\ cpu.rs[i].j.v = need.j
            /\ \/ cpu.rs[i].k.wait /\ cpu.rob[cpu.rs[i].k.v].n = need.k
               \/ ~cpu.rs[i].k.wait /\ cpu.rs[i].k.v = need.k

\* When everything is committed the registers hold what a sequential run leaves
\* there, although results were written out of order and twice.
RegistersSequential ==
    cpu.rob_count = 0 /\ faults \subseteq {"stale"} => cpu.registers = writer

\* A store writes when its operands arrive, before older accesses if these still wait
\* (ooo_exec.c:153).  Yet until a result is lost a load reads the last store before it: an
\* older instruction that waits has another ready, or on the bus, and the younger one
\* that goes ahead meets that one's result there.
LoadsInProgramOrder ==
    "lost" \notin faults => \A l \in loads : l[2] = issued[l[1]].store

\* Whatever the order of the stages: no circle of waiting, and the operands, the words read
\* and the final registers are those of program order, unless a fault named in faults occurred.
ResultsInProgramOrder ==
    OooTypeOK /\ WaitsForOlder /\ OperandsInProgramOrder /\ LoadsInProgramOrder /\ RegistersSequential

\* Everything issued is committed in the end unless a result was lost: no operand
\* waits for ever.
AllCommitted == cpu.rob_count > 0 ~> cpu.rob_count = 0 \/ "lost" \in faults

--------------------------------------------------------------------------------
(* What the documentation promises and the code does not keep. *)

\* "Any result produced by a functional unit is broadcast": an instruction that has
\* left its station without finishing is on the bus.
ResultsBroadcast ==
    \A k \in Entries : cpu.rob[k].busy /\ ~cpu.rob[k].ready =>
        InFlight(k) # {} \/ (cpu.cdb.valid /\ cpu.cdb.tag = k)
================================================================================
