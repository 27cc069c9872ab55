-------------------------------- MODULE GpuCore --------------------------------
(* mini-gpu-arch below its schedulers: lanes of a warp and their divergence          *)
(* (src/warp.c), blocks, registers and pipeline of a multiprocessor                  *)
(* (src/shader_core.c), the vector unit (src/simd.c), caches, translation and fences *)
(* (src/memory_gpu.c), and list scheduling and heuristics (src/thread_sched.c).      *)
(* Ratios, rooflines, statistics and printing are left out.                          *)
EXTENDS Integers, Sequences, FiniteSets, SequencesExt, FiniteSetsExt, Functions

CONSTANTS
    Lanes,              \* lanes of a warp, 0 .. 31 in the code
    DIV_STACK,          \* 8: branches that may nest
    LaneMasks,          \* masks a caller may set
    MaxIssued,          \* bound: instructions issued
    SM_WARPS, SM_REGISTERS, SM_SHARED,  \* resources of a multiprocessor
    SM_MAX_THREADS_PER_BLOCK, SM_REGISTERS_PER_THREAD_MAX, SM_MAX_THREAD_BLOCKS,   \* 1024, 255 and 32
    MaxKernels, MaxSmCycles,            \* bounds: kernels that hold registers, cycles of the pipeline
    WarpSize, Granularity,              \* 32 threads, and 256 registers given at a time
    BlockShapes,        \* blocks that may be asked for, <<threads, shared memory, registers per thread>>
    SIMD_LANES, PushedMasks, IndexRange,    \* lanes of the vector unit, masks of branches, cells of memory
    MASK_STACK,         \* 16: masks that may be pushed
    CACHE_NUM_SETS, CACHE_ASSOC, Lines, \* geometry of a cache, lines that are accessed
    TLB_ENTRIES, Pages,
    MaxAccesses,        \* bound: accesses to the memories
    MEM_MAX_PENDING, Latencies, MaxCycle,   \* operations a fence may wait for
    SMEM_NUM_BANKS, SMEM_BANK_WIDTH, CachelineSize,     \* banks of shared memory, bytes of a line
    SMEM_WORDS, SharedWords,            \* size of the shared memory, words that are asked for
    NumSms, Durations, MaxTasks         \* multiprocessors and tasks of list scheduling

ASSUME GpuCoreAssumption ==
    /\ NumSms \in Nat \ {0} /\ CACHE_ASSOC \in Nat \ {0} /\ Granularity \in Nat \ {0}

VARIABLES
    lanes,      \* Warp: masks, states, program counters, the lanes of the last issue
    shader,     \* ShaderCore: blocks, what is in use, warps that wait, registers of kernels
    stages,     \* the pipeline: what each stage holds, cycles, instructions retired
    vec,        \* SIMDUnit: masks, and the vector at hand
    gmem,       \* caches, and the lines each was asked for
    gtlb,       \* GPUTLB entries oldest first, and the pages inserted
    fence,      \* pending operations, cycle, operations a fence was issued after
    smem,       \* SharedMemory: words, accesses of every bank, the words written last
    plan        \* tasks of list scheduling

gpucore_vars == <<lanes, shader, stages, vec, gmem, gtlb, fence, smem, plan>>

-----------------------------------------------------------------------------
(* A warp: lanes that run together, and the masks of nested branches. *)

\* base is the mask outside of branches, forced the depths whose mask a caller replaced, revived
\* whether all lanes were activated since the last branch; no code ends a thread.
warp_create ==
    [mask |-> Lanes, stack |-> <<>>, diverged |-> FALSE, state |-> [l \in Lanes |-> "T_READY"],
     pc |-> [l \in Lanes |-> 0], unified_pc |-> 0, ran |-> Lanes, ready |-> Lanes,
     base |-> Lanes, forced |-> {}, revived |-> FALSE]

warp_reset == lanes' = warp_create

Replaced(mask) ==
    [lanes EXCEPT !.mask = mask, !.base = IF lanes.stack = <<>> THEN mask ELSE @,
                  !.forced = IF lanes.stack = <<>> THEN @ ELSE @ \cup {Len(lanes.stack)}]

warp_set_active_mask(mask) == lanes' = Replaced(mask)

\* The stack stays as it is.
warp_activate_all ==
    lanes' = [Replaced(Lanes) EXCEPT !.diverged = FALSE, !.state = [l \in Lanes |-> "T_READY"],
                                     !.ready = Lanes, !.revived = TRUE]

\* A branch past the depth of the stack leaves the mask alone, and both paths run together.
warp_push_divergence(taken) ==
    /\ Len(lanes.stack) < DIV_STACK
    /\ lanes' = [lanes EXCEPT !.stack = Append(@, lanes.mask), !.mask = taken,
                              !.diverged = TRUE, !.revived = FALSE]

\* Mutant of warp_pop_divergence: the lanes of the path just ended do not come back.
PopOtherPath ==
    /\ lanes.stack # <<>>
    /\ lanes' = [lanes EXCEPT !.stack = Front(@), !.mask = Last(lanes.stack) \ @,
                              !.forced = @ \ {Len(lanes.stack)},
                              !.diverged = IF Len(lanes.stack) = 1 THEN FALSE ELSE @]

warp_pop_divergence ==
    /\ lanes.stack # <<>>
    /\ lanes' = [lanes EXCEPT !.stack = Front(@), !.mask = Last(lanes.stack),
                              !.forced = @ \ {Len(lanes.stack)},
                              !.diverged = IF Len(lanes.stack) = 1 THEN FALSE ELSE @]

warp_is_stalled == \E l \in lanes.mask : lanes.state[l] = "T_BLOCKED"

warp_issue_instr ==
    /\ lanes.mask # {} /\ ~warp_is_stalled
    /\ lanes' = [lanes EXCEPT !.unified_pc = @ + 1, !.ran = lanes.mask,
                    !.pc = [l \in Lanes |-> IF l \in lanes.mask THEN lanes.unified_pc + 1 ELSE @[l]],
                    !.state = [l \in Lanes |-> IF l \in lanes.mask THEN "T_ACTIVE" ELSE @[l]]]

warp_complete_instr ==
    lanes' = [lanes EXCEPT !.state = [l \in Lanes |-> IF @[l] = "T_ACTIVE" THEN "T_READY" ELSE @[l]]]

\* Only lanes of the mask at hand: those of another path keep waiting.
warp_stall_memory ==
    lanes' = [lanes EXCEPT !.state = [l \in Lanes |-> IF l \in lanes.mask THEN "T_BLOCKED" ELSE @[l]],
                           !.ready = @ \ lanes.mask]

warp_unstall_memory ==
    lanes' = [lanes EXCEPT !.state = [l \in Lanes |->
                                IF l \in lanes.mask /\ @[l] = "T_BLOCKED" THEN "T_READY" ELSE @[l]],
                           !.ready = @ \cup lanes.mask]

\* A branch both ways among the lanes that are active, or none.
warp_classify_branch(taken) ==
    IF taken = {} \/ lanes.mask \ taken = {} THEN "BRANCH_UNIFORM" ELSE "BRANCH_TWO_WAY"

\* Every lane of the mask votes the same.
warp_vote(op, pred) ==
    CASE op = "VOTE_ALL"    -> pred \/ lanes.mask = {}
      [] op = "VOTE_ANY"    -> pred /\ lanes.mask # {}
      [] op = "VOTE_BALLOT" -> IF pred THEN lanes.mask ELSE {}

LaneNext ==
    /\ \/ \E taken \in SUBSET lanes.mask : /\ warp_classify_branch(taken) = "BRANCH_TWO_WAY"
                                           /\ warp_push_divergence(taken)
       \/ warp_pop_divergence
       \/ \E mask \in LaneMasks : warp_set_active_mask(mask)
       \/ warp_activate_all
       \/ warp_reset
       \/ lanes.unified_pc < MaxIssued /\ warp_issue_instr
       \/ warp_complete_instr
       \/ warp_stall_memory
       \/ warp_unstall_memory
    /\ UNCHANGED <<shader, stages, vec, gmem, gtlb, fence, smem, plan>>

\* However branches nest and lanes wait, every path is part of the one around it unless a caller
\* replaced its mask, and the mask from before the branches is back when they ended; the warp counts
\* as diverged exactly inside a branch until all lanes are activated; a lane's counter is the unified
\* one exactly if it took part in the last instruction; and a lane waits until it is woken, on
\* whichever path that happens (warp_push_divergence, warp_pop_divergence, warp_activate_all,
\* warp_issue_instr, warp_unstall_memory).
LanesReconverge ==
    LET masks == Append(lanes.stack, lanes.mask)
    IN  /\ masks[1] = lanes.base
        /\ \A d \in 1 .. Len(lanes.stack) \ lanes.forced : masks[d + 1] \subseteq masks[d]
        /\ lanes.diverged <=> lanes.stack # <<>> /\ ~lanes.revived
        /\ {l \in Lanes : lanes.pc[l] = lanes.unified_pc} = lanes.ran
        /\ {l \in Lanes : lanes.state[l] # "T_BLOCKED"} = lanes.ready
        /\ warp_vote("VOTE_ANY", TRUE) <=> warp_vote("VOTE_BALLOT", TRUE) # {}
        /\ warp_vote("VOTE_ANY", TRUE) => warp_vote("VOTE_ALL", TRUE)

-----------------------------------------------------------------------------
(* A multiprocessor: warps, registers and shared memory given to blocks and kernels, *)
(* and the pipeline the warps in use are fetched into.                               *)

RoundUp(n, unit) == ((n + unit - 1) \div unit) * unit
WarpsNeeded(threads) == RoundUp(threads, WarpSize) \div WarpSize
SmWarps == 0 .. SM_WARPS - 1
BlockSlots == SmWarps
NoBlock == [active |-> FALSE, warps |-> 0, base |-> 0, shmem |-> 0, regs |-> 0]

\* waiting are the warps of which an active lane is blocked, kernels the <<threads, registers>> that
\* were given and not freed.
sm_create ==
    [blocks |-> [s \in BlockSlots |-> NoBlock], active_warps |-> 0, registers |-> 0, shared |-> 0,
     waiting |-> {}, kernels |-> <<>>]

EmptyPipeline ==
    [slot |-> [s \in 1 .. 5 |-> <<>>], cycles |-> 0, fetched |-> 0, retired |-> 0, issued |-> 0, direct |-> 0]

sm_reset == shader' = sm_create /\ stages' = EmptyPipeline

Live == {s \in BlockSlots : shader.blocks[s].active}
WarpsOf(s) == shader.blocks[s].base .. shader.blocks[s].base + shader.blocks[s].warps - 1

\* The warps of a block follow as many as are in use, whichever these are, and are reset.
sm_allocate_block(shape) ==
    LET warps == WarpsNeeded(shape[1])
        regs == warps * WarpSize * shape[3]
        base == shader.active_warps
        free == {s \in BlockSlots : ~shader.blocks[s].active}
    IN  /\ shape[1] \in 1 .. SM_MAX_THREADS_PER_BLOCK
        /\ warps <= SM_WARPS - shader.active_warps
        /\ shader.registers + regs <= SM_REGISTERS
        /\ shader.shared + shape[2] <= SM_SHARED
        /\ free # {}
        /\ shader' = [shader EXCEPT
              !.blocks[Min(free)] = [active |-> TRUE, warps |-> warps, base |-> base,
                                     shmem |-> shape[2], regs |-> regs],
              !.active_warps = @ + warps, !.registers = @ + regs, !.shared = @ + shape[2],
              !.waiting = @ \ (base .. base + warps - 1)]

sm_deallocate_block(s) ==
    /\ shader.blocks[s].active
    /\ shader' = [shader EXCEPT !.blocks[s].active = FALSE, !.active_warps = @ - shader.blocks[s].warps,
                                !.registers = @ - shader.blocks[s].regs, !.shared = @ - shader.blocks[s].shmem]

\* Registers for a kernel by themselves.  When they do not suffice every thread gets as many as can
\* be, and what that takes is rounded up again.
sm_allocate_registers(threads, requested) ==
    LET wanted == Min({requested, SM_REGISTERS_PER_THREAD_MAX})
        remaining == SM_REGISTERS - shader.registers
        fits == RoundUp(threads * wanted, Granularity) <= remaining
        assigned == IF fits THEN wanted ELSE remaining \div threads
    IN  /\ requested > 0 /\ threads > 0 /\ (fits \/ assigned > 0)
        /\ shader' = [shader EXCEPT !.registers = @ + RoundUp(threads * assigned, Granularity),
                                    !.kernels = Append(@, <<threads, assigned>>)]

\* The count stops at 0.
sm_free_registers(k) ==
    LET freed == RoundUp(shader.kernels[k][1] * shader.kernels[k][2], Granularity)
    IN  shader' = [shader EXCEPT !.registers = IF @ > freed THEN @ - freed ELSE 0,
                                 !.kernels = RemoveAt(@, k)]

ShaderNext ==
    /\ \/ /\ \/ \E shape \in BlockShapes :
                  \/ sm_allocate_block(shape)
                  \/ Len(shader.kernels) < MaxKernels /\ sm_allocate_registers(shape[1], shape[3])
             \/ \E s \in BlockSlots : sm_deallocate_block(s)
             \/ \E k \in DOMAIN shader.kernels : sm_free_registers(k)
          /\ UNCHANGED stages
       \/ sm_reset
    /\ UNCHANGED <<lanes, vec, gmem, gtlb, fence, smem, plan>>

\* What is in use is what the live blocks and the kernels hold, to the register; warps and shared
\* memory are never overdrawn, registers by less than one unit of allocation, and freeing takes no
\* register of another (sm_allocate_block, sm_allocate_registers, sm_free_registers).
ResourcesAccounted ==
    LET Held(field) == FoldSet(LAMBDA s, n : n + shader.blocks[s][field], 0, Live)
        OfKernels == FoldLeft(LAMBDA n, k : n + RoundUp(k[1] * k[2], Granularity), 0, shader.kernels)
    IN  /\ shader.active_warps = Held("warps") /\ shader.active_warps <= SM_WARPS
        /\ shader.registers = Held("regs") + OfKernels /\ shader.registers < SM_REGISTERS + Granularity
        /\ shader.shared = Held("shmem") /\ shader.shared <= SM_SHARED

\* What the check for "Free warp slots" (shader_core.c:139) is for: a warp belongs to one block,
\* and starting a block resets no warp of another (sm_allocate_block).
WarpsDisjoint == \A s, t \in Live : s # t => WarpsOf(s) \cap WarpsOf(t) = {}

\* Blocks of a shape that fit an empty multiprocessor, one at least; registers are rounded by the
\* block, threads are not rounded to warps.
sm_calc_occupancy(shape) ==
    LET regs == RoundUp(shape[3] * shape[1], Granularity)
        limits == {IF regs > 0 THEN SM_REGISTERS \div regs ELSE SM_MAX_THREAD_BLOCKS,
                   IF shape[2] > 0 THEN SM_SHARED \div shape[2] ELSE SM_MAX_THREAD_BLOCKS,
                   IF shape[1] > 0 THEN (SM_WARPS * WarpSize) \div shape[1] ELSE 0,
                   SM_MAX_THREAD_BLOCKS}
    IN  Max({1, Min(limits)})

\* As many blocks of whole warps as the calculator names are taken, if one is
\* (sm_calc_occupancy, sm_allocate_block).
OccupancyIsReached ==
    \A threads \in {WarpSize * w : w \in 1 .. SM_WARPS}, bytes \in 0 .. SM_SHARED, regs \in 0 .. SM_REGISTERS :
        LET n == sm_calc_occupancy(<<threads, bytes, regs>>)
            Fits(blocks) == /\ blocks * WarpsNeeded(threads) <= SM_WARPS
                            /\ blocks * threads * regs <= SM_REGISTERS
                            /\ blocks * bytes <= SM_SHARED
        IN  Fits(1) => Fits(n)

\* The pipeline moves all its stages in one cycle, last first; a stage is the cycle and the warp
\* its instruction was fetched for, or nothing.  Always the first warp that does not wait is fetched
\* for, and decoded in the cycle it is fetched in.
sm_cycle ==
    LET ready == {w \in SmWarps : w < shader.active_warps} \ shader.waiting
        next == [s \in 1 .. 5 |->
                    IF s = 1 THEN IF ready = {} THEN <<>> ELSE <<stages.cycles + 1, Min(ready)>>
                    ELSE stages.slot[s - 1]]
    IN  stages' = [stages EXCEPT !.slot = next, !.cycles = @ + 1,
                      !.fetched = @ + (IF ready = {} THEN 0 ELSE 1),
                      !.retired = @ + (IF stages.slot[5] = <<>> THEN 0 ELSE 1),
                      !.issued = @ + (IF stages.slot[1] = <<>> THEN 0 ELSE 1)]

\* The first warp that does not wait issues past the pipeline, in use or not.
sm_issue_instructions ==
    /\ SmWarps \ shader.waiting # {}
    /\ stages' = [stages EXCEPT !.issued = @ + 1, !.direct = @ + 1]

\* External: a lane of a warp starts or ends waiting for memory.
WarpWaits(w) == shader' = [shader EXCEPT !.waiting = IF w \in @ THEN @ \ {w} ELSE @ \cup {w}]

\* One block at a time is in use while the pipeline moves.
StageNext ==
    /\ \/ /\ \/ stages.cycles < MaxSmCycles /\ sm_cycle
             \/ stages.direct < 1 /\ sm_issue_instructions
          /\ UNCHANGED shader
       \/ /\ \/ \E w \in SmWarps : WarpWaits(w)
             \/ Live = {} /\ \E shape \in BlockShapes : sm_allocate_block(shape)
             \/ \E s \in BlockSlots : sm_deallocate_block(s)
          /\ UNCHANGED stages
       \/ sm_reset
    /\ UNCHANGED <<lanes, vec, gmem, gtlb, fence, smem, plan>>

\* An instruction is as many stages on as cycles have passed since its fetch, for a warp there is;
\* none is lost or done twice whatever its block or warp does meanwhile, and those that left the
\* decoder or went past it were issued (sm_cycle, sm_issue_instructions).
StagesMoveTogether ==
    LET held == {s \in 1 .. 5 : stages.slot[s] # <<>>}
    IN  /\ \A s \in held : stages.slot[s][1] = stages.cycles - s + 1 /\ stages.slot[s][2] \in SmWarps
        /\ stages.fetched = stages.retired + Cardinality(held)
        /\ stages.issued = stages.direct + stages.retired + Cardinality(held \ {1})

-----------------------------------------------------------------------------
(* The vector unit.  The stack keeps exec_mask; which lanes work is set apart. *)

Elements == 1 .. SIMD_LANES

simd_create == [exec_mask |-> Elements, active |-> Elements, stack |-> <<>>]
simd_reset == vec' = simd_create

simd_mask_push(mask) ==
    /\ Len(vec.stack) < MASK_STACK
    /\ vec' = [vec EXCEPT !.stack = Append(@, vec.exec_mask), !.exec_mask = mask]
simd_mask_pop == vec.stack # <<>> /\ vec' = [vec EXCEPT !.stack = Front(@), !.exec_mask = Last(vec.stack)]
simd_mask_set(mask) == vec' = [vec EXCEPT !.exec_mask = mask, !.active = mask]
simd_mask_all == simd_mask_set(Elements)
simd_mask_none == simd_mask_set({})

\* Lanes that are off load nothing and leave memory alone.
simd_vgather(mem, indices) == [i \in Elements |-> IF i \in vec.active THEN mem[indices[i]] ELSE 0]
simd_vscatter(mem, indices, vals) ==
    LET Scatter[i \in 0 .. SIMD_LANES] ==
            IF i = 0 THEN mem
            ELSE IF i \in vec.active
                 THEN LET before == Scatter[i - 1]
                      IN [a \in DOMAIN mem |-> IF a = indices[i] THEN vals[i] ELSE before[a]]
                 ELSE Scatter[i - 1]
    IN  Scatter[SIMD_LANES]

\* Numbers with a bit in common.
Meet(x, y) == \E b \in 0 .. SIMD_LANES : (x \div 2 ^ b) % 2 = 1 /\ (y \div 2 ^ b) % 2 = 1

ReduceOps == {"REDUCE_SUM", "REDUCE_PROD", "REDUCE_MIN", "REDUCE_MAX", "REDUCE_AND", "REDUCE_OR"}
Reduced(op, x, y) ==
    CASE op = "REDUCE_SUM"  -> x + y
      [] op = "REDUCE_PROD" -> x * y
      [] op = "REDUCE_MIN"  -> Min({x, y})
      [] op = "REDUCE_MAX"  -> Max({x, y})
      [] op = "REDUCE_AND"  -> IF Meet(x, y) THEN 1 ELSE 0
      [] op = "REDUCE_OR"   -> IF x # 0 \/ y # 0 THEN 1 ELSE 0

\* In a tree: at each stride a lane takes the lane that far on, unless both are off; the value of a
\* lane that is off is 0.
simd_vreduce(op, data) ==
    LET Step(works, stride) ==
            [i \in Elements |-> IF (i - 1) % (2 * stride) = 0 /\ i + stride <= SIMD_LANES
                                   /\ (i \in vec.active \/ i + stride \in vec.active)
                                THEN Reduced(op, works[i], works[i + stride]) ELSE works[i]]
        start == [i \in Elements |-> IF i \in vec.active THEN data[i] ELSE 0]
    IN  FoldLeft(Step, start, <<1, 2, 4>>)[1]

\* What the sweeps compute is overwritten: the first element is 0 and its value enters no sum.
simd_vprefixsum(data) ==
    LET Out[i \in Elements] == IF i = 1 THEN 0 ELSE Out[i - 1] + data[i] IN [i \in Elements |-> Out[i]]

VecNext ==
    /\ \/ \E mask \in PushedMasks : simd_mask_push(mask)
       \/ \E mask \in SUBSET Elements : simd_mask_set(mask)
       \/ simd_mask_pop \/ simd_mask_all \/ simd_mask_none \/ simd_reset
    /\ UNCHANGED <<lanes, shader, stages, gmem, gtlb, fence, smem, plan>>

\* Elements that tell every sum apart, and their sum over some lanes.
Powers == [i \in Elements |-> 2 ^ (i - 1)]
SumOver(some) == FoldSet(LAMBDA i, n : n + Powers[i], 0, some)

\* A sum in which every lane a partial result passes through works is the sum over the lanes that
\* do, and a maximum the largest; with all lanes on the minimum and the product are those of all, and
\* elements without a bit in common meet in none; what a scatter wrote a gather with the same
\* indices reads back, later lanes winning; no other cell changes (simd_vreduce, simd_vscatter,
\* simd_vgather).
VectorsHold ==
    /\ (\E k \in 0 .. SIMD_LANES : vec.active = 1 .. k) =>
          /\ simd_vreduce("REDUCE_SUM", Powers) = SumOver(vec.active)
          /\ simd_vreduce("REDUCE_MAX", Powers) = Max({0} \cup {Powers[i] : i \in vec.active})
          /\ simd_vreduce("REDUCE_OR", Powers) = (IF vec.active = {} THEN 0 ELSE 1)
    /\ vec.active = Elements =>
          /\ simd_vreduce("REDUCE_MIN", Powers) = 1 /\ simd_vreduce("REDUCE_AND", Powers) = 0
          /\ simd_vreduce("REDUCE_PROD", Powers) = 2 ^ ((SIMD_LANES * (SIMD_LANES - 1)) \div 2)
    /\ \A to \in [Elements -> IndexRange] :
          LET after == simd_vscatter([a \in IndexRange |-> 0], to, Powers)
              Hits(a) == {i \in vec.active : to[i] = a}
          IN  /\ \A a \in IndexRange : after[a] = IF Hits(a) = {} THEN 0 ELSE Powers[Max(Hits(a))]
              /\ \A i \in Elements : simd_vgather(after, to)[i] =
                    IF i \in vec.active THEN Powers[Max(Hits(to[i]))] ELSE 0

\* What a reduction promises, that "non-participating lanes contribute identity value" (simd.c:223):
\* the sum over the lanes that work, whichever these are (simd_vreduce).
ReductionTakesActive == simd_vreduce("REDUCE_SUM", Powers) = SumOver(vec.active)

-----------------------------------------------------------------------------
(* Caches, translation and fences.  A way holds a line, whether it is dirty, and the *)
(* epoch of its last access; data is always read from and written to memory.         *)

EmptyLine == [valid |-> FALSE, line |-> -1, dirty |-> FALSE, epoch |-> 0]
EmptyCache == [sets |-> [s \in 0 .. CACHE_NUM_SETS - 1 |-> [w \in 0 .. CACHE_ASSOC - 1 |-> EmptyLine]],
               epoch |-> 0, asked |-> <<>>, wrote |-> {}]
cache_set_index(line) == line % CACHE_NUM_SETS

\* Way 0 is passed over while another way is empty; the counters survive an invalidation.
VictimWay(set) ==
    LET empty == {w \in 1 .. CACHE_ASSOC - 1 : ~set[w].valid}
        oldest == Min({set[w].epoch : w \in DOMAIN set})
    IN  IF empty # {} THEN Min(empty) ELSE Min({w \in DOMAIN set : set[w].epoch = oldest})

EmptyShared ==
    [data |-> [w \in 0 .. SMEM_WORDS - 1 |-> 0], access_count |-> [b \in 0 .. SMEM_NUM_BANKS - 1 |-> 0],
     latest |-> [w \in 0 .. SMEM_WORDS - 1 |-> 0], accesses |-> 0]

CacheHit(c, line) ==
    \E w \in 0 .. CACHE_ASSOC - 1 :
        c.sets[cache_set_index(line)][w].valid /\ c.sets[cache_set_index(line)][w].line = line

cache_access(c, line, write) ==
    LET set == c.sets[cache_set_index(line)]
        hit == CacheHit(c, line)
        way == IF hit THEN CHOOSE w \in DOMAIN set : set[w].valid /\ set[w].line = line ELSE VictimWay(set)
        now == [valid |-> TRUE, line |-> line, dirty |-> write \/ (hit /\ set[way].dirty), epoch |-> c.epoch + 1]
    IN  [c EXCEPT !.sets[cache_set_index(line)][way] = now, !.epoch = @ + 1, !.asked = Append(@, line),
                  !.wrote = (IF set[way].valid /\ ~hit THEN @ \ {set[way].line} ELSE @) \cup (IF write THEN {line} ELSE {})]

cache_flush(c) ==
    [c EXCEPT !.sets = [s \in DOMAIN @ |-> [w \in DOMAIN @[s] |-> [@[s][w] EXCEPT !.dirty = FALSE]]], !.wrote = {}]
cache_invalidate(c) ==
    [c EXCEPT !.sets = [s \in DOMAIN @ |-> [w \in DOMAIN @[s] |-> [@[s][w] EXCEPT !.valid = FALSE, !.dirty = FALSE]]],
              !.asked = <<>>, !.wrote = {}]

\* A read that misses both levels is counted in both again; a write goes to the first level only.
gpu_mem_read(line) ==
    LET first == cache_access(gmem.l1, line, FALSE)
        second == cache_access(gmem.l2, line, FALSE)
        near == CacheHit(gmem.l1, line)
        far == CacheHit(gmem.l2, line)
    IN  gmem' = [gmem EXCEPT !.l1 = IF near \/ far THEN first ELSE cache_access(first, line, FALSE),
                             !.l2 = IF near THEN @ ELSE IF far THEN second ELSE cache_access(second, line, FALSE),
                             !.accesses = @ + 1]
gpu_mem_write(line) == gmem' = [gmem EXCEPT !.l1 = cache_access(@, line, TRUE), !.accesses = @ + 1]

\* Everything but the operations' clock: caches with their counters, translations, pending
\* operations and shared memory are cleared.
gpu_mem_reset ==
    /\ gmem' = [gmem EXCEPT !.l1 = EmptyCache, !.l2 = EmptyCache]
    /\ gtlb' = [entries |-> <<>>, age |-> 0, table |-> [p \in Pages |-> 0]]
    /\ fence' = [fence EXCEPT !.head = 0, !.tail = 0, !.active = FALSE, !.before = {}]
    /\ smem' = [EmptyShared EXCEPT !.accesses = smem.accesses]
    /\ UNCHANGED <<lanes, shader, stages, vec, plan>>

MemoryNext ==
    \/ /\ \/ gmem.accesses < MaxAccesses /\ \E line \in Lines : gpu_mem_read(line) \/ gpu_mem_write(line)
          \/ \E level \in {"l1", "l2"} : gmem' = [gmem EXCEPT ![level] = cache_flush(@)]
          \/ \E level \in {"l1", "l2"} : gmem' = [gmem EXCEPT ![level] = cache_invalidate(@)]
       /\ UNCHANGED <<lanes, shader, stages, vec, gtlb, fence, smem, plan>>
    \/ gpu_mem_reset

\* The lines of a set asked for last, as many as it has ways.
RecentLines(c, s) ==
    LET trace == SelectSeq(c.asked, LAMBDA line : cache_set_index(line) = s)
        Latest(line) == Max({i \in DOMAIN trace : trace[i] = line})
        After(line) == {trace[i] : i \in Latest(line) + 1 .. Len(trace)}
    IN  {line \in Range(trace) : Cardinality(After(line)) < CACHE_ASSOC}

\* A set holds exactly the lines asked for last, even when way 0 was emptied with its age kept, and
\* what is dirty was written since it came in (cache_access, cache_flush, cache_invalidate).
CachesKeepRecent ==
    \A c \in {gmem.l1, gmem.l2} : \A s \in DOMAIN c.sets :
        LET ways == {w \in DOMAIN c.sets[s] : c.sets[s][w].valid}
        IN  /\ {c.sets[s][w].line : w \in ways} = RecentLines(c, s)
            /\ Cardinality(ways) = Cardinality(RecentLines(c, s))
            /\ \A w \in ways : c.sets[s][w].dirty <=> c.sets[s][w].line \in c.wrote

\* Translations: an empty entry first, then the one used least recently; a page may be there twice,
\* and the first entry answers.
tlb_lookup(page) ==
    LET found == {e \in DOMAIN gtlb.entries : gtlb.entries[e].page = page}
    IN  IF found = {} THEN 0 ELSE Min(found)

TlbTouch(e) == gtlb' = [gtlb EXCEPT !.entries[e].used = gtlb.age, !.age = @ + 1]

tlb_insert(page, frame) ==
    LET new == [page |-> page, frame |-> frame, used |-> gtlb.age]
        oldest == Min({gtlb.entries[e].used : e \in DOMAIN gtlb.entries})
        victim == CHOOSE e \in DOMAIN gtlb.entries : gtlb.entries[e].used = oldest
    IN  gtlb' = [gtlb EXCEPT !.age = @ + 1, !.table[page] = frame,
                    !.entries = IF Len(@) < TLB_ENTRIES THEN Append(@, new)
                                ELSE [e \in DOMAIN @ |-> IF e = victim THEN new ELSE @[e]]]

\* The caller inserts a translation when it was not found.
GpuTlbNext ==
    \/ /\ gtlb.age < MaxAccesses
       /\ \E page \in Pages :
             \/ tlb_lookup(page) # 0 /\ TlbTouch(tlb_lookup(page))
             \/ tlb_lookup(page) = 0 /\ \E frame \in 1 .. 2 : tlb_insert(page, frame)
       /\ UNCHANGED <<lanes, shader, stages, vec, gmem, fence, smem, plan>>
    \/ gpu_mem_reset

\* A translation found is the one inserted last for its page, and the page used last never has to
\* make room (tlb_lookup, tlb_insert).
TranslationsRecent ==
    /\ \A page \in Pages : tlb_lookup(page) # 0 => gtlb.entries[tlb_lookup(page)].frame = gtlb.table[page]
    /\ gtlb.age > 0 => \E e \in DOMAIN gtlb.entries : gtlb.entries[e].used = gtlb.age - 1

\* External: operations enter the ring with the cycle they will be complete in, and time passes.
OperationIssued(latency) ==
    /\ (fence.tail + 1) % MEM_MAX_PENDING # fence.head
    /\ fence' = [fence EXCEPT !.done[fence.tail] = fence.cycle + latency, !.tail = (@ + 1) % MEM_MAX_PENDING]

CyclePasses == fence.cycle < MaxCycle /\ fence' = [fence EXCEPT !.cycle = @ + 1]

\* The head moves on past operations that are complete.
OperationDrained ==
    /\ fence.head # fence.tail /\ fence.done[fence.head] <= fence.cycle
    /\ fence' = [fence EXCEPT !.head = (@ + 1) % MEM_MAX_PENDING]

InRing == {i \in 0 .. MEM_MAX_PENDING - 1 :
              (i - fence.head) % MEM_MAX_PENDING < (fence.tail - fence.head) % MEM_MAX_PENDING}

mem_fence_issue ==
    fence' = [fence EXCEPT !.active = TRUE, !.before = {fence.done[i] : i \in InRing},
                  !.pending_ops = IF fence.tail >= fence.head THEN fence.tail - fence.head ELSE 0]

\* Complete when every operation in the ring is, those issued after the fence too.
mem_fence_complete ==
    /\ fence.active
    /\ \A i \in InRing : fence.done[i] <= fence.cycle
    /\ fence' = [fence EXCEPT !.active = FALSE]

FenceNext ==
    \/ /\ \/ \E latency \in Latencies : OperationIssued(latency)
          \/ CyclePasses \/ OperationDrained \/ mem_fence_issue \/ mem_fence_complete
       /\ UNCHANGED <<lanes, shader, stages, vec, gmem, gtlb, smem, plan>>
    \/ gpu_mem_reset

\* A fence that is complete has no operation before it still to come, even around the end of the ring.
FenceOrders == ~fence.active => \A c \in fence.before : c <= fence.cycle

\* Two operations, each issued no later than it is complete.
mem_order_check(consistency, a, b) ==
    CASE consistency = "CONS_RELAXED"         -> TRUE
      [] consistency = "CONS_ACQUIRE_RELEASE" -> a.is_write /\ ~b.is_write => a.issue <= b.complete
      [] consistency = "CONS_SEQUENTIAL"      -> a.complete <= b.issue

\* An order the strict model accepts the weaker ones accept, and of two operations the strict model
\* accepts one order at most, unless they take no time (mem_order_check).
OrdersNest ==
    LET Operations == {o \in [is_write : BOOLEAN, issue : 0 .. 3, complete : 0 .. 3] : o.issue <= o.complete}
    IN  \A a, b \in Operations :
            mem_order_check("CONS_SEQUENTIAL", a, b) =>
                /\ mem_order_check("CONS_ACQUIRE_RELEASE", a, b)
                /\ mem_order_check("CONS_SEQUENTIAL", b, a) => a.issue = a.complete /\ b = [a EXCEPT !.is_write = b.is_write]

-----------------------------------------------------------------------------
(* Shared memory: words by address for the memory interface, by bank and row for the *)
(* block's own loads and stores.                                                     *)

Banks == 0 .. SMEM_NUM_BANKS - 1

\* Words that do not fit are refused; each access counts for its bank.
gpu_smem_write(word, val) ==
    /\ word < SMEM_WORDS
    /\ smem' = [smem EXCEPT !.data[word] = val, !.latest[word] = val, !.accesses = @ + 1,
                            !.access_count[word % SMEM_NUM_BANKS] = @ + 1]

gpu_smem_read(word) ==
    /\ word < SMEM_WORDS
    /\ smem' = [smem EXCEPT !.accesses = @ + 1, !.access_count[word % SMEM_NUM_BANKS] = @ + 1]

\* Counts for no bank.
smem_store(bank, offset, val) ==
    LET word == bank + offset * SMEM_NUM_BANKS
    IN  /\ word < SMEM_WORDS
        /\ smem' = [smem EXCEPT !.data[word] = val, !.latest[word] = val, !.accesses = @ + 1]

smem_load(bank, offset) ==
    LET word == bank + offset * SMEM_NUM_BANKS IN IF word < SMEM_WORDS THEN smem.data[word] ELSE 0

smem_check_bank_conflict == \E b \in Banks : smem.access_count[b] > 1

SharedNext ==
    \/ /\ smem.accesses < MaxAccesses
       /\ \E word \in SharedWords :
             \/ gpu_smem_read(word)
             \/ \E val \in 1 .. 2 : \/ gpu_smem_write(word, val)
                                    \/ smem_store(word % SMEM_NUM_BANKS, word \div SMEM_NUM_BANKS, val)
       /\ UNCHANGED <<lanes, shader, stages, vec, gmem, gtlb, fence, plan>>
    \/ gpu_mem_reset

\* Both interfaces see what either wrote last, the word of a bank and row being the only one; and no
\* conflict is reported while no bank was accessed twice (smem_store, smem_load, gpu_mem_write).
SharedWordsAgree ==
    /\ \A bank \in Banks, offset \in 0 .. SMEM_WORDS :
          LET words == {w \in 0 .. SMEM_WORDS - 1 : w % SMEM_NUM_BANKS = bank /\ w \div SMEM_NUM_BANKS = offset}
          IN  smem_load(bank, offset) = IF words = {} THEN 0 ELSE smem.latest[Min(words)]
    /\ FoldSet(LAMBDA b, n : n + smem.access_count[b], 0, Banks) <= smem.accesses
    /\ smem.accesses < 2 => ~smem_check_bank_conflict

-----------------------------------------------------------------------------
(* The accesses of a warp: lines of memory they touch, and the bank most of them hit. *)

coalesce_analyze(addresses) ==
    [num_transactions |-> Cardinality({addresses[i] \div CachelineSize : i \in DOMAIN addresses}),
     min_transactions |-> (Len(addresses) * 4 + CachelineSize - 1) \div CachelineSize]

\* Lanes that read the same word conflict too.
shared_bank_analyze(addresses) ==
    LET bank(i) == (addresses[i] \div SMEM_BANK_WIDTH) % SMEM_NUM_BANKS
    IN  Max({Cardinality({i \in DOMAIN addresses : bank(i) = b}) : b \in 0 .. SMEM_NUM_BANKS - 1})

bank_analyze(addresses) ==
    LET hits == shared_bank_analyze(addresses)
    IN  IF hits <= 1 THEN "BANK_NO_CONFLICT" ELSE IF hits <= 2 THEN "BANK_2WAY"
        ELSE IF hits <= 4 THEN "BANK_4WAY" ELSE IF hits <= 8 THEN "BANK_8WAY" ELSE "BANK_FULL"

\* Words in a row take at most one line more than they must wherever they start, and a stride
\* conflicts as often as it has a divisor in common with the number of banks, never if it has none
\* (coalesce_analyze, shared_bank_analyze, bank_analyze).
AccessesSpread ==
    /\ \A start \in 0 .. 2 * CachelineSize, n \in 1 .. SMEM_NUM_BANKS :
          LET a == coalesce_analyze([i \in 1 .. n |-> 4 * (start + i)])
          IN  a.num_transactions \in a.min_transactions .. a.min_transactions + 1
    /\ \A stride \in 0 .. 2 * SMEM_NUM_BANKS :
          LET row == [i \in 1 .. SMEM_NUM_BANKS |-> (i - 1) * stride * SMEM_BANK_WIDTH]
              common == Max({d \in 1 .. SMEM_NUM_BANKS : SMEM_NUM_BANKS % d = 0 /\ stride % d = 0})
          IN  /\ shared_bank_analyze(row) = common
              /\ bank_analyze(row) = "BANK_NO_CONFLICT" <=> common = 1

-----------------------------------------------------------------------------
(* List scheduling: every task goes to the multiprocessor that is free first. *)

list_schedule(tasks) ==
    LET Assign(end, duration) ==
            LET best == Min({s \in 1 .. NumSms : end[s] = Min({end[r] : r \in 1 .. NumSms})})
            IN  [s \in 1 .. NumSms |-> IF s = best THEN end[s] + duration ELSE end[s]]
    IN  FoldLeft(Assign, [s \in 1 .. NumSms |-> 0], tasks)

Makespan(end) == Max({end[s] : s \in 1 .. NumSms})

\* As a multiple of 1 / NumSms.
makespan_lower_bound(tasks) ==
    Max({FoldLeft(LAMBDA a, b : a + b, 0, tasks), NumSms * Max({tasks[i] : i \in DOMAIN tasks})})

PlanNext ==
    /\ Len(plan) < MaxTasks
    /\ \E duration \in Durations : plan' = Append(plan, duration)
    /\ UNCHANGED <<lanes, shader, stages, vec, gmem, gtlb, fence, smem>>

Optimum(tasks) ==
    Min({Max({FoldSet(LAMBDA i, n : n + tasks[i], 0, {i \in DOMAIN tasks : on[i] = s}) : s \in 1 .. NumSms})
            : on \in [DOMAIN tasks -> 1 .. NumSms]})

\* Graham's bound: the schedule is at most 2 - 1/m times the shortest there is, and no schedule is
\* shorter than the lower bound (list_schedule, makespan_lower_bound).
ListScheduleNearOptimal ==
    plan # <<>> =>
        LET best == Optimum(plan)
        IN  /\ NumSms * Makespan(list_schedule(plan)) <= (2 * NumSms - 1) * best
            /\ makespan_lower_bound(plan) <= NumSms * best

-----------------------------------------------------------------------------
GpuCoreInit ==
    /\ lanes = warp_create
    /\ shader = sm_create
    /\ stages = EmptyPipeline
    /\ vec = simd_create
    /\ gmem = [l1 |-> EmptyCache, l2 |-> EmptyCache, accesses |-> 0]
    /\ gtlb = [entries |-> <<>>, age |-> 0, table |-> [p \in Pages |-> 0]]
    /\ fence = [head |-> 0, tail |-> 0, done |-> [i \in 0 .. MEM_MAX_PENDING - 1 |-> 0], cycle |-> 0,
                active |-> FALSE, before |-> {}, pending_ops |-> 0]
    /\ smem = EmptyShared
    /\ plan = <<>>

GpuCoreNext ==
    \/ LaneNext \/ ShaderNext \/ StageNext \/ VecNext
    \/ MemoryNext \/ GpuTlbNext \/ FenceNext \/ SharedNext \/ PlanNext

\* Lanes reconverge, resources and stages account for what entered, vectors, caches and shared memory
\* hold what they should, fences order, and list scheduling keeps its bound.
GpuCoreSound ==
    /\ LanesReconverge /\ ResourcesAccounted /\ StagesMoveTogether /\ VectorsHold
    /\ CachesKeepRecent /\ TranslationsRecent /\ FenceOrders /\ SharedWordsAgree
    /\ ListScheduleNearOptimal
    /\ Len(plan) = 1 => AccessesSpread /\ OrdersNest /\ OccupancyIsReached
================================================================================
