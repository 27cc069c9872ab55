-------------------------------- MODULE TpuCore --------------------------------
(***************************************************************************)
(* The sequential parts of mini-ai-accelerator: the systolic array and its *)
(* double-buffered weights (systolic_array.c), the tensor processing unit  *)
(* and its instruction pipeline (tpu_isa.c), the key/value cache of        *)
(* incremental decoding (attention_accel.c).                               *)
(*                                                                         *)
(* The array computes on integers.  In the processing unit a buffer region *)
(* and the accumulators hold terms: what they were computed from.  Left    *)
(* out: the DMA table, which only counts, and attention itself.            *)
(***************************************************************************)
EXTENDS Integers, Sequences, FiniteSets, FiniteSetsExt, SequencesExt

CONSTANTS
    SIZE,          \* rows and columns of the array
    MAX_SYSTOLIC_SIZE,  \* entries of a FIFO, 16; SIZE is at most that
    Leftovers,     \* bound: what an entry of a FIFO that nobody set may hold
    WeightSets,    \* weights of the array, functions of row and column
    Activations,   \* contents of the input FIFO, functions of 0 .. SIZE - 1
    MaxCycles,     \* bound: cycles of the array
    UB_SIZE,       \* bytes of the unified buffer
    ALIGNMENT,     \* 64
    AllocSizes,    \* bytes asked for
    Regions,       \* parts of the unified buffer that instructions name
    Instructions,  \* records opcode, src, dst
    MaxFed,        \* bound: steps of the pipeline
    MAX_KV_CACHE_LEN,
    MaxTokens      \* bound: tokens appended

VARIABLES
    sa,      \* weight, activation, accumulator of each cell, input_fifo, input_head; and
             \* history: loaded, the weights, and fed, what entered the first column each cycle
    db,      \* the two banks, active_bank, the weights in the array; history: pending, shown, before
    ub,      \* ub_alloc_ptr; history: the blocks handed out since the last free
    pipe,    \* slots of the pipeline, the core it drives; history: fed, the instructions, and quiet steps
    kv       \* the cached tokens; history: appended, the number of tokens ever appended

tpu_vars == <<sa, db, ub, pipe, kv>>
--------------------------------------------------------------------------------
(* The array.  Activations move right and weights down, once a cycle. *)
Edge  == 0 .. SIZE - 1
Cells == Edge \X Edge
Zero  == [p \in Cells |-> 0]

Fifo  == 0 .. MAX_SYSTOLIC_SIZE - 1

\* The first SIZE entries of the FIFO are cleared; the others are as the allocation left them.
systolic_array_create ==
    {[weight |-> Zero, activation |-> Zero, accumulator |-> Zero, input_fifo |-> fifo, input_head |-> 0] :
        fifo \in {f \in [Fifo -> Leftovers \cup {0}] : \A i \in Edge : f[i] = 0}}

\* Past its end the FIFO is followed by the weight FIFO, zero for as long as MaxCycles lasts.
FifoHead(a) == IF a.input_head \in Fifo THEN a.input_fifo[a.input_head] ELSE 0

\* Mutant of systolic_cycle: the products use the activations that arrive in the cycle.
systolic_cycle_late(a) ==
    LET arriving == [p \in Cells |-> IF p[2] = 0 THEN FifoHead(a) ELSE a.activation[p[1], p[2] - 1]]
    IN  [a EXCEPT
          !.accumulator = [p \in Cells |-> a.accumulator[p] + arriving[p] * a.weight[p]],
          !.activation  = arriving,
          !.weight      = [p \in Cells |-> IF p[1] = 0 THEN 0 ELSE a.weight[p[1] - 1, p[2]]],
          !.input_head  = @ + 1]

\* Every row gets the same activation; the weight FIFO, never filled, feeds zeros.
systolic_cycle(a) ==
    [a EXCEPT
       !.accumulator = [p \in Cells |-> a.accumulator[p] + a.activation[p] * a.weight[p]],
       !.activation  = [p \in Cells |-> IF p[2] = 0 THEN FifoHead(a) ELSE a.activation[p[1], p[2] - 1]],
       !.weight      = [p \in Cells |-> IF p[1] = 0 THEN 0 ELSE a.weight[p[1] - 1, p[2]]],
       !.input_head  = @ + 1]

ArrayNext ==
    /\ \/ \E f \in Activations :                          \* systolic_load_activation
             /\ f # [i \in Edge |-> sa.array.input_fifo[i]] \/ sa.array.input_head > 0
             /\ sa' = [sa EXCEPT !.array.input_fifo = [i \in Fifo |-> IF i \in Edge THEN f[i] ELSE @[i]],
                                 !.array.input_head = 0]
       \/ \E w \in WeightSets :                           \* systolic_load_weights, first
             /\ Len(sa.fed) = 0
             /\ sa' = [sa EXCEPT !.array.weight = w, !.loaded = w]
       \/ /\ Len(sa.fed) < MaxCycles                      \* bound
          /\ sa' = [sa EXCEPT !.array = systolic_cycle(@), !.fed = Append(@, FifoHead(sa.array))]
    /\ UNCHANGED <<db, ub, pipe, kv>>

(* Two banks of weights: one is loaded while the other is in the array. *)
sa_double_buffer_load_shadow(w) ==
    db' = [db EXCEPT !.banks[1 - db.active_bank] = w, !.pending = <<w>>]

\* Also when nothing was loaded since the last swap: bank_1_ready is not looked at.
sa_double_buffer_swap ==
    LET next == db.banks[1 - db.active_bank]
    IN  db' = [db EXCEPT !.active_bank = 1 - @, !.array = next, !.pending = <<>>,
                         !.before = db.shown,
                         !.shown = IF db.pending = <<>> THEN db.before ELSE db.pending[1]]

BufferNext ==
    /\ (\E w \in WeightSets : sa_double_buffer_load_shadow(w)) \/ sa_double_buffer_swap
    /\ UNCHANGED <<sa, ub, pipe, kv>>
--------------------------------------------------------------------------------
(* The unified buffer is handed out from its start, where the program lies too. *)
Aligned(size) == ((size + ALIGNMENT - 1) \div ALIGNMENT) * ALIGNMENT

tpu_ub_alloc(size) ==
    /\ ub.ptr + Aligned(size) <= UB_SIZE
    /\ ub' = [ptr |-> ub.ptr + Aligned(size), blocks |-> Append(ub.blocks, <<ub.ptr, size>>)]

tpu_ub_free == ub' = [ptr |-> 0, blocks |-> <<>>]

AllocNext ==
    /\ (\E size \in AllocSizes : tpu_ub_alloc(size)) \/ tpu_ub_free
    /\ Len(ub.blocks) < MaxFed \/ ub'.blocks = <<>>       \* bound: empty blocks take no room
    /\ UNCHANGED <<sa, db, pipe, kv>>

\* Shares of a batch, the first remainder cores one more.
tpu_multicore_distribute_batch(total, num_cores) ==
    [i \in 0 .. num_cores - 1 |-> (total \div num_cores) + (IF i < total % num_cores THEN 1 ELSE 0)]
--------------------------------------------------------------------------------
(* Instructions.  The one the pipeline starts with is all zeros: a product of no size. *)
NoInst == [opcode |-> "MATMUL", src |-> "nothing", dst |-> "nothing"]

tpu_execute(core, inst) ==
    CASE inst # NoInst /\ inst.opcode \in {"MATMUL", "VECTOR_ADD", "VECTOR_MUL"} ->
            [core EXCEPT !.acc = <<inst.opcode, core.ub[inst.src], core.ub[inst.dst]>>]
      [] inst.opcode = "ACTIVATION" -> [core EXCEPT !.acc = <<inst.opcode, @>>]
      [] inst.opcode = "STORE" -> [core EXCEPT !.ub[inst.dst] = core.acc]
      [] OTHER -> core                              \* loads only check bounds; SYNC

\* Executed one by one, as tpu_step does up to a SYNC.
tpu_run(program) ==
    FoldLeft(tpu_execute, [acc |-> <<"zero">>, ub |-> [r \in Regions |-> <<r>>]], program)

Writers == {"MATMUL", "VECTOR_ADD", "VECTOR_MUL", "ACTIVATION"}
Readers == {"STORE", "ACTIVATION", "VECTOR_ADD", "VECTOR_MUL"}

\* Mutant of check_data_hazard: an activation does not depend on the accumulators.
HazardOfStores(prev, curr) ==
    \/ prev.opcode \in Writers /\ curr.opcode \in Readers \ {"ACTIVATION"}
    \/ prev.opcode = "LOAD_WEIGHT" /\ curr.opcode = "MATMUL" /\ prev.dst = curr.dst

check_data_hazard(prev, curr) ==
    \/ prev.opcode \in Writers /\ curr.opcode \in Readers
    \/ prev.opcode = "LOAD_WEIGHT" /\ curr.opcode = "MATMUL" /\ prev.dst = curr.dst

Bubble == [NoInst EXCEPT !.opcode = "BUBBLE"]

\* The execute slot is never emptied, and a decode slot that stalls is overwritten by
\* the instruction behind it; behind a bubble it stays and executes again.
tpu_pipeline_step(fetch) ==
    LET s == pipe.slots
        runs == s.id # Bubble /\ ~(s.ex # Bubble /\ check_data_hazard(s.ex, s.id))
    IN  pipe' = [pipe EXCEPT
            !.slots = [if |-> fetch,
                       id |-> IF s.if # Bubble THEN s.if ELSE s.id,
                       ex |-> IF runs THEN s.id ELSE s.ex],
            !.core  = IF runs THEN tpu_execute(@, s.id) ELSE @,
            !.fed   = IF fetch = Bubble THEN @ ELSE Append(@, fetch),
            !.quiet = IF fetch = Bubble THEN @ + 1 ELSE 0,
            !.steps = @ + 1]

PipelineNext ==
    /\ pipe.steps < MaxFed                               \* bound
    /\ \E fetch \in Instructions \cup {Bubble} : tpu_pipeline_step(fetch)
    /\ UNCHANGED <<sa, db, ub, kv>>
--------------------------------------------------------------------------------
(* Tokens are numbered as they are appended. *)
Evicted(tokens, n) == SubSeq(tokens, Min({n, Len(tokens)}) + 1, Len(tokens))

\* new_len at most MAX_KV_CACHE_LEN: more would be written past the cache.
kv_cache_append(new_len) ==
    LET surplus == Len(kv.tokens) + new_len - MAX_KV_CACHE_LEN
        kept    == IF surplus > 0 THEN Evicted(kv.tokens, surplus) ELSE kv.tokens
    IN  kv' = [tokens |-> kept \o [n \in 1 .. new_len |-> kv.appended + n],
               appended |-> kv.appended + new_len]

kv_cache_evict_lru(n) == kv' = [kv EXCEPT !.tokens = Evicted(@, n)]

kv_cache_lookup(start, len) == SubSeq(kv.tokens, start + 1, Min({start + len, Len(kv.tokens)}))

CacheNext ==
    /\ \/ \E new_len \in 1 .. MAX_KV_CACHE_LEN :
             kv.appended + new_len <= MaxTokens /\ kv_cache_append(new_len)
       \/ \E n \in 1 .. MAX_KV_CACHE_LEN + 1 : kv_cache_evict_lru(n)
    /\ UNCHANGED <<sa, db, ub, pipe>>
--------------------------------------------------------------------------------
TpuInit ==
    /\ \E array \in systolic_array_create : sa = [array |-> array, loaded |-> Zero, fed |-> <<>>]
    /\ db = [banks |-> [b \in 0 .. 1 |-> Zero], active_bank |-> 0, array |-> Zero,
             pending |-> <<>>, shown |-> Zero, before |-> Zero]
    /\ ub = [ptr |-> 0, blocks |-> <<>>]
    /\ pipe = [slots |-> [if |-> NoInst, id |-> Bubble, ex |-> Bubble],
               core |-> tpu_run(<<>>), fed |-> <<>>, quiet |-> 0, steps |-> 0]
    /\ kv = [tokens |-> <<>>, appended |-> 0]

TpuNext == ArrayNext \/ BufferNext \/ AllocNext \/ PipelineNext \/ CacheNext
--------------------------------------------------------------------------------
\* Whenever the FIFO is loaded: a cell saw in cycle s what was fed j + 1 cycles earlier
\* and the weight loaded s rows above it, and has summed the products.
ArrayIsSystolic ==
    \A p \in Cells :
       LET i == p[1]  j == p[2]
           Fed(s)    == IF s - j >= 1 THEN sa.fed[s - j] ELSE 0
           Weight(s) == IF i >= s THEN sa.loaded[i - s, j] ELSE 0
       IN  /\ sa.array.activation[p] = Fed(Len(sa.fed))
           /\ sa.array.weight[p] = Weight(Len(sa.fed))
           /\ sa.array.accumulator[p] =
                 MapThenSumSet(LAMBDA s : Fed(s) * Weight(s), 0 .. Len(sa.fed) - 1)

\* The array has the weights loaded before the last swap; without any, those of the swap
\* before.  Loading never disturbs the bank in use.
BanksShowLoaded == db.array = db.shown /\ db.banks[db.active_bank] = db.shown

\* Blocks handed out are aligned, inside the buffer and apart.
BlocksApart ==
    \A m \in DOMAIN ub.blocks :
       LET b == ub.blocks[m]
       IN  /\ b[1] % ALIGNMENT = 0 /\ b[1] + b[2] <= UB_SIZE
           /\ \A n \in 1 .. m - 1 : ub.blocks[n][1] + ub.blocks[n][2] <= b[1]

\* A program in which no instruction depends on the one before it, the first not on the
\* empty one either, leaves the pipeline drained as if executed one by one; in
\* particular what executes again behind a bubble changes nothing.
PipelineExecutesProgram ==
    LET chain == <<NoInst>> \o pipe.fed
        free  == \A n \in DOMAIN pipe.fed : ~check_data_hazard(chain[n], chain[n + 1])
    IN  free /\ pipe.quiet >= 2 => pipe.core = tpu_run(pipe.fed)

\* The cache holds the newest tokens in order, and a lookup finds them by position.
CacheKeepsNewest ==
    /\ Len(kv.tokens) <= MAX_KV_CACHE_LEN
    /\ \A start \in 0 .. Len(kv.tokens) - 1, len \in 1 .. MAX_KV_CACHE_LEN :
          LET found == kv_cache_lookup(start, len)
          IN  /\ Len(found) = Min({len, Len(kv.tokens) - start})
              /\ \A n \in DOMAIN found : found[n] = kv.appended - Len(kv.tokens) + start + n

\* Batches are shared out whole and evenly.
BatchesShared ==
    \A total \in 1 .. 7, cores \in 1 .. 4 :
       LET share == tpu_multicore_distribute_batch(total, cores)
       IN  /\ MapThenSumSet(LAMBDA i : share[i], DOMAIN share) = total
           /\ \A i, j \in DOMAIN share : share[i] - share[j] <= 1

\* Array, weight banks, buffer, pipeline and token cache of the accelerator do what a
\* cycle-free account of them says.
TpuSound ==
    /\ ArrayIsSystolic
    /\ BanksShowLoaded
    /\ BlocksApart
    /\ PipelineExecutesProgram
    /\ CacheKeepsNewest
    /\ BatchesShared
================================================================================
