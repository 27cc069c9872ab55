------------------------------ MODULE ThreadSched ------------------------------
(***************************************************************************)
(* The two levels of thread scheduling of mini-gpu-arch                    *)
(* (src/thread_sched.c).  They share no state: a caller takes the blocks   *)
(* the first has placed and enqueues their warps with the second.          *)
(*                                                                         *)
(* Blocks.  Grids are copied into the engine, their blocks are placed on   *)
(* processors by one of four policies, and a caller reports blocks done.   *)
(* A block is the processor it was given to (scheduled is sm_assigned # -1)*)
(* Left out: dimensions and threads of a block beyond its number of warps, *)
(* and the statistics.  The caller's own copy of a grid takes no part:     *)
(* nothing in it is ever scheduled.                                        *)
(*                                                                         *)
(* Warps.  One scheduler on each processor has a list of active warps, a   *)
(* ready queue, and a cycle that issues up to max_issue warps by its       *)
(* policy.  ready_queue holds the array up to ready_tail; head is          *)
(* ready_head, which only grows.  The tail is tested against 256 although  *)
(* the arrays have 16 entries: QUEUE_ENTRIES bounds the behaviours to      *)
(* those inside the array.  ws_create chooses GTO; another policy is       *)
(* chosen by writing the public field, before any warp is enqueued.        *)
(* Left out: the counters, and the sub-partition queues, which no function *)
(* fills, so that the two-level policy never issues anything.              *)
(***************************************************************************)
EXTENDS Integers, FiniteSets, Sequences, FiniteSetsExt, SequencesExt

CONSTANTS
    NUM_SMS,                 \* gte->num_sms, at most 128
    MAX_GRIDS,               \* 4
    MAX_BLOCKS,              \* 16
    MAX_WARPS_PER_BLOCK,     \* 2
    BLOCKS_PER_SM,           \* 32: the capacity the fill-first policy assumes
    MaxReports               \* bound: blocks reported done

ASSUME GteAssumption ==
    /\ NUM_SMS \in Nat \ {0} /\ MAX_GRIDS \in Nat \ {0} /\ MAX_BLOCKS \in Nat \ {0}
    /\ MAX_WARPS_PER_BLOCK \in Nat \ {0} /\ BLOCKS_PER_SM \in Nat /\ MaxReports \in Nat

SMs   == 0 .. NUM_SMS - 1
NoSM  == -1
BlockSchedPolicy == {"ROUND_ROBIN", "FILL_FIRST", "MIN_QUEUE", "LOCALITY"}

VARIABLES
    gte,        \* the GigaThreadEngine
    reports,    \* history: how often each block was reported done
    policies    \* history: the policies that placed a block

gte_vars == <<gte, reports, policies>>
--------------------------------------------------------------------------------
grid_create(n, warps) ==
    [blocks |-> [b \in 1 .. n |-> NoSM], num_warps |-> warps, launched |-> 0, completed |-> 0]

\* Counted, not looked up: a block reported twice counts twice.
grid_is_complete(grid) == grid.completed >= Len(grid.blocks)

\* Mutant of WithRoom: a processor takes one block more than it has room for.
WithRoomForOneMore(queues) == {s \in SMs : queues[s] <= BLOCKS_PER_SM}

WithRoom(queues) == {s \in SMs : queues[s] < BLOCKS_PER_SM}

LeastLoaded(queues) == CHOOSE s \in SMs : \A r \in SMs : queues[s] <= queues[r] /\
                                          (queues[s] = queues[r] => s <= r)

\* The processor for block b when n blocks have been placed by this call.
TargetSM(e, n, b) ==
    CASE e.block_policy = "ROUND_ROBIN" -> n % NUM_SMS
      [] e.block_policy = "FILL_FIRST"  -> IF WithRoom(e.blocks_per_sm) = {} THEN NoSM
                                           ELSE Min(WithRoom(e.blocks_per_sm))
      [] e.block_policy = "MIN_QUEUE"   -> LeastLoaded(e.blocks_per_sm)
      [] e.block_policy = "LOCALITY"    -> (b - 1) % NUM_SMS

\* Mutant of Launch: the load counts blocks instead of warps.
LaunchOneWarp(e, g, b, s) ==
    [e EXCEPT !.grids[g].blocks[b] = s,
              !.grids[g].launched  = @ + 1,
              !.blocks_per_sm[s]   = @ + 1,
              !.sm_load[s]         = @ + 1]

Launch(e, g, b, s) ==
    [e EXCEPT !.grids[g].blocks[b] = s,
              !.grids[g].launched  = @ + 1,
              !.blocks_per_sm[s]   = @ + 1,
              !.sm_load[s]         = @ + e.grids[g].num_warps]

Pending(e, g, b) ==
    /\ g <= Len(e.grids) /\ b <= Len(e.grids[g].blocks)
    /\ ~grid_is_complete(e.grids[g])
    /\ e.grids[g].blocks[b] = NoSM

\* Grid by grid and block by block; a block without a target stays pending.
gte_schedule_blocks(e) ==
    LET place[i \in 0 .. MAX_GRIDS * MAX_BLOCKS] ==
            IF i = 0 THEN [engine |-> e, n |-> 0]
            ELSE LET p == place[i - 1]
                     g == (i - 1) \div MAX_BLOCKS + 1
                     b == ((i - 1) % MAX_BLOCKS) + 1
                     s == TargetSM(p.engine, p.n, b)
                 IN  IF Pending(e, g, b) /\ s # NoSM
                     THEN [engine |-> Launch(p.engine, g, b, s), n |-> p.n + 1]
                     ELSE p
    IN  place[MAX_GRIDS * MAX_BLOCKS].engine
--------------------------------------------------------------------------------
(* The stand-alone policies: one grid and an array of queue lengths. *)

Queue(r, b, s) ==
    [blocks |-> [r.blocks EXCEPT ![b] = s], queues |-> [r.queues EXCEPT ![s] = @ + 1], n |-> r.n + 1]

block_schedule_round_robin(blocks, queues) ==
    LET go[b \in 0 .. Len(blocks)] ==
            IF b = 0 THEN [blocks |-> blocks, queues |-> queues, n |-> 0]
            ELSE IF blocks[b] # NoSM THEN go[b - 1]
            ELSE Queue(go[b - 1], b, go[b - 1].n % NUM_SMS)
    IN  go[Len(blocks)]

block_schedule_min_queue(blocks, queues) ==
    LET go[b \in 0 .. Len(blocks)] ==
            IF b = 0 THEN [blocks |-> blocks, queues |-> queues, n |-> 0]
            ELSE IF blocks[b] # NoSM THEN go[b - 1]
            ELSE Queue(go[b - 1], b, LeastLoaded(go[b - 1].queues))
    IN  go[Len(blocks)]

\* Processor by processor, each taking blocks up to its capacity.
block_schedule_fill_first(blocks, queues) ==
    LET go[i \in 0 .. NUM_SMS * Len(blocks)] ==
            IF i = 0 THEN [blocks |-> blocks, queues |-> queues, n |-> 0]
            ELSE LET s == (i - 1) \div Len(blocks)
                     b == ((i - 1) % Len(blocks)) + 1
                     r == go[i - 1]
                 IN  IF r.blocks[b] # NoSM \/ r.queues[s] >= BLOCKS_PER_SM THEN r
                     ELSE Queue(r, b, s)
    IN  go[NUM_SMS * Len(blocks)]
--------------------------------------------------------------------------------
GteInit ==
    /\ gte = [grids |-> <<>>, block_policy |-> "ROUND_ROBIN",
              blocks_per_sm |-> [s \in SMs |-> 0], sm_load |-> [s \in SMs |-> 0]]
    /\ reports = <<>>
    /\ policies = {}

gte_submit_grid(n, warps) ==
    /\ Len(gte.grids) < MAX_GRIDS
    /\ gte' = [gte EXCEPT !.grids = Append(@, grid_create(n, warps))]
    /\ reports' = Append(reports, [b \in 1 .. n |-> 0])
    /\ UNCHANGED policies

ScheduleBlocks ==
    /\ gte' = gte_schedule_blocks(gte)
    /\ policies' = IF gte' = gte THEN policies ELSE policies \cup {gte.block_policy}
    /\ UNCHANGED reports

grid_mark_block_done(g, b) ==
    /\ FoldSet(LAMBDA h, n : gte.grids[h].completed + n, 0, DOMAIN gte.grids) < MaxReports
    /\ gte.grids[g].blocks[b] # NoSM
    /\ gte' = [gte EXCEPT !.grids[g].completed = @ + 1]
    /\ reports' = [reports EXCEPT ![g][b] = @ + 1]
    /\ UNCHANGED policies

gte_set_block_policy(p) ==
    /\ gte' = [gte EXCEPT !.block_policy = p]
    /\ UNCHANGED <<reports, policies>>

GteNext ==
    \/ \E n \in 0 .. MAX_BLOCKS, warps \in 1 .. MAX_WARPS_PER_BLOCK : gte_submit_grid(n, warps)
    \/ ScheduleBlocks
    \/ \E g \in DOMAIN gte.grids : \E b \in DOMAIN gte.grids[g].blocks : grid_mark_block_done(g, b)
    \/ \E p \in BlockSchedPolicy : gte_set_block_policy(p)

GteSpec == GteInit /\ [][GteNext]_gte_vars
--------------------------------------------------------------------------------
(* Properties. *)

PlacedOn(g, s) == {b \in DOMAIN gte.grids[g].blocks : gte.grids[g].blocks[b] = s}

TotalOver(F(_)) == FoldSet(LAMBDA g, n : F(g) + n, 0, DOMAIN gte.grids)

GridFinished(g) == \A b \in DOMAIN gte.grids[g].blocks : reports[g][b] > 0

\* The counters of the engine and of each grid are what the blocks say, under every
\* mix of policies; and unless some block was reported twice, a grid that counts as
\* complete (and is passed over from then on) has really finished every block.
BlocksAccounted ==
    /\ \A s \in SMs :
          /\ gte.blocks_per_sm[s] = TotalOver(LAMBDA g : Cardinality(PlacedOn(g, s)))
          /\ gte.sm_load[s] = TotalOver(LAMBDA g : Cardinality(PlacedOn(g, s)) * gte.grids[g].num_warps)
    /\ \A g \in DOMAIN gte.grids :
          /\ gte.grids[g].launched = Cardinality(DOMAIN gte.grids[g].blocks \ PlacedOn(g, NoSM))
          /\ grid_is_complete(gte.grids[g]) /\ (\A b \in DOMAIN reports[g] : reports[g][b] <= 1)
                 => GridFinished(g)

\* What a policy is for, over any sequence of calls: the shortest queue keeps the
\* processors within one block of each other, fill-first leaves no room behind; and
\* the engine places a lone pending grid as the stand-alone function of the same
\* policy does, two implementations that must not drift apart.
PoliciesKept ==
    /\ policies \subseteq {"MIN_QUEUE"} =>
          \A s, r \in SMs : gte.blocks_per_sm[s] - gte.blocks_per_sm[r] <= 1
    /\ policies \subseteq {"FILL_FIRST"} =>
          \A s, r \in SMs : s < r /\ gte.blocks_per_sm[r] > 0 => gte.blocks_per_sm[s] = BLOCKS_PER_SM
    /\ \A g \in DOMAIN gte.grids :
          (\A h \in DOMAIN gte.grids, b \in 1 .. MAX_BLOCKS : Pending(gte, h, b) => h = g)
          /\ ~grid_is_complete(gte.grids[g]) =>
             LET blocks == gte.grids[g].blocks
                 after  == gte_schedule_blocks(gte)
                 alone  == CASE gte.block_policy = "ROUND_ROBIN" ->
                                   block_schedule_round_robin(blocks, gte.blocks_per_sm)
                             [] gte.block_policy = "MIN_QUEUE" ->
                                   block_schedule_min_queue(blocks, gte.blocks_per_sm)
                             [] gte.block_policy = "FILL_FIRST" ->
                                   block_schedule_fill_first(blocks, gte.blocks_per_sm)
                             [] OTHER -> [blocks |-> after.grids[g].blocks, queues |-> after.blocks_per_sm]
             IN  after.grids[g].blocks = alone.blocks /\ after.blocks_per_sm = alone.queues
--------------------------------------------------------------------------------
(* The warp schedulers. *)

CONSTANTS
    Schedulers,       \* the processors
    Warps,            \* warp numbers
    QUEUE_ENTRIES,    \* bound: MAX_WARPS_PER_BLOCK * 8, entries of the two arrays
    MaxEnqueued       \* bound: warps enqueued, on all schedulers together

ASSUME WsAssumption == QUEUE_ENTRIES \in Nat /\ MaxEnqueued \in Nat

WarpSchedPolicy == {"GTO", "LRR", "TWO_LEVEL", "ADAPTIVE"}

VARIABLES
    ws,         \* ws[s], the WarpScheduler of processor s
    rr_idx,     \* the static index of the LRR policy: one for all schedulers
    asleep,     \* history: warps told to stall and not made ready since
    overdue,    \* history: LRR cycles of s since w was issued
    rotating    \* history: the schedulers that used LRR

ws_vars == <<ws, rr_idx, asleep, overdue, rotating>>
--------------------------------------------------------------------------------
InQueue(q, w) == {i \in q.head + 1 .. Len(q.ready_queue) : q.ready_queue[i] = w}

IsReady(q, w) == InQueue(q, w) # {}

Take(list, max) == SubSeq(list, 1, IF Len(list) < max THEN Len(list) ELSE max)

\* Mutant of Rotated: every cycle starts at the first warp.
RotatedFromStart(q) == q.active_warp_ids

\* The list of active warps, turned so that the static index comes first.
Rotated(q) ==
    [i \in 1 .. Len(q.active_warp_ids) |->
        q.active_warp_ids[((rr_idx + i - 1) % Len(q.active_warp_ids)) + 1]]

\* The greedy choice looks at the warps in order and takes up to max that are ready.
GreedyPicks(q, max) ==
    LET picks[i \in 0 .. Len(q.active_warp_ids)] ==
            IF i = 0 THEN <<>>
            ELSE LET w == q.active_warp_ids[i]
                     p == picks[i - 1]
                 IN  IF Len(p) < max /\ IsReady(q, w) THEN Append(p, w) ELSE p
    IN  picks[Len(q.active_warp_ids)]

\* What a cycle issues.  Only GTO looks at the ready queue.
Issued(q, max) ==
    CASE q.policy = "GTO"       -> GreedyPicks(q, max)
      [] q.policy = "LRR"       -> Take(Rotated(q), max)
      [] q.policy = "TWO_LEVEL" -> <<>>
      [] q.policy = "ADAPTIVE"  -> Take(q.active_warp_ids, max)

\* Mutant of Without: the element leaves at the wrong end.
WithoutLast(q, w) ==
    IF ~IsReady(q, w) THEN q.ready_queue ELSE SubSeq(q.ready_queue, 1, Len(q.ready_queue) - 1)

\* The first entry for w moves out and the rest closes up.
Without(q, w) ==
    IF ~IsReady(q, w) THEN q.ready_queue
    ELSE RemoveAt(q.ready_queue, CHOOSE i \in InQueue(q, w) : \A j \in InQueue(q, w) : i <= j)
--------------------------------------------------------------------------------
WsInit ==
    /\ \E p \in [Schedulers -> WarpSchedPolicy] :
          ws = [s \in Schedulers |->
                   [policy |-> p[s], active_warp_ids |-> <<>>, ready_queue |-> <<>>, head |-> 0]]
    /\ rr_idx = 0
    /\ asleep = [s \in Schedulers |-> {}]
    /\ overdue = [s \in Schedulers |-> [w \in Warps |-> 0]]
    /\ rotating = {}

RoomToQueue(s) == Len(ws[s].ready_queue) < QUEUE_ENTRIES

ws_enqueue_warp(s, w) ==
    /\ FoldSet(LAMBDA r, n : Len(ws[r].active_warp_ids) + n, 0, Schedulers) < MaxEnqueued
    /\ RoomToQueue(s)
    /\ Len(ws[s].active_warp_ids) < QUEUE_ENTRIES
    /\ ws' = [ws EXCEPT ![s].ready_queue = Append(@, w), ![s].active_warp_ids = Append(@, w)]
    /\ asleep' = [asleep EXCEPT ![s] = @ \ {w}]
    /\ overdue' = [overdue EXCEPT ![s][w] = 0]
    /\ UNCHANGED <<rr_idx, rotating>>

ws_dequeue_warp(s) ==
    /\ ws[s].head < Len(ws[s].ready_queue)
    /\ ws' = [ws EXCEPT ![s].head = @ + 1]
    /\ UNCHANGED <<rr_idx, asleep, overdue, rotating>>

ws_warp_stalled(s, w) ==
    /\ ws' = [ws EXCEPT ![s].ready_queue = Without(ws[s], w)]
    /\ asleep' = [asleep EXCEPT ![s] = @ \cup {w}]
    /\ UNCHANGED <<rr_idx, overdue, rotating>>

\* A warp that is in the queue is not queued twice.
ws_warp_ready(s, w) ==
    /\ RoomToQueue(s)
    /\ ws' = IF IsReady(ws[s], w) THEN ws ELSE [ws EXCEPT ![s].ready_queue = Append(@, w)]
    /\ asleep' = [asleep EXCEPT ![s] = @ \ {w}]
    /\ UNCHANGED <<rr_idx, overdue, rotating>>

\* Issuing takes no warp out of the queue.  With LRR and no warp the index would be
\* divided by zero: no caller does that.
ws_schedule_cycle(s, max) ==
    LET q   == ws[s]
        out == Issued(q, max)
        n   == Len(q.active_warp_ids)
    IN  /\ q.policy = "LRR" => n > 0
        /\ rr_idx' = IF q.policy = "LRR" THEN (rr_idx + Len(out)) % n ELSE rr_idx
        /\ rotating' = IF q.policy = "LRR" THEN rotating \cup {s} ELSE rotating
        /\ overdue' = IF q.policy # "LRR" THEN overdue
                     ELSE [overdue EXCEPT ![s] = [w \in Warps |->
                              IF w \in ToSet(out) \/ w \notin ToSet(q.active_warp_ids) THEN 0
                              ELSE IF @[w] < QUEUE_ENTRIES THEN @[w] + 1 ELSE @[w]]]
        /\ UNCHANGED <<ws, asleep>>

\* Callers stall and wake the warps they enqueued.
WsNext ==
    \E s \in Schedulers :
        \/ \E w \in Warps : ws_enqueue_warp(s, w)
        \/ \E w \in ToSet(ws[s].active_warp_ids) : ws_warp_stalled(s, w) \/ ws_warp_ready(s, w)
        \/ ws_dequeue_warp(s)
        \/ \E max \in 1 .. QUEUE_ENTRIES : ws_schedule_cycle(s, max)

WsSpec == WsInit /\ [][WsNext]_ws_vars
--------------------------------------------------------------------------------
(* Properties. *)

EnqueuedOnce(s) == \A i, j \in DOMAIN ws[s].active_warp_ids :
                       ws[s].active_warp_ids[i] = ws[s].active_warp_ids[j] => i = j

\* As long as a warp is enqueued once, the greedy policy issues no warp that sleeps
\* and none twice, whatever the order of stalls, wake-ups and dequeues; and the queue
\* never holds a warp twice, so that one stall is enough to put it to sleep.
GreedyIssuesAwake ==
    \A s \in Schedulers : EnqueuedOnce(s) =>
        /\ \A w \in Warps : Cardinality(InQueue(ws[s], w)) <= 1
        /\ ws[s].policy = "GTO" =>
              \A max \in 1 .. QUEUE_ENTRIES :
                  LET out == Issued(ws[s], max)
                  IN  ToSet(out) \cap asleep[s] = {} /\ Cardinality(ToSet(out)) = Len(out)

\* The rotation starves no warp: while one scheduler alone uses it, every warp is
\* issued again before all the others have had a cycle of their own.  With two
\* schedulers taking turns the shared index can pass a warp over for ever.
RotationReachesAll ==
    \A s \in Schedulers : rotating = {s} =>
        \A w \in ToSet(ws[s].active_warp_ids) : overdue[s][w] < Len(ws[s].active_warp_ids)

\* What the warp schedulers issue is awake, and none waits for ever (ws_schedule_cycle).
WarpsSound == GreedyIssuesAwake /\ RotationReachesAll
--------------------------------------------------------------------------------
(* What a comment promises and the code does not keep. *)

\* "Schedule warps in round-robin order, skipping stalled warps."
RotationSkipsStalled ==
    \A s \in Schedulers : ws[s].policy = "LRR" /\ EnqueuedOnce(s) =>
        \A max \in 1 .. QUEUE_ENTRIES : ToSet(Issued(ws[s], max)) \cap asleep[s] = {}
================================================================================
