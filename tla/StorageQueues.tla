----------------------------- MODULE StorageQueues -----------------------------
(***************************************************************************)
(* What decides what comes next in mini-storage-hardware: the rings of the *)
(* NVMe controller, its arbiter and the pages of a transfer (src/nvme.c);  *)
(* the credits, power states and thermal throttle of the SSD controller    *)
(* (src/ssd_controller.c); and the two victim choices of the garbage       *)
(* collector that no collection uses (src/gc.c).                           *)
(*                                                                         *)
(* The device behind the rings, which takes commands and posts             *)
(* completions, is not in the sources: DeviceTakes and DevicePosts are     *)
(* what the rings leave it to do.                                          *)
(***************************************************************************)
EXTENDS Integers, Sequences, FiniteSets, FiniteSetsExt, SequencesExt

CONSTANTS
    NVME_QUEUE_DEPTH,      \* entries of a ring, of which one stays empty
    NVME_MAX_IO_QUEUES,    \* submission queues 1 .. n; 0 is the admin queue
    PRP_ENTRIES,           \* pages a list of a transfer holds
    MaxCommands,           \* bound: commands of a ring
    Bursts, Weights,       \* bound: values given to the arbiter
    MaxTurns,              \* bound: selections
    QosCredits,            \* credits of the classes 1 (high), 2, 3 (low)
    IdleTimes,             \* bound: idle times, in microseconds
    Temperatures,          \* bound: temperatures reached
    GcPages,               \* pages of a block, for the victim choices
    GcBlocks,              \* bound: the states of the blocks a victim is chosen from
    MaxChoices             \* bound: choices by cost and benefit

ASSUME StorageQueuesAssumption ==
    /\ NVME_QUEUE_DEPTH \in Nat \ {0, 1} /\ NVME_MAX_IO_QUEUES \in Nat \ {0}
    /\ PRP_ENTRIES \in Nat /\ MaxCommands \in Nat /\ MaxTurns \in Nat
    /\ Len(QosCredits) = 3 /\ \A i \in 1 .. 3 : QosCredits[i] \in Nat \ {0}
    /\ Bursts \subseteq Nat /\ Weights \subseteq Nat

\* A block as the victim choices see it; a block has 128 pages, of which a tenth is not
\* less than two.
GcBlock == [state : {"FREE", "OPEN", "FULL", "BAD"}, valid : 0 .. GcPages, invalid : 0 .. GcPages,
            erased : Nat, cleaned : Nat]

ASSUME GcChoiceAssumption ==
    /\ GcPages \in Nat /\ GcPages >= 20 /\ MaxChoices \in Nat
    /\ \A blocks \in GcBlocks :
          LET n == Cardinality(DOMAIN blocks) - 1
          IN  n \in Nat /\ blocks \in [0 .. n -> GcBlock] /\ \A i \in 0 .. n : blocks[i].cleaned = 0

Queues == 0 .. NVME_MAX_IO_QUEUES
IoQueues == 0 .. NVME_MAX_IO_QUEUES - 1

VARIABLES
    nv,        \* [sq, cq: queue -> ring, sq_bell, cq_bell, made, waiting: history]
    arb,       \* [weights, remaining_burst, current_sq, arb_burst, turns: history]
    ssdm,      \* [consumed, served, rounds, state, latency, temperature, throttle, critical]
    gcs        \* [blocks, gc_time, victims: history]

storageq_vars == <<nv, arb, ssdm, gcs>>
--------------------------------------------------------------------------------
Ring == [entries |-> [i \in 0 .. NVME_QUEUE_DEPTH - 1 |-> 0], head |-> 0, tail |-> 0]

nvme_init ==
    [sq |-> [q \in Queues |-> Ring], cq |-> [q \in Queues |-> Ring], sq_bell |-> [q \in Queues |-> 0],
     cq_bell |-> [q \in Queues |-> 0], made |-> 0, sent |-> [q \in Queues |-> << >>],
     posted |-> [q \in Queues |-> << >>]]

Held(r) == IF r.tail >= r.head THEN r.tail - r.head ELSE NVME_QUEUE_DEPTH - r.head + r.tail

\* Mutant of sq_is_full: the entry that tells full from empty is used too.
FullAtDepth(r) == Held(r) >= NVME_QUEUE_DEPTH

sq_is_full(r) == Held(r) >= NVME_QUEUE_DEPTH - 1
sq_is_empty(r) == r.head = r.tail

sq_enqueue(r, cmd) == [r EXCEPT !.entries[r.tail] = cmd, !.tail = (@ + 1) % NVME_QUEUE_DEPTH]

\* A full queue refuses the command; else it is written and the doorbell rung.
nvme_submit_cmd(q) ==
    LET r == sq_enqueue(nv.sq[q], nv.made + 1)
    IN  nv' = IF sq_is_full(nv.sq[q]) THEN nv
              ELSE [nv EXCEPT !.sq[q] = r, !.sq_bell[q] = r.tail, !.made = @ + 1,
                              !.sent[q] = Append(@, nv.made + 1)]

nvme_submit_admin_cmd == nvme_submit_cmd(0)
nvme_submit_io_cmd(q) == q # 0 /\ nvme_submit_cmd(q)

\* Takes one entry; the completion reports the old head and success whatever the entry says.
nvme_process_cq(q) ==
    /\ ~sq_is_empty(nv.cq[q])
    /\ LET next == (nv.cq[q].head + 1) % NVME_QUEUE_DEPTH
       IN  nv' = [nv EXCEPT !.cq[q].head = next, !.cq_bell[q] = next, !.posted[q] = Tail(@)]

DeviceTakes(q) ==
    /\ ~sq_is_empty(nv.sq[q])
    /\ nv' = [nv EXCEPT !.sq[q].head = (@ + 1) % NVME_QUEUE_DEPTH, !.sent[q] = Tail(@)]

DevicePosts(q) ==
    /\ ~sq_is_full(nv.cq[q]) /\ nv.made < MaxCommands
    /\ nv' = [nv EXCEPT !.cq[q] = sq_enqueue(@, nv.made + 1), !.made = @ + 1,
                        !.posted[q] = Append(@, nv.made + 1)]

\* The pages of a list: beyond what it holds a transfer is cut short, and 0 returned.
nvme_build_prp(pages) == [i \in 1 .. Min({pages, PRP_ENTRIES}) |-> i - 1]
--------------------------------------------------------------------------------
nvme_arbiter_init(burst) ==
    [weights |-> [q \in IoQueues |-> 0], remaining_burst |-> [q \in IoQueues |-> burst], current_sq |-> 0,
     arb_burst |-> burst, turns |-> << >>]

nvme_arbiter_set_weight(q, w) == arb' = [arb EXCEPT !.weights[q] = w]

\* Mutant of Chosen: the queue keeps the turn until its burst is used up.
KeepsTurn(a, q) ==
    LET used == a.remaining_burst[q] = 1
    IN  [a EXCEPT !.remaining_burst[q] = IF used THEN a.arb_burst ELSE @ - 1,
                  !.current_sq = IF used THEN (q + 1) % NVME_MAX_IO_QUEUES ELSE q]

\* The queue loses one of its burst, or its weight, and the turn passes on either way.
Chosen(a, q) ==
    LET take == IF a.weights[q] = 0 THEN 1 ELSE Min({a.weights[q], a.remaining_burst[q]})
        left == a.remaining_burst[q] - take
    IN  [a EXCEPT !.remaining_burst[q] = IF left = 0 THEN a.arb_burst ELSE left,
                  !.current_sq = (q + 1) % NVME_MAX_IO_QUEUES]

\* From current_sq on, the first queue with some burst left; the queues passed get a new one.
nvme_arbiter_next_sq ==
    LET At(i) == (arb.current_sq + i) % NVME_MAX_IO_QUEUES
        able == {i \in IoQueues : arb.remaining_burst[At(i)] > 0}
        passed == {At(i) : i \in {j \in IoQueues : \A k \in able : j < k}}
        a == [arb EXCEPT !.remaining_burst = [q \in IoQueues |-> IF q \in passed THEN arb.arb_burst ELSE @[q]]]
    IN  arb' = [IF able = {} THEN a ELSE Chosen(a, At(Min(able)))
                EXCEPT !.turns = Append(@, IF able = {} THEN -1 ELSE At(Min(able)))]
--------------------------------------------------------------------------------
SSDPowerState == 0 .. 4
entry_latency_us == <<0, 100, 500, 5000, 10000>>
exit_latency_us == <<0, 1000, 10000, 50000, 100000>>

ssdc_init ==
    [consumed |-> <<0, 0, 0>>, served |-> <<0, 0, 0>>, rounds |-> 0,
     state |-> 0, latency |-> 0, temperature |-> 35, throttle |-> 100, critical |-> FALSE]

\* Mutant of ssdc_qos_select_queue: the selection that starts a round is not counted.
RestartsUncounted ==
    LET left == {i \in 1 .. 3 : QosCredits[i] > ssdm.consumed[i]}
    IN  IF left # {}
        THEN ssdm' = [ssdm EXCEPT !.consumed[Min(left)] = @ + 1, !.served[Min(left)] = @ + 1]
        ELSE ssdm' = [ssdm EXCEPT !.consumed = <<0, 0, 0>>, !.served[1] = @ + 1, !.rounds = @ + 1]

\* The highest class with credit; when none has, a new round that starts with high.
ssdc_qos_select_queue ==
    LET left == {i \in 1 .. 3 : QosCredits[i] > ssdm.consumed[i]}
    IN  IF left # {}
        THEN ssdm' = [ssdm EXCEPT !.consumed[Min(left)] = @ + 1, !.served[Min(left)] = @ + 1]
        ELSE ssdm' = [ssdm EXCEPT !.consumed = <<1, 0, 0>>, !.served[1] = @ + 1, !.rounds = @ + 1]

\* The time to leave one state and enter the other.
ssdc_power_transition(m, target) ==
    IF target = m.state THEN [m EXCEPT !.latency = 0]
    ELSE [m EXCEPT !.state = target, !.latency = exit_latency_us[m.state + 1] + entry_latency_us[target + 1]]

ssdc_power_auto_transition(idle) ==
    ssdm' = ssdc_power_transition(ssdm, IF idle > 10000000 THEN 3 ELSE IF idle > 1000000 THEN 2
                                        ELSE IF idle > 100000 THEN 1 ELSE 0)

\* A temperature on the way to the steady one: full throttle at 85, none below 70, in
\* between in proportion (in percent).  critical is never cleared.
ssdc_thermal_update(t) ==
    ssdm' = [ssdm EXCEPT !.temperature = t, !.critical = @ \/ t >= 85,
                         !.throttle = IF t >= 85 THEN 0 ELSE IF t >= 70 THEN 100 - (100 * (t - 70)) \div 15 ELSE 100]
--------------------------------------------------------------------------------
\* A block: [state, valid, invalid, erased, cleaned].  The score is a fraction,
\* (1 - u) * age / max(2 * u, 0.01), with u = valid / pages.
gc_cost_benefit_score(b, now) ==
    LET age == Max({now - b.cleaned, 1})
    IN  IF b.valid = 0 THEN [num |-> 100 * age, den |-> 1]
        ELSE [num |-> (GcPages - b.valid) * age, den |-> 2 * b.valid]

Above(x, y) == x.num * y.den > y.num * x.den
NoBlock == -1
Used(b) == b.state \notin {"BAD", "FREE"}

\* Mutant of BestScores: age does not count.
YoungestToo(blocks, able, now) ==
    {i \in able : \A j \in able : ~Above(gc_cost_benefit_score(blocks[j], 0), gc_cost_benefit_score(blocks[i], 0))}

BestScores(blocks, able, now) ==
    {i \in able : \A j \in able : ~Above(gc_cost_benefit_score(blocks[j], now), gc_cost_benefit_score(blocks[i], now))}

\* The first block of the best score; a block full of valid pages scores -1 and is never
\* chosen.  The choice makes the block young again, whether or not it is then collected.
gc_select_cost_benefit ==
    LET now  == gcs.gc_time + 1
        able == {i \in DOMAIN gcs.blocks : Used(gcs.blocks[i]) /\ gcs.blocks[i].valid < GcPages}
        best == Min(BestScores(gcs.blocks, able, now))
    IN  gcs' = [gcs EXCEPT !.gc_time = now,
                           !.blocks = IF able = {} THEN @ ELSE [@ EXCEPT ![best].cleaned = now],
                           !.victims = Append(@, IF able = {} THEN NoBlock ELSE best)]

\* Mutant of gc_select_wear_aware: any block with less wear, however few invalid pages.
WearOnly(blocks, Fallback) ==
    LET able == {i \in DOMAIN blocks : Used(blocks[i])}
    IN  IF able = {} THEN NoBlock
        ELSE Min({i \in able : \A j \in able : blocks[i].erased <= blocks[j].erased})

\* Among the blocks with at least half of the most invalid pages, the first of the least
\* worn; the greedy choice when a tenth of a block is not reached.
gc_select_wear_aware(blocks, Fallback) ==
    LET target == Max({0} \cup {blocks[i].invalid : i \in {j \in DOMAIN blocks : blocks[j].state # "BAD"}})
        able == {i \in DOMAIN blocks : Used(blocks[i]) /\ blocks[i].invalid >= target \div 2}
    IN  IF target < GcPages \div 10 THEN Fallback
        ELSE IF able = {} THEN NoBlock
        ELSE Min({i \in able : \A j \in able : blocks[i].erased <= blocks[j].erased})

\* gc_streams_init and gc_assign_stream: at most 16 streams, none counted as one.
gc_assign_stream(lba, streams) == IF streams = 0 THEN 0 ELSE lba % Min({streams, 16})
--------------------------------------------------------------------------------
StorageQueuesInit ==
    /\ nv = nvme_init
    /\ (\E b \in Bursts : arb = nvme_arbiter_init(b))
    /\ ssdm = ssdc_init
    /\ (\E blocks \in GcBlocks : gcs = [blocks |-> blocks, gc_time |-> 0, victims |-> << >>])

NvmeNext ==
    \E q \in Queues :
        \/ nv.made < MaxCommands /\ (nvme_submit_io_cmd(q) \/ (q = 0 /\ nvme_submit_admin_cmd))
        \/ nvme_process_cq(q) \/ DeviceTakes(q) \/ DevicePosts(q)

ArbiterNext ==
    \/ Len(arb.turns) < MaxTurns /\ nvme_arbiter_next_sq
    \/ \E q \in IoQueues, w \in Weights : nvme_arbiter_set_weight(q, w)

SsdNext ==
    \/ ssdm.rounds < 2 /\ ssdc_qos_select_queue
    \/ \E idle \in IdleTimes : ssdc_power_auto_transition(idle)
    \/ \E t \in Temperatures : ssdc_thermal_update(t)

GcChoiceNext == gcs.gc_time < MaxChoices /\ gc_select_cost_benefit

\* The four parts share no state.
StorageQueuesNext ==
    \/ NvmeNext     /\ UNCHANGED <<arb, ssdm, gcs>>
    \/ ArbiterNext  /\ UNCHANGED <<nv, ssdm, gcs>>
    \/ SsdNext      /\ UNCHANGED <<nv, arb, gcs>>
    \/ GcChoiceNext /\ UNCHANGED <<nv, arb, ssdm>>

StorageQueuesSpec == StorageQueuesInit /\ [][StorageQueuesNext]_storageq_vars
--------------------------------------------------------------------------------
\* The rings against queues without end: whatever the host and the device do in which order,
\* the entries between head and tail are the commands sent and not yet taken, oldest first,
\* and a doorbell is where its ring is.
RingsHold ==
    \A q \in Queues :
        LET Contents(r) == [i \in 1 .. Held(r) |-> r.entries[(r.head + i - 1) % NVME_QUEUE_DEPTH]]
        IN  /\ Contents(nv.sq[q]) = nv.sent[q] /\ Contents(nv.cq[q]) = nv.posted[q]
            /\ nv.sq_bell[q] = nv.sq[q].tail /\ nv.cq_bell[q] = nv.cq[q].head

\* With a burst above 0, weights or not, every queue gets one turn in as many selections as
\* there are queues: no weight starves another queue, and none gains anything.
EveryQueueItsTurn ==
    arb.arb_burst > 0 =>
        \A i \in DOMAIN arb.turns : arb.turns[i] = (i - 1) % NVME_MAX_IO_QUEUES

\* Over any number of rounds a class is served exactly its credits in each, low ones too.
SharesExact ==
    \A i \in 1 .. 3 : ssdm.served[i] = ssdm.rounds * QosCredits[i] + ssdm.consumed[i] /\ ssdm.consumed[i] <= QosCredits[i]

\* Choosing again and again, with nothing else going on: cost and benefit names no free,
\* bad or fully valid block, and no block with a page to gain is passed over for ever by
\* blocks with as many valid pages (between two choices of one, each other one is chosen).
\* Wear-awareness, once a tenth of some block is invalid, names a block with invalid pages.
VictimsReclaim ==
    LET w == gc_select_wear_aware(gcs.blocks, NoBlock)
        Gains(i) == Used(gcs.blocks[i]) /\ gcs.blocks[i].valid < GcPages
    IN  /\ \A k \in DOMAIN gcs.victims : gcs.victims[k] = NoBlock \/ Gains(gcs.victims[k])
        /\ \A k, m \in DOMAIN gcs.victims :
              (k < m /\ gcs.victims[k] = gcs.victims[m] /\ gcs.victims[k] # NoBlock) =>
                 \A i \in DOMAIN gcs.blocks :
                    (Gains(i) /\ gcs.blocks[i].valid = gcs.blocks[gcs.victims[k]].valid /\ i # gcs.victims[k])
                        => \E n \in k + 1 .. m - 1 : gcs.victims[n] = i
        /\ w # NoBlock => gcs.blocks[w].invalid > 0

\* Command rings, the arbiter's rounds, shares of the interleaved channels and the choice
\* of victims: nothing is overwritten, starved, short-changed or reclaimed in vain.
StorageQueuesSound == RingsHold /\ EveryQueueItsTurn /\ SharesExact /\ VictimsReclaim
================================================================================
