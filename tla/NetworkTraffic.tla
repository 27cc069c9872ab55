---------------------------- MODULE NetworkTraffic -----------------------------
(***************************************************************************)
(* What mini-network-hardware does to traffic between host and wire.       *)
(*                                                                         *)
(* The card (src/nic_arch.c) has two rings between host and DMA engine,    *)
(* its RDMA engine (src/rdma.c) queue pairs and a completion queue.  A     *)
(* buffer is a number, which is also its length.  The two halves share     *)
(* only the bound on what is posted.  Left out: addresses, registers, the  *)
(* link and error interrupts, which nothing raises, and memory regions,    *)
(* which no operation looks at.                                            *)
(*                                                                         *)
(* The token bucket and the leaky bucket (src/flow.c) share nothing with   *)
(* the card.  Callers pass the time, and nothing keeps it from going back: *)
(* the token bucket then waits for its own clock to be reached again, the  *)
(* leaky bucket takes the earlier time for its own.  One unit of time      *)
(* stands for the nanoseconds in which RATE bytes drain; the code's        *)
(* doubles are exact on such amounts.  Left out: counters.                 *)
(***************************************************************************)
EXTENDS Integers, Sequences

CONSTANTS
    NIC_MAX_DESCRIPTORS,   \* 256: entries of a ring
    RDMA_CQ_DEPTH,         \* 256
    RDMA_MAX_QP,           \* 64
    Lengths,               \* lengths of work requests
    MaxPosted              \* bound: buffers and work requests posted

ASSUME CardAssumption ==
    /\ NIC_MAX_DESCRIPTORS \in Nat \ {0} /\ RDMA_CQ_DEPTH \in Nat \ {0}
    /\ RDMA_MAX_QP \in Nat /\ Lengths \subseteq Nat \ {0} /\ MaxPosted \in Nat

RDMAQPState == {"RESET", "INIT", "RTR", "RTS", "ERROR"}

VARIABLES
    nic,       \* tx_ring, rx_ring, dma_engine_active, dma_total_bytes, interrupts
    ctx,       \* queue_pairs (their states), cq
    posted,    \* history: buffers and work requests accepted so far
    moved,     \* history: for each ring, buffers accepted and buffers transferred
    polled     \* history: results recorded in the completion queue, and results polled

card_vars == <<nic, ctx, posted, moved, polled>>
--------------------------------------------------------------------------------
(* Rings: a card's ring keeps one entry empty, the completion queue counts. *)

Ring(n) == [head |-> 0, tail |-> 0, entries |-> [i \in 0 .. n - 1 |-> 0]]

\* The entries from head up to tail.
Contents(r, n, count) == [k \in 1 .. count |-> r.entries[(r.head + k - 1) % n]]

Waiting(r) == Contents(r, NIC_MAX_DESCRIPTORS,
                       (r.tail - r.head + NIC_MAX_DESCRIPTORS) % NIC_MAX_DESCRIPTORS)

\* Mutant of RingFull: the ring is filled to its last entry.
RingFullLate(r) == FALSE

RingFull(r) == (r.tail + 1) % NIC_MAX_DESCRIPTORS = r.head

Enqueued(r, b) == [r EXCEPT !.entries[r.tail] = b, !.tail = (@ + 1) % NIC_MAX_DESCRIPTORS]

Drained(r) == [r EXCEPT !.head = r.tail]

SumOf(s) ==
    LET sum[k \in 0 .. Len(s)] == IF k = 0 THEN 0 ELSE sum[k - 1] + s[k]
    IN  sum[Len(s)]

Completed(cq, result) ==
    [cq EXCEPT !.entries[cq.tail] = result, !.tail = (@ + 1) % RDMA_CQ_DEPTH, !.count = @ + 1]

CqFull == ctx.cq.count >= RDMA_CQ_DEPTH
--------------------------------------------------------------------------------
CardInit ==
    /\ nic = [tx_ring |-> Ring(NIC_MAX_DESCRIPTORS), rx_ring |-> Ring(NIC_MAX_DESCRIPTORS),
              dma_engine_active |-> FALSE, dma_total_bytes |-> 0,
              interrupts |-> [tx_complete |-> FALSE, rx_ready |-> FALSE]]
    /\ ctx = [queue_pairs |-> <<>>,
              cq |-> [head |-> 0, tail |-> 0, count |-> 0,
                      entries |-> [i \in 0 .. RDMA_CQ_DEPTH - 1 |-> 0]]]
    /\ posted = 0
    /\ moved = [tx |-> <<>>, rx |-> <<>>, sent |-> <<>>, received |-> <<>>]
    /\ polled = [recorded |-> <<>>, results |-> <<>>]

Post == posted < MaxPosted /\ posted' = posted + 1

nic_tx_enqueue ==
    /\ Post /\ ~RingFull(nic.tx_ring)
    /\ nic' = [nic EXCEPT !.tx_ring = Enqueued(@, posted')]
    /\ moved' = [moved EXCEPT !.tx = Append(@, posted')]
    /\ UNCHANGED <<ctx, polled>>

nic_rx_enqueue ==
    /\ Post /\ ~RingFull(nic.rx_ring)
    /\ nic' = [nic EXCEPT !.rx_ring = Enqueued(@, posted')]
    /\ moved' = [moved EXCEPT !.rx = Append(@, posted')]
    /\ UNCHANGED <<ctx, polled>>

\* The host sets the field: a test does it before nic_process.
StartDma ==
    /\ nic' = [nic EXCEPT !.dma_engine_active = TRUE]
    /\ UNCHANGED <<ctx, posted, moved, polled>>

\* Both rings are drained, so that the test before RX_READY never holds.
nic_process ==
    LET tx == Waiting(nic.tx_ring)
        rx == Waiting(nic.rx_ring)
    IN  /\ nic.dma_engine_active
        /\ nic' = [nic EXCEPT !.tx_ring = Drained(@), !.rx_ring = Drained(@),
                              !.dma_total_bytes = @ + SumOf(tx) + SumOf(rx),
                              !.interrupts.tx_complete = TRUE]
        /\ moved' = [moved EXCEPT !.sent = @ \o tx, !.received = @ \o rx]
        /\ UNCHANGED <<ctx, posted, polled>>

\* Completion of a transmission also stops the engine.
nic_interrupt_handler(irq) ==
    /\ nic' = IF irq = "tx_complete"
              THEN [nic EXCEPT !.interrupts.tx_complete = FALSE, !.dma_engine_active = FALSE]
              ELSE [nic EXCEPT !.interrupts[irq] = FALSE]
    /\ UNCHANGED <<ctx, posted, moved, polled>>

rdma_create_qp(state) ==
    /\ Len(ctx.queue_pairs) < RDMA_MAX_QP
    /\ ctx' = [ctx EXCEPT !.queue_pairs = Append(@, state)]
    /\ UNCHANGED <<nic, posted, moved, polled>>

\* Any state may follow any other.
rdma_modify_qp(q, state) ==
    /\ ctx' = [ctx EXCEPT !.queue_pairs[q] = state]
    /\ UNCHANGED <<nic, posted, moved, polled>>

\* A send that moves no data reports 1, a write its length.
rdma_post_send(q, opcode, length) ==
    /\ ctx.queue_pairs[q] = "RTS"
    /\ ~CqFull
    /\ Post
    /\ LET result == IF opcode = "WRITE" THEN length ELSE 1
       IN  /\ ctx' = [ctx EXCEPT !.cq = Completed(@, result)]
           /\ polled' = [polled EXCEPT !.recorded = Append(@, result)]
    /\ UNCHANGED <<nic, moved>>

\* The data is copied even if the queue has no room for the completion.
rdma_remote_write(q, length) ==
    /\ ctx.queue_pairs[q] = "RTS"
    /\ Post
    /\ ctx' = IF CqFull THEN ctx ELSE [ctx EXCEPT !.cq = Completed(@, length)]
    /\ polled' = IF CqFull THEN polled ELSE [polled EXCEPT !.recorded = Append(@, length)]
    /\ UNCHANGED <<nic, moved>>

rdma_poll_cq ==
    /\ ctx.cq.count > 0
    /\ polled' = [polled EXCEPT !.results = Append(@, ctx.cq.entries[ctx.cq.head])]
    /\ ctx' = [ctx EXCEPT !.cq.head = (@ + 1) % RDMA_CQ_DEPTH, !.cq.count = @ - 1]
    /\ UNCHANGED <<nic, posted, moved>>

NicNext ==
    \/ nic_tx_enqueue \/ nic_rx_enqueue \/ StartDma \/ nic_process
    \/ \E irq \in {"tx_complete", "rx_ready"} : nic_interrupt_handler(irq)

RdmaNext ==
    \/ \E state \in RDMAQPState : rdma_create_qp(state)
    \/ \E q \in DOMAIN ctx.queue_pairs :
          \/ \E state \in RDMAQPState : rdma_modify_qp(q, state)
          \/ \E length \in Lengths : \/ \E opcode \in {"SEND", "WRITE"} : rdma_post_send(q, opcode, length)
                                     \/ rdma_remote_write(q, length)
    \/ rdma_poll_cq

CardNext == NicNext \/ RdmaNext

CardSpec == CardInit /\ [][CardNext]_card_vars
--------------------------------------------------------------------------------
(* Properties. *)

\* Nothing a queue accepted is lost, repeated or overtaken, through every wrap of a ring,
\* stop of the engine and full queue: what went in is what came out followed by what is
\* still inside.  The bytes counted are those of the buffers transferred, and while the
\* completion interrupt is pending the engine has not been stopped.
QueuesKeepOrder ==
    /\ moved.tx = moved.sent \o Waiting(nic.tx_ring)
    /\ moved.rx = moved.received \o Waiting(nic.rx_ring)
    /\ polled.recorded = polled.results \o Contents(ctx.cq, RDMA_CQ_DEPTH, ctx.cq.count)
    /\ nic.dma_total_bytes = SumOf(moved.sent) + SumOf(moved.received)
    /\ nic.interrupts.tx_complete => nic.dma_engine_active
--------------------------------------------------------------------------------
(* The limiters. *)

CONSTANTS
    RATE,          \* rate and output_rate, bytes per unit of time
    MAX_BUCKET,    \* max_bucket and max_queue
    MaxTime,       \* bound: the latest time
    MaxPackets     \* bound: packets let through, both limiters together

ASSUME RateAssumption == RATE \in Nat /\ MAX_BUCKET \in Nat /\ MaxTime \in Nat /\ MaxPackets \in Nat

Times == 0 .. MaxTime

VARIABLES
    tb,         \* the token bucket: current_tokens, last_update
    lb,         \* the leaky bucket: current_queue, last_update
    passed,     \* history: for each limiter, the packets let through (time, and the
                \* bytes let through before) and the bytes of all of them
    went_back   \* history: lb's enqueue saw the time go back

rate_vars == <<tb, lb, passed, went_back>>
--------------------------------------------------------------------------------
Least(a, b)   == IF a <= b THEN a ELSE b
Largest(a, b) == IF a >= b THEN a ELSE b

\* Mutant of token_bucket_update: the time is not kept if the bucket is full.
UpdateForgets(t, now) ==
    IF now < t.last_update THEN t
    ELSE LET tokens == t.current_tokens + RATE * (now - t.last_update)
         IN  IF tokens > MAX_BUCKET THEN [t EXCEPT !.current_tokens = MAX_BUCKET]
             ELSE [current_tokens |-> tokens, last_update |-> now]

token_bucket_update(t, now) ==
    IF now < t.last_update THEN t
    ELSE [current_tokens |-> Least(MAX_BUCKET, t.current_tokens + RATE * (now - t.last_update)),
          last_update    |-> now]

Admits(bytes, now) == token_bucket_update(tb, now).current_tokens >= bytes

\* Enqueueing drains first, and takes over the time even if it is an earlier one.
Leaked(l, now) ==
    [current_queue |-> IF now < l.last_update THEN l.current_queue
                       ELSE Largest(0, l.current_queue - RATE * (now - l.last_update)),
     last_update   |-> now]

Fits(bytes, now) == Leaked(lb, now).current_queue + bytes <= MAX_BUCKET
--------------------------------------------------------------------------------
RateInit ==
    /\ tb = [current_tokens |-> MAX_BUCKET, last_update |-> 0]
    /\ lb = [current_queue |-> 0, last_update |-> 0]
    /\ passed = [tb |-> [packets |-> <<>>, bytes |-> 0], lb |-> [packets |-> <<>>, bytes |-> 0]]
    /\ went_back = FALSE

MayPass == Len(passed.tb.packets) + Len(passed.lb.packets) < MaxPackets

\* The history p with one more packet.
Through(p, bytes, now) ==
    [packets |-> Append(p.packets, [before |-> p.bytes, time |-> now]), bytes |-> p.bytes + bytes]

token_bucket_consume(bytes, now) ==
    LET t == token_bucket_update(tb, now)
    IN  /\ Admits(bytes, now) => MayPass
        /\ tb' = IF Admits(bytes, now) THEN [t EXCEPT !.current_tokens = @ - bytes] ELSE t
        /\ passed' = IF Admits(bytes, now)
                     THEN [passed EXCEPT !.tb = Through(@, bytes, t.last_update)]
                     ELSE passed
        /\ UNCHANGED <<lb, went_back>>

TokenBucketUpdate(now) ==
    /\ tb' = token_bucket_update(tb, now)
    /\ UNCHANGED <<lb, passed, went_back>>

leaky_bucket_enqueue(bytes, now) ==
    LET l == Leaked(lb, now)
    IN  /\ Fits(bytes, now) => MayPass
        /\ lb' = IF Fits(bytes, now) THEN [l EXCEPT !.current_queue = @ + bytes] ELSE l
        /\ passed' = IF Fits(bytes, now)
                     THEN [passed EXCEPT !.lb = Through(@, bytes, now)]
                     ELSE passed
        /\ went_back' = (went_back \/ now < lb.last_update)
        /\ UNCHANGED tb

\* Reading the queue drains it, unless the time went back.
leaky_bucket_dequeue(now) ==
    /\ now >= lb.last_update
    /\ lb' = Leaked(lb, now)
    /\ UNCHANGED <<tb, passed, went_back>>

TokenNext ==
    \E now \in Times :
        \/ \E bytes \in 1 .. MAX_BUCKET + 1 : token_bucket_consume(bytes, now)
        \/ TokenBucketUpdate(now)

LeakyNext ==
    \E now \in Times :
        \/ \E bytes \in 1 .. MAX_BUCKET + 1 : leaky_bucket_enqueue(bytes, now)
        \/ leaky_bucket_dequeue(now)

RateNext == TokenNext \/ LeakyNext

RateSpec == RateInit /\ [][RateNext]_rate_vars
--------------------------------------------------------------------------------
(* Properties. *)

\* The packets from the i-th to the last, less what the rate allows since the i-th.
Excess(p, i, now) == p.bytes - p.packets[i].before - RATE * (now - p.packets[i].time)

\* Whether one more packet keeps every interval that ends now within the burst plus the
\* rate times its length.
Conforms(p, bytes, now) ==
    /\ bytes <= MAX_BUCKET
    /\ \A i \in DOMAIN p.packets : Excess(p, i, now) + bytes <= MAX_BUCKET

\* A limiter lets a packet through exactly if no interval would then carry more than the
\* burst plus the rate times its length: none may pass in excess, none in conformance is
\* refused, after any history of calls.  For the token bucket this holds even if the
\* callers' time goes back, counted in the bucket's own time; for the leaky bucket only
\* as long as it does not, for an earlier time lets it drain the same interval twice.
LimitersExact ==
    \A bytes \in 1 .. MAX_BUCKET + 1, now \in Times :
        /\ Admits(bytes, now) <=> Conforms(passed.tb, bytes, Largest(now, tb.last_update))
        /\ ~went_back /\ now >= lb.last_update =>
              (Fits(bytes, now) <=> Conforms(passed.lb, bytes, now))
================================================================================
