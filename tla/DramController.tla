------------------------------ MODULE DramController ------------------------------
(***************************************************************************)
(* The DRAM controller of mini-computer-arch (src/dram_controller.c): a    *)
(* queue of requests, one command a cycle for the request that ranks       *)
(* first, banks with one open row, and a refresh of all banks.             *)
(*                                                                         *)
(* Times are relative to the current cycle: a bank has the cycles until    *)
(* its ready_time, a request its age, and cycles is kept modulo tREFI.     *)
(* FR-FCFS and PAR-BS are the same code; every other policy serves in the  *)
(* order of arrival.  Addresses are abstracted to bank and row, and the    *)
(* four decoded bank bits may name a bank that dram_init did not count:    *)
(* it works, but no refresh reaches it.  Left out: statistics.             *)
(***************************************************************************)
EXTENDS Integers, Sequences, FiniteSets, SequencesExt

CONSTANTS
    DecodedBanks,            \* the values of the decoded bank bits
    BANKS,                   \* num_banks * num_ranks, as a subset of the decoded ones
    Rows,                    \* row numbers
    tRCD, tRP, tRFC, tREFI,  \* the timing parameters, in cycles
    DRAM_REQ_QUEUE_SIZE,     \* requests the queue holds
    BATCH_AGE,               \* the age after which a request joins the batch, 500
    MaxWait                  \* bound: the age up to which requests are followed

ASSUME DramAssumption ==
    /\ BANKS \subseteq DecodedBanks
    /\ tRCD \in Nat /\ tRP \in Nat /\ tRFC \in Nat /\ tREFI \in Nat \ {0}
    /\ DRAM_REQ_QUEUE_SIZE \in Nat /\ BATCH_AGE \in Nat /\ MaxWait \in Nat

BankState == {"IDLE", "ACTIVATING", "ACTIVE", "PRECHARGING", "REFRESHING"}
SchedulingPolicy == {"FR_FCFS", "PARBS", "FCFS"}

\* open_row is kept while row_valid is false; nothing looks at it then.
DRAMBank == [state : BankState, row_valid : BOOLEAN, open_row : Rows, wait : Nat]
MemRequest == [bank : DecodedBanks, row : Rows, age : Nat, priority : {0, 3}]

VARIABLES
    banks,       \* banks[b], wait: cycles until ready_time
    req_queue,   \* the requests from req_head to req_tail
    sched,       \* policy
    phase,       \* cycles % tREFI
    overtaken    \* history: a request overtook an earlier one for the same row

dram_vars == <<banks, req_queue, sched, phase, overtaken>>
--------------------------------------------------------------------------------
dram_bank_ready(b) == banks[b].wait = 0

dram_bank_activate(bank, row) ==
    [state |-> "ACTIVATING", row_valid |-> TRUE, open_row |-> row, wait |-> tRCD]

dram_bank_precharge(bank) ==
    [bank EXCEPT !.state = "PRECHARGING", !.row_valid = FALSE, !.wait = tRP]

IsHit(bs, r) == bs[r.bank].row_valid /\ bs[r.bank].open_row = r.row

\* Mutant of dram_parbs_batch: no batch is formed.
NoBatch(q) == q

dram_parbs_batch(q) ==
    [i \in DOMAIN q |-> IF q[i].age > BATCH_AGE THEN [q[i] EXCEPT !.priority = 3] ELSE q[i]]

\* a stands before b in the queue: whether they change places.
Swaps(bs, a, b) ==
    \/ a.priority < b.priority
    \/ /\ a.priority = b.priority
       /\ \/ ~IsHit(bs, a) /\ IsHit(bs, b)
          \/ IsHit(bs, a) = IsHit(bs, b) /\ a.age < b.age

\* The two loops compare each request with every later one, in place.
Pairs(n) ==
    SetToSortSeq({<<i, j>> \in (1 .. n) \X (1 .. n) : i < j},
                 LAMBDA p, q : p[1] < q[1] \/ (p[1] = q[1] /\ p[2] < q[2]))

Exchanged(q, i, j) == [k \in DOMAIN q |-> q[CASE k = i -> j [] k = j -> i [] OTHER -> k]]

dram_parbs_rank(bs, queue) ==
    FoldLeft(LAMBDA q, p : IF Swaps(bs, q[p[1]], q[p[2]]) THEN Exchanged(q, p[1], p[2]) ELSE q,
             dram_parbs_batch(queue), Pairs(Len(queue)))

Refreshed(bs) ==
    [b \in DecodedBanks |-> IF b \in BANKS THEN [bs[b] EXCEPT !.state = "REFRESHING", !.wait = tRFC]
                            ELSE bs[b]]

\* Only activating and precharging banks change state when their time has come.
Settled(bs) ==
    [b \in DecodedBanks |->
        IF b \notin BANKS \/ bs[b].wait > 0 THEN bs[b]
        ELSE CASE bs[b].state = "ACTIVATING"  -> [bs[b] EXCEPT !.state = "ACTIVE"]
               [] bs[b].state = "PRECHARGING" -> [bs[b] EXCEPT !.state = "IDLE"]
               [] OTHER -> bs[b]]

\* One cycle later.
Ticked(bs) == [b \in DecodedBanks |-> [bs[b] EXCEPT !.wait = IF @ = 0 THEN 0 ELSE @ - 1]]
Aged(q) == [i \in DOMAIN q |-> [q[i] EXCEPT !.age = @ + 1]]

Overtakes(q) == \E i \in 2 .. Len(q) :
                    q[i].bank = q[1].bank /\ q[i].row = q[1].row /\ q[i].age > q[1].age

\* bs and q: the banks and the queue as the cycle finds them.
dram_schedule_command(bs, queue) ==
    LET q == IF sched = "FCFS" THEN queue ELSE dram_parbs_rank(bs, queue)
        r == Head(q)
        b == bs[r.bank]
        Bank(new) == [bs EXCEPT ![r.bank] = new]
    IN  \/ q = <<>> /\ banks' = bs /\ req_queue' = q /\ UNCHANGED overtaken
        \/ /\ q # <<>>
           /\ banks' = IF b.wait > 0 THEN bs
                       ELSE IF ~b.row_valid THEN Bank(dram_bank_activate(b, r.row))
                       ELSE IF b.open_row # r.row THEN Bank(dram_bank_precharge(b))
                       ELSE bs
           /\ IF b.wait = 0 /\ IsHit(bs, r)
              THEN req_queue' = Tail(q) /\ overtaken' = (overtaken \/ Overtakes(q))
              ELSE req_queue' = q /\ UNCHANGED overtaken
--------------------------------------------------------------------------------
DramInit ==
    /\ \E row \in Rows :
          banks = [b \in DecodedBanks |-> [state |-> "IDLE", row_valid |-> FALSE, open_row |-> row, wait |-> 0]]
    /\ req_queue = <<>>
    /\ sched \in SchedulingPolicy
    /\ phase = 0
    /\ overtaken = FALSE

\* A full queue refuses the request.
dram_enqueue(b, row) ==
    /\ Len(req_queue) < DRAM_REQ_QUEUE_SIZE
    /\ req_queue' = Append(req_queue, [bank |-> b, row |-> row, age |-> 0, priority |-> 0])
    /\ UNCHANGED <<banks, sched, phase, overtaken>>

dram_cycle ==
    /\ \A i \in DOMAIN req_queue : req_queue[i].age < MaxWait
    /\ phase' = (phase + 1) % tREFI
    /\ LET bs == Ticked(banks)
       IN  dram_schedule_command(Settled(IF phase' = 0 THEN Refreshed(bs) ELSE bs), Aged(req_queue))
    /\ UNCHANGED sched

DramNext ==
    \/ \E b \in DecodedBanks, row \in Rows : dram_enqueue(b, row)
    \/ dram_cycle

DramSpec == DramInit /\ [][DramNext]_dram_vars
--------------------------------------------------------------------------------
(* Properties. *)

DramTypeOK ==
    /\ banks \in [DecodedBanks -> DRAMBank]
    /\ req_queue \in Seq(MemRequest)
    /\ sched \in SchedulingPolicy /\ phase \in 0 .. tREFI - 1 /\ overtaken \in BOOLEAN

\* A request waits for every other that the queue can hold before it, each at most for
\* a precharge and an activation, and for the refresh: a steady stream of row hits
\* cannot keep it waiting for ever, because its age puts it into the batch.  And two
\* requests for the same row are served as they arrived (those of the same cycle
\* excepted, which the swaps of other requests may turn round).
RequestsServedFairly ==
    /\ ~overtaken
    /\ \A i \in DOMAIN req_queue : req_queue[i].age < MaxWait

\* Banks and queue keep their types, and no request starves or is overtaken on its row.
DramSound == DramTypeOK /\ RequestsServedFairly
================================================================================
