---------------------------- MODULE CpuMemorySystem ----------------------------
(***************************************************************************)
(* The memory system of mini-cpu-arch (src/memory_system.c): page table,   *)
(* TLB and the translation that goes through both, and the FR-FCFS memory  *)
(* controller.                                                             *)
(*                                                                         *)
(* Addresses are pages: offsets pass through unchanged.  Mapping a page    *)
(* does not touch the TLB; only tlb_flush does.                            *)
(***************************************************************************)
EXTENDS Integers, Sequences, FiniteSets, FiniteSetsExt, SequencesExt

CONSTANTS
    TLB_ENTRIES,       \* entries of the TLB
    num_entries,       \* entries of the page table: the pages 0 .. num_entries - 1
    MmuFrames,         \* bound: frames a page is mapped to
    GlobalPages,       \* bound: pages inserted as global, outside the page table
    MaxMmuCalls,       \* bound: calls of the translation part
    CtrlAddresses,     \* bound: [bank, row] of the requests
    queue_capacity,    \* requests the controller queues
    MaxCtrlRequests    \* bound: requests made

ASSUME CpuMemoryAssumption ==
    /\ TLB_ENTRIES \in Nat \ {0} /\ num_entries \in Nat \ {0} /\ MaxMmuCalls \in Nat
    /\ GlobalPages \cap (0 .. num_entries - 1) = {} /\ queue_capacity \in Nat \ {0} /\ MaxCtrlRequests \in Nat

Pages == 0 .. num_entries - 1
Slots == 0 .. TLB_ENTRIES - 1
TLBReplacePolicy == {"LRU", "FIFO", "RANDOM"}
NoPage == "invalid"
PageTableEntry == {NoPage} \cup MmuFrames
TLBEntry == [valid : BOOLEAN, vpn : Pages \cup GlobalPages, pfn : MmuFrames, global_page : BOOLEAN, access_order : Nat]

VARIABLES
    mmu,      \* [entries: page table, tlb: entries, clock, policy, calls]
    held,     \* history: <<page, frame>> mapped at some time since the last flush
    mc        \* [queue, bank_busy, total_served, made: requests made, last: history of one service]

cpumem_vars == <<mmu, held, mc>>
--------------------------------------------------------------------------------
Invalid == [valid |-> FALSE, vpn |-> 0, pfn |-> CHOOSE f \in MmuFrames : TRUE, global_page |-> FALSE, access_order |-> 0]

tlb_init(policy) ==
    [entries |-> [p \in Pages |-> NoPage], tlb |-> [i \in Slots |-> Invalid], clock |-> 0,
     policy |-> policy, calls |-> 0]

pagetable_map(page, frame) ==
    /\ mmu' = [mmu EXCEPT !.entries[page] = frame, !.calls = @ + 1]
    /\ held' = held \cup {<<page, frame>>}

pagetable_unmap(page) ==
    /\ mmu' = [mmu EXCEPT !.entries[page] = NoPage, !.calls = @ + 1]
    /\ UNCHANGED held

\* The first entry with the page; the one address space, 0, matches every entry.
Matches(page) == {i \in Slots : mmu.tlb[i].valid /\ mmu.tlb[i].vpn = page}

\* Mutant of Evicted: global entries are evicted as others are.
OldestAny(tlb) ==
    IF mmu.policy = "RANDOM" THEN Slots
    ELSE {CHOOSE i \in Slots : \A j \in Slots : tlb[i].access_order <= tlb[j].access_order}

\* The slots an insertion into a full TLB may take: FIFO and LRU both read the order that
\* every hit renews, and pass over global entries while there is another.
Evicted(tlb) ==
    LET others == {i \in Slots : ~tlb[i].global_page}
    IN  IF mmu.policy = "RANDOM" THEN Slots
        ELSE IF others = {} THEN {0}
        ELSE {CHOOSE i \in others : \A j \in others : tlb[i].access_order <= tlb[j].access_order}

\* The TLBs an insertion may leave: a matching entry gets the new frame and stays as
\* global as it was, else the first slot that is not valid, else one evicted.
tlb_insert(page, frame, global) ==
    LET free == {i \in Slots : ~mmu.tlb[i].valid}
        into == IF Matches(page) # {} THEN {Min(Matches(page))}
                ELSE IF free # {} THEN {Min(free)} ELSE Evicted(mmu.tlb)
        Entry(i) == IF Matches(page) # {}
                    THEN [mmu.tlb[i] EXCEPT !.pfn = frame, !.access_order = mmu.clock]
                    ELSE [valid |-> TRUE, vpn |-> page, pfn |-> frame, global_page |-> global,
                          access_order |-> mmu.clock]
    IN  {[mmu EXCEPT !.tlb[i] = Entry(i), !.clock = @ + 1, !.calls = @ + 1] : i \in into}

\* A miss in the TLB walks the page table and inserts what it finds there.
mmu_translate(page) ==
    /\ UNCHANGED held
    /\ \/ /\ Matches(page) # {}
          /\ mmu' = [mmu EXCEPT !.tlb[Min(Matches(page))].access_order = mmu.clock,
                                !.clock = @ + 1, !.calls = @ + 1]
       \/ /\ Matches(page) = {}
          /\ IF page \notin Pages THEN mmu' = [mmu EXCEPT !.calls = @ + 1]
             ELSE IF mmu.entries[page] = NoPage THEN mmu' = [mmu EXCEPT !.calls = @ + 1]
             ELSE mmu' \in tlb_insert(page, mmu.entries[page], FALSE)

InsertGlobal(page, frame) == mmu' \in tlb_insert(page, frame, TRUE) /\ UNCHANGED held

\* Mutant of tlb_flush: the valid bits stay.
FlushNothing ==
    /\ mmu' = [mmu EXCEPT !.calls = @ + 1]
    /\ held' = {h \in held : mmu.entries[h[1]] = h[2]}

tlb_flush ==
    /\ mmu' = [mmu EXCEPT !.tlb = [i \in Slots |-> [mmu.tlb[i] EXCEPT !.valid = @ /\ mmu.tlb[i].global_page]],
                          !.calls = @ + 1]
    /\ held' = {h \in held : mmu.entries[h[1]] = h[2]}
--------------------------------------------------------------------------------
NoService == [id |-> 0, hit |-> FALSE, older |-> {}]

\* Every bank starts with its row 0 counted as open.
memctrl_init == [queue |-> << >>, bank_busy |-> [b \in {a.bank : a \in CtrlAddresses} |-> 0],
                 total_served |-> 0, made |-> 0, last |-> NoService]

\* A full queue drops the request.  Requests between two services arrive at the same time.
memctrl_enqueue(addr) ==
    mc' = [mc EXCEPT !.made = @ + 1,
                     !.queue = IF Len(@) >= queue_capacity THEN @
                               ELSE Append(@, [addr |-> addr, arrival_time |-> mc.total_served, id |-> mc.made + 1])]

\* Mutant of Earliest: among requests that arrived together the last is taken.
LatestOfEqual(indices) ==
    CHOOSE i \in indices : \A j \in indices :
        \/ mc.queue[i].arrival_time < mc.queue[j].arrival_time
        \/ mc.queue[i].arrival_time = mc.queue[j].arrival_time /\ i >= j

Earliest(indices) ==
    CHOOSE i \in indices : \A j \in indices :
        \/ mc.queue[i].arrival_time < mc.queue[j].arrival_time
        \/ mc.queue[i].arrival_time = mc.queue[j].arrival_time /\ i <= j

memctrl_schedule ==
    LET open == {i \in DOMAIN mc.queue : mc.bank_busy[mc.queue[i].addr.bank] = mc.queue[i].addr.row}
        best == Earliest(IF open # {} THEN open ELSE DOMAIN mc.queue)
        req  == mc.queue[best]
    IN  /\ mc.queue # << >>
        /\ mc' = [mc EXCEPT !.queue = RemoveAt(@, best), !.total_served = @ + 1,
                            !.bank_busy[req.addr.bank] = req.addr.row,
                            !.last = [id |-> req.id, hit |-> open # {},
                                      older |-> {mc.queue[i] : i \in {j \in DOMAIN mc.queue : mc.queue[j].id < req.id}},
                                      addr |-> req.addr]]
--------------------------------------------------------------------------------
CpuMemInit == (\E p \in TLBReplacePolicy : mmu = tlb_init(p)) /\ held = {} /\ mc = memctrl_init

MmuNext ==
    /\ mmu.calls < MaxMmuCalls
    /\ \/ tlb_flush
       \/ \E page \in Pages : pagetable_unmap(page) \/ \E f \in MmuFrames : pagetable_map(page, f)
       \/ \E page \in Pages \cup GlobalPages : mmu_translate(page)
       \/ \E page \in GlobalPages, f \in MmuFrames : InsertGlobal(page, f)

CtrlNext == (mc.made < MaxCtrlRequests /\ \E a \in CtrlAddresses : memctrl_enqueue(a)) \/ memctrl_schedule

\* Translation and controller share no state.
CpuMemNext == (MmuNext /\ UNCHANGED mc) \/ (CtrlNext /\ UNCHANGED <<mmu, held>>)

CpuMemSpec == CpuMemInit /\ [][CpuMemNext]_cpumem_vars
--------------------------------------------------------------------------------
\* The TLB against the page table: an entry that is not global gives a frame its page was
\* mapped to at some time since the last flush (not necessarily now: unmapping does not
\* invalidate), and a page has one entry.
TlbFollowsTable ==
    LET valid == {i \in Slots : mmu.tlb[i].valid}
    IN  /\ \A i \in valid : mmu.tlb[i].global_page \/ <<mmu.tlb[i].vpn, mmu.tlb[i].pfn>> \in held
        /\ \A i, j \in valid : mmu.tlb[i].vpn = mmu.tlb[j].vpn => i = j

\* Under LRU and FIFO a global entry, once in, stays through flushes and insertions as
\* long as some entry is not global.
GlobalsStay ==
    [][LET Globals(m) == {m.tlb[i].vpn : i \in {j \in Slots : m.tlb[j].valid /\ m.tlb[j].global_page}}
       IN  (mmu.policy # "RANDOM" /\ Cardinality(Globals(mmu)) < TLB_ENTRIES) => Globals(mmu) \subseteq Globals(mmu')]_mmu

\* First-ready, first-come: the controller serves a request ahead of an older one only
\* because its row is open, and never ahead of an older one for the same bank and row.
OvertakenOnlyByHits ==
    mc.last.older # {} => mc.last.hit /\ \A r \in mc.last.older : r.addr # mc.last.addr

\* The TLB answers frames its pages had, and the controller serves in an order it may.
MemorySystemSound == TlbFollowsTable /\ OvertakenOnlyByHits
================================================================================
