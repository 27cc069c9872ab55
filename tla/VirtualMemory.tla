------------------------------ MODULE VirtualMemory ------------------------------
(***************************************************************************)
(* Virtual memory of mini-computer-arch (src/virtual_memory.c): a page     *)
(* table with first-in first-out replacement of frames, and a TLB that a   *)
(* caller keeps in front of it as examples/tlb_demo.c does.                *)
(*                                                                         *)
(* Offsets pass through unchanged and are left out, as are the flag bits   *)
(* of an entry nothing reads (accessed, dirty; valid equals present) and   *)
(* the hit counters.                                                       *)
(***************************************************************************)
EXTENDS Integers, FiniteSets

CONSTANTS
    NUM_PAGES,               \* pt->num_pages, at most 65536
    PHYSICAL_MEMORY_PAGES,   \* 16384
    TLB_SIZE,                \* tlb->size, at most 64
    UINT32,                  \* 2^32: fifo_count is a uint32_t
    MaxLookups,              \* bound: TLB lookups in a behaviour
    MaxDirect                \* bound: frames the caller allocates or frees itself

ASSUME VmAssumption ==
    /\ NUM_PAGES \in Nat \ {0}
    /\ PHYSICAL_MEMORY_PAGES \in Nat \ {0}
    /\ TLB_SIZE \in Nat \ {0}
    /\ UINT32 \in Nat /\ UINT32 > 2 * PHYSICAL_MEMORY_PAGES
    /\ MaxLookups \in Nat
    /\ MaxDirect \in Nat

Pages  == 0 .. NUM_PAGES - 1
Frames == 0 .. PHYSICAL_MEMORY_PAGES - 1
Slots  == 0 .. TLB_SIZE - 1

TLBReplacementPolicy == {"LRU", "FIFO", "RANDOM"}

VARIABLES
    pt,        \* the PageTable: frame_number and present of each page, used (frame_bitmap),
               \* free_frames, and the circular fifo_queue with fifo_head and fifo_count
    policy,    \* tlb->policy
    tlb,       \* tlb->entries
    clock,     \* tlb->global_counter
    rank,      \* history: for each present page, how many of the others were mapped after it
    accessed,  \* history: when each page was last looked up since the last flush, or 0
    evicted,   \* history: a page lost its frame since the last flush
    direct     \* history: the caller allocated or freed frames itself

vm_vars == <<pt, policy, tlb, clock, rank, accessed, evicted, direct>>
--------------------------------------------------------------------------------
(* The page table, as functions from a page table to its successor. *)

Push(p, f) ==
    IF p.fifo_count < PHYSICAL_MEMORY_PAGES
    THEN [p EXCEPT !.fifo_queue[(p.fifo_head + p.fifo_count) % PHYSICAL_MEMORY_PAGES] = f,
                   !.fifo_count = @ + 1]
    ELSE p

\* Mutant of EvictOldest: the head of the queue stays where it is.
EvictOldestNoAdvance(p) ==
    LET victim  == p.fifo_queue[p.fifo_head]
        holders == {v \in Pages : p.present[v] /\ p.frame_number[v] = victim}
        loser   == {v \in holders : \A u \in holders : v <= u}
        popped  == [p EXCEPT !.fifo_count = (@ - 1) % UINT32,
                             !.present    = [v \in Pages |-> @[v] /\ v \notin loser]]
    IN  [frame |-> victim, pt |-> Push(popped, victim)]

\* The frame at the head of the queue is taken from the first page that has it
\* and goes back to the tail.  An empty queue is not noticed.
EvictOldest(p) ==
    LET victim  == p.fifo_queue[p.fifo_head]
        holders == {v \in Pages : p.present[v] /\ p.frame_number[v] = victim}
        loser   == {v \in holders : \A u \in holders : v <= u}
        popped  == [p EXCEPT !.fifo_head  = (@ + 1) % PHYSICAL_MEMORY_PAGES,
                             !.fifo_count = (@ - 1) % UINT32,
                             !.present    = [v \in Pages |-> @[v] /\ v \notin loser]]
    IN  [frame |-> victim, pt |-> Push(popped, victim)]

Unused(p) == Frames \ p.used

\* vm_allocate_frame and vm_handle_page_fault do the same: the lowest free frame
\* if there is one (0 if the counter says so and the bitmap does not), else the
\* frame of the oldest page.
vm_allocate_frame(p) ==
    IF p.free_frames = 0 THEN EvictOldest(p)
    ELSE IF Unused(p) = {} THEN [frame |-> 0, pt |-> p]
    ELSE LET f == CHOOSE g \in Unused(p) : \A h \in Unused(p) : g <= h
         IN  [frame |-> f, pt |-> [p EXCEPT !.used = @ \cup {f}, !.free_frames = @ - 1]]

\* Mutant of vm_free_frame: a frame that is free already is counted again.
vm_free_frame_unchecked(p, f) == [p EXCEPT !.used = @ \ {f}, !.free_frames = @ + 1]

vm_free_frame(p, f) ==
    IF f \in p.used THEN [p EXCEPT !.used = @ \ {f}, !.free_frames = @ + 1] ELSE p

\* Mutant of vm_translate: a present page is given a frame again.
vm_translate_remaps(p, vpn) ==
    LET a == vm_allocate_frame(p)
    IN  Push([a.pt EXCEPT !.frame_number[vpn] = a.frame, !.present[vpn] = TRUE], a.frame)

vm_translate(p, vpn) ==
    IF p.present[vpn] THEN p
    ELSE LET a == vm_allocate_frame(p)
         IN  Push([a.pt EXCEPT !.frame_number[vpn] = a.frame, !.present[vpn] = TRUE], a.frame)
--------------------------------------------------------------------------------
(* The TLB. *)

Hits(vpn) == {i \in Slots : tlb[i].valid /\ tlb[i].vpn = vpn}

FirstOf(S) == CHOOSE i \in S : \A j \in S : i <= j

\* Mutant of Victims: the most recently used entry goes.
VictimsMostRecent(e, now) ==
    LET free == {i \in Slots : ~e[i].valid}
    IN  IF free # {} THEN {FirstOf(free)}
        ELSE IF policy = "LRU" THEN {FirstOf({i \in Slots : \A j \in Slots : e[i].lru >= e[j].lru})}
        ELSE IF policy = "FIFO" THEN {now % TLB_SIZE}
        ELSE Slots

\* The entries an insertion may overwrite: the first invalid one, else the least
\* recently used, the one the lookup counter points at ("FIFO"), or any.
Victims(e, now) ==
    LET free == {i \in Slots : ~e[i].valid}
    IN  IF free # {} THEN {FirstOf(free)}
        ELSE IF policy = "LRU" THEN {FirstOf({i \in Slots : \A j \in Slots : e[i].lru <= e[j].lru})}
        ELSE IF policy = "FIFO" THEN {now % TLB_SIZE}
        ELSE Slots
--------------------------------------------------------------------------------
VmInit ==
    /\ pt = [frame_number |-> [v \in Pages |-> 0], present |-> [v \in Pages |-> FALSE],
             used |-> {}, free_frames |-> PHYSICAL_MEMORY_PAGES,
             fifo_queue |-> [i \in Frames |-> 0], fifo_head |-> 0, fifo_count |-> 0]
    /\ policy \in TLBReplacementPolicy
    /\ tlb = [i \in Slots |-> [valid |-> FALSE, vpn |-> 0, pfn |-> 0, lru |-> 0]]
    /\ clock = 0
    /\ rank = [v \in Pages |-> 0]
    /\ accessed = [v \in Pages |-> 0]
    /\ evicted = FALSE
    /\ direct = 0

\* The histories after the page table became new: a page that lost its frame, of
\* which there is one at most, leaves the order, and the page just mapped joins it.
Remap(new) ==
    LET lost == {v \in Pages : pt.present[v] /\ ~new.present[v]}
        come == {v \in Pages : ~pt.present[v] /\ new.present[v]}
    IN  /\ pt' = new
        /\ rank' = [v \in Pages |->
               IF v \in come \/ ~new.present[v] THEN 0
               ELSE rank[v] + (IF come # {} THEN 1 ELSE 0)
                            - (IF \E u \in lost : rank[u] < rank[v] THEN 1 ELSE 0)]
        /\ evicted' = (evicted \/ lost # {})

\* What examples/tlb_demo.c does for one address: look the page up, and on a
\* miss translate it and remember the frame.
TlbHit(vpn) ==
    /\ clock < MaxLookups
    /\ Hits(vpn) # {}
    /\ clock' = clock + 1
    /\ tlb' = [tlb EXCEPT ![FirstOf(Hits(vpn))].lru = clock']
    /\ accessed' = [accessed EXCEPT ![vpn] = clock']
    /\ UNCHANGED <<pt, policy, rank, evicted, direct>>

TlbMiss(vpn) ==
    /\ clock < MaxLookups
    /\ Hits(vpn) = {}
    /\ clock' = clock + 1
    /\ Remap(vm_translate(pt, vpn))
    /\ \E i \in Victims(tlb, clock') :
           tlb' = [tlb EXCEPT ![i] = [valid |-> TRUE, vpn |-> vpn,
                                      pfn |-> pt'.frame_number[vpn], lru |-> clock']]
    /\ accessed' = [accessed EXCEPT ![vpn] = clock']
    /\ UNCHANGED <<policy, direct>>

\* A translation that goes past the TLB.
Translate(vpn) ==
    /\ Remap(vm_translate(pt, vpn))
    /\ UNCHANGED <<policy, tlb, clock, accessed, direct>>

AllocateFrame ==
    /\ Remap(vm_allocate_frame(pt).pt)
    /\ direct < MaxDirect /\ direct' = direct + 1
    /\ UNCHANGED <<policy, tlb, clock, accessed>>

FreeFrame(f) ==
    /\ Remap(vm_free_frame(pt, f))
    /\ direct < MaxDirect /\ direct' = direct + 1
    /\ UNCHANGED <<policy, tlb, clock, accessed>>

\* The lookup counter survives a flush.
tlb_flush ==
    /\ tlb' = [i \in Slots |-> [valid |-> FALSE, vpn |-> 0, pfn |-> 0, lru |-> 0]]
    /\ accessed' = [v \in Pages |-> 0]
    /\ evicted' = FALSE
    /\ UNCHANGED <<pt, policy, clock, rank, direct>>

VmNext ==
    \/ \E vpn \in Pages : TlbHit(vpn) \/ TlbMiss(vpn) \/ Translate(vpn)
    \/ AllocateFrame
    \/ \E f \in Frames : FreeFrame(f)
    \/ tlb_flush

VmSpec == VmInit /\ [][VmNext]_vm_vars
--------------------------------------------------------------------------------
(* Properties. *)

VmTypeOK ==
    /\ pt \in [frame_number : [Pages -> Frames], present : [Pages -> BOOLEAN],
               used : SUBSET Frames, free_frames : 0 .. PHYSICAL_MEMORY_PAGES,
               fifo_queue : [Frames -> Frames], fifo_head : Frames, fifo_count : 0 .. UINT32 - 1]
    /\ policy \in TLBReplacementPolicy
    /\ tlb \in [Slots -> [valid : BOOLEAN, vpn : Pages, pfn : Frames, lru : 0 .. MaxLookups]]
    /\ clock \in 0 .. MaxLookups
    /\ rank \in [Pages -> 0 .. NUM_PAGES - 1] /\ accessed \in [Pages -> 0 .. MaxLookups]
    /\ evicted \in BOOLEAN /\ direct \in 0 .. MaxDirect

\* The frame that stands n places before the last one in the queue.
FromTail(n) == pt.fifo_queue[(pt.fifo_head + pt.fifo_count - 1 - n) % PHYSICAL_MEMORY_PAGES]

\* Bitmap and counter always agree; and as long as only translations allocate,
\* every present page has a frame of its own, marked used, and the circular queue
\* lists these frames in the order their pages were mapped, each once: the page
\* evicted next is the one that has been present longest.
FrameTables ==
    /\ pt.free_frames = PHYSICAL_MEMORY_PAGES - Cardinality(pt.used)
    /\ direct = 0 =>
        LET present == {v \in Pages : pt.present[v]}
        IN  /\ \A u, v \in present : u # v => /\ pt.frame_number[u] # pt.frame_number[v]
                                              /\ rank[u] # rank[v]
            /\ pt.used = {pt.frame_number[v] : v \in present}
            /\ pt.fifo_count = Cardinality(pt.used)
            /\ \A v \in present : rank[v] < pt.fifo_count /\ FromTail(rank[v]) = pt.frame_number[v]

\* The TLB answers what the page table answers until a page is evicted, and never
\* holds a page twice.
TlbAgrees ==
    \A i, j \in Slots :
        /\ tlb[i].valid /\ ~evicted =>
               pt.present[tlb[i].vpn] /\ tlb[i].pfn = pt.frame_number[tlb[i].vpn]
        /\ i # j /\ tlb[i].valid /\ tlb[j].valid => tlb[i].vpn # tlb[j].vpn

\* Under LRU the TLB holds exactly the pages used most recently since the flush: no
\* other, and a page used before is missing only if all slots hold pages used later.
LruKeepsRecent ==
    policy = "LRU" =>
        /\ \A i \in Slots : tlb[i].valid => accessed[tlb[i].vpn] > 0
        /\ \A v \in Pages : accessed[v] > 0 /\ Hits(v) = {} =>
              \A i \in Slots : tlb[i].valid /\ accessed[v] < accessed[tlb[i].vpn]

\* Page table, frames and TLB stay in step through faults, evictions and flushes, and
\* the counters and queue indices in their ranges.
TranslationSound == VmTypeOK /\ FrameTables /\ TlbAgrees /\ LruKeepsRecent

--------------------------------------------------------------------------------
(* What the documentation promises and the code does not keep. *)

\* The TLB caches the mapping from pages to frames: what it answers is the mapping.
TlbNeverStale ==
    \A i \in Slots : tlb[i].valid =>
        pt.present[tlb[i].vpn] /\ tlb[i].pfn = pt.frame_number[tlb[i].vpn]
================================================================================
