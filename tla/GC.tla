----------------------------------- MODULE GC -----------------------------------
(***************************************************************************)
(* The garbage collector of mini-storage-hardware (src/gc.c) over the      *)
(* translation layer of module FTL.  gc_trigger runs when too few blocks   *)
(* are free: it selects a victim, moves the victim's VALID pages with      *)
(* ftl_write, erases the block and points write_pointer at it.             *)
(*                                                                         *)
(* The collector has no state of its own that a decision depends on: its   *)
(* metrics repeat the counters of ftl, and overprovisioning_pct is stored  *)
(* and never read.                                                         *)
(***************************************************************************)
EXTENDS FTL

CONSTANTS
    Policy,      \* "GREEDY", "COST_BENEFIT" or "AGED_BLOCKS" (gc->policy)
    Threshold,   \* percentage of blocks that should be free (gc->threshold)
    MaxErases    \* bound: erasures a behaviour may contain

ASSUME GCAssumption ==
    /\ Policy \in {"GREEDY", "COST_BENEFIT", "AGED_BLOCKS"}
    /\ Threshold \in 0 .. 100
    /\ MaxErases \in Nat

VARIABLE roomy

PagesOf(b) == b * FTL_PAGES_PER_BLOCK .. (b + 1) * FTL_PAGES_PER_BLOCK - 1

CountIn(f, b, s) == Cardinality({p \in PagesOf(b) : f.page_state[p] = s})

count_free_blocks(f) ==
    Cardinality({b \in Blocks : /\ CountIn(f, b, "VALID") = 0
                                /\ CountIn(f, b, "INVALID") = 0
                                /\ f.block_state[b] = "FREE"})

Eligible(f, b) == /\ f.block_state[b] \notin {"BAD", "FREE"}
                  /\ CountIn(f, b, "INVALID") > 0

\* One pass over the blocks.  GREEDY (and COST_BENEFIT, which the code treats
\* alike) keeps the first block with the fewest VALID pages; AGED_BLOCKS also
\* asks for more erasures than the best so far, which is block 0 at the start.
gc_select_victim(f) ==
    LET scan[i \in 0 .. NUM_BLOCKS] ==
            IF i = 0 THEN [victim |-> 0, fewest |-> FTL_PAGES_PER_BLOCK + 1, found |-> FALSE]
            ELSE LET s == scan[i - 1]
                     b == i - 1
                 IN  IF /\ Eligible(f, b)
                        /\ CountIn(f, b, "VALID") < s.fewest
                        /\ Policy = "AGED_BLOCKS" => f.erase_count[b] > f.erase_count[s.victim]
                     THEN [victim |-> b, fewest |-> CountIn(f, b, "VALID"), found |-> TRUE]
                     ELSE s
        last == scan[NUM_BLOCKS]
    IN  IF last.found THEN last.victim ELSE NONE

\* Mutant of MigratePage: the copy stays counted as a host write.
MigratePageAsHostWrite(f, p) ==
    LET lba == f.reverse_map[f.page_id[p]]
        old == f.mapping_table[lba]
        g   == IF old = NONE THEN f ELSE [f EXCEPT !.page_state[old] = "INVALID"]
        w   == ftl_write(g, lba, f.page_data[p])
    IN  IF f.page_state[p] # "VALID" \/ lba = NONE THEN f
        ELSE IF w.rc = 0
             THEN [w.ftl EXCEPT !.gc_moves = @ + 1]
             ELSE w.ftl

\* One page of the victim.  The page is marked INVALID and then written
\* elsewhere; nothing looks at a write that finds no room.
MigratePage(f, p) ==
    LET lba == f.reverse_map[f.page_id[p]]
        old == f.mapping_table[lba]
        g   == IF old = NONE THEN f ELSE [f EXCEPT !.page_state[old] = "INVALID"]
        w   == ftl_write(g, lba, f.page_data[p])
    IN  IF f.page_state[p] # "VALID" \/ lba = NONE THEN f
        ELSE IF w.rc = 0
             THEN [w.ftl EXCEPT !.gc_moves = @ + 1, !.host_writes = @ - 1]
             ELSE w.ftl

\* Mutant of gc_migrate: the last page of the victim is forgotten.
gc_migrate_one_short(f, victim) ==
    LET moved[i \in 0 .. FTL_PAGES_PER_BLOCK - 1] ==
            IF i = 0 THEN f
            ELSE MigratePage(moved[i - 1], victim * FTL_PAGES_PER_BLOCK + i - 1)
    IN  moved[FTL_PAGES_PER_BLOCK - 1]

gc_migrate(f, victim) ==
    LET moved[i \in 0 .. FTL_PAGES_PER_BLOCK] ==
            IF i = 0 THEN f
            ELSE MigratePage(moved[i - 1], victim * FTL_PAGES_PER_BLOCK + i - 1)
    IN  moved[FTL_PAGES_PER_BLOCK]

\* Erasing b counts its pages as free and points write_pointer into it.
EraseBlock(f, b, wear, start) ==
    [f EXCEPT !.page_state     = [p \in PPN |-> IF p \in PagesOf(b) THEN "FREE" ELSE @[p]],
              !.block_state[b] = "FREE",
              !.erase_count[b] = @ + wear,
              !.free_pages     = @ + FTL_PAGES_PER_BLOCK,
              !.erases         = @ + 1,
              !.write_pointer  = start]

\* Mutants of gc_erase_block: the wear counter counts pages; write_pointer skips the
\* first erased page.
gc_erase_block_wear(f, b) ==
    EraseBlock(f, b, FTL_PAGES_PER_BLOCK, b * FTL_PAGES_PER_BLOCK)
gc_erase_block_skips(f, b) ==
    EraseBlock(f, b, 1, b * FTL_PAGES_PER_BLOCK + 1)

\* The erased pages keep their numbers, their old data and whatever the tables
\* say of them; free_pages grows by a whole block, FREE pages of it included.
gc_erase_block(f, b) == EraseBlock(f, b, 1, b * FTL_PAGES_PER_BLOCK)

FreeNeeded == (NUM_BLOCKS * Threshold) \div 100

\* Mutant of gc_trigger: the victim is erased before its pages are moved.
gc_trigger_erase_first(f) ==
    LET victim == gc_select_victim(f)
    IN  IF count_free_blocks(f) >= FreeNeeded THEN [rc |-> 0, ftl |-> f]
        ELSE IF victim = NONE THEN [rc |-> -1, ftl |-> f]
        ELSE [rc |-> 1, ftl |-> gc_migrate(gc_erase_block(f, victim), victim)]

gc_trigger(f) ==
    LET victim == gc_select_victim(f)
    IN  IF count_free_blocks(f) >= FreeNeeded THEN [rc |-> 0, ftl |-> f]
        ELSE IF victim = NONE THEN [rc |-> -1, ftl |-> f]
        ELSE [rc |-> 1, ftl |-> gc_erase_block(gc_migrate(f, victim), victim)]
--------------------------------------------------------------------------------
(* roomy is not in the code: the host has left room for everything so far. *)
GCInit == Init /\ roomy = TRUE

HostWrite(l, d) ==
    /\ FtlWrite(l, d)
    /\ roomy' = (roomy /\ ftl_write(ftl, l, d).rc = 0)

HostTrim(l) == FtlTrim(l) /\ UNCHANGED roomy

\* FREE pages the writes of a collection of block b can reach and that survive it.
RoomAhead(f, b) ==
    Cardinality({p \in PPN \ PagesOf(b) : p >= f.write_pointer /\ f.page_state[p] = "FREE"})
        >= CountIn(f, b, "VALID")

GcTrigger ==
    /\ ftl.erases < MaxErases
    /\ ftl' = gc_trigger(ftl).ftl
    /\ roomy' = (roomy /\ (gc_trigger(ftl).rc = 1 => RoomAhead(ftl, gc_select_victim(ftl))))

GCNext ==
    \/ \E l \in LBA :
           \/ \E d \in Data : HostWrite(l, d)
           \/ HostTrim(l)
    \/ GcTrigger

gc_vars == <<ftl, roomy>>

GCSpec == GCInit /\ [][GCNext]_gc_vars
--------------------------------------------------------------------------------
(* Properties. *)

GCTypeOK ==
    /\ [ftl EXCEPT !.free_pages = 0] \in
          [page_id       : [PPN -> PPN],
           page_state    : [PPN -> PageState],
           page_data     : [PPN -> Data],
           block_state   : [Blocks -> BlockState],
           erase_count   : [Blocks -> 0 .. MaxErases],
           mapping_table : [LBA -> PPN \cup {NONE}],
           reverse_map   : [PPN -> LBA \cup {NONE}],
           write_pointer : 0 .. NumPages,
           free_pages    : {0},
           writes        : Nat,
           host_writes   : Nat,
           gc_moves      : Nat,
           erases        : 0 .. MaxErases]
    /\ ftl.free_pages \in Nat

\* Every NAND program is a host write or a copy of the collector (gc_migrate takes
\* back the host_writes that ftl_write counted for a copy), and free_pages never
\* falls to 0: an erase may count a FREE page twice but never misses one, so -2
\* ("no free pages") is never the answer of ftl_write.
CountersAccount ==
    /\ ftl.writes = ftl.host_writes + ftl.gc_moves
    /\ ftl.free_pages >= Cardinality(PagesIn(ftl, "FREE"))
                             + (FTL_MAX_PHYSICAL_PAGES - NumPages)

\* Within a block the pages are programmed in order: behind a FREE page there
\* are only FREE pages, however write_pointer jumps between erasures, as long as
\* the host leaves room.
BlockProgrammedInOrder ==
    roomy => \A b \in Blocks : \A p, q \in PagesOf(b) :
                 p < q /\ ftl.page_state[p] = "FREE" => ftl.page_state[q] = "FREE"

\* The collector never erases live data by mistake: when the victim is erased
\* no VALID page of it is left, not even one that was moved inside it.
VictimDrained ==
    [][\A b \in Blocks :
          ftl'.erase_count[b] > ftl.erase_count[b] =>
              CountIn(gc_migrate(ftl, b), b, "VALID") = 0]_gc_vars

\* Block l reads the page that is its own: after a refused write the table may lead
\* it to a page that has been erased and programmed for another block since.
Holds(f, l) ==
    /\ f.mapping_table[l] # NONE
    /\ f.reverse_map[f.mapping_table[l]] = l
    /\ ftl_read(f, l).rc = 0

\* If ahead of write_pointer, outside the victim, there are at least as many
\* FREE pages as the victim has VALID ones, a collection loses nothing: every
\* block that reads a page of its own reads the same data before and after,
\* whatever was refused earlier.
CollectionPreservesData ==
    [][\A b \in Blocks :
          ftl'.erase_count[b] > ftl.erase_count[b] /\ RoomAhead(ftl, b) =>
              \A l \in LBA : Holds(ftl, l) => ftl_read(ftl', l) = ftl_read(ftl, l)]_gc_vars

\* As long as the host leaves room, the layer with its collector is a block
\* device that refuses nothing and loses nothing.
ReliableWithRoom == [][roomy' => [Reliable!Next]_Content]_gc_vars

\* Tables in their types, every program accounted for as a host write or a copy, and
\* pages programmed in order within a block while the host leaves room.
GCSound == GCTypeOK /\ CountersAccount /\ BlockProgrammedInOrder

\* The layer "provides a block device abstraction": with or without room, every
\* step is one of a block device that may refuse writes.  The code does not keep
\* this: a collection frees a page that a refused write left in the table.
ImplementsBlockDeviceUnderGC == [][[Device!Next]_Content]_gc_vars
================================================================================
