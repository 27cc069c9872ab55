---------------------------------- MODULE FTL ----------------------------------
(***************************************************************************)
(* The flash translation layer of mini-storage-hardware (src/ftl.c): a     *)
(* page-mapped, log-structured FTL.  A write goes to the next FREE         *)
(* physical page, the mapping table follows it, the page it replaces       *)
(* becomes INVALID and waits for the garbage collector (module GC).        *)
(*                                                                         *)
(* The C structure FTL is the record ftl; planes, blocks and pages are     *)
(* flattened, as get_physical_page does, to the page numbers PPN.  Left    *)
(* out: page->type (always PAGE_TYPE_LOWER), mapping_mode (never read) and *)
(* stats.reads (no decision depends on it).  Calls with an LBA at or above *)
(* FTL_MAX_LBAS return -1 and change nothing.                              *)
(***************************************************************************)
EXTENDS Integers, FiniteSets

CONSTANTS
    FTL_MAX_LBAS,            \* logical pages (16384 in the code)
    NUM_BLOCKS,              \* FTL_PLANES * FTL_BLOCKS_PER_PLANE (64)
    FTL_PAGES_PER_BLOCK,     \* 128
    FTL_MAX_PHYSICAL_PAGES,  \* page numbers the tables allow for (65536)
    Data,                    \* page contents
    Zero                     \* the all-zero page

ASSUME GeometryAssumption ==
    /\ FTL_MAX_LBAS \in Nat \ {0}
    /\ NUM_BLOCKS \in Nat \ {0}
    /\ FTL_PAGES_PER_BLOCK \in Nat \ {0}
    /\ FTL_MAX_PHYSICAL_PAGES \in Nat

\* The tables are larger than the flash array (65536 page numbers, 8192 pages):
\* no page number that is one past a page, or one block past it, wraps around.
ASSUME OversizedTables ==
    (NUM_BLOCKS + 1) * FTL_PAGES_PER_BLOCK <= FTL_MAX_PHYSICAL_PAGES

ASSUME ZeroAssumption == Zero \in Data

NumPages == NUM_BLOCKS * FTL_PAGES_PER_BLOCK
PPN      == 0 .. NumPages - 1      \* pages get_physical_page finds; it is NULL past them
Blocks   == 0 .. NUM_BLOCKS - 1
LBA      == 0 .. FTL_MAX_LBAS - 1
NONE     == -1                     \* an empty entry of either table

PageState  == {"FREE", "VALID", "INVALID", "BAD"}
BlockState == {"FREE", "ACTIVE", "FULL", "BAD"}

BlockOf(p) == p \div FTL_PAGES_PER_BLOCK

VARIABLE ftl
--------------------------------------------------------------------------------
(* The operations, as functions from a translation layer to its successor. *)

ftl_init ==
    [page_id       |-> [p \in PPN |-> 0],
     page_state    |-> [p \in PPN |-> "FREE"],
     page_data     |-> [p \in PPN |-> Zero],
     block_state   |-> [b \in Blocks |-> "FREE"],
     erase_count   |-> [b \in Blocks |-> 0],
     mapping_table |-> [l \in LBA |-> NONE],
     reverse_map   |-> [p \in PPN |-> NONE],   \* entries past NumPages stay -1
     write_pointer |-> 0,
     free_pages    |-> FTL_MAX_PHYSICAL_PAGES,
     writes        |-> 0,
     host_writes   |-> 0,
     gc_moves      |-> 0,
     erases        |-> 0]

\* An unmapped block reads as zeros; a mapped page must be VALID.
ftl_read(f, l) ==
    LET phys == f.mapping_table[l]
    IN  IF phys = NONE THEN [rc |-> 0, data |-> Zero]
        ELSE IF f.page_state[phys] # "VALID" THEN [rc |-> -1, data |-> Zero]
        ELSE [rc |-> 0, data |-> f.page_data[phys]]

\* Mutant of InvalidateOld: the reverse map keeps the old owner.
InvalidateOldStaleReverse(f, l) ==
    LET old_phys == f.mapping_table[l]
    IN  IF old_phys = NONE THEN f
        ELSE [f EXCEPT !.page_state[old_phys] = "INVALID"]

\* The page that holds the old version of l, if any, becomes INVALID.
InvalidateOld(f, l) ==
    LET old_phys == f.mapping_table[l]
    IN  IF old_phys = NONE THEN f
        ELSE [f EXCEPT !.page_state[old_phys] = "INVALID",
                       !.reverse_map[old_phys] = NONE]

\* Where the search for a FREE page from write_pointer ends: NumPages stands
\* for the page number at which get_physical_page first returns NULL.
ScanStops(f) ==
    {q \in f.write_pointer .. NumPages : q < NumPages => f.page_state[q] = "FREE"}

NextFree(f) == CHOOSE q \in ScanStops(f) : \A r \in ScanStops(f) : q <= r

FillPage(f, d, q) ==
    [f EXCEPT !.page_id[q]              = q,
              !.page_state[q]           = "VALID",
              !.page_data[q]            = d,
              !.block_state[BlockOf(q)] = IF @ = "FREE" THEN "ACTIVE" ELSE @]

\* Mutant of MapBlock: the mapping table points one page too far.
MapBlockOffByOne(f, l, q) ==
    [f EXCEPT !.mapping_table[l] = q + 1,
              !.reverse_map[q]   = l]

MapBlock(f, l, q) ==
    [f EXCEPT !.mapping_table[l] = q,
              !.reverse_map[q]   = l]

CountWrite(f, q) ==
    [f EXCEPT !.free_pages    = @ - 1,
              !.write_pointer = (q + 1) % FTL_MAX_PHYSICAL_PAGES,
              !.writes        = @ + 1,
              !.host_writes   = @ + 1]

Program(f, l, d, q) == CountWrite(MapBlock(FillPage(f, d, q), l, q), q)

\* Mutants of ftl_write: the end of the array goes unnoticed; a mapped block is
\* rewritten in place.
ftl_write_past_end(f, l, d) ==
    LET g == InvalidateOld(f, l)
    IN  IF g.free_pages = 0 THEN [rc |-> -2, ftl |-> g]
        ELSE [rc |-> 0, ftl |-> Program(g, l, d, NextFree(g))]

ftl_write_in_place(f, l, d) ==
    LET g == InvalidateOld(f, l)
        q == IF f.mapping_table[l] = NONE THEN NextFree(g) ELSE f.mapping_table[l]
    IN  IF g.free_pages = 0 THEN [rc |-> -2, ftl |-> g]
        ELSE IF q = NumPages
             THEN [rc |-> -1, ftl |-> [g EXCEPT !.write_pointer = q]]
             ELSE [rc |-> 0, ftl |-> Program(g, l, d, q)]

\* The old version is invalidated before the layer knows whether the new one
\* fits: a refused write has already lost it.
ftl_write(f, l, d) ==
    LET g == InvalidateOld(f, l)
        q == NextFree(g)
    IN  IF g.free_pages = 0 THEN [rc |-> -2, ftl |-> g]
        ELSE IF q = NumPages
             THEN [rc |-> -1, ftl |-> [g EXCEPT !.write_pointer = q]]
             ELSE [rc |-> 0, ftl |-> Program(g, l, d, q)]

ftl_trim(f, l) ==
    LET phys == f.mapping_table[l]
    IN  IF phys = NONE THEN f
        ELSE [f EXCEPT !.page_state[phys]  = "INVALID",
                       !.reverse_map[phys] = NONE,
                       !.mapping_table[l]  = NONE]
--------------------------------------------------------------------------------
Init == ftl = ftl_init

FtlWrite(l, d) == ftl' = ftl_write(ftl, l, d).ftl

FtlTrim(l) == ftl' = ftl_trim(ftl, l)

Next ==
    \E l \in LBA :
        \/ \E d \in Data : FtlWrite(l, d)
        \/ FtlTrim(l)

Spec == Init /\ [][Next]_ftl
--------------------------------------------------------------------------------
(* Properties. *)

FTLRecord ==
            [page_id       : [PPN -> PPN],
             page_state    : [PPN -> PageState],
             page_data     : [PPN -> Data],
             block_state   : [Blocks -> BlockState],
             erase_count   : [Blocks -> Nat],
             mapping_table : [LBA -> PPN \cup {NONE}],
             reverse_map   : [PPN -> LBA \cup {NONE}],
             write_pointer : 0 .. NumPages,
             free_pages    : 0 .. FTL_MAX_PHYSICAL_PAGES,
             writes        : Nat,
             host_writes   : Nat,
             gc_moves      : Nat,
             erases        : Nat]

TypeOK == ftl \in FTLRecord

PagesIn(f, s) == {p \in PPN : f.page_state[p] = s}

\* The two tables agree: a VALID page belongs to exactly the block that maps to
\* it, it carries its own number, and no other page claims an owner
\* (ftl_write and ftl_trim keep reverse_map and page->id in step).
Owned(f) ==
    \A p \in PPN :
        /\ f.page_state[p] = "VALID" <=> f.reverse_map[p] # NONE
        /\ f.page_state[p] = "VALID" => /\ f.mapping_table[f.reverse_map[p]] = p
                                       /\ f.page_id[p] = p

ValidPagesOwned == Owned(ftl)

\* No two blocks share a page, and none maps to a page that a later write could
\* take: otherwise a read would return another block's data.
Unaliased(f) ==
    \A l \in LBA :
        f.mapping_table[l] # NONE =>
            /\ f.page_state[f.mapping_table[l]] # "FREE"
            /\ \A m \in LBA \ {l} : f.mapping_table[m] # f.mapping_table[l]

NoAliasing == Unaliased(ftl)

\* The log: exactly the pages from write_pointer on are FREE.
LogShaped(f) == \A p \in PPN : f.page_state[p] = "FREE" <=> p >= f.write_pointer

LogStructured == LogShaped(ftl)

\* free_pages counts the FREE pages plus the page numbers that have no page
\* behind them, so ftl_write's test for 0 (the -2 return) can never succeed.
FreePagesAccount ==
    ftl.free_pages = Cardinality(PagesIn(ftl, "FREE"))
                         + (FTL_MAX_PHYSICAL_PAGES - NumPages)

\* What the four say together is inductive with TypeOK (module FTLProofs).
TablesConsistent ==
    /\ ValidPagesOwned
    /\ NoAliasing
    /\ LogStructured
    /\ FreePagesAccount

\* Flash is never programmed in place: a page's contents change only while the
\* page is FREE, and a page that was programmed does not become VALID again.
ProgramOnce ==
    [][\A p \in PPN :
           \/ ftl.page_state[p] = "FREE"
           \/ /\ ftl'.page_data[p] = ftl.page_data[p]
              /\ ftl'.page_state[p] = "VALID" => ftl.page_state[p] = "VALID"]_ftl

Unreadable == [error |-> -1]       \* not the contents of any page

ContentOf(f) == [l \in LBA |->
                   LET r == ftl_read(f, l)
                   IN  IF r.rc = 0 THEN r.data ELSE Unreadable]

Content == ContentOf(ftl)

Device   == INSTANCE BlockDevice WITH content <- Content, MayRefuse <- TRUE
Reliable == INSTANCE BlockDevice WITH content <- Content, MayRefuse <- FALSE

\* The translation layer, used through ftl_read, ftl_write and ftl_trim alone,
\* is a block device: every read returns the last data the block accepted, or
\* an error if a write to it was refused since.
ImplementsBlockDevice == Device!Spec
================================================================================
