------------------------------- MODULE FTLProofs -------------------------------
(***************************************************************************)
(* Proofs about the translation layer of module FTL, for every geometry,   *)
(* number of blocks and set of page contents.                              *)
(*                                                                         *)
(* The inductive invariant is the conjunction of TypeOK, ValidPagesOwned,  *)
(* NoAliasing and LogStructured: a page is FREE only if no table entry     *)
(* leads to it, so programming it disturbs no other block.                 *)
(***************************************************************************)
EXTENDS FTL, FiniteSetTheorems, WellFoundedInduction, NaturalsInduction, TLAPS

\* Every non-empty set of naturals has a least element; used for the CHOOSE in
\* NextFree, the code's scan from write_pointer.
LEMMA LeastElement ==
  ASSUME NEW S \in SUBSET Nat, S # {}
  PROVE  \E m \in S : \A n \in S : m <= n
<1>1. PICK x \in S : \A y \in S : <<y, x>> \notin OpToRel(<, Nat)
  BY NatLessThanWellFounded, WFMin, Zenon
<1>2. \A y \in S : ~(y < x)
  BY <1>1 DEF OpToRel
<1> QED
  BY <1>2

\* The geometry of the array: there are page numbers beyond the last page.
LEMMA NumPagesBound ==
  /\ NumPages \in Nat
  /\ FTL_MAX_PHYSICAL_PAGES \in Nat
  /\ NumPages < FTL_MAX_PHYSICAL_PAGES
<1> USE GeometryAssumption
<1>1. (NUM_BLOCKS + 1) * FTL_PAGES_PER_BLOCK = NumPages + FTL_PAGES_PER_BLOCK
  BY DEF NumPages
<1>2. NumPages \in Nat
  BY DEF NumPages
<1> QED
  BY <1>1, <1>2, OversizedTables

\* The scan of ftl_write ends at the first FREE page from write_pointer on, or
\* at NumPages, where get_physical_page has no page to give.
LEMMA ScanResult ==
  ASSUME NEW f, f.write_pointer \in 0 .. NumPages
  PROVE  /\ NextFree(f) \in ScanStops(f)
         /\ \A r \in ScanStops(f) : NextFree(f) <= r
<1>1. ScanStops(f) \in SUBSET Nat
  BY NumPagesBound DEF ScanStops
<1>2. NumPages \in ScanStops(f)
  BY NumPagesBound DEF ScanStops
<1>3. \E q \in ScanStops(f) : \A r \in ScanStops(f) : q <= r
  BY <1>1, <1>2, LeastElement
<1> QED
  BY <1>3 DEF NextFree

\* The record of a translation layer without a bound on free_pages: a collection may
\* count a FREE page of its victim twice.
Tables == [page_id       : [PPN -> PPN],
           page_state    : [PPN -> PageState],
           page_data     : [PPN -> Data],
           block_state   : [Blocks -> BlockState],
           erase_count   : [Blocks -> Nat],
           mapping_table : [LBA -> PPN \cup {NONE}],
           reverse_map   : [PPN -> LBA \cup {NONE}],
           write_pointer : 0 .. NumPages,
           free_pages    : Nat,
           writes        : Nat,
           host_writes   : Nat,
           gc_moves      : Nat,
           erases        : Nat]

\* The records FTLRecord are those with free_pages in its range.
LEMMA RecordOfTables ==
  /\ \A f \in FTLRecord : f \in Tables
  /\ \A f \in Tables : f.free_pages <= FTL_MAX_PHYSICAL_PAGES => f \in FTLRecord
  /\ \A f \in FTLRecord : f.free_pages \in 0 .. FTL_MAX_PHYSICAL_PAGES
BY NumPagesBound DEF FTLRecord, Tables

\* The handlers of ftl.c that do not collect leave the wear alone.
SameWear(f, g) == g.erase_count = f.erase_count /\ g.erases = f.erases

SameCounters(f, g) ==
  /\ SameWear(f, g)
  /\ g.free_pages = f.free_pages
  /\ g.writes = f.writes
  /\ g.host_writes = f.host_writes
  /\ g.gc_moves = f.gc_moves

\* What invalidating the old version of a block leaves behind.
LEMMA InvalidateOldTables ==
  ASSUME NEW f \in Tables, NEW l \in LBA
  PROVE  LET old == f.mapping_table[l]
             g   == InvalidateOld(f, l)
         IN  /\ g \in Tables
             /\ g.mapping_table = f.mapping_table
             /\ g.page_data = f.page_data
             /\ g.page_id = f.page_id
             /\ g.write_pointer = f.write_pointer
             /\ SameCounters(f, g)
             /\ old = NONE => g = f
             /\ old # NONE =>
                  /\ old \in PPN
                  /\ g.page_state = [f.page_state EXCEPT ![old] = "INVALID"]
                  /\ g.reverse_map = [f.reverse_map EXCEPT ![old] = NONE]
BY DEF InvalidateOld, Tables, PageState, NONE, SameCounters, SameWear

\* Invalidating the old page of a block changes that page's state and owner, and no other
\* table.
LEMMA InvalidateOldFields ==
  ASSUME NEW f \in FTLRecord, NEW l \in LBA
  PROVE  LET old == f.mapping_table[l]
             g   == InvalidateOld(f, l)
         IN  /\ g \in FTLRecord
             /\ g.mapping_table = f.mapping_table
             /\ g.page_data = f.page_data
             /\ g.page_id = f.page_id
             /\ g.write_pointer = f.write_pointer
             /\ g.free_pages = f.free_pages
             /\ old = NONE => g = f
             /\ old # NONE =>
                  /\ old \in PPN
                  /\ g.page_state = [f.page_state EXCEPT ![old] = "INVALID"]
                  /\ g.reverse_map = [f.reverse_map EXCEPT ![old] = NONE]
<1> DEFINE g == InvalidateOld(f, l)
<1>1. f \in Tables
  BY RecordOfTables
<1>2. /\ g \in Tables
      /\ g.free_pages = f.free_pages
  BY <1>1, InvalidateOldTables DEF SameCounters
<1>3. g \in FTLRecord
  BY <1>2, NumPagesBound, RecordOfTables
<1> QED
  BY <1>1, <1>2, <1>3, InvalidateOldTables

\* Filling page q touches the page and the state of its erase block.
LEMMA FillPageFields ==
  ASSUME NEW f \in Tables, NEW d \in Data, NEW q \in PPN
  PROVE  LET g == FillPage(f, d, q)
         IN  /\ g \in Tables
             /\ g.page_id = [f.page_id EXCEPT ![q] = q]
             /\ g.page_state = [f.page_state EXCEPT ![q] = "VALID"]
             /\ g.page_data = [f.page_data EXCEPT ![q] = d]
             /\ g.mapping_table = f.mapping_table
             /\ g.reverse_map = f.reverse_map
             /\ SameCounters(f, g)
BY DEF FillPage, Tables, PageState, BlockState, SameCounters, SameWear

\* Mapping block l to page q touches the two tables.
LEMMA MapBlockFields ==
  ASSUME NEW f \in Tables, NEW l \in LBA, NEW q \in PPN
  PROVE  LET g == MapBlock(f, l, q)
         IN  /\ g \in Tables
             /\ g.page_id = f.page_id
             /\ g.page_state = f.page_state
             /\ g.page_data = f.page_data
             /\ g.mapping_table = [f.mapping_table EXCEPT ![l] = q]
             /\ g.reverse_map = [f.reverse_map EXCEPT ![q] = l]
             /\ SameCounters(f, g)
BY DEF MapBlock, Tables, SameCounters, SameWear

\* Counting a write touches the counters and moves write_pointer behind page q;
\* the remainder in the code never takes effect, for q + 1 is at most NumPages.
LEMMA CountWriteFields ==
  ASSUME NEW f \in Tables, NEW q \in PPN, f.free_pages # 0
  PROVE  LET g == CountWrite(f, q)
         IN  /\ g \in Tables
             /\ g.page_id = f.page_id
             /\ g.page_state = f.page_state
             /\ g.page_data = f.page_data
             /\ g.mapping_table = f.mapping_table
             /\ g.reverse_map = f.reverse_map
             /\ SameWear(f, g)
             /\ g.write_pointer = q + 1
             /\ g.free_pages = f.free_pages - 1
             /\ g.writes = f.writes + 1
             /\ g.host_writes = f.host_writes + 1
             /\ g.gc_moves = f.gc_moves
<1>1. (q + 1) % FTL_MAX_PHYSICAL_PAGES = q + 1 /\ q + 1 \in 0 .. NumPages
  BY NumPagesBound DEF PPN
<1>2. f.free_pages - 1 \in Nat
  BY DEF Tables
<1>3. CountWrite(f, q) = [f EXCEPT !.free_pages    = f.free_pages - 1,
                                   !.write_pointer = q + 1,
                                   !.writes        = f.writes + 1,
                                   !.host_writes   = f.host_writes + 1]
  BY <1>1, Zenon DEF CountWrite, Tables
<1>4. /\ f.writes + 1 \in Nat
      /\ f.host_writes + 1 \in Nat
  BY DEF Tables
<1> QED
  BY <1>1, <1>2, <1>3, <1>4 DEF Tables, SameWear

\* g is f with page q programmed for block l.
Programmed(f, l, d, q, g) ==
  /\ g \in Tables
  /\ g.page_id = [f.page_id EXCEPT ![q] = q]
  /\ g.page_state = [f.page_state EXCEPT ![q] = "VALID"]
  /\ g.page_data = [f.page_data EXCEPT ![q] = d]
  /\ g.mapping_table = [f.mapping_table EXCEPT ![l] = q]
  /\ g.reverse_map = [f.reverse_map EXCEPT ![q] = l]
  /\ SameWear(f, g)
  /\ g.write_pointer = q + 1
  /\ g.free_pages = f.free_pages - 1
  /\ g.writes = f.writes + 1
  /\ g.host_writes = f.host_writes + 1
  /\ g.gc_moves = f.gc_moves

\* What Program, the second half of ftl_write, leaves behind.
LEMMA ProgramTables ==
  ASSUME NEW f \in Tables, NEW l \in LBA, NEW d \in Data, NEW q \in PPN,
         f.free_pages # 0
  PROVE  Programmed(f, l, d, q, Program(f, l, d, q))
<1> DEFINE g1 == FillPage(f, d, q)
           g2 == MapBlock(g1, l, q)
           g3 == CountWrite(g2, q)
<1>1. /\ g1 \in Tables
      /\ g1.page_id = [f.page_id EXCEPT ![q] = q]
      /\ g1.page_state = [f.page_state EXCEPT ![q] = "VALID"]
      /\ g1.page_data = [f.page_data EXCEPT ![q] = d]
      /\ g1.mapping_table = f.mapping_table
      /\ g1.reverse_map = f.reverse_map
      /\ SameCounters(f, g1)
  BY FillPageFields
<1> HIDE DEF g1
<1>2. /\ g2 \in Tables
      /\ g2.page_id = g1.page_id
      /\ g2.page_state = g1.page_state
      /\ g2.page_data = g1.page_data
      /\ g2.mapping_table = [g1.mapping_table EXCEPT ![l] = q]
      /\ g2.reverse_map = [g1.reverse_map EXCEPT ![q] = l]
      /\ SameCounters(g1, g2)
  BY <1>1, MapBlockFields
<1> HIDE DEF g2
<1>3. /\ g3 \in Tables
      /\ g3.page_id = g2.page_id
      /\ g3.page_state = g2.page_state
      /\ g3.page_data = g2.page_data
      /\ g3.mapping_table = g2.mapping_table
      /\ g3.reverse_map = g2.reverse_map
      /\ SameWear(g2, g3)
      /\ g3.write_pointer = q + 1
      /\ g3.free_pages = g2.free_pages - 1
      /\ g3.writes = g2.writes + 1
      /\ g3.host_writes = g2.host_writes + 1
      /\ g3.gc_moves = g2.gc_moves
  BY <1>1, <1>2, CountWriteFields DEF SameCounters
<1> HIDE DEF g3
<1>4. /\ SameWear(f, g3)
      /\ g3.free_pages = f.free_pages - 1
      /\ g3.writes = f.writes + 1
      /\ g3.host_writes = f.host_writes + 1
      /\ g3.gc_moves = f.gc_moves
  BY <1>1, <1>2, <1>3 DEF SameCounters, SameWear
<1>5. Program(f, l, d, q) = g3
  BY DEF Program, g1, g2, g3
<1> QED
  BY <1>1, <1>2, <1>3, <1>4, <1>5, Zenon DEF Programmed

\* The same for a record whose free_pages is in range: it stays there.
LEMMA ProgramFields ==
  ASSUME NEW f \in FTLRecord, NEW l \in LBA, NEW d \in Data, NEW q \in PPN,
         f.free_pages # 0
  PROVE  /\ Programmed(f, l, d, q, Program(f, l, d, q))
         /\ Program(f, l, d, q) \in FTLRecord
<1> DEFINE g == Program(f, l, d, q)
<1>1. Programmed(f, l, d, q, g)
  BY RecordOfTables, ProgramTables
<1> HIDE DEF g
<1>2. g \in Tables /\ g.free_pages = f.free_pages - 1
  BY <1>1 DEF Programmed
<1>3. g \in FTLRecord
  BY <1>2, NumPagesBound, RecordOfTables
<1> QED
  BY <1>1, <1>3 DEF g
\* g is f with page p INVALID; its owner may be forgotten, and so may the entries of
\* the mapping table that lead to it.
Invalidated(f, p, g) ==
  /\ g \in Tables
  /\ SameCounters(f, g)
  /\ g.page_id = f.page_id
  /\ g.page_data = f.page_data
  /\ g.write_pointer = f.write_pointer
  /\ g.page_state = [f.page_state EXCEPT ![p] = "INVALID"]
  /\ \A r \in PPN \ {p} : g.reverse_map[r] = f.reverse_map[r]
  /\ \A l \in LBA : \/ g.mapping_table[l] = f.mapping_table[l]
                    \/ f.mapping_table[l] = p /\ g.mapping_table[l] = NONE

\* A trim marks the page of the block INVALID, whoever it belongs to by then.
LEMMA TrimMarks ==
  ASSUME NEW f \in Tables, NEW l \in LBA
  PROVE  LET phys == f.mapping_table[l]
             g    == ftl_trim(f, l)
         IN  /\ g.mapping_table = [f.mapping_table EXCEPT ![l] = NONE]
             /\ \/ phys = NONE /\ g = f
                \/ phys \in PPN /\ Invalidated(f, phys, g)
<1> DEFINE phys == f.mapping_table[l]
           g    == ftl_trim(f, l)
<1>0. /\ phys \in PPN \cup {NONE}
      /\ f.mapping_table \in [LBA -> PPN \cup {NONE}]
  BY DEF Tables
<1>1. CASE phys = NONE
  <2>1. g = f
    BY <1>1 DEF ftl_trim
  <2> QED
    BY <1>0, <1>1, <2>1
<1>2. CASE phys # NONE
  <2>1. g = [f EXCEPT !.page_state[phys]  = "INVALID",
                      !.reverse_map[phys] = NONE,
                      !.mapping_table[l]  = NONE]
    BY <1>2 DEF ftl_trim
  <2>2. phys \in PPN
    BY <1>0, <1>2
  <2>3. g \in Tables
    <3>1. /\ [f.page_state EXCEPT ![phys] = "INVALID"] \in [PPN -> PageState]
          /\ [f.reverse_map EXCEPT ![phys] = NONE] \in [PPN -> LBA \cup {NONE}]
          /\ [f.mapping_table EXCEPT ![l] = NONE] \in [LBA -> PPN \cup {NONE}]
      BY <1>0, <2>2 DEF Tables, PageState
    <3> QED
      BY <2>1, <3>1 DEF Tables
  <2>4. /\ g.mapping_table = [f.mapping_table EXCEPT ![l] = NONE]
        /\ g.reverse_map = [f.reverse_map EXCEPT ![phys] = NONE]
        /\ g.page_state = [f.page_state EXCEPT ![phys] = "INVALID"]
        /\ g.page_id = f.page_id /\ g.page_data = f.page_data
        /\ g.write_pointer = f.write_pointer
        /\ SameCounters(f, g)
    BY <2>1 DEF Tables, SameCounters, SameWear
  <2>5. \A r \in PPN \ {phys} : g.reverse_map[r] = f.reverse_map[r]
    BY <2>4 DEF Tables
  <2>6. \A k \in LBA : \/ g.mapping_table[k] = f.mapping_table[k]
                       \/ f.mapping_table[k] = phys /\ g.mapping_table[k] = NONE
    BY <1>0, <2>4
  <2> QED
    BY <2>2, <2>3, <2>4, <2>5, <2>6 DEF Invalidated
<1> QED
  BY <1>1, <1>2

\* Page q is the first FREE one from write_pointer on.
FirstFree(f, q) ==
  /\ q \in PPN
  /\ f.page_state[q] = "FREE"
  /\ f.write_pointer <= q
  /\ \A r \in PPN : f.write_pointer <= r /\ r < q => f.page_state[r] # "FREE"

\* A write programs the first FREE page from write_pointer on, or finds none there
\* and is refused.
LEMMA WriteEnds ==
  ASSUME NEW f \in Tables, f.free_pages # 0, NEW l \in LBA, NEW d \in Data
  PROVE  LET g == InvalidateOld(f, l)
             w == ftl_write(f, l, d)
         IN  \/ /\ w.rc = 0
                /\ \E q : FirstFree(g, q) /\ Programmed(g, l, d, q, w.ftl)
             \/ /\ w.rc = -1
                /\ w.ftl = [g EXCEPT !.write_pointer = NumPages]
                /\ \A r \in PPN : f.write_pointer <= r => g.page_state[r] # "FREE"
<1> DEFINE g == InvalidateOld(f, l)
           w == ftl_write(f, l, d)
           q == NextFree(g)
<1>1. /\ g \in Tables
      /\ g.free_pages = f.free_pages
      /\ g.write_pointer = f.write_pointer
      /\ g.write_pointer \in 0 .. NumPages
  BY InvalidateOldTables DEF SameCounters, Tables
<1>2. /\ w.rc  = IF q = NumPages THEN -1 ELSE 0
      /\ w.ftl = IF q = NumPages THEN [g EXCEPT !.write_pointer = q] ELSE Program(g, l, d, q)
  BY <1>1 DEF ftl_write
<1> HIDE DEF g, w
<1>3. q \in ScanStops(g) /\ \A r \in ScanStops(g) : q <= r
  BY <1>1, ScanResult
<1> HIDE DEF q
<1>4. \A r \in PPN : g.write_pointer <= r /\ r < q => g.page_state[r] # "FREE"
  BY <1>1, <1>3, NumPagesBound DEF ScanStops, PPN
<1>5. CASE q = NumPages
  <2>1. \A r \in PPN : f.write_pointer <= r => g.page_state[r] # "FREE"
    BY <1>1, <1>4, <1>5, NumPagesBound DEF PPN
  <2> QED
    BY <1>2, <1>5, <2>1 DEF g, w
<1>6. CASE q # NumPages
  <2>1. FirstFree(g, q)
    BY <1>1, <1>3, <1>4, <1>6, NumPagesBound DEF FirstFree, ScanStops, PPN
  <2>2. Programmed(g, l, d, q, Program(g, l, d, q))
    BY <1>1, <2>1, ProgramTables DEF FirstFree
  <2>3. w.rc = 0 /\ FirstFree(g, q) /\ Programmed(g, l, d, q, w.ftl)
    BY <1>2, <1>6, <2>1, <2>2
  <2> QED
    BY <2>3 DEF g, w
<1> QED
  BY <1>5, <1>6
--------------------------------------------------------------------------------
(* The inductive invariant, of a translation layer f. *)

Consistent(f) ==
  /\ f \in FTLRecord
  /\ Owned(f)
  /\ Unaliased(f)
  /\ LogShaped(f)

\* A fresh device is consistent (ftl_init).
LEMMA InitConsistent == Consistent(ftl_init)
<1>1. ftl_init \in FTLRecord
  <2>1. \A p \in PPN : 0 \in PPN
    BY NumPagesBound DEF PPN
  <2> QED
    BY <2>1, NumPagesBound, ZeroAssumption
       DEF ftl_init, FTLRecord, PageState, BlockState
<1>2. Owned(ftl_init) /\ Unaliased(ftl_init) /\ LogShaped(ftl_init)
  BY DEF ftl_init, Owned, Unaliased, LogShaped, NONE, PPN
<1> QED
  BY <1>1, <1>2 DEF Consistent

\* Invalidating an old version keeps the layer consistent, and leaves the block
\* without a VALID page.
LEMMA InvalidateConsistent ==
  ASSUME NEW f, Consistent(f), NEW l \in LBA
  PROVE  LET g == InvalidateOld(f, l)
         IN  /\ Consistent(g)
             /\ g.mapping_table[l] # NONE => g.page_state[g.mapping_table[l]] = "INVALID"
<1> DEFINE g   == InvalidateOld(f, l)
           old == f.mapping_table[l]
<1>1. /\ g \in FTLRecord
      /\ g.mapping_table = f.mapping_table
      /\ g.page_id = f.page_id
      /\ g.write_pointer = f.write_pointer
      /\ old = NONE => g = f
      /\ old # NONE =>
           /\ old \in PPN
           /\ g.page_state = [f.page_state EXCEPT ![old] = "INVALID"]
           /\ g.reverse_map = [f.reverse_map EXCEPT ![old] = NONE]
  BY InvalidateOldFields DEF Consistent
<1>2. CASE old = NONE
  BY <1>1, <1>2
<1>3. CASE old # NONE
  <2> HIDE DEF g
  <2>1. /\ f.page_state \in [PPN -> PageState]
        /\ f.reverse_map \in [PPN -> LBA \cup {NONE}]
        /\ f.mapping_table \in [LBA -> PPN \cup {NONE}]
    BY DEF Consistent, FTLRecord
  <2>2. f.page_state[old] # "FREE"
    BY <1>3 DEF Consistent, Unaliased
  <2>3. Owned(g)
    BY <1>1, <1>3, <2>1 DEF Consistent, Owned, NONE
  <2>4. Unaliased(g)
    BY <1>1, <1>3, <2>1 DEF Consistent, Unaliased, NONE
  <2>5. LogShaped(g)
    BY <1>1, <1>3, <2>1, <2>2 DEF Consistent, LogShaped
  <2>6. g.page_state[g.mapping_table[l]] = "INVALID"
    BY <1>1, <1>3, <2>1
  <2> QED
    BY <1>1, <2>3, <2>4, <2>5, <2>6 DEF Consistent, g
<1> QED
  BY <1>2, <1>3

\* Programming the first FREE page of the log for a block that has no VALID page
\* keeps the layer consistent.
LEMMA ProgramConsistent ==
  ASSUME NEW f, Consistent(f), NEW l \in LBA, NEW d \in Data,
         f.mapping_table[l] # NONE => f.page_state[f.mapping_table[l]] = "INVALID",
         f.free_pages # 0,
         NEW q \in PPN, q = f.write_pointer
  PROVE  Consistent(Program(f, l, d, q))
<1> DEFINE g == Program(f, l, d, q)
<1>0. f \in FTLRecord
  BY DEF Consistent
<1>p. Programmed(f, l, d, q, g) /\ g \in FTLRecord
  BY <1>0, ProgramFields
<1> HIDE DEF g
<1>1. /\ g \in FTLRecord
      /\ g.page_id = [f.page_id EXCEPT ![q] = q]
      /\ g.page_state = [f.page_state EXCEPT ![q] = "VALID"]
      /\ g.mapping_table = [f.mapping_table EXCEPT ![l] = q]
      /\ g.reverse_map = [f.reverse_map EXCEPT ![q] = l]
      /\ g.write_pointer = q + 1
  BY <1>p DEF Programmed
<1>2. /\ f.page_state \in [PPN -> PageState]
      /\ f.page_id \in [PPN -> PPN]
      /\ f.reverse_map \in [PPN -> LBA \cup {NONE}]
      /\ f.mapping_table \in [LBA -> PPN \cup {NONE}]
  BY DEF Consistent, FTLRecord
<1>3. f.page_state[q] = "FREE"
  BY NumPagesBound DEF Consistent, LogShaped, PPN
<1>4. \A m \in LBA : f.mapping_table[m] # q
  BY <1>3 DEF Consistent, Unaliased, NONE, PPN
<1>5. l # NONE
  BY DEF LBA, NONE
<1>6. Owned(g)
  <2> SUFFICES ASSUME NEW p \in PPN
               PROVE  /\ g.page_state[p] = "VALID" <=> g.reverse_map[p] # NONE
                      /\ g.page_state[p] = "VALID" =>
                            /\ g.mapping_table[g.reverse_map[p]] = p
                            /\ g.page_id[p] = p
    BY DEF Owned
  <2>1. CASE p = q
    BY <1>1, <1>2, <1>5, <2>1
  <2>2. CASE p # q
    <3>1. /\ g.page_state[p] = f.page_state[p]
          /\ g.reverse_map[p] = f.reverse_map[p]
          /\ g.page_id[p] = f.page_id[p]
      BY <1>1, <1>2, <2>2
    <3>2. /\ f.page_state[p] = "VALID" <=> f.reverse_map[p] # NONE
          /\ f.page_state[p] = "VALID" =>
                /\ f.mapping_table[f.reverse_map[p]] = p
                /\ f.page_id[p] = p
      BY DEF Consistent, Owned
    <3>3. f.page_state[p] = "VALID" => f.reverse_map[p] # l
      BY <3>2 DEF PPN, NONE
    <3> QED
      BY <1>1, <1>2, <3>1, <3>2, <3>3
  <2> QED
    BY <2>1, <2>2
<1>7. Unaliased(g)
  <2> SUFFICES ASSUME NEW m \in LBA, g.mapping_table[m] # NONE
               PROVE  /\ g.page_state[g.mapping_table[m]] # "FREE"
                      /\ \A n \in LBA \ {m} : g.mapping_table[n] # g.mapping_table[m]
    BY DEF Unaliased
  <2>1. CASE m = l
    BY <1>1, <1>2, <1>4, <2>1
  <2>2. CASE m # l
    <3>1. g.mapping_table[m] = f.mapping_table[m] /\ f.mapping_table[m] \in PPN \ {q}
      BY <1>1, <1>2, <1>4, <2>2
    <3>2. /\ f.page_state[f.mapping_table[m]] # "FREE"
          /\ \A n \in LBA \ {m} : f.mapping_table[n] # f.mapping_table[m]
      BY <3>1 DEF Consistent, Unaliased
    <3> QED
      BY <1>1, <1>2, <3>1, <3>2
  <2> QED
    BY <2>1, <2>2
<1>8. LogShaped(g)
  <2> SUFFICES ASSUME NEW p \in PPN
               PROVE  g.page_state[p] = "FREE" <=> p >= q + 1
    BY <1>1 DEF LogShaped
  <2>1. f.page_state[p] = "FREE" <=> p >= q
    BY DEF Consistent, LogShaped
  <2>2. CASE p = q
    BY <1>1, <1>2, <2>2, NumPagesBound DEF PPN
  <2>3. CASE p # q
    <3>1. g.page_state[p] = f.page_state[p]
      BY <1>1, <1>2, <2>3
    <3>2. p >= q + 1 <=> p >= q
      BY <2>3, NumPagesBound DEF PPN
    <3> QED
      BY <2>1, <3>1, <3>2
  <2> QED
    BY <2>2, <2>3
<1> QED
  BY <1>1, <1>6, <1>7, <1>8 DEF Consistent, g

\* Refusing a write moves write_pointer to the end, past no FREE page.
LEMMA RefuseConsistent ==
  ASSUME NEW f, Consistent(f),
         \A p \in PPN : p >= f.write_pointer => f.page_state[p] # "FREE"
  PROVE  Consistent([f EXCEPT !.write_pointer = NumPages])
<1> DEFINE g == [f EXCEPT !.write_pointer = NumPages]
<1>1. /\ g \in FTLRecord
      /\ g.page_id = f.page_id
      /\ g.page_state = f.page_state
      /\ g.mapping_table = f.mapping_table
      /\ g.reverse_map = f.reverse_map
      /\ g.write_pointer = NumPages
  BY NumPagesBound DEF Consistent, FTLRecord
<1> HIDE DEF g
<1>2. LogShaped(g)
  BY <1>1, NumPagesBound DEF Consistent, LogShaped, PPN
<1>3. Owned(g) /\ Unaliased(g)
  BY <1>1 DEF Consistent, Owned, Unaliased
<1> QED
  BY <1>1, <1>2, <1>3 DEF Consistent, g

\* The three ways ftl_write can end: no free page counted, no FREE page from
\* write_pointer on, or the page at write_pointer is programmed.
LEMMA WriteCases ==
  ASSUME NEW f, Consistent(f), NEW l \in LBA, NEW d \in Data
  PROVE  LET g == InvalidateOld(f, l)
             w == ftl_write(f, l, d)
         IN  \/ /\ w.rc # 0
                /\ g.free_pages = 0
                /\ w.ftl = g
             \/ /\ w.rc # 0
                /\ w.ftl = [g EXCEPT !.write_pointer = NumPages]
                /\ \A p \in PPN : p >= g.write_pointer => g.page_state[p] # "FREE"
             \/ /\ w.rc = 0
                /\ g.write_pointer \in PPN
                /\ g.free_pages # 0
                /\ w.ftl = Program(g, l, d, g.write_pointer)
<1> DEFINE g == InvalidateOld(f, l)
           q == NextFree(g)
<1>1. Consistent(g)
  BY InvalidateConsistent
<1> HIDE DEF g
<1>2. g.write_pointer \in 0 .. NumPages
  BY <1>1 DEF Consistent, FTLRecord
<1>3. q \in ScanStops(g) /\ \A r \in ScanStops(g) : q <= r
  BY <1>2, ScanResult
<1> HIDE DEF q
<1>4. CASE g.free_pages = 0
  BY <1>4 DEF ftl_write, g
<1>5. CASE g.free_pages # 0 /\ q = NumPages
  <2>1. ftl_write(f, l, d) = [rc |-> -1, ftl |-> [g EXCEPT !.write_pointer = NumPages]]
    BY <1>5 DEF ftl_write, g, q
  <2>2. \A p \in PPN : p >= g.write_pointer => g.page_state[p] # "FREE"
    BY <1>2, <1>3, <1>5, NumPagesBound DEF ScanStops, PPN
  <2> QED
    BY <2>1, <2>2 DEF g
<1>6. CASE g.free_pages # 0 /\ q # NumPages
  <2>1. q \in PPN /\ g.page_state[q] = "FREE" /\ g.write_pointer <= q
    BY <1>2, <1>3, <1>6, NumPagesBound DEF ScanStops, PPN
  <2>2. g.write_pointer \in PPN
    BY <1>2, <2>1, NumPagesBound DEF PPN
  <2>3. g.write_pointer \in ScanStops(g)
    BY <1>1, <1>2, <2>2 DEF Consistent, LogShaped, ScanStops, PPN
  <2>4. q = g.write_pointer
    BY <1>2, <1>3, <2>1, <2>3, NumPagesBound DEF PPN
  <2>5. ftl_write(f, l, d) = [rc |-> 0, ftl |-> Program(g, l, d, g.write_pointer)]
    BY <1>6, <2>4 DEF ftl_write, g, q
  <2> QED
    BY <1>6, <2>2, <2>5 DEF g
<1> QED
  BY <1>4, <1>5, <1>6

\* ftl_write keeps the layer consistent, accepted or refused.
LEMMA WriteConsistent ==
  ASSUME NEW f, Consistent(f), NEW l \in LBA, NEW d \in Data
  PROVE  Consistent(ftl_write(f, l, d).ftl)
<1> DEFINE g == InvalidateOld(f, l)
<1>1. /\ Consistent(g)
      /\ g.mapping_table[l] # NONE => g.page_state[g.mapping_table[l]] = "INVALID"
  BY InvalidateConsistent
<1> HIDE DEF g
<1>2. CASE ftl_write(f, l, d).ftl = g
  BY <1>1, <1>2
<1>3. CASE /\ ftl_write(f, l, d).ftl = [g EXCEPT !.write_pointer = NumPages]
           /\ \A p \in PPN : p >= g.write_pointer => g.page_state[p] # "FREE"
  BY <1>1, <1>3, RefuseConsistent
<1>4. CASE /\ g.write_pointer \in PPN
           /\ g.free_pages # 0
           /\ ftl_write(f, l, d).ftl = Program(g, l, d, g.write_pointer)
  BY <1>1, <1>4, ProgramConsistent
<1> QED
  BY <1>2, <1>3, <1>4, WriteCases DEF g

\* ftl_trim keeps the layer consistent.
LEMMA TrimConsistent ==
  ASSUME NEW f, Consistent(f), NEW l \in LBA
  PROVE  Consistent(ftl_trim(f, l))
<1> DEFINE g    == ftl_trim(f, l)
           phys == f.mapping_table[l]
<1>1. CASE phys = NONE
  BY <1>1 DEF ftl_trim
<1>2. CASE phys # NONE
  <2>1. /\ f.page_state \in [PPN -> PageState]
        /\ f.reverse_map \in [PPN -> LBA \cup {NONE}]
        /\ f.mapping_table \in [LBA -> PPN \cup {NONE}]
        /\ phys \in PPN
    BY <1>2 DEF Consistent, FTLRecord
  <2>2. /\ g \in FTLRecord
        /\ g.page_id = f.page_id
        /\ g.page_state = [f.page_state EXCEPT ![phys] = "INVALID"]
        /\ g.mapping_table = [f.mapping_table EXCEPT ![l] = NONE]
        /\ g.reverse_map = [f.reverse_map EXCEPT ![phys] = NONE]
        /\ g.write_pointer = f.write_pointer
    BY <1>2, <2>1 DEF ftl_trim, Consistent, FTLRecord, PageState
  <2>3. f.page_state[phys] # "FREE"
    BY <1>2 DEF Consistent, Unaliased
  <2> HIDE DEF g
  <2>4. Owned(g)
    <3> SUFFICES ASSUME NEW p \in PPN
                 PROVE  /\ g.page_state[p] = "VALID" <=> g.reverse_map[p] # NONE
                        /\ g.page_state[p] = "VALID" =>
                              /\ g.mapping_table[g.reverse_map[p]] = p
                              /\ g.page_id[p] = p
      BY DEF Owned
    <3>1. CASE p = phys
      BY <2>1, <2>2, <3>1
    <3>2. CASE p # phys
      BY <2>1, <2>2, <3>2 DEF Consistent, Owned
    <3> QED
      BY <3>1, <3>2
  <2>5. Unaliased(g)
    BY <1>2, <2>1, <2>2 DEF Consistent, Unaliased, NONE
  <2>6. LogShaped(g)
    BY <2>1, <2>2, <2>3 DEF Consistent, LogShaped
  <2> QED
    BY <2>2, <2>4, <2>5, <2>6 DEF Consistent, g
<1> QED
  BY <1>1, <1>2

--------------------------------------------------------------------------------
IInv == Consistent(ftl)

\* Consistency of the state is an invariant of the specification.
LEMMA ConsistentInvariant == Spec => []IInv
<1>1. Init => IInv
  BY InitConsistent DEF Init, IInv
<1>2. IInv /\ [Next]_ftl => IInv'
  <2> SUFFICES ASSUME Consistent(ftl), [Next]_ftl
               PROVE  Consistent(ftl')
    BY DEF IInv
  <2>1. ASSUME NEW l \in LBA, NEW d \in Data, FtlWrite(l, d)
        PROVE  Consistent(ftl')
    BY <2>1, WriteConsistent DEF FtlWrite
  <2>2. ASSUME NEW l \in LBA, FtlTrim(l)
        PROVE  Consistent(ftl')
    BY <2>2, TrimConsistent DEF FtlTrim
  <2>3. CASE UNCHANGED ftl
    BY <2>3
  <2> QED
    BY <2>1, <2>2, <2>3 DEF Next
<1> QED
  BY <1>1, <1>2, PTL DEF Spec

\* The translation layer is always of its type: in particular write_pointer stays
\* within the array and free_pages does not wrap below zero.
THEOREM TypeCorrect == Spec => []TypeOK
<1>1. IInv => TypeOK
  BY DEF IInv, Consistent, TypeOK
<1> QED
  BY <1>1, ConsistentInvariant, PTL

\* Mapping table and reverse map agree on every VALID page.
THEOREM OwnershipCorrect == Spec => []ValidPagesOwned
<1>1. IInv => ValidPagesOwned
  BY DEF IInv, Consistent, ValidPagesOwned
<1> QED
  BY <1>1, ConsistentInvariant, PTL

\* No two blocks ever share a physical page, and no mapped page is FREE.
THEOREM AliasingFree == Spec => []NoAliasing
<1>1. IInv => NoAliasing
  BY DEF IInv, Consistent, NoAliasing
<1> QED
  BY <1>1, ConsistentInvariant, PTL

\* The pages form a log that write_pointer cuts in a used and a FREE part.
THEOREM LogCorrect == Spec => []LogStructured
<1>1. IInv => LogStructured
  BY DEF IInv, Consistent, LogStructured
<1> QED
  BY <1>1, ConsistentInvariant, PTL
--------------------------------------------------------------------------------
(* Flash is programmed once: the action property. *)

\* Whatever a call does, a page that is not FREE keeps its data and does not
\* become VALID (again).
Kept(f, g) ==
  \A p \in PPN :
    \/ f.page_state[p] = "FREE"
    \/ /\ g.page_data[p] = f.page_data[p]
       /\ g.page_state[p] = "VALID" => f.page_state[p] = "VALID"

\* Invalidating an old version keeps every programmed page.
LEMMA InvalidateKept ==
  ASSUME NEW f, Consistent(f), NEW l \in LBA
  PROVE  Kept(f, InvalidateOld(f, l))
<1> DEFINE g   == InvalidateOld(f, l)
           old == f.mapping_table[l]
<1>1. f \in FTLRecord /\ f.page_state \in [PPN -> PageState]
  BY DEF Consistent, FTLRecord
<1>2. /\ g.page_data = f.page_data
      /\ old = NONE => g = f
      /\ old # NONE => g.page_state = [f.page_state EXCEPT ![old] = "INVALID"]
  BY <1>1, InvalidateOldFields
<1> HIDE DEF g, old
<1> QED
  BY <1>1, <1>2 DEF Kept, g

\* A write programs no page but the FREE one at write_pointer.
LEMMA WriteKept ==
  ASSUME NEW f, Consistent(f), NEW l \in LBA, NEW d \in Data
  PROVE  Kept(f, ftl_write(f, l, d).ftl)
<1> DEFINE g == InvalidateOld(f, l)
           w == ftl_write(f, l, d).ftl
           q == g.write_pointer
<1>1. Kept(f, g)
  BY InvalidateKept
<1>2. Consistent(g)
  BY InvalidateConsistent
<1>3. \/ w = g
      \/ w = [g EXCEPT !.write_pointer = NumPages]
      \/ /\ q \in PPN
         /\ g.free_pages # 0
         /\ w = Program(g, l, d, q)
  BY WriteCases, Zenon
<1> HIDE DEF g, w
<1>4. g \in FTLRecord /\ g.page_state \in [PPN -> PageState] /\ g.page_data \in [PPN -> Data]
  BY <1>2 DEF Consistent, FTLRecord
<1>5. CASE w = g
  BY <1>1, <1>5 DEF w
<1>6. CASE w = [g EXCEPT !.write_pointer = NumPages]
  <2>1. w.page_data = g.page_data /\ w.page_state = g.page_state
    BY <1>4, <1>6 DEF FTLRecord
  <2> QED
    BY <1>1, <2>1 DEF Kept, w
<1>7. CASE q \in PPN /\ g.free_pages # 0 /\ w = Program(g, l, d, q)
  <2>1. /\ w.page_data = [g.page_data EXCEPT ![q] = d]
        /\ w.page_state = [g.page_state EXCEPT ![q] = "VALID"]
    <3>1. Programmed(g, l, d, q, w)
      BY <1>4, <1>7, ProgramFields
    <3> QED
      BY <3>1 DEF Programmed
  <2>2. g.page_state[q] = "FREE"
    BY <1>2, <1>7, NumPagesBound DEF Consistent, LogShaped, PPN
  <2>3. f.page_state[q] = "FREE"
    <3>1. f.page_state \in [PPN -> PageState] /\ f \in FTLRecord
      BY DEF Consistent, FTLRecord
    <3>2. \/ g = f
          \/ \E old \in PPN : g.page_state = [f.page_state EXCEPT ![old] = "INVALID"]
      BY <3>1, InvalidateOldFields DEF g
    <3> QED
      BY <1>7, <2>2, <3>1, <3>2
  <2> QED
    BY <1>1, <1>4, <1>7, <2>1, <2>3 DEF Kept, w
<1> QED
  BY <1>3, <1>5, <1>6, <1>7

\* What ftl_trim leaves of a mapped block.
LEMMA TrimFields ==
  ASSUME NEW f, Consistent(f), NEW l \in LBA
  PROVE  LET phys == f.mapping_table[l]
             g    == ftl_trim(f, l)
         IN  /\ phys = NONE => g = f
             /\ phys # NONE =>
                  /\ phys \in PPN
                  /\ g.page_data = f.page_data
                  /\ g.page_state = [f.page_state EXCEPT ![phys] = "INVALID"]
                  /\ g.mapping_table = [f.mapping_table EXCEPT ![l] = NONE]
BY DEF ftl_trim, Consistent, FTLRecord, PageState

\* A trim keeps every programmed page.
LEMMA TrimKept ==
  ASSUME NEW f, Consistent(f), NEW l \in LBA
  PROVE  Kept(f, ftl_trim(f, l))
<1> DEFINE g    == ftl_trim(f, l)
           phys == f.mapping_table[l]
<1>1. /\ phys = NONE => g = f
      /\ phys # NONE =>
           /\ phys \in PPN
           /\ g.page_data = f.page_data
           /\ g.page_state = [f.page_state EXCEPT ![phys] = "INVALID"]
  BY TrimFields
<1>2. f.page_state \in [PPN -> PageState]
  BY DEF Consistent, FTLRecord
<1> HIDE DEF g, phys
<1>3. Kept(f, g)
  BY <1>1, <1>2 DEF Kept
<1> QED
  BY <1>3 DEF g

\* Flash is never programmed in place: between two erasures a page is programmed
\* at most once, and a stale version never becomes the current one again.
THEOREM ProgrammedOnce == Spec => ProgramOnce
<1>1. IInv /\ [Next]_ftl => [Kept(ftl, ftl')]_ftl
  <2> SUFFICES ASSUME Consistent(ftl), Next
               PROVE  Kept(ftl, ftl')
    BY DEF IInv
  <2>1. ASSUME NEW l \in LBA, NEW d \in Data, FtlWrite(l, d)
        PROVE  Kept(ftl, ftl')
    BY <2>1, WriteKept DEF FtlWrite
  <2>2. ASSUME NEW l \in LBA, FtlTrim(l)
        PROVE  Kept(ftl, ftl')
    BY <2>2, TrimKept DEF FtlTrim
  <2> QED
    BY <2>1, <2>2 DEF Next
<1>2. ASSUME Kept(ftl, ftl')
      PROVE  \A p \in PPN :
               \/ ftl.page_state[p] = "FREE"
               \/ /\ ftl'.page_data[p] = ftl.page_data[p]
                  /\ ftl'.page_state[p] = "VALID" => ftl.page_state[p] = "VALID"
  BY <1>2 DEF Kept
<1> QED
  BY <1>1, <1>2, ConsistentInvariant, PTL DEF Spec, ProgramOnce
--------------------------------------------------------------------------------
(* Refinement: read through ftl_read, the layer is a block device. *)

\* What a read of block m returns, case by case.
LEMMA ContentAt ==
  ASSUME NEW f, NEW m \in LBA
  PROVE  ContentOf(f)[m] =
           IF f.mapping_table[m] = NONE THEN Zero
           ELSE IF f.page_state[f.mapping_table[m]] # "VALID" THEN Unreadable
           ELSE f.page_data[f.mapping_table[m]]
BY DEF ContentOf, ftl_read

\* Two contents are equal when every block reads the same.
LEMMA ContentEqual ==
  ASSUME NEW f, NEW g, \A m \in LBA : ContentOf(f)[m] = ContentOf(g)[m]
  PROVE  ContentOf(f) = ContentOf(g)
<1>1. /\ ContentOf(f) = [m \in LBA |-> ContentOf(f)[m]]
      /\ ContentOf(g) = [m \in LBA |-> ContentOf(g)[m]]
  BY DEF ContentOf
<1> QED
  BY <1>1

\* Content c after block l alone changed to x.
LEMMA ContentChanged ==
  ASSUME NEW f, NEW g, NEW l \in LBA, NEW x,
         ContentOf(g)[l] = x,
         \A m \in LBA \ {l} : ContentOf(g)[m] = ContentOf(f)[m]
  PROVE  ContentOf(g) = [ContentOf(f) EXCEPT ![l] = x]
<1>1. /\ ContentOf(f) = [m \in LBA |-> ContentOf(f)[m]]
      /\ ContentOf(g) = [m \in LBA |-> ContentOf(g)[m]]
  BY DEF ContentOf
<1> HIDE DEF ContentOf
<1> QED
  BY <1>1

\* Invalidating the old version of l costs l its contents and no other block's.
LEMMA InvalidateContent ==
  ASSUME NEW f, Consistent(f), NEW l \in LBA
  PROVE  LET g == InvalidateOld(f, l)
         IN  \/ ContentOf(g) = ContentOf(f)
             \/ ContentOf(g) = [ContentOf(f) EXCEPT ![l] = Unreadable]
<1> DEFINE g   == InvalidateOld(f, l)
           old == f.mapping_table[l]
<1>0. f \in FTLRecord /\ f.page_state \in [PPN -> PageState]
  BY DEF Consistent, FTLRecord
<1>1. /\ g.mapping_table = f.mapping_table
      /\ g.page_data = f.page_data
      /\ old = NONE => g = f
      /\ old # NONE =>
           /\ old \in PPN
           /\ g.page_state = [f.page_state EXCEPT ![old] = "INVALID"]
  BY <1>0, InvalidateOldFields
<1> HIDE DEF g
<1>2. CASE old = NONE
  BY <1>1, <1>2 DEF g
<1>3. CASE old # NONE
  <2>1. ContentOf(g)[l] = Unreadable
    BY <1>0, <1>1, <1>3, ContentAt
  <2>2. ASSUME NEW m \in LBA \ {l}
        PROVE  ContentOf(g)[m] = ContentOf(f)[m]
    <3>1. f.mapping_table[m] # old
      BY <1>3 DEF Consistent, Unaliased
    <3>2. f.mapping_table[m] # NONE =>
             g.page_state[f.mapping_table[m]] = f.page_state[f.mapping_table[m]]
      <4>1. f.mapping_table[m] \in PPN \cup {NONE}
        BY DEF Consistent, FTLRecord
      <4> QED
        BY <1>0, <1>1, <1>3, <3>1, <4>1
    <3> QED
      BY <1>1, <3>2, ContentAt
  <2> QED
    BY <2>1, <2>2, ContentChanged DEF g
<1> QED
  BY <1>2, <1>3

\* Programming a FREE page for l gives l its new contents and leaves the others.
LEMMA ProgramContent ==
  ASSUME NEW f, Consistent(f), NEW l \in LBA, NEW d \in Data,
         NEW q \in PPN, q = f.write_pointer, f.free_pages # 0
  PROVE  ContentOf(Program(f, l, d, q)) = [ContentOf(f) EXCEPT ![l] = d]
<1> DEFINE g == Program(f, l, d, q)
<1>0. /\ f \in FTLRecord
      /\ f.page_state \in [PPN -> PageState]
      /\ f.page_data \in [PPN -> Data]
      /\ f.mapping_table \in [LBA -> PPN \cup {NONE}]
  BY DEF Consistent, FTLRecord
<1>p. Programmed(f, l, d, q, g)
  BY <1>0, ProgramFields
<1> HIDE DEF g
<1>1. /\ g.page_state = [f.page_state EXCEPT ![q] = "VALID"]
      /\ g.page_data = [f.page_data EXCEPT ![q] = d]
      /\ g.mapping_table = [f.mapping_table EXCEPT ![l] = q]
  BY <1>p DEF Programmed
<1>2. f.page_state[q] = "FREE"
  BY NumPagesBound DEF Consistent, LogShaped, PPN
<1>3. ContentOf(g)[l] = d
  <2>1. q # NONE
    BY NumPagesBound DEF PPN, NONE
  <2> QED
    BY <1>0, <1>1, <2>1, ContentAt
<1>4. ASSUME NEW m \in LBA \ {l}
      PROVE  ContentOf(g)[m] = ContentOf(f)[m]
  <2>1. g.mapping_table[m] = f.mapping_table[m]
    BY <1>0, <1>1
  <2>2. f.mapping_table[m] # q
    BY <1>2, NumPagesBound DEF Consistent, Unaliased, PPN, NONE
  <2>3. f.mapping_table[m] # NONE =>
          /\ g.page_state[f.mapping_table[m]] = f.page_state[f.mapping_table[m]]
          /\ g.page_data[f.mapping_table[m]] = f.page_data[f.mapping_table[m]]
    BY <1>0, <1>1, <2>2
  <2> QED
    BY <2>1, <2>3, ContentAt
<1>5. ContentOf(g) = [ContentOf(f) EXCEPT ![l] = d]
  BY <1>3, <1>4, ContentChanged
<1> QED
  BY <1>5 DEF g

\* A trimmed block reads as zeros, and the other blocks as before.
LEMMA TrimContent ==
  ASSUME NEW f, Consistent(f), NEW l \in LBA
  PROVE  ContentOf(ftl_trim(f, l)) = [ContentOf(f) EXCEPT ![l] = Zero]
<1> DEFINE g    == ftl_trim(f, l)
           phys == f.mapping_table[l]
<1>0. /\ f.page_state \in [PPN -> PageState]
      /\ f.mapping_table \in [LBA -> PPN \cup {NONE}]
  BY DEF Consistent, FTLRecord
<1>1. /\ phys = NONE => g = f
      /\ phys # NONE =>
           /\ phys \in PPN
           /\ g.page_data = f.page_data
           /\ g.page_state = [f.page_state EXCEPT ![phys] = "INVALID"]
           /\ g.mapping_table = [f.mapping_table EXCEPT ![l] = NONE]
  BY TrimFields
<1> HIDE DEF g
<1>2. ContentOf(g)[l] = Zero
  BY <1>0, <1>1, ContentAt
<1>3. ASSUME NEW m \in LBA \ {l}
      PROVE  ContentOf(g)[m] = ContentOf(f)[m]
  <2>1. CASE phys = NONE
    BY <1>1, <2>1
  <2>2. CASE phys # NONE
    <3>1. g.mapping_table[m] = f.mapping_table[m] /\ f.mapping_table[m] \in PPN \cup {NONE}
      BY <1>0, <1>1, <2>2
    <3>2. f.mapping_table[m] # phys
      BY <2>2 DEF Consistent, Unaliased
    <3>3. f.mapping_table[m] # NONE =>
             g.page_state[f.mapping_table[m]] = f.page_state[f.mapping_table[m]]
      BY <1>0, <1>1, <2>2, <3>1, <3>2
    <3> QED
      BY <1>1, <2>2, <3>1, <3>3, ContentAt
  <2> QED
    BY <2>1, <2>2
<1>4. ContentOf(g) = [ContentOf(f) EXCEPT ![l] = Zero]
  BY <1>2, <1>3, ContentChanged
<1> QED
  BY <1>4 DEF g

\* A write stores its data, or is refused and costs at most the block's contents.
LEMMA WriteContent ==
  ASSUME NEW f, Consistent(f), NEW l \in LBA, NEW d \in Data
  PROVE  LET w == ftl_write(f, l, d).ftl
         IN  \/ ContentOf(w) = [ContentOf(f) EXCEPT ![l] = d]
             \/ ContentOf(w) = [ContentOf(f) EXCEPT ![l] = Unreadable]
             \/ ContentOf(w) = ContentOf(f)
<1> DEFINE g == InvalidateOld(f, l)
           w == ftl_write(f, l, d).ftl
           q == g.write_pointer
<1>1. \/ ContentOf(g) = ContentOf(f)
      \/ ContentOf(g) = [ContentOf(f) EXCEPT ![l] = Unreadable]
  BY InvalidateContent
<1>2. Consistent(g)
  BY InvalidateConsistent
<1>3. \/ w = g
      \/ w = [g EXCEPT !.write_pointer = NumPages]
      \/ /\ q \in PPN
         /\ g.free_pages # 0
         /\ w = Program(g, l, d, q)
  BY WriteCases, Zenon
<1> HIDE DEF g, w
<1>4. CASE w = g
  BY <1>1, <1>4 DEF w
<1>5. CASE w = [g EXCEPT !.write_pointer = NumPages]
  <2>1. /\ w.page_data = g.page_data
        /\ w.page_state = g.page_state
        /\ w.mapping_table = g.mapping_table
    BY <1>2, <1>5 DEF Consistent, FTLRecord
  <2>2. \A m \in LBA : ContentOf(w)[m] = ContentOf(g)[m]
    BY <2>1, ContentAt
  <2>3. ContentOf(w) = ContentOf(g)
    BY <2>2, ContentEqual
  <2> QED
    BY <1>1, <2>3 DEF w
<1>6. CASE q \in PPN /\ g.free_pages # 0 /\ w = Program(g, l, d, q)
  <2>1. ContentOf(w) = [ContentOf(g) EXCEPT ![l] = d]
    BY <1>2, <1>6, ProgramContent
  <2>2. ContentOf(w)[l] = d /\ \A m \in LBA \ {l} : ContentOf(w)[m] = ContentOf(f)[m]
    BY <1>1, <2>1 DEF ContentOf
  <2>3. ContentOf(w) = [ContentOf(f) EXCEPT ![l] = d]
    BY <2>2, ContentChanged
  <2> QED
    BY <2>3 DEF w
<1> QED
  BY <1>3, <1>4, <1>5, <1>6

\* The translation layer implements the block device: what a block reads is what
\* was last written to it, or an error if the write was refused.
THEOREM DeviceRefined == Spec => ImplementsBlockDevice
<1>1. Init => Device!Init
  <2>1. ASSUME ftl = ftl_init
        PROVE  \A m \in LBA : ContentOf(ftl)[m] = Zero
    BY <2>1, ContentAt DEF ftl_init
  <2> QED
    BY <2>1 DEF Init, Device!Init, Content, ContentOf
<1>2. IInv /\ [Next]_ftl => [Device!Next]_Content
  <2> SUFFICES ASSUME Consistent(ftl), [Next]_ftl
               PROVE  [Device!Next]_Content
    BY DEF IInv
  <2>1. ASSUME NEW l \in LBA, NEW d \in Data, FtlWrite(l, d)
        PROVE  Device!Next
    <3>1. \/ Content' = [Content EXCEPT ![l] = d]
          \/ Content' = [Content EXCEPT ![l] = Unreadable]
          \/ Content' = Content
      BY <2>1, WriteContent DEF FtlWrite, Content
    <3> QED
      BY <3>1 DEF Device!Next, Device!Write, Device!WriteRefused
  <2>2. ASSUME NEW l \in LBA, FtlTrim(l)
        PROVE  Device!Next
    <3>1. Content' = [Content EXCEPT ![l] = Zero]
      BY <2>2, TrimContent DEF FtlTrim, Content
    <3> QED
      BY <3>1 DEF Device!Next, Device!Trim
  <2>3. CASE UNCHANGED ftl
    BY <2>3 DEF Content
  <2> QED
    BY <2>1, <2>2, <2>3 DEF Next
<1> QED
  BY <1>1, <1>2, ConsistentInvariant, PTL DEF Spec, ImplementsBlockDevice, Device!Spec
--------------------------------------------------------------------------------
(* The account of the free pages. *)

\* The sets of pages that are counted are finite.
LEMMA PageSetsFinite ==
  /\ IsFiniteSet(PPN)
  /\ \A S : S \subseteq PPN => IsFiniteSet(S) /\ Cardinality(S) \in Nat
<1>1. IsFiniteSet(PPN)
  BY FS_Interval, NumPagesBound DEF PPN
<1>2. ASSUME NEW S, S \subseteq PPN
      PROVE  IsFiniteSet(S) /\ Cardinality(S) \in Nat
  BY <1>1, <1>2, FS_Subset, FS_CardinalityType
<1> QED
  BY <1>1, <1>2

Accounted(f) ==
  f.free_pages = Cardinality(PagesIn(f, "FREE")) + (FTL_MAX_PHYSICAL_PAGES - NumPages)

\* A fresh device has NumPages FREE pages.
LEMMA InitAccounted == Accounted(ftl_init)
<1>1. PagesIn(ftl_init, "FREE") = 0 .. NumPages - 1
  BY DEF PagesIn, ftl_init, PPN
<1>2. Cardinality(0 .. NumPages - 1) = NumPages
  BY FS_Interval, NumPagesBound
<1>3. ftl_init.free_pages = FTL_MAX_PHYSICAL_PAGES
  BY DEF ftl_init
<1> QED
  BY <1>1, <1>2, <1>3, NumPagesBound DEF Accounted

\* Invalidating a page frees none (nor does refusing a write or trimming).
LEMMA InvalidateAccounted ==
  ASSUME NEW f, Consistent(f), Accounted(f), NEW l \in LBA
  PROVE  Accounted(InvalidateOld(f, l))
<1> DEFINE g   == InvalidateOld(f, l)
           old == f.mapping_table[l]
<1>0. f \in FTLRecord /\ f.page_state \in [PPN -> PageState]
  BY DEF Consistent, FTLRecord
<1>1. /\ g.free_pages = f.free_pages
      /\ old = NONE => g = f
      /\ old # NONE => g.page_state = [f.page_state EXCEPT ![old] = "INVALID"]
  BY <1>0, InvalidateOldFields
<1>2. old # NONE => f.page_state[old] # "FREE"
  BY DEF Consistent, Unaliased
<1> HIDE DEF g, old
<1>3. PagesIn(g, "FREE") = PagesIn(f, "FREE")
  BY <1>0, <1>1, <1>2 DEF PagesIn
<1>4. Accounted(g)
  BY <1>1, <1>3 DEF Accounted
<1> QED
  BY <1>4 DEF g

\* A trim frees no page either: the trimmed page waits for the collector.
LEMMA TrimAccounted ==
  ASSUME NEW f, Consistent(f), Accounted(f), NEW l \in LBA
  PROVE  Accounted(ftl_trim(f, l))
<1> DEFINE g    == ftl_trim(f, l)
           phys == f.mapping_table[l]
<1>0. f.page_state \in [PPN -> PageState]
  BY DEF Consistent, FTLRecord
<1>1. /\ phys = NONE => g = f
      /\ phys # NONE => g.page_state = [f.page_state EXCEPT ![phys] = "INVALID"]
  BY TrimFields
<1>2. phys # NONE => f.page_state[phys] # "FREE"
  BY DEF Consistent, Unaliased
<1>3. g.free_pages = f.free_pages
  BY DEF ftl_trim, Consistent, FTLRecord
<1> HIDE DEF g, phys
<1>4. PagesIn(g, "FREE") = PagesIn(f, "FREE")
  BY <1>0, <1>1, <1>2 DEF PagesIn
<1>5. Accounted(g)
  BY <1>3, <1>4 DEF Accounted
<1> QED
  BY <1>5 DEF g

\* Programming takes exactly one page from the FREE ones.
LEMMA ProgramAccounted ==
  ASSUME NEW f, Consistent(f), Accounted(f), NEW l \in LBA, NEW d \in Data,
         NEW q \in PPN, q = f.write_pointer, f.free_pages # 0
  PROVE  Accounted(Program(f, l, d, q))
<1> DEFINE g == Program(f, l, d, q)
<1>0. f \in FTLRecord /\ f.page_state \in [PPN -> PageState]
  BY DEF Consistent, FTLRecord
<1>p. Programmed(f, l, d, q, g)
  BY <1>0, ProgramFields
<1> HIDE DEF g
<1>1. /\ g.page_state = [f.page_state EXCEPT ![q] = "VALID"]
      /\ g.free_pages = f.free_pages - 1
  BY <1>p DEF Programmed
<1>2. f.page_state[q] = "FREE"
  BY NumPagesBound DEF Consistent, LogShaped, PPN
<1>3. PagesIn(g, "FREE") = PagesIn(f, "FREE") \ {q} /\ q \in PagesIn(f, "FREE")
  BY <1>0, <1>1, <1>2 DEF PagesIn
<1>4. IsFiniteSet(PagesIn(f, "FREE"))
  <2>1. IsFiniteSet(PPN)
    BY FS_Interval, NumPagesBound DEF PPN
  <2>2. PagesIn(f, "FREE") \in SUBSET PPN
    BY DEF PagesIn
  <2> QED
    BY <2>1, <2>2, FS_Subset
<1>5. Cardinality(PagesIn(g, "FREE")) = Cardinality(PagesIn(f, "FREE")) - 1
  BY <1>3, <1>4, FS_RemoveElement
<1>6. Cardinality(PagesIn(f, "FREE")) \in Nat
  BY <1>4, FS_CardinalityType
<1>7. Accounted(g)
  BY <1>1, <1>5, <1>6, NumPagesBound DEF Accounted
<1> QED
  BY <1>7 DEF g

\* A write takes one FREE page or none.
LEMMA WriteAccounted ==
  ASSUME NEW f, Consistent(f), Accounted(f), NEW l \in LBA, NEW d \in Data
  PROVE  Accounted(ftl_write(f, l, d).ftl)
<1> DEFINE g == InvalidateOld(f, l)
           w == ftl_write(f, l, d).ftl
           q == g.write_pointer
<1>1. Consistent(g) /\ Accounted(g)
  BY InvalidateConsistent, InvalidateAccounted
<1>2. \/ w = g
      \/ w = [g EXCEPT !.write_pointer = NumPages]
      \/ /\ q \in PPN
         /\ g.free_pages # 0
         /\ w = Program(g, l, d, q)
  BY WriteCases, Zenon
<1> HIDE DEF g, w
<1>3. CASE w = [g EXCEPT !.write_pointer = NumPages]
  <2>1. w.page_state = g.page_state /\ w.free_pages = g.free_pages
    BY <1>1, <1>3 DEF Consistent, FTLRecord
  <2> QED
    BY <1>1, <2>1 DEF Accounted, PagesIn, w
<1>4. CASE q \in PPN /\ g.free_pages # 0 /\ w = Program(g, l, d, q)
  BY <1>1, <1>4, ProgramAccounted DEF w
<1> QED
  BY <1>1, <1>2, <1>3, <1>4 DEF w

\* free_pages is exact up to the page numbers without a page, so it never reaches
\* 0 and ftl_write never answers -2: a full device is noticed by the scan alone.
THEOREM FreePagesCorrect == Spec => []FreePagesAccount
<1> DEFINE Inv == IInv /\ Accounted(ftl)
<1>1. Init => Inv
  BY InitConsistent, InitAccounted DEF Init, IInv
<1>2. Inv /\ [Next]_ftl => Inv'
  <2> SUFFICES ASSUME Consistent(ftl), Accounted(ftl), [Next]_ftl
               PROVE  Consistent(ftl') /\ Accounted(ftl')
    BY DEF IInv
  <2>1. ASSUME NEW l \in LBA, NEW d \in Data, FtlWrite(l, d)
        PROVE  Consistent(ftl') /\ Accounted(ftl')
    BY <2>1, WriteConsistent, WriteAccounted DEF FtlWrite
  <2>2. ASSUME NEW l \in LBA, FtlTrim(l)
        PROVE  Consistent(ftl') /\ Accounted(ftl')
    BY <2>2, TrimConsistent, TrimAccounted DEF FtlTrim
  <2>3. CASE UNCHANGED ftl
    BY <2>3
  <2> QED
    BY <2>1, <2>2, <2>3 DEF Next
<1>3. Inv => FreePagesAccount
  BY DEF Accounted, FreePagesAccount
<1> QED
  BY <1>1, <1>2, <1>3, PTL DEF Spec

\* The tables are consistent in every state: the four parts together.
THEOREM TablesCorrect == Spec => []TablesConsistent
<1>1. ValidPagesOwned /\ NoAliasing /\ LogStructured /\ FreePagesAccount => TablesConsistent
  BY DEF TablesConsistent
<1> QED
  BY <1>1, OwnershipCorrect, AliasingFree, LogCorrect, FreePagesCorrect, PTL
================================================================================
