--------------------------------- MODULE FTLExt ---------------------------------
(***************************************************************************)
(* The two further ways into the translation layer that src/ftl.c offers   *)
(* beside ftl_write: ftl_allocate_block, which maps a range of blocks to   *)
(* consecutive FREE pages, and the SLC write buffer, which uses the first  *)
(* pages of the array as a buffer and later rewrites them with ftl_write.  *)
(*                                                                         *)
(* ftl_ext is the file-static FTLExtended: slc_pages holds the block       *)
(* buffered in each of the first slc_count = Len(slc_pages) pages.         *)
(***************************************************************************)
EXTENDS FTL, Sequences

CONSTANTS
    FTL_SLC_BUFFER_PAGES,   \* 1024 in the code
    UINT32,                 \* 2^32: free_pages is a uint32_t
    MaxWrites               \* bound: pages programmed before SLC writes stop

ASSUME ExtAssumption ==
    /\ FTL_SLC_BUFFER_PAGES \in 1 .. NumPages
    /\ UINT32 \in Nat /\ UINT32 > FTL_MAX_PHYSICAL_PAGES
    /\ MaxWrites \in Nat

VARIABLE ftl_ext

ext_vars == <<ftl, ftl_ext>>
--------------------------------------------------------------------------------
\* Mutant of FindRun: only VALID pages are passed over.
FindRunOverInvalid(f, n) ==
    LET search[b \in 0 .. FTL_MAX_PHYSICAL_PAGES - 1] == [contiguous \in 0 .. n |->
            IF contiguous = n THEN b - n
            ELSE IF b >= NumPages THEN NONE
            ELSE IF f.page_state[b] = "VALID"
                 THEN search[(b + FTL_PAGES_PER_BLOCK) % FTL_MAX_PHYSICAL_PAGES][0]
                 ELSE search[(b + 1) % FTL_MAX_PHYSICAL_PAGES][contiguous + 1]]
    IN  search[f.write_pointer][0]

\* The search for n consecutive FREE pages.  A page in use sends the search a
\* whole block further and restarts the count; NONE stands for the -3 return.
FindRun(f, n) ==
    LET search[b \in 0 .. FTL_MAX_PHYSICAL_PAGES - 1] == [contiguous \in 0 .. n |->
            IF contiguous = n THEN b - n
            ELSE IF b >= NumPages THEN NONE
            ELSE IF f.page_state[b] # "FREE"
                 THEN search[(b + FTL_PAGES_PER_BLOCK) % FTL_MAX_PHYSICAL_PAGES][0]
                 ELSE search[(b + 1) % FTL_MAX_PHYSICAL_PAGES][contiguous + 1]]
    IN  search[f.write_pointer][0]

\* The new pages are mapped without a look at the pages the range had before;
\* write_pointer, page->id and the block states stay as they are.
ftl_allocate_block(f, start, n) ==
    LET phys == FindRun(f, n)
        new  == phys .. phys + n - 1
    IN  IF f.free_pages < n THEN [rc |-> -2, ftl |-> f]
        ELSE IF phys = NONE THEN [rc |-> -3, ftl |-> f]
        ELSE [rc |-> 0,
              ftl |-> [f EXCEPT
                !.page_state    = [p \in PPN |-> IF p \in new THEN "VALID" ELSE @[p]],
                !.mapping_table = [l \in LBA |-> IF l \in start .. start + n - 1
                                                 THEN phys + (l - start) ELSE @[l]],
                !.reverse_map   = [p \in PPN |-> IF p \in new
                                                 THEN start + (p - phys) ELSE @[p]],
                !.free_pages    = @ - n]]

\* The next buffer page is overwritten whatever it holds; neither the page that
\* held l nor reverse_map is touched, and free_pages may wrap below zero.
SlcProgram(f, l, d, page) ==
    [f EXCEPT !.page_data[page]   = d,
              !.page_state[page]  = "VALID",
              !.mapping_table[l]  = page,
              !.free_pages        = (@ - 1) % UINT32,
              !.writes            = @ + 1,
              !.host_writes       = @ + 1]

\* Mutant of FlushPages: pages that hold an old version are written back too.
FlushPagesStale(f, slc_pages) ==
    LET flushed[n \in 0 .. Len(slc_pages)] ==
            IF n = 0 THEN f
            ELSE LET g == flushed[n - 1]
                     i == n - 1
                 IN  [ftl_write(g, slc_pages[n], g.page_data[i]).ftl
                         EXCEPT !.page_state[i] = "INVALID"]
    IN  flushed[Len(slc_pages)]

\* Every buffered page that is still VALID is written again, the oldest first,
\* to the block it was buffered for; a write that fails goes unnoticed.
FlushPages(f, slc_pages) ==
    LET flushed[n \in 0 .. Len(slc_pages)] ==
            IF n = 0 THEN f
            ELSE LET g == flushed[n - 1]
                     i == n - 1
                 IN  IF g.page_state[i] # "VALID" THEN g
                     ELSE [ftl_write(g, slc_pages[n], g.page_data[i]).ftl
                              EXCEPT !.page_state[i] = "INVALID"]
    IN  flushed[Len(slc_pages)]
--------------------------------------------------------------------------------
ExtInit ==
    /\ Init
    /\ ftl_ext = [slc_pages |-> <<>>, slc_enabled |-> FALSE]

AllocateBlock(start, n) ==
    /\ ftl' = ftl_allocate_block(ftl, start, n).ftl
    /\ UNCHANGED ftl_ext

SlcBufferInit ==
    /\ ftl_ext' = [slc_pages |-> <<>>, slc_enabled |-> TRUE]
    /\ UNCHANGED ftl

\* Mutant of BufferTakes: one page too many.
BufferTakesOneMore == ftl_ext.slc_enabled /\ Len(ftl_ext.slc_pages) <= FTL_SLC_BUFFER_PAGES

BufferTakes == ftl_ext.slc_enabled /\ Len(ftl_ext.slc_pages) < FTL_SLC_BUFFER_PAGES

SlcBufferWrite(l, d) ==
    /\ ftl.writes < MaxWrites
    /\ \/ /\ BufferTakes
          /\ ftl' = SlcProgram(ftl, l, d, Len(ftl_ext.slc_pages))
          /\ ftl_ext' = [ftl_ext EXCEPT !.slc_pages = Append(@, l)]
       \/ /\ ~BufferTakes
          /\ ftl' = ftl_write(ftl, l, d).ftl
          /\ UNCHANGED ftl_ext

SlcBufferFlush ==
    /\ ftl' = FlushPages(ftl, ftl_ext.slc_pages)
    /\ ftl_ext' = [ftl_ext EXCEPT !.slc_pages = <<>>]

ExtNext ==
    \/ Next /\ UNCHANGED ftl_ext
    \/ \E start \in LBA : \E n \in 1 .. FTL_MAX_LBAS - start : AllocateBlock(start, n)
    \/ \E l \in LBA, d \in Data : SlcBufferWrite(l, d)
    \/ SlcBufferInit
    \/ SlcBufferFlush

ExtSpec == ExtInit /\ [][ExtNext]_ext_vars
--------------------------------------------------------------------------------
(* Properties. *)

ExtTypeOK ==
    /\ [ftl EXCEPT !.free_pages = 0] \in
          [page_id       : [PPN -> PPN],
           page_state    : [PPN -> PageState],
           page_data     : [PPN -> Data],
           block_state   : [Blocks -> BlockState],
           erase_count   : [Blocks -> {0}],
           mapping_table : [LBA -> PPN \cup {NONE}],
           reverse_map   : [PPN -> LBA \cup {NONE}],
           write_pointer : 0 .. NumPages,
           free_pages    : {0},
           writes        : Nat,
           host_writes   : Nat,
           gc_moves      : {0},
           erases        : {0}]
    /\ ftl.free_pages \in 0 .. UINT32 - 1
    /\ ftl_ext.slc_enabled \in BOOLEAN
    /\ ftl_ext.slc_pages \in Seq(LBA)
    /\ Len(ftl_ext.slc_pages) <= FTL_SLC_BUFFER_PAGES

\* A run is taken only from pages that were FREE, in block order, and nothing
\* else in the mapping moves (ftl_allocate_block's search and its three tables).
AllocationIsFresh ==
    [][\A start \in LBA : \A n \in 2 .. FTL_MAX_LBAS - start :
          AllocateBlock(start, n) /\ ftl' # ftl =>
              /\ \A i \in 0 .. n - 1 :
                    /\ ftl.page_state[ftl'.mapping_table[start + i]] = "FREE"
                    /\ ftl'.mapping_table[start + i] = ftl'.mapping_table[start] + i
              /\ Cardinality(PagesIn(ftl', "FREE")) = Cardinality(PagesIn(ftl, "FREE")) - n
      ]_ext_vars

\* The buffer is what the mapping says: a buffered page that is VALID is the one
\* its block, and no other block, maps to.  Writing a block into the buffer twice
\* breaks this, and so does buffering over a page that ftl_write had used.
BufferCurrent ==
    \A n \in 1 .. Len(ftl_ext.slc_pages), l \in LBA :
        ftl.page_state[n - 1] = "VALID" =>
            (ftl.mapping_table[l] = n - 1 <=> l = ftl_ext.slc_pages[n])

\* Number of FREE pages a flush can reach.
ReachableFree == {p \in PPN : p >= ftl.write_pointer /\ ftl.page_state[p] = "FREE"}

\* Flushing a current buffer into a device with room for it changes no block:
\* every block reads the same before and after ftl_slc_buffer_flush.
FlushPreservesCurrent ==
    [][SlcBufferFlush /\ BufferCurrent
          /\ Cardinality(ReachableFree) >= Len(ftl_ext.slc_pages)
          /\ ftl.free_pages >= Len(ftl_ext.slc_pages)
          => \A l \in LBA : ftl_read(ftl', l) = ftl_read(ftl, l)]_ext_vars

--------------------------------------------------------------------------------
(* What a comment promises and the code does not keep. *)

\* "Data is later compacted from SLC to TLC": with room for every buffered page,
\* a flush moves data and changes none, in whatever state the buffer is.
FlushPreservesData ==
    [][SlcBufferFlush
          /\ Cardinality(ReachableFree) >= Len(ftl_ext.slc_pages)
          /\ ftl.free_pages >= Len(ftl_ext.slc_pages)
          => \A l \in LBA : ftl_read(ftl', l) = ftl_read(ftl, l)]_ext_vars
================================================================================
