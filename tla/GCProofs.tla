-------------------------------- MODULE GCProofs --------------------------------
(***************************************************************************)
(* Proofs about the garbage collector of module GC, for every geometry,    *)
(* policy, threshold and number of erasures.                               *)
(*                                                                         *)
(* The log of module FTL does not survive a collection (write_pointer      *)
(* jumps back), and after a refused write the mapping table may lead to a  *)
(* page that is erased.  What is left is weaker and still inductive: a     *)
(* VALID page knows its owner, and within a block everything below a VALID *)
(* page, or below write_pointer, has been programmed.                      *)
(***************************************************************************)
EXTENDS GC, FTLProofs

(* The geometry of erase blocks. *)

\* An erase block is a stretch of pages of the array, apart from the others.
LEMMA PagesOfBlock ==
  ASSUME NEW b \in Blocks
  PROVE  /\ PagesOf(b) \in SUBSET PPN
         /\ b * FTL_PAGES_PER_BLOCK \in 0 .. NumPages
         /\ PagesOf(b) = b * FTL_PAGES_PER_BLOCK ..
                             b * FTL_PAGES_PER_BLOCK + FTL_PAGES_PER_BLOCK - 1
         /\ Cardinality(PagesOf(b)) = FTL_PAGES_PER_BLOCK
<1> DEFINE first == b * FTL_PAGES_PER_BLOCK
<1> USE GeometryAssumption
<1>1. /\ first \in Nat
      /\ (b + 1) * FTL_PAGES_PER_BLOCK = first + FTL_PAGES_PER_BLOCK
  BY DEF Blocks
<1>2. first + FTL_PAGES_PER_BLOCK <= NumPages
  <2>1. b + 1 <= NUM_BLOCKS /\ b + 1 \in Nat
    BY DEF Blocks
  <2>2. \A m, n, k \in Nat : m <= n => m * k <= n * k
    OBVIOUS
  <2>3. (b + 1) * FTL_PAGES_PER_BLOCK <= NUM_BLOCKS * FTL_PAGES_PER_BLOCK
    BY <2>1, <2>2
  <2> QED
    BY <1>1, <2>3 DEF NumPages
<1> HIDE DEF first
<1>3. PagesOf(b) = first .. first + FTL_PAGES_PER_BLOCK - 1
  BY <1>1 DEF PagesOf, first
<1>4. Cardinality(PagesOf(b)) = FTL_PAGES_PER_BLOCK
  BY <1>1, <1>3, FS_Interval
<1> QED
  BY <1>1, <1>2, <1>3, <1>4, NumPagesBound DEF PPN, first

\* Erase blocks share no page.
LEMMA BlocksDisjoint ==
  ASSUME NEW b \in Blocks, NEW c \in Blocks, NEW p \in PagesOf(b), p \in PagesOf(c)
  PROVE  b = c
<1> USE GeometryAssumption
<1>1. \A m, n \in Nat : m < n =>
         m * FTL_PAGES_PER_BLOCK + FTL_PAGES_PER_BLOCK <= n * FTL_PAGES_PER_BLOCK
  <2> SUFFICES ASSUME NEW m \in Nat, NEW n \in Nat, m < n
               PROVE  m * FTL_PAGES_PER_BLOCK + FTL_PAGES_PER_BLOCK <= n * FTL_PAGES_PER_BLOCK
    OBVIOUS
  <2>1. PICK k \in Nat : n = m + 1 + k
    <3>1. n - m - 1 \in Nat /\ n = m + 1 + (n - m - 1)
      OBVIOUS
    <3> QED
      BY <3>1
  <2>2. n * FTL_PAGES_PER_BLOCK
          = m * FTL_PAGES_PER_BLOCK + FTL_PAGES_PER_BLOCK + k * FTL_PAGES_PER_BLOCK
    BY <2>1
  <2>3. k * FTL_PAGES_PER_BLOCK \in Nat /\ m * FTL_PAGES_PER_BLOCK \in Nat
    OBVIOUS
  <2> QED
    BY <2>2, <2>3
<1>2. b \in Nat /\ c \in Nat
  BY DEF Blocks
<1>3. /\ b * FTL_PAGES_PER_BLOCK <= p /\ p < b * FTL_PAGES_PER_BLOCK + FTL_PAGES_PER_BLOCK
      /\ c * FTL_PAGES_PER_BLOCK <= p /\ p < c * FTL_PAGES_PER_BLOCK + FTL_PAGES_PER_BLOCK
      /\ b * FTL_PAGES_PER_BLOCK \in Nat /\ c * FTL_PAGES_PER_BLOCK \in Nat /\ p \in Int
  BY <1>2, PagesOfBlock
<1>4. ~ (b < c) /\ ~ (c < b)
  BY <1>1, <1>2, <1>3
<1> QED
  BY <1>2, <1>4
--------------------------------------------------------------------------------
(* The loop of gc_migrate. *)

\* moved is what gc_migrate holds before each page of the victim: the loop of the
\* code, the page numbers of the victim one after another.
Migration(f, victim, n, moved) ==
  moved = [i \in 0 .. n |->
             IF i = 0 THEN f
             ELSE MigratePage(moved[i - 1], victim * FTL_PAGES_PER_BLOCK + i - 1)]

\* The loop is well defined, however many of its rounds are looked at.
LEMMA MigrationExists ==
  ASSUME NEW f, NEW victim, NEW n \in Nat
  PROVE  \E moved : Migration(f, victim, n, moved)
<1> DEFINE Stuck == {k \in Nat : ~ \E moved : Migration(f, victim, k, moved)}
<1>1. SUFFICES ASSUME Stuck # {} PROVE FALSE
  OBVIOUS
<1>2. PICK k \in Stuck : \A j \in Stuck : k <= j
  BY <1>1, LeastElement
<1>3. CASE k = 0
  <2>1. Migration(f, victim, 0, [i \in 0 .. 0 |-> f])
    BY DEF Migration
  <2> QED
    BY <1>2, <1>3, <2>1
<1>4. CASE k # 0
  <2>1. k - 1 \in Nat /\ k - 1 \notin Stuck
    BY <1>2, <1>4
  <2>2. PICK moved : Migration(f, victim, k - 1, moved)
    BY <2>1
  <2> DEFINE longer == [i \in 0 .. k |->
                          IF i < k THEN moved[i]
                          ELSE MigratePage(moved[k - 1], victim * FTL_PAGES_PER_BLOCK + k - 1)]
  <2>3. Migration(f, victim, k, longer)
    <3>1. ASSUME NEW i \in 0 .. k
          PROVE  longer[i] = IF i = 0 THEN f
                             ELSE MigratePage(longer[i - 1], victim * FTL_PAGES_PER_BLOCK + i - 1)
      <4>1. CASE i = 0
        BY <1>2, <1>4, <2>1, <2>2, <4>1 DEF Migration
      <4>2. CASE i # 0 /\ i < k
        <5>1. i \in 0 .. k - 1 /\ i - 1 \in 0 .. k - 1 /\ i - 1 < k /\ i - 1 \in 0 .. k
          BY <1>2, <4>2
        <5>2. moved[i] = MigratePage(moved[i - 1], victim * FTL_PAGES_PER_BLOCK + i - 1)
          BY <2>2, <4>2, <5>1 DEF Migration
        <5> QED
          BY <4>2, <5>1, <5>2
      <4>3. CASE i = k
        BY <1>2, <1>4, <4>3
      <4> QED
        BY <1>2, <4>1, <4>2, <4>3
    <3>2. longer = [i \in 0 .. k |-> longer[i]]
      OBVIOUS
    <3> HIDE DEF longer
    <3> QED
      BY <3>1, <3>2, Zenon DEF Migration
  <2> QED
    BY <1>2, <2>3
<1> QED
  BY <1>3, <1>4

\* gc_migrate is the last of its rounds.
LEMMA MigrationRounds ==
  ASSUME NEW f, NEW victim
  PROVE  \E moved :
           /\ moved[0] = f
           /\ \A i \in 1 .. FTL_PAGES_PER_BLOCK :
                moved[i] = MigratePage(moved[i - 1], victim * FTL_PAGES_PER_BLOCK + i - 1)
           /\ gc_migrate(f, victim) = moved[FTL_PAGES_PER_BLOCK]
<1> DEFINE moved == CHOOSE moved : Migration(f, victim, FTL_PAGES_PER_BLOCK, moved)
<1>1. Migration(f, victim, FTL_PAGES_PER_BLOCK, moved)
  BY MigrationExists, GeometryAssumption
<1>2. gc_migrate(f, victim) = moved[FTL_PAGES_PER_BLOCK]
  BY DEF gc_migrate, Migration
<1> HIDE DEF moved
<1>3. moved[0] = f
  BY <1>1, GeometryAssumption DEF Migration
<1>4. \A i \in 1 .. FTL_PAGES_PER_BLOCK :
         moved[i] = MigratePage(moved[i - 1], victim * FTL_PAGES_PER_BLOCK + i - 1)
  BY <1>1, GeometryAssumption DEF Migration
<1> QED
  BY <1>2, <1>3, <1>4
--------------------------------------------------------------------------------
(* The inductive invariant, of a translation layer f. *)

\* A VALID page carries its number, and the block it names as owner maps to it.
KnowsOwner(f) ==
  \A p \in PPN : f.page_state[p] = "VALID" =>
    /\ f.page_id[p] = p
    /\ f.reverse_map[p] # NONE
    /\ f.mapping_table[f.reverse_map[p]] = p

\* Below a VALID page of a block, and below write_pointer in its block, no page is FREE.
FilledBelow(f) ==
  \A b \in Blocks : \A p \in PagesOf(b) :
    /\ \A q \in PagesOf(b) : p < q /\ f.page_state[q] = "VALID" => f.page_state[p] # "FREE"
    /\ p < f.write_pointer /\ f.write_pointer \in PagesOf(b) => f.page_state[p] # "FREE"

\* What CountersAccount says, of f, and that no block is erased more often than all.
Counted(f) ==
  /\ f.writes = f.host_writes + f.gc_moves
  /\ f.free_pages >= Cardinality(PagesIn(f, "FREE")) + (FTL_MAX_PHYSICAL_PAGES - NumPages)
  /\ \A b \in Blocks : f.erase_count[b] <= f.erases

GCInv(f) == f \in Tables /\ KnowsOwner(f) /\ FilledBelow(f) /\ Counted(f)

\* While the host leaves room, every mapped block has a page of its own, and every
\* page below a used one of its block is used.
AllHold(f) == \A l \in LBA : f.mapping_table[l] # NONE => Holds(f, l)

Ordered(f) ==
  \A b \in Blocks : \A p, q \in PagesOf(b) :
    p < q /\ f.page_state[q] # "FREE" => f.page_state[p] # "FREE"

\* A block holds its page when the page is VALID and names the block.
LEMMA HoldsIff ==
  ASSUME NEW f \in Tables, NEW l \in LBA
  PROVE  /\ Holds(f, l) <=> /\ f.mapping_table[l] # NONE
                            /\ f.reverse_map[f.mapping_table[l]] = l
                            /\ f.page_state[f.mapping_table[l]] = "VALID"
         /\ Holds(f, l) => /\ f.mapping_table[l] \in PPN
                           /\ ftl_read(f, l) = [rc |-> 0, data |-> f.page_data[f.mapping_table[l]]]
<1>1. f.mapping_table[l] \in PPN \cup {NONE}
  BY DEF Tables
<1>2. ftl_read(f, l).rc = IF f.mapping_table[l] = NONE THEN 0
                          ELSE IF f.page_state[f.mapping_table[l]] # "VALID" THEN -1 ELSE 0
  BY DEF ftl_read
<1> QED
  BY <1>1, <1>2 DEF Holds, ftl_read

\* A fresh device satisfies all of it.
LEMMA InitGC == GCInv(ftl_init) /\ AllHold(ftl_init) /\ Ordered(ftl_init)
<1>1. ftl_init \in Tables
  BY InitConsistent, RecordOfTables DEF Consistent
<1>2. KnowsOwner(ftl_init) /\ FilledBelow(ftl_init)
  <2>1. \A p \in PPN : ftl_init.page_state[p] = "FREE"
    BY DEF ftl_init
  <2>2. ftl_init.write_pointer = 0
    BY DEF ftl_init
  <2>3. \A b \in Blocks : \A p \in PagesOf(b) : p \in PPN /\ ~(p < 0)
    BY PagesOfBlock, NumPagesBound DEF PPN
  <2> QED
    BY <2>1, <2>2, <2>3 DEF KnowsOwner, FilledBelow
<1>3. Counted(ftl_init)
  <2>1. Accounted(ftl_init)
    BY InitAccounted
  <2>2. /\ ftl_init.writes = 0 /\ ftl_init.host_writes = 0 /\ ftl_init.gc_moves = 0
        /\ ftl_init.erases = 0
        /\ \A b \in Blocks : ftl_init.erase_count[b] = 0
    BY DEF ftl_init
  <2>3. Cardinality(PagesIn(ftl_init, "FREE")) \in Nat
    BY PageSetsFinite DEF PagesIn
  <2> QED
    BY <2>1, <2>2, <2>3, NumPagesBound DEF Counted, Accounted
<1>4. AllHold(ftl_init)
  BY DEF AllHold, ftl_init
<1>5. Ordered(ftl_init)
  <2>1. \A p \in PPN : ftl_init.page_state[p] = "FREE"
    BY DEF ftl_init
  <2> QED
    BY <2>1, PagesOfBlock DEF Ordered
<1> QED
  BY <1>1, <1>2, <1>3, <1>4, <1>5 DEF GCInv
--------------------------------------------------------------------------------
(* Marking a page INVALID, as ftl_write, ftl_trim and gc_migrate do. *)

\* That keeps the invariant: an INVALID page owes nothing.
LEMMA InvalidatedInv ==
  ASSUME NEW f, GCInv(f), NEW p \in PPN, NEW g, Invalidated(f, p, g)
  PROVE  GCInv(g)
<1>1. /\ f \in Tables /\ g \in Tables
      /\ f.page_state \in [PPN -> PageState]
      /\ f.reverse_map \in [PPN -> LBA \cup {NONE}]
  BY DEF GCInv, Invalidated, Tables
<1>2. \A r \in PPN : g.page_state[r] = IF r = p THEN "INVALID" ELSE f.page_state[r]
  BY <1>1 DEF Invalidated
<1>3. KnowsOwner(g)
  <2> SUFFICES ASSUME NEW r \in PPN, g.page_state[r] = "VALID"
               PROVE  /\ g.page_id[r] = r
                      /\ g.reverse_map[r] # NONE
                      /\ g.mapping_table[g.reverse_map[r]] = r
    BY DEF KnowsOwner
  <2>1. r # p /\ f.page_state[r] = "VALID"
    BY <1>2
  <2>2. /\ f.page_id[r] = r
        /\ f.reverse_map[r] \in LBA
        /\ f.mapping_table[f.reverse_map[r]] = r
        /\ f.reverse_map[r] # NONE
    BY <1>1, <2>1 DEF GCInv, KnowsOwner
  <2>3. /\ g.reverse_map[r] = f.reverse_map[r]
        /\ g.page_id = f.page_id
    BY <2>1 DEF Invalidated
  <2>4. g.mapping_table[f.reverse_map[r]] = r
    BY <2>1, <2>2 DEF Invalidated
  <2> QED
    BY <2>2, <2>3, <2>4
<1>4. FilledBelow(g)
  <2> SUFFICES ASSUME NEW b \in Blocks, NEW r \in PagesOf(b)
               PROVE  /\ \A q \in PagesOf(b) :
                           r < q /\ g.page_state[q] = "VALID" => g.page_state[r] # "FREE"
                      /\ r < g.write_pointer /\ g.write_pointer \in PagesOf(b) =>
                           g.page_state[r] # "FREE"
    BY DEF FilledBelow
  <2>1. PagesOf(b) \in SUBSET PPN
    BY PagesOfBlock
  <2>2. g.write_pointer = f.write_pointer
    BY DEF Invalidated
  <2> QED
    BY <1>2, <2>1, <2>2 DEF GCInv, FilledBelow
<1>5. Counted(g)
  <2>1. PagesIn(g, "FREE") \subseteq PagesIn(f, "FREE") /\ PagesIn(f, "FREE") \subseteq PPN
    BY <1>2 DEF PagesIn
  <2>2. Cardinality(PagesIn(g, "FREE")) <= Cardinality(PagesIn(f, "FREE"))
    BY <2>1, PageSetsFinite, FS_Subset
  <2>3. Cardinality(PagesIn(g, "FREE")) \in Nat /\ Cardinality(PagesIn(f, "FREE")) \in Nat
    BY <2>1, PageSetsFinite
  <2>4. f.free_pages \in Nat
    BY <1>1 DEF Tables
  <2> QED
    BY <2>2, <2>3, <2>4, NumPagesBound
       DEF GCInv, Counted, Invalidated, SameCounters, SameWear
<1> QED
  BY <1>1, <1>3, <1>4, <1>5 DEF GCInv

\* Blocks that hold another page keep it.
LEMMA InvalidatedHolds ==
  ASSUME NEW f \in Tables, NEW p \in PPN, NEW g, Invalidated(f, p, g),
         NEW l \in LBA, Holds(f, l), f.mapping_table[l] # p
  PROVE  /\ Holds(g, l)
         /\ g.mapping_table[l] = f.mapping_table[l]
         /\ ftl_read(g, l) = ftl_read(f, l)
<1>1. /\ g \in Tables
      /\ f.page_state \in [PPN -> PageState]
  BY DEF Invalidated, Tables
<1>2. /\ f.mapping_table[l] \in PPN \ {p}
      /\ f.reverse_map[f.mapping_table[l]] = l
      /\ f.page_state[f.mapping_table[l]] = "VALID"
  BY HoldsIff
<1>3. /\ g.mapping_table[l] = f.mapping_table[l]
      /\ g.reverse_map[g.mapping_table[l]] = l
      /\ g.page_state[g.mapping_table[l]] = "VALID"
      /\ g.page_data[g.mapping_table[l]] = f.page_data[f.mapping_table[l]]
  BY <1>1, <1>2 DEF Invalidated
<1>4. g.mapping_table[l] # NONE
  BY <1>2, <1>3, NumPagesBound DEF PPN, NONE
<1> QED
  BY <1>1, <1>3, <1>4, HoldsIff

\* A page that was not FREE leaves no gap when it becomes INVALID.
LEMMA InvalidatedOrdered ==
  ASSUME NEW f \in Tables, Ordered(f), NEW p \in PPN, f.page_state[p] # "FREE",
         NEW g, Invalidated(f, p, g)
  PROVE  Ordered(g)
<1>1. \A r \in PPN : g.page_state[r] = "FREE" <=> f.page_state[r] = "FREE"
  BY DEF Invalidated, Tables
<1> QED
  BY <1>1, PagesOfBlock DEF Ordered
--------------------------------------------------------------------------------
(* Programming the first FREE page from write_pointer on. *)

\* In its block everything below that page is programmed: what write_pointer has
\* passed, and what the scan has passed.
LEMMA BelowFirstFree ==
  ASSUME NEW f, GCInv(f), NEW q, FirstFree(f, q),
         NEW b \in Blocks, q \in PagesOf(b), NEW p \in PagesOf(b), p < q
  PROVE  f.page_state[p] # "FREE"
<1>1. /\ PagesOf(b) \in SUBSET PPN
      /\ PagesOf(b) = b * FTL_PAGES_PER_BLOCK ..
                          b * FTL_PAGES_PER_BLOCK + FTL_PAGES_PER_BLOCK - 1
      /\ b * FTL_PAGES_PER_BLOCK \in Nat
      /\ f.write_pointer \in Nat
  BY PagesOfBlock, NumPagesBound DEF GCInv, Tables
<1>2. CASE f.write_pointer <= p
  BY <1>1, <1>2 DEF FirstFree
<1>3. CASE p < f.write_pointer
  <2>1. f.write_pointer \in PagesOf(b)
    BY <1>1, <1>3, GeometryAssumption DEF FirstFree
  <2> QED
    BY <1>3, <2>1 DEF GCInv, FilledBelow
<1> QED
  BY <1>1, <1>2, <1>3, NumPagesBound DEF PPN

\* There is always a page number left to count (ftl_write never answers -2).
LEMMA FreePagesLeft ==
  ASSUME NEW f, GCInv(f)
  PROVE  f.free_pages \in Nat \ {0}
<1>1. Cardinality(PagesIn(f, "FREE")) \in Nat
  BY PageSetsFinite DEF PagesIn
<1> QED
  BY <1>1, NumPagesBound DEF GCInv, Counted, Tables

\* Programming that page for a block without a VALID page keeps the invariant.
LEMMA ProgrammedInv ==
  ASSUME NEW f, GCInv(f), NEW q, FirstFree(f, q), NEW l \in LBA, NEW d \in Data,
         f.mapping_table[l] # NONE => f.page_state[f.mapping_table[l]] # "VALID",
         NEW g, Programmed(f, l, d, q, g)
  PROVE  GCInv(g)
<1>0. q \in PPN /\ q \in Int /\ l # NONE
  BY NumPagesBound DEF FirstFree, LBA, NONE, PPN
<1>1. /\ f \in Tables /\ g \in Tables
      /\ q \in PPN /\ q \in Int /\ l # NONE
      /\ f.page_state \in [PPN -> PageState]
      /\ f.page_id \in [PPN -> PPN]
      /\ f.reverse_map \in [PPN -> LBA \cup {NONE}]
      /\ f.mapping_table \in [LBA -> PPN \cup {NONE}]
  BY <1>0 DEF GCInv, Programmed, Tables
<1>2. \A r \in PPN : g.page_state[r] = IF r = q THEN "VALID" ELSE f.page_state[r]
  BY <1>1 DEF Programmed
<1>3. KnowsOwner(g)
  <2> SUFFICES ASSUME NEW r \in PPN, g.page_state[r] = "VALID"
               PROVE  /\ g.page_id[r] = r
                      /\ g.reverse_map[r] # NONE
                      /\ g.mapping_table[g.reverse_map[r]] = r
    BY DEF KnowsOwner
  <2>1. CASE r = q
    BY <1>1, <2>1 DEF Programmed
  <2>2. CASE r # q
    <3>1. f.page_state[r] = "VALID"
      BY <1>2, <2>2
    <3>2. /\ f.page_id[r] = r
          /\ f.reverse_map[r] \in LBA
          /\ f.reverse_map[r] # NONE
          /\ f.mapping_table[f.reverse_map[r]] = r
      BY <1>1, <3>1 DEF GCInv, KnowsOwner
    <3>3. f.reverse_map[r] # l
      BY <3>1, <3>2, NumPagesBound DEF PPN, NONE
    <3> QED
      BY <1>1, <2>2, <3>2, <3>3 DEF Programmed
  <2> QED
    BY <2>1, <2>2
<1>4. FilledBelow(g)
  <2> SUFFICES ASSUME NEW b \in Blocks, NEW p \in PagesOf(b)
               PROVE  /\ \A r \in PagesOf(b) :
                           p < r /\ g.page_state[r] = "VALID" => g.page_state[p] # "FREE"
                      /\ p < g.write_pointer /\ g.write_pointer \in PagesOf(b) =>
                           g.page_state[p] # "FREE"
    BY DEF FilledBelow
  <2>1. /\ PagesOf(b) \in SUBSET PPN
        /\ PagesOf(b) = b * FTL_PAGES_PER_BLOCK ..
                            b * FTL_PAGES_PER_BLOCK + FTL_PAGES_PER_BLOCK - 1
        /\ b * FTL_PAGES_PER_BLOCK \in Nat
    BY PagesOfBlock
  <2>2. \A r \in PagesOf(b) : r = q /\ p < r => f.page_state[p] # "FREE"
    BY BelowFirstFree
  <2>3. ASSUME NEW r \in PagesOf(b), p < r, g.page_state[r] = "VALID"
        PROVE  g.page_state[p] # "FREE"
    BY <1>2, <2>1, <2>2, <2>3 DEF GCInv, FilledBelow
  <2>4. ASSUME p < g.write_pointer, g.write_pointer \in PagesOf(b)
        PROVE  g.page_state[p] # "FREE"
    <3>1. g.write_pointer = q + 1
      BY DEF Programmed
    <3>2. CASE p = q
      BY <1>2, <2>1, <3>2
    <3>3. CASE p # q
      <4>1. p < q /\ q \in PagesOf(b)
        BY <1>1, <2>1, <2>4, <3>1, <3>3, GeometryAssumption
      <4> QED
        BY <1>2, <2>1, <2>2, <4>1
    <3> QED
      BY <3>2, <3>3
  <2> QED
    BY <2>3, <2>4
<1>5. Counted(g)
  <2>1. PagesIn(g, "FREE") = PagesIn(f, "FREE") \ {q} /\ q \in PagesIn(f, "FREE")
    BY <1>1, <1>2 DEF PagesIn, FirstFree
  <2>2. IsFiniteSet(PagesIn(f, "FREE")) /\ Cardinality(PagesIn(f, "FREE")) \in Nat
    BY PageSetsFinite DEF PagesIn
  <2>3. Cardinality(PagesIn(g, "FREE")) = Cardinality(PagesIn(f, "FREE")) - 1
    BY <2>1, <2>2, FS_RemoveElement
  <2>4. /\ f.free_pages \in Nat /\ f.writes \in Nat /\ f.host_writes \in Nat /\ f.gc_moves \in Nat
        /\ g.free_pages = f.free_pages - 1 /\ g.writes = f.writes + 1
        /\ g.host_writes = f.host_writes + 1 /\ g.gc_moves = f.gc_moves
        /\ g.erase_count = f.erase_count /\ g.erases = f.erases
    BY <1>1 DEF Tables, Programmed, SameWear
  <2> QED
    BY <2>2, <2>3, <2>4, NumPagesBound DEF GCInv, Counted
<1> QED
  BY <1>1, <1>3, <1>4, <1>5 DEF GCInv

\* The block written holds its new data; the others keep what they hold.
LEMMA ProgrammedHolds ==
  ASSUME NEW f \in Tables, NEW q, FirstFree(f, q), NEW l \in LBA, NEW d \in Data,
         NEW g, Programmed(f, l, d, q, g)
  PROVE  /\ Holds(g, l)
         /\ ftl_read(g, l) = [rc |-> 0, data |-> d]
         /\ \A m \in LBA \ {l} :
              /\ g.mapping_table[m] = f.mapping_table[m]
              /\ Holds(f, m) => Holds(g, m) /\ ftl_read(g, m) = ftl_read(f, m)
<1>0. q \in PPN /\ q # NONE
  BY NumPagesBound DEF FirstFree, PPN, NONE
<1>1. /\ g \in Tables
      /\ q \in PPN /\ q # NONE
      /\ f.page_state \in [PPN -> PageState]
      /\ f.page_data \in [PPN -> Data]
      /\ f.reverse_map \in [PPN -> LBA \cup {NONE}]
      /\ f.mapping_table \in [LBA -> PPN \cup {NONE}]
  BY <1>0 DEF Programmed, Tables
<1>2. /\ g.mapping_table[l] = q
      /\ g.reverse_map[q] = l
      /\ g.page_state[q] = "VALID"
      /\ g.page_data[q] = d
  BY <1>1 DEF Programmed
<1>3. Holds(g, l) /\ ftl_read(g, l) = [rc |-> 0, data |-> d]
  BY <1>1, <1>2, HoldsIff
<1>4. ASSUME NEW m \in LBA \ {l}
      PROVE  g.mapping_table[m] = f.mapping_table[m]
  BY <1>1, <1>4 DEF Programmed
<1>5. ASSUME NEW m \in LBA \ {l}, Holds(f, m)
      PROVE  Holds(g, m) /\ ftl_read(g, m) = ftl_read(f, m)
  <2>1. /\ f.mapping_table[m] # NONE
        /\ f.mapping_table[m] \in PPN
        /\ f.reverse_map[f.mapping_table[m]] = m
        /\ f.page_state[f.mapping_table[m]] = "VALID"
        /\ ftl_read(f, m) = [rc |-> 0, data |-> f.page_data[f.mapping_table[m]]]
    BY <1>5, HoldsIff
  <2>2. f.mapping_table[m] # q
    BY <2>1 DEF FirstFree
  <2>3. /\ g.mapping_table[m] = f.mapping_table[m]
        /\ g.reverse_map[f.mapping_table[m]] = m
        /\ g.page_state[f.mapping_table[m]] = "VALID"
        /\ g.page_data[f.mapping_table[m]] = f.page_data[f.mapping_table[m]]
    BY <1>1, <1>4, <2>1, <2>2 DEF Programmed
  <2> QED
    BY <1>1, <2>1, <2>3, HoldsIff
<1> QED
  BY <1>3, <1>4, <1>5

\* Programming the first free page of the scan leaves the blocks filled from below.
LEMMA ProgrammedOrdered ==
  ASSUME NEW f, GCInv(f), Ordered(f), NEW q, FirstFree(f, q), NEW l, NEW d,
         NEW g, Programmed(f, l, d, q, g)
  PROVE  Ordered(g)
<1>1. \A r \in PPN : g.page_state[r] = IF r = q THEN "VALID" ELSE f.page_state[r]
  BY DEF Programmed, GCInv, Tables
<1> SUFFICES ASSUME NEW b \in Blocks, NEW p \in PagesOf(b), NEW r \in PagesOf(b),
                    p < r, g.page_state[r] # "FREE"
             PROVE  g.page_state[p] # "FREE"
  BY DEF Ordered
<1>2. p \in PPN /\ r \in PPN
  BY PagesOfBlock
<1>3. CASE r = q
  BY <1>1, <1>2, <1>3, BelowFirstFree
<1>4. CASE r # q
  BY <1>1, <1>2, <1>4 DEF Ordered
<1> QED
  BY <1>3, <1>4
--------------------------------------------------------------------------------
(* ftl_write without the log: the tables of a layer that has been collected. *)

\* Invalidating the old version marks its page, if there is one.
LEMMA InvalidateOldMarks ==
  ASSUME NEW f \in Tables, NEW l \in LBA
  PROVE  LET old == f.mapping_table[l]
             g   == InvalidateOld(f, l)
         IN  \/ old = NONE /\ g = f
             \/ old \in PPN /\ Invalidated(f, old, g)
<1> DEFINE old == f.mapping_table[l]
           g   == InvalidateOld(f, l)
<1>0. f.reverse_map \in [PPN -> LBA \cup {NONE}]
  BY DEF Tables
<1>1. /\ g \in Tables
      /\ g.mapping_table = f.mapping_table
      /\ g.page_data = f.page_data
      /\ g.page_id = f.page_id
      /\ g.write_pointer = f.write_pointer
      /\ SameCounters(f, g)
      /\ old = NONE => g = f
      /\ old # NONE =>
           /\ old \in PPN
           /\ g.page_state = [f.page_state EXCEPT ![old] = "INVALID"]
           /\ g.reverse_map = [f.reverse_map EXCEPT ![old] = NONE]
  BY InvalidateOldTables
<1> HIDE DEF g, old
<1>2. old # NONE => Invalidated(f, old, g)
  BY <1>0, <1>1 DEF Invalidated
<1> QED
  BY <1>1, <1>2 DEF g, old

\* A refused write parks write_pointer behind the last page, in no erase block.
LEMMA ParkedInv ==
  ASSUME NEW f, GCInv(f)
  PROVE  LET g == [f EXCEPT !.write_pointer = NumPages]
         IN  /\ GCInv(g)
             /\ SameCounters(f, g)
             /\ g.page_state = f.page_state
             /\ g.mapping_table = f.mapping_table
<1> DEFINE g == [f EXCEPT !.write_pointer = NumPages]
<1>1. /\ g \in Tables
      /\ g.page_state = f.page_state /\ g.page_id = f.page_id
      /\ g.mapping_table = f.mapping_table /\ g.reverse_map = f.reverse_map
      /\ g.write_pointer = NumPages
      /\ SameCounters(f, g)
  BY NumPagesBound DEF GCInv, Tables, SameCounters, SameWear
<1> HIDE DEF g
<1>2. KnowsOwner(g)
  BY <1>1 DEF GCInv, KnowsOwner
<1>3. FilledBelow(g)
  <2>1. \A b \in Blocks : NumPages \notin PagesOf(b) /\ PagesOf(b) \in SUBSET PPN
    BY PagesOfBlock, NumPagesBound DEF PPN
  <2> QED
    BY <1>1, <2>1 DEF GCInv, FilledBelow
<1>4. Counted(g)
  BY <1>1 DEF GCInv, Counted, SameCounters, SameWear, PagesIn
<1> QED
  BY <1>1, <1>2, <1>3, <1>4 DEF GCInv, g

\* After InvalidateOld the block has no VALID page, and the invariant holds.
LEMMA InvalidateOldInv ==
  ASSUME NEW f, GCInv(f), NEW l \in LBA
  PROVE  LET g == InvalidateOld(f, l)
         IN  /\ GCInv(g)
             /\ SameCounters(f, g)
             /\ g.write_pointer = f.write_pointer
             /\ g.mapping_table = f.mapping_table
             /\ g.mapping_table[l] # NONE => g.page_state[g.mapping_table[l]] # "VALID"
             /\ \A r \in PPN : g.page_state[r] = f.page_state[r] \/ g.page_state[r] = "INVALID"
<1> DEFINE g   == InvalidateOld(f, l)
           old == f.mapping_table[l]
<1>1. f \in Tables /\ f.page_state \in [PPN -> PageState]
  BY DEF GCInv, Tables
<1>2. /\ \/ old = NONE /\ g = f
         \/ old \in PPN /\ Invalidated(f, old, g)
      /\ g.mapping_table = f.mapping_table
  BY <1>1, InvalidateOldMarks, InvalidateOldTables
<1> HIDE DEF g
<1>3. CASE old = NONE /\ g = f
  BY <1>3 DEF SameCounters, SameWear, g
<1>4. CASE old \in PPN /\ Invalidated(f, old, g)
  <2>1. GCInv(g)
    BY <1>4, InvalidatedInv
  <2>2. g.page_state = [f.page_state EXCEPT ![old] = "INVALID"]
    BY <1>4 DEF Invalidated
  <2> QED
    BY <1>1, <1>2, <1>4, <2>1, <2>2 DEF Invalidated, g
<1> QED
  BY <1>2, <1>3, <1>4

\* Accepted or refused, a write keeps the invariant and the wear.
LEMMA WriteInv ==
  ASSUME NEW f, GCInv(f), NEW l \in LBA, NEW d \in Data
  PROVE  LET w == ftl_write(f, l, d)
         IN  /\ GCInv(w.ftl)
             /\ SameWear(f, w.ftl)
             /\ w.rc \in {0, -1}
             /\ w.rc = 0 => w.ftl.host_writes = f.host_writes + 1
<1> DEFINE w == ftl_write(f, l, d)
           g == InvalidateOld(f, l)
<1>1. /\ GCInv(g)
      /\ SameCounters(f, g)
      /\ g.mapping_table[l] # NONE => g.page_state[g.mapping_table[l]] # "VALID"
  BY InvalidateOldInv
<1>2. \/ w.rc = 0 /\ \E q : FirstFree(g, q) /\ Programmed(g, l, d, q, w.ftl)
      \/ w.rc = -1 /\ w.ftl = [g EXCEPT !.write_pointer = NumPages]
  BY WriteEnds, FreePagesLeft DEF GCInv
<1> HIDE DEF g, w
<1>3. CASE w.rc = 0 /\ \E q : FirstFree(g, q) /\ Programmed(g, l, d, q, w.ftl)
  <2>1. PICK q : FirstFree(g, q) /\ Programmed(g, l, d, q, w.ftl)
    BY <1>3
  <2>2. GCInv(w.ftl)
    BY <1>1, <2>1, ProgrammedInv
  <2> QED
    BY <1>1, <1>3, <2>1, <2>2 DEF Programmed, SameCounters, SameWear, w
<1>4. CASE w.rc = -1 /\ w.ftl = [g EXCEPT !.write_pointer = NumPages]
  <2>1. GCInv(w.ftl) /\ SameCounters(g, w.ftl)
    BY <1>1, <1>4, ParkedInv
  <2> QED
    BY <1>1, <1>4, <2>1 DEF SameCounters, SameWear, w
<1> QED
  BY <1>2, <1>3, <1>4

\* An accepted write of a block whose page names it stores the data and disturbs no
\* block that holds its page.
LEMMA WriteHolds ==
  ASSUME NEW f, GCInv(f), NEW l \in LBA, NEW d \in Data,
         f.mapping_table[l] # NONE => f.reverse_map[f.mapping_table[l]] = l,
         ftl_write(f, l, d).rc = 0
  PROVE  LET w == ftl_write(f, l, d).ftl
         IN  /\ Holds(w, l)
             /\ ftl_read(w, l) = [rc |-> 0, data |-> d]
             /\ \A m \in LBA \ {l} :
                  /\ w.mapping_table[m] = f.mapping_table[m]
                  /\ Holds(f, m) => Holds(w, m) /\ ftl_read(w, m) = ftl_read(f, m)
<1> DEFINE w   == ftl_write(f, l, d).ftl
           g   == InvalidateOld(f, l)
           old == f.mapping_table[l]
<1>1. f \in Tables /\ g \in Tables /\ g.mapping_table = f.mapping_table
  BY InvalidateOldTables DEF GCInv
<1>r. ftl_write(f, l, d).rc # -1 /\ f.free_pages # 0
  BY FreePagesLeft
<1>2. PICK q : FirstFree(g, q) /\ Programmed(g, l, d, q, w)
  BY <1>1, <1>r, WriteEnds, Zenon
<1>3. ASSUME NEW m \in LBA \ {l}, Holds(f, m)
      PROVE  Holds(g, m) /\ ftl_read(g, m) = ftl_read(f, m)
  <2>1. CASE old = NONE /\ g = f
    BY <1>3, <2>1
  <2>2. CASE old \in PPN /\ Invalidated(f, old, g)
    <3>1. f.mapping_table[m] # old
      BY <1>3, <2>2 DEF Holds
    <3> QED
      BY <1>1, <1>3, <2>2, <3>1, InvalidatedHolds
  <2> QED
    BY <1>1, <2>1, <2>2, InvalidateOldMarks
<1> HIDE DEF g, w
<1>4. /\ Holds(w, l)
      /\ ftl_read(w, l) = [rc |-> 0, data |-> d]
      /\ \A m \in LBA \ {l} :
           /\ w.mapping_table[m] = g.mapping_table[m]
           /\ Holds(g, m) => Holds(w, m) /\ ftl_read(w, m) = ftl_read(g, m)
  BY <1>1, <1>2, ProgrammedHolds
<1> QED
  BY <1>1, <1>3, <1>4 DEF w

\* An accepted write leaves no gap in an erase block.
LEMMA WriteOrdered ==
  ASSUME NEW f, GCInv(f), Ordered(f), NEW l \in LBA, NEW d \in Data,
         f.mapping_table[l] # NONE => f.page_state[f.mapping_table[l]] # "FREE",
         ftl_write(f, l, d).rc = 0
  PROVE  Ordered(ftl_write(f, l, d).ftl)
<1> DEFINE w   == ftl_write(f, l, d).ftl
           g   == InvalidateOld(f, l)
<1>1. f \in Tables /\ GCInv(g)
  BY InvalidateOldInv DEF GCInv
<1>r. ftl_write(f, l, d).rc # -1 /\ f.free_pages # 0
  BY FreePagesLeft
<1>2. PICK q : FirstFree(g, q) /\ Programmed(g, l, d, q, w)
  BY <1>1, <1>r, WriteEnds, Zenon
<1>3. Ordered(g)
  <2> DEFINE old == f.mapping_table[l]
  <2>1. CASE old = NONE /\ g = f
    BY <2>1
  <2>2. CASE old \in PPN /\ Invalidated(f, old, g)
    <3>1. f.page_state[old] # "FREE"
      BY <2>2, NumPagesBound DEF PPN, NONE
    <3> QED
      BY <1>1, <2>2, <3>1, InvalidatedOrdered
  <2> QED
    BY <1>1, <2>1, <2>2, InvalidateOldMarks
<1> HIDE DEF g, w
<1> QED
  BY <1>1, <1>2, <1>3, ProgrammedOrdered DEF w
--------------------------------------------------------------------------------
(* One page of the victim. *)

\* The collector takes a copy out of the host's account; nothing else changes.
LEMMA RecountedInv ==
  ASSUME NEW f, GCInv(f), f.host_writes # 0
  PROVE  LET g == [f EXCEPT !.gc_moves = @ + 1, !.host_writes = @ - 1]
         IN  /\ GCInv(g)
             /\ SameWear(f, g)
             /\ g.page_state = f.page_state
             /\ g.mapping_table = f.mapping_table
             /\ g.write_pointer = f.write_pointer
             /\ \A l \in LBA : /\ Holds(f, l) => Holds(g, l)
                               /\ ftl_read(g, l) = ftl_read(f, l)
<1> DEFINE g == [f EXCEPT !.gc_moves = @ + 1, !.host_writes = @ - 1]
<1>0. /\ f \in Tables
      /\ f.gc_moves + 1 \in Nat
      /\ f.host_writes - 1 \in Nat
  BY DEF GCInv, Tables
<1>g. g = [f EXCEPT !.gc_moves = f.gc_moves + 1, !.host_writes = f.host_writes - 1]
  BY <1>0, Zenon DEF Tables
<1> HIDE DEF g
<1>1. /\ g \in Tables
      /\ g.page_state = f.page_state /\ g.page_id = f.page_id /\ g.page_data = f.page_data
      /\ g.mapping_table = f.mapping_table /\ g.reverse_map = f.reverse_map
      /\ g.write_pointer = f.write_pointer
      /\ SameWear(f, g)
      /\ g.free_pages = f.free_pages /\ g.writes = f.writes
      /\ g.gc_moves = f.gc_moves + 1 /\ g.host_writes = f.host_writes - 1
      /\ f.gc_moves \in Nat /\ f.host_writes \in Nat /\ f.writes \in Nat
  BY <1>0, <1>g DEF Tables, SameWear
<1>2. KnowsOwner(g) /\ FilledBelow(g)
  BY <1>1 DEF GCInv, KnowsOwner, FilledBelow
<1>3. Counted(g)
  BY <1>1 DEF GCInv, Counted, SameWear, PagesIn
<1>4. \A l \in LBA : /\ Holds(f, l) => Holds(g, l)
                     /\ ftl_read(g, l) = ftl_read(f, l)
  BY <1>1 DEF Holds, ftl_read
<1> QED
  BY <1>1, <1>2, <1>3, <1>4 DEF GCInv, g

\* Page p of f marked INVALID by the collector, and the write that copies it.
Marked(f, p) == [f EXCEPT !.page_state[p] = "INVALID"]
Copy(f, p)   == ftl_write(Marked(f, p), f.reverse_map[p], f.page_data[p])

\* Marking a page INVALID is an invalidation and leaves both tables alone.
LEMMA MarkedFields ==
  ASSUME NEW f, GCInv(f), NEW p \in PPN
  PROVE  /\ Invalidated(f, p, Marked(f, p))
         /\ GCInv(Marked(f, p))
         /\ Marked(f, p).mapping_table = f.mapping_table
         /\ Marked(f, p).reverse_map = f.reverse_map
<1>1. /\ Marked(f, p).mapping_table = f.mapping_table
      /\ Marked(f, p).reverse_map = f.reverse_map
      /\ Invalidated(f, p, Marked(f, p))
  BY DEF Marked, Invalidated, GCInv, Tables, PageState, SameCounters, SameWear
<1> QED
  BY <1>1, InvalidatedInv

\* A VALID page is copied for its owner; other pages are passed over.
LEMMA MigratePageIs ==
  ASSUME NEW f, GCInv(f), NEW p \in PPN
  PROVE  /\ f.page_state[p] # "VALID" => MigratePage(f, p) = f
         /\ f.page_state[p] = "VALID" =>
              /\ f.reverse_map[p] \in LBA
              /\ f.mapping_table[f.reverse_map[p]] = p
              /\ f.page_data[p] \in Data
              /\ MigratePage(f, p) =
                   IF Copy(f, p).rc = 0
                   THEN [Copy(f, p).ftl EXCEPT !.gc_moves = @ + 1, !.host_writes = @ - 1]
                   ELSE Copy(f, p).ftl
<1>1. f.page_state[p] # "VALID" => MigratePage(f, p) = f
  BY DEF MigratePage
<1>2. ASSUME f.page_state[p] = "VALID"
      PROVE  /\ f.reverse_map[p] \in LBA
             /\ f.mapping_table[f.reverse_map[p]] = p
             /\ f.page_data[p] \in Data
             /\ MigratePage(f, p) =
                  IF Copy(f, p).rc = 0
                  THEN [Copy(f, p).ftl EXCEPT !.gc_moves = @ + 1, !.host_writes = @ - 1]
                  ELSE Copy(f, p).ftl
  <2>1. /\ f.page_id[p] = p
        /\ f.reverse_map[p] # NONE
        /\ f.mapping_table[f.reverse_map[p]] = p
    BY <1>2 DEF GCInv, KnowsOwner
  <2>2. f.reverse_map[p] \in LBA /\ f.page_data[p] \in Data
    BY <2>1 DEF GCInv, Tables
  <2>3. p # NONE
    BY NumPagesBound DEF PPN, NONE
  <2> QED
    BY <1>2, <2>1, <2>2, <2>3, Zenon DEF MigratePage, Copy, Marked
<1> QED
  BY <1>1, <1>2

\* The copy of a VALID page: where it goes, and what else changes state.
LEMMA CopyEnds ==
  ASSUME NEW f, GCInv(f), NEW p \in PPN, f.page_state[p] = "VALID"
  PROVE  LET w == Copy(f, p)
         IN  \/ /\ w.rc = 0
                /\ \E q : /\ FirstFree(f, q)
                          /\ w.ftl.page_state = [f.page_state EXCEPT ![p] = "INVALID", ![q] = "VALID"]
                          /\ w.ftl.write_pointer = q + 1
             \/ /\ w.rc = -1
                /\ w.ftl.page_state = [f.page_state EXCEPT ![p] = "INVALID"]
                /\ \A r \in PPN : f.write_pointer <= r => f.page_state[r] # "FREE"
<1> DEFINE w == Copy(f, p)
           h == Marked(f, p)
           m == f.reverse_map[p]
           g == InvalidateOld(h, m)
<1>1. m \in LBA /\ f.mapping_table[m] = p /\ f.page_data[p] \in Data
  BY MigratePageIs
<1>2. /\ GCInv(h) /\ h \in Tables
      /\ h.mapping_table = f.mapping_table
      /\ h.page_state = [f.page_state EXCEPT ![p] = "INVALID"]
      /\ h.write_pointer = f.write_pointer
      /\ f.page_state \in [PPN -> PageState]
  BY MarkedFields DEF GCInv, Invalidated, Tables
<1>3. h.free_pages # 0
  BY <1>2, FreePagesLeft
<1>4. w = ftl_write(h, m, f.page_data[p])
  BY DEF Copy
<1> HIDE DEF w, h
<1>5. /\ g.page_state = [h.page_state EXCEPT ![p] = "INVALID"]
      /\ g.write_pointer = f.write_pointer
  <2>1. h.mapping_table[m] = p /\ p # NONE
    BY <1>1, <1>2, NumPagesBound DEF PPN, NONE
  <2>2. /\ g.page_state = [h.page_state EXCEPT ![h.mapping_table[m]] = "INVALID"]
        /\ g.write_pointer = h.write_pointer
    <3>1. h \in Tables /\ m \in LBA /\ h.mapping_table[m] # NONE
      BY <1>1, <1>2, <2>1
    <3> HIDE DEF m
    <3> QED
      BY <3>1, InvalidateOldTables, Zenon
  <2> QED
    BY <1>2, <2>1, <2>2
<1>6. g.page_state = [f.page_state EXCEPT ![p] = "INVALID"]
  BY <1>2, <1>5
<1>7. \A r \in PPN : g.page_state[r] = "FREE" <=> f.page_state[r] = "FREE"
  BY <1>2, <1>6
<1>8. \/ w.rc = 0 /\ \E q : FirstFree(g, q) /\ Programmed(g, m, f.page_data[p], q, w.ftl)
      \/ /\ w.rc = -1
         /\ w.ftl = [g EXCEPT !.write_pointer = NumPages]
         /\ \A r \in PPN : h.write_pointer <= r => g.page_state[r] # "FREE"
  BY <1>1, <1>2, <1>3, <1>4, WriteEnds
<1>9. CASE w.rc = 0 /\ \E q : FirstFree(g, q) /\ Programmed(g, m, f.page_data[p], q, w.ftl)
  <2>1. PICK q : FirstFree(g, q) /\ Programmed(g, m, f.page_data[p], q, w.ftl)
    BY <1>9
  <2>2. FirstFree(f, q)
    BY <1>5, <1>7, <2>1 DEF FirstFree
  <2>3. /\ w.ftl.page_state = [f.page_state EXCEPT ![p] = "INVALID", ![q] = "VALID"]
        /\ w.ftl.write_pointer = q + 1
    BY <1>6, <2>1 DEF Programmed
  <2> QED
    BY <1>9, <2>2, <2>3 DEF w
<1>10. CASE /\ w.rc = -1
            /\ w.ftl = [g EXCEPT !.write_pointer = NumPages]
            /\ \A r \in PPN : h.write_pointer <= r => g.page_state[r] # "FREE"
  <2>1. GCInv(g)
    BY <1>1, <1>2, InvalidateOldInv
  <2>2. w.ftl.page_state = g.page_state
    BY <1>10, <2>1, ParkedInv
  <2> QED
    BY <1>2, <1>6, <1>7, <1>10, <2>2 DEF w
<1> QED
  BY <1>8, <1>9, <1>10

\* Moving a page, or failing to, keeps the invariant and the wear.  The page itself
\* is not VALID any more, and only a FREE page can have become VALID for it.
LEMMA MigratePageInv ==
  ASSUME NEW f, GCInv(f), NEW p \in PPN
  PROVE  LET g == MigratePage(f, p)
         IN  /\ GCInv(g)
             /\ SameWear(f, g)
             /\ g.page_state[p] # "VALID"
             /\ \A r \in PPN : g.page_state[r] = "VALID" =>
                  \/ f.page_state[r] = "VALID"
                  \/ f.page_state[p] = "VALID" /\ f.page_state[r] = "FREE"
<1> DEFINE g == MigratePage(f, p)
           w == Copy(f, p)
           h == Marked(f, p)
<1>1. CASE f.page_state[p] # "VALID"
  BY <1>1, MigratePageIs DEF SameWear
<1>2. CASE f.page_state[p] = "VALID"
  <2>1. /\ f.reverse_map[p] \in LBA /\ f.page_data[p] \in Data
        /\ g = IF w.rc = 0
               THEN [w.ftl EXCEPT !.gc_moves = @ + 1, !.host_writes = @ - 1]
               ELSE w.ftl
    BY <1>2, MigratePageIs
  <2>2. GCInv(h) /\ SameCounters(f, h)
    BY MarkedFields DEF Invalidated
  <2>3. /\ GCInv(w.ftl)
        /\ SameWear(h, w.ftl)
        /\ w.rc = 0 => w.ftl.host_writes = h.host_writes + 1
    BY <2>1, <2>2, WriteInv DEF Copy
  <2>4. h.host_writes \in Nat
    BY <2>2 DEF GCInv, Tables
  <2> HIDE DEF g, w, h
  <2>5. GCInv(g) /\ SameWear(w.ftl, g) /\ g.page_state = w.ftl.page_state
    <3>1. CASE w.rc = 0
      <4>1. w.ftl.host_writes # 0
        BY <2>3, <2>4, <3>1
      <4> QED
        BY <2>1, <2>3, <3>1, <4>1, RecountedInv
    <3>2. CASE w.rc # 0
      BY <2>1, <2>3, <3>2 DEF SameWear
    <3> QED
      BY <3>1, <3>2
  <2>6. \/ w.ftl.page_state = [f.page_state EXCEPT ![p] = "INVALID"]
        \/ \E q \in PPN : /\ f.page_state[q] = "FREE"
                          /\ w.ftl.page_state =
                               [f.page_state EXCEPT ![p] = "INVALID", ![q] = "VALID"]
    BY <1>2, CopyEnds, Zenon DEF w, FirstFree
  <2>7. f.page_state \in [PPN -> PageState]
    BY DEF GCInv, Tables
  <2>8. SameWear(f, g)
    BY <2>2, <2>3, <2>5 DEF SameWear, SameCounters
  <2>9. /\ g.page_state[p] # "VALID"
        /\ \A r \in PPN : g.page_state[r] = "VALID" =>
             f.page_state[r] = "VALID" \/ f.page_state[r] = "FREE"
    BY <1>2, <2>5, <2>6, <2>7
  <2> QED
    BY <1>2, <2>5, <2>8, <2>9 DEF g
<1> QED
  BY <1>1, <1>2
\* With a FREE page ahead of write_pointer the copy is made, and every block that holds
\* its page holds one afterwards, with the same data.
LEMMA MigratePageKeeps ==
  ASSUME NEW f, GCInv(f), NEW p \in PPN,
         f.page_state[p] = "VALID" =>
           \E r \in PPN : f.write_pointer <= r /\ f.page_state[r] = "FREE"
  PROVE  LET g == MigratePage(f, p)
         IN  /\ \A l \in LBA :
                  /\ g.mapping_table[l] = NONE <=> f.mapping_table[l] = NONE
                  /\ Holds(f, l) => Holds(g, l) /\ ftl_read(g, l) = ftl_read(f, l)
             /\ Ordered(f) => Ordered(g)
<1> DEFINE g == MigratePage(f, p)
           w == Copy(f, p)
           h == Marked(f, p)
           m == f.reverse_map[p]
<1>1. CASE f.page_state[p] # "VALID"
  BY <1>1, MigratePageIs
<1>2. CASE f.page_state[p] = "VALID"
  <2>1. /\ m \in LBA /\ f.mapping_table[m] = p /\ f.page_data[p] \in Data
        /\ g = IF w.rc = 0
               THEN [w.ftl EXCEPT !.gc_moves = @ + 1, !.host_writes = @ - 1]
               ELSE w.ftl
    BY <1>2, MigratePageIs
  <2>2. /\ f \in Tables /\ h \in Tables
        /\ GCInv(h) /\ Invalidated(f, p, h) /\ SameCounters(f, h)
        /\ h.mapping_table = f.mapping_table
        /\ h.reverse_map = f.reverse_map
    BY MarkedFields DEF Invalidated, GCInv
  <2>3. w.rc = 0
    BY <1>2, CopyEnds
  <2>4. /\ GCInv(w.ftl)
        /\ w.ftl.host_writes = h.host_writes + 1
        /\ h.host_writes \in Nat
    BY <2>1, <2>2, <2>3, WriteInv DEF Copy, Tables
  <2>5. /\ g.mapping_table = w.ftl.mapping_table
        /\ g.page_state = w.ftl.page_state
        /\ \A l \in LBA : /\ Holds(w.ftl, l) => Holds(g, l)
                          /\ ftl_read(g, l) = ftl_read(w.ftl, l)
    <3>1. w.ftl.host_writes # 0
      BY <2>4
    <3> HIDE DEF g, w
    <3> QED
      BY <2>1, <2>3, <2>4, <3>1, RecountedInv
  <2>6. h.reverse_map[h.mapping_table[m]] = m
    BY <2>1, <2>2
  <2>7. /\ Holds(w.ftl, m)
        /\ ftl_read(w.ftl, m) = [rc |-> 0, data |-> f.page_data[p]]
        /\ \A l \in LBA \ {m} :
             /\ w.ftl.mapping_table[l] = h.mapping_table[l]
             /\ Holds(h, l) => Holds(w.ftl, l) /\ ftl_read(w.ftl, l) = ftl_read(h, l)
    <3>1. w = ftl_write(h, m, f.page_data[p])
      BY DEF Copy
    <3> HIDE DEF h, m
    <3> QED
      BY <2>1, <2>2, <2>3, <2>6, <3>1, WriteHolds
  <2> HIDE DEF g, w, h
  <2>8. ASSUME NEW l \in LBA
        PROVE  /\ g.mapping_table[l] = NONE <=> f.mapping_table[l] = NONE
               /\ Holds(f, l) => Holds(g, l) /\ ftl_read(g, l) = ftl_read(f, l)
    <3>1. CASE l = m
      <4>1. f.mapping_table[l] # NONE
        BY <2>1, <3>1, NumPagesBound DEF PPN, NONE
      <4>2. g.mapping_table[l] # NONE
        BY <2>5, <2>7, <3>1 DEF Holds
      <4>3. Holds(f, l) => ftl_read(f, l) = [rc |-> 0, data |-> f.page_data[p]]
        BY <2>1, <2>2, <3>1, HoldsIff
      <4> QED
        BY <2>5, <2>7, <3>1, <4>1, <4>2, <4>3
    <3>2. CASE l # m
      <4>1. Holds(f, l) => f.mapping_table[l] # p
        BY <3>2 DEF Holds
      <4>2. Holds(f, l) => Holds(h, l) /\ ftl_read(h, l) = ftl_read(f, l)
        BY <2>2, <4>1, InvalidatedHolds
      <4> QED
        BY <2>2, <2>5, <2>7, <3>2, <4>2
    <3> QED
      BY <3>1, <3>2
  <2>9. ASSUME Ordered(f)
        PROVE  Ordered(g)
    <3>1. Ordered(h)
      BY <1>2, <2>2, <2>9, InvalidatedOrdered
    <3>2. h.page_state[h.mapping_table[m]] # "FREE"
      BY <2>1, <2>2 DEF Invalidated, Tables
    <3>3. Ordered(w.ftl)
      <4>1. w = ftl_write(h, m, f.page_data[p])
        BY DEF Copy, w, h
      <4> QED
        BY <2>1, <2>2, <2>3, <3>1, <3>2, <4>1, WriteOrdered
    <3> QED
      BY <2>5, <3>3 DEF Ordered
  <2> QED
    BY <2>8, <2>9 DEF g
<1> QED
  BY <1>1, <1>2

\* The room for the rest of the victim is still there after a page was moved, whether
\* the copy went to another block or further up in the victim itself.
LEMMA RoomStays ==
  ASSUME NEW f, GCInv(f), NEW b \in Blocks, NEW p \in PagesOf(b), RoomAhead(f, b)
  PROVE  /\ RoomAhead(MigratePage(f, p), b)
         /\ f.page_state[p] = "VALID" =>
              \E r \in PPN : f.write_pointer <= r /\ f.page_state[r] = "FREE"
<1> DEFINE g      == MigratePage(f, p)
           w      == Copy(f, p)
           Ahead(x) == {r \in PPN \ PagesOf(b) : r >= x.write_pointer /\ x.page_state[r] = "FREE"}
           Live(x)  == {r \in PagesOf(b) : x.page_state[r] = "VALID"}
<1>1. /\ p \in PPN /\ PagesOf(b) \subseteq PPN
      /\ f.page_state \in [PPN -> PageState]
      /\ f.write_pointer \in Nat
  BY PagesOfBlock, NumPagesBound DEF GCInv, Tables
<1>2. \A x : RoomAhead(x, b) <=> Cardinality(Ahead(x)) >= Cardinality(Live(x))
  BY DEF RoomAhead, CountIn
<1>3. \A x : /\ IsFiniteSet(Ahead(x)) /\ Cardinality(Ahead(x)) \in Nat
             /\ IsFiniteSet(Live(x)) /\ Cardinality(Live(x)) \in Nat
  BY <1>1, PageSetsFinite
<1>4. CASE f.page_state[p] # "VALID"
  BY <1>1, <1>4, MigratePageIs
<1>5. CASE f.page_state[p] = "VALID"
  <2>1. p \in Live(f)
    BY <1>5
  <2> HIDE DEF Ahead, Live
  <2>2. Cardinality(Live(f)) # 0
    BY <1>3, <2>1, FS_EmptySet
  <2>3. Ahead(f) # {}
    BY <1>2, <1>3, <2>2, FS_EmptySet
  <2> USE DEF Ahead, Live
  <2>4. /\ \E r \in PPN : f.write_pointer <= r /\ f.page_state[r] = "FREE"
        /\ ~ \A r \in PPN : f.write_pointer <= r => f.page_state[r] # "FREE"
    BY <1>1, <2>3, NumPagesBound DEF PPN
  <2>5. PICK q : /\ w.rc = 0
                 /\ FirstFree(f, q)
                 /\ w.ftl.page_state = [f.page_state EXCEPT ![p] = "INVALID", ![q] = "VALID"]
                 /\ w.ftl.write_pointer = q + 1
    <3>1. \/ /\ w.rc = 0
             /\ \E q : /\ FirstFree(f, q)
                       /\ w.ftl.page_state = [f.page_state EXCEPT ![p] = "INVALID", ![q] = "VALID"]
                       /\ w.ftl.write_pointer = q + 1
          \/ \A r \in PPN : f.write_pointer <= r => f.page_state[r] # "FREE"
      BY <1>1, <1>5, CopyEnds, Zenon
    <3> HIDE DEF w
    <3> QED
      BY <2>4, <3>1, Zenon
  <2>6. /\ g.page_state = [f.page_state EXCEPT ![p] = "INVALID", ![q] = "VALID"]
        /\ g.write_pointer = q + 1
    <3>1. g = [w.ftl EXCEPT !.gc_moves = @ + 1, !.host_writes = @ - 1]
      BY <1>1, <1>5, <2>5, MigratePageIs
    <3>2. GCInv(w.ftl)
      BY <1>1, <1>5, MigratePageIs, MarkedFields, WriteInv DEF Copy
    <3>3. w.ftl \in Tables
      BY <3>2 DEF GCInv
    <3> HIDE DEF g, w
    <3> QED
      BY <2>5, <3>1, <3>3 DEF Tables
  <2> HIDE DEF g, w
  <2>7. /\ q \in PPN /\ q # p /\ q \in Int
        /\ f.page_state[q] = "FREE"
        /\ f.write_pointer <= q
        /\ \A r \in PPN : f.write_pointer <= r /\ r < q => f.page_state[r] # "FREE"
    BY <1>5, <2>5, NumPagesBound DEF FirstFree, PPN
  <2>8. Ahead(g) = Ahead(f) \ {q}
    <3>1. ASSUME NEW r \in PPN \ PagesOf(b)
          PROVE  r >= g.write_pointer /\ g.page_state[r] = "FREE"
                   <=> r >= f.write_pointer /\ f.page_state[r] = "FREE" /\ r # q
      <4>1. r # p /\ r \in Int
        BY NumPagesBound DEF PPN
      <4>2. g.page_state[r] = IF r = q THEN "VALID" ELSE f.page_state[r]
        BY <1>1, <2>6, <4>1
      <4> QED
        BY <1>1, <2>6, <2>7, <4>1, <4>2
    <3> QED
      BY <3>1
  <2>9. CASE q \in PagesOf(b)
    <3> DEFINE rest == Live(f) \ {p}
    <3>1. Live(g) = rest \cup {q}
      BY <1>1, <2>6, <2>7, <2>9
    <3>2. q \notin rest
      BY <2>7
    <3>3. Cardinality(Live(g)) = Cardinality(Live(f))
      <4> HIDE DEF Live
      <4>1. IsFiniteSet(rest) /\ Cardinality(rest) = Cardinality(Live(f)) - 1
        BY <1>3, <2>1, FS_RemoveElement
      <4> HIDE DEF rest
      <4>2. Cardinality(rest \cup {q}) = Cardinality(rest) + 1
        BY <3>2, <4>1, FS_AddElement
      <4>3. Cardinality(Live(f)) \in Nat
        BY <1>3
      <4> QED
        BY <3>1, <4>1, <4>2, <4>3
    <3>4. Ahead(g) = Ahead(f)
      BY <2>8, <2>9
    <3> QED
      BY <1>2, <2>4, <3>3, <3>4 DEF g
  <2>10. CASE q \notin PagesOf(b)
    <3>1. Live(g) = Live(f) \ {p}
      BY <1>1, <2>6, <2>7, <2>10
    <3>2. q \in Ahead(f)
      BY <2>7, <2>10
    <3> HIDE DEF Live, Ahead
    <3>3. /\ Cardinality(Live(g)) = Cardinality(Live(f)) - 1
          /\ Cardinality(Ahead(g)) = Cardinality(Ahead(f)) - 1
      BY <1>3, <2>1, <2>8, <3>1, <3>2, FS_RemoveElement
    <3> QED
      BY <1>2, <1>3, <2>4, <3>3 DEF g
  <2> QED
    BY <2>9, <2>10
<1> QED
  BY <1>4, <1>5
--------------------------------------------------------------------------------
(* All pages of the victim. *)

\* What the blocks of f hold, g holds for them with the same data.
Keeps(f, g) ==
  /\ \A l \in LBA : /\ g.mapping_table[l] = NONE <=> f.mapping_table[l] = NONE
                    /\ Holds(f, l) => Holds(g, l) /\ ftl_read(g, l) = ftl_read(f, l)
  /\ Ordered(f) => Ordered(g)

\* What is true of m when i pages of block b of f have been looked at.
Round(f, b, i, m) ==
  /\ GCInv(m)
  /\ SameWear(f, m)
  /\ \A p \in PagesOf(b) : p < b * FTL_PAGES_PER_BLOCK + i => m.page_state[p] # "VALID"
  /\ RoomAhead(f, b) => RoomAhead(m, b) /\ Keeps(f, m)

\* One more page: a page already passed is not FREE any more, since a VALID one
\* follows it, so the copy cannot go there.
LEMMA NextRound ==
  ASSUME NEW f, NEW b \in Blocks, NEW i \in 1 .. FTL_PAGES_PER_BLOCK,
         NEW m, Round(f, b, i - 1, m)
  PROVE  Round(f, b, i, MigratePage(m, b * FTL_PAGES_PER_BLOCK + i - 1))
<1> DEFINE p == b * FTL_PAGES_PER_BLOCK + i - 1
           g == MigratePage(m, p)
<1>1. /\ PagesOf(b) \subseteq PPN
      /\ p \in PagesOf(b) /\ p \in PPN /\ p \in Int
      /\ \A r \in PagesOf(b) : r \in Int /\ (r < b * FTL_PAGES_PER_BLOCK + i <=> r < p \/ r = p)
      /\ p = b * FTL_PAGES_PER_BLOCK + (i - 1)
  BY PagesOfBlock, NumPagesBound, GeometryAssumption
<1>2. GCInv(m) /\ SameWear(f, m)
  BY DEF Round
<1> HIDE DEF p, g
<1>3. /\ GCInv(g)
      /\ SameWear(m, g)
      /\ g.page_state[p] # "VALID"
      /\ \A r \in PPN : g.page_state[r] = "VALID" =>
           \/ m.page_state[r] = "VALID"
           \/ m.page_state[p] = "VALID" /\ m.page_state[r] = "FREE"
  BY <1>1, <1>2, MigratePageInv, Zenon DEF g
<1>4. \A r \in PagesOf(b) : r < b * FTL_PAGES_PER_BLOCK + i => g.page_state[r] # "VALID"
  <2> SUFFICES ASSUME NEW r \in PagesOf(b), r < p
               PROVE  g.page_state[r] # "VALID"
    BY <1>1, <1>3
  <2>1. m.page_state[r] # "VALID"
    BY <1>1 DEF Round
  <2>2. m.page_state[p] = "VALID" => m.page_state[r] # "FREE"
    BY <1>1, <1>2 DEF GCInv, FilledBelow
  <2> QED
    BY <1>1, <1>3, <2>1, <2>2
<1>5. ASSUME RoomAhead(f, b)
      PROVE  RoomAhead(g, b) /\ Keeps(f, g)
  <2>1. RoomAhead(m, b) /\ Keeps(f, m)
    BY <1>5 DEF Round
  <2>2. /\ RoomAhead(g, b)
        /\ m.page_state[p] = "VALID" =>
             \E r \in PPN : m.write_pointer <= r /\ m.page_state[r] = "FREE"
    BY <1>1, <1>2, <2>1, RoomStays DEF g
  <2>3. Keeps(m, g)
    BY <1>1, <1>2, <2>2, MigratePageKeeps, Zenon DEF g, Keeps
  <2> QED
    BY <2>1, <2>2, <2>3 DEF Keeps
<1> QED
  BY <1>2, <1>3, <1>4, <1>5 DEF Round, SameWear, p, g

\* Afterwards no page of the victim is VALID; with room ahead nothing was lost.
LEMMA MigrateRound ==
  ASSUME NEW f, GCInv(f), NEW b \in Blocks
  PROVE  Round(f, b, FTL_PAGES_PER_BLOCK, gc_migrate(f, b))
<1>1. PICK moved :
         /\ moved[0] = f
         /\ \A i \in 1 .. FTL_PAGES_PER_BLOCK :
              moved[i] = MigratePage(moved[i - 1], b * FTL_PAGES_PER_BLOCK + i - 1)
         /\ gc_migrate(f, b) = moved[FTL_PAGES_PER_BLOCK]
  BY MigrationRounds
<1> DEFINE Bad == {i \in Nat : i <= FTL_PAGES_PER_BLOCK /\ ~ Round(f, b, i, moved[i])}
<1>2. SUFFICES ASSUME Bad # {} PROVE FALSE
  BY <1>1, GeometryAssumption
<1>3. PICK i \in Bad : \A j \in Bad : i <= j
  BY <1>2, LeastElement
<1>4. Round(f, b, 0, f)
  <2>1. \A p \in PagesOf(b) : ~ (p < b * FTL_PAGES_PER_BLOCK + 0)
    BY PagesOfBlock, NumPagesBound, GeometryAssumption
  <2> QED
    BY <2>1 DEF Round, SameWear, Keeps
<1>5. i \in Nat /\ i # 0 /\ i <= FTL_PAGES_PER_BLOCK /\ ~ Round(f, b, i, moved[i])
  BY <1>1, <1>3, <1>4
<1>6. i - 1 \in Nat /\ i \in 1 .. FTL_PAGES_PER_BLOCK /\ i - 1 <= FTL_PAGES_PER_BLOCK
  BY <1>5, GeometryAssumption
<1>7. Round(f, b, i - 1, moved[i - 1])
  BY <1>3, <1>6
<1>8. Round(f, b, i, MigratePage(moved[i - 1], b * FTL_PAGES_PER_BLOCK + i - 1))
  BY <1>6, <1>7, NextRound
<1> QED
  BY <1>1, <1>5, <1>6, <1>8
--------------------------------------------------------------------------------
(* Erasing a block. *)

\* What erasing a block leaves of the tables.
LEMMA ErasedFields ==
  ASSUME NEW f \in Tables, NEW b \in Blocks
  PROVE  LET g == gc_erase_block(f, b)
         IN  /\ g \in Tables
             /\ g.page_state = [p \in PPN |-> IF p \in PagesOf(b) THEN "FREE" ELSE f.page_state[p]]
             /\ g.page_id = f.page_id /\ g.page_data = f.page_data
             /\ g.mapping_table = f.mapping_table /\ g.reverse_map = f.reverse_map
             /\ g.write_pointer = b * FTL_PAGES_PER_BLOCK
             /\ g.erase_count = [f.erase_count EXCEPT ![b] = f.erase_count[b] + 1]
             /\ g.free_pages = f.free_pages + FTL_PAGES_PER_BLOCK
             /\ g.erases = f.erases + 1
             /\ g.writes = f.writes /\ g.host_writes = f.host_writes
             /\ g.gc_moves = f.gc_moves
<1> DEFINE g      == gc_erase_block(f, b)
           states == [p \in PPN |-> IF p \in PagesOf(b) THEN "FREE" ELSE f.page_state[p]]
           blocks == [f.block_state EXCEPT ![b] = "FREE"]
           counts == [f.erase_count EXCEPT ![b] = f.erase_count[b] + 1]
           first  == b * FTL_PAGES_PER_BLOCK
<1>1. g = [f EXCEPT !.page_state = states, !.block_state = blocks, !.erase_count = counts,
                    !.free_pages = f.free_pages + FTL_PAGES_PER_BLOCK,
                    !.erases = f.erases + 1, !.write_pointer = first]
  BY DEF gc_erase_block, EraseBlock, Tables
<1>2. /\ states \in [PPN -> PageState]
      /\ blocks \in [Blocks -> BlockState]
      /\ counts \in [Blocks -> Nat]
      /\ f.free_pages + FTL_PAGES_PER_BLOCK \in Nat
      /\ f.erases + 1 \in Nat
      /\ first \in 0 .. NumPages
  <2>1. f.page_state \in [PPN -> PageState]
    BY DEF Tables
  <2>2. /\ f.block_state \in [Blocks -> BlockState]
        /\ f.erase_count \in [Blocks -> Nat]
        /\ f.free_pages \in Nat /\ f.erases \in Nat
    BY DEF Tables
  <2>3. "FREE" \in PageState /\ "FREE" \in BlockState
    BY DEF PageState, BlockState
  <2>4. states \in [PPN -> PageState]
    BY <2>1, <2>3
  <2>5. f.erase_count[b] + 1 \in Nat
    BY <2>2
  <2>6. blocks \in [Blocks -> BlockState] /\ counts \in [Blocks -> Nat]
    BY <2>2, <2>3, <2>5
  <2> QED
    BY <2>2, <2>4, <2>6, PagesOfBlock, GeometryAssumption
<1> HIDE DEF g, states, blocks, counts, first
<1>3. /\ g \in Tables
      /\ g.page_state = states /\ g.erase_count = counts
      /\ g.free_pages = f.free_pages + FTL_PAGES_PER_BLOCK
      /\ g.erases = f.erases + 1 /\ g.write_pointer = first
      /\ g.page_id = f.page_id /\ g.page_data = f.page_data
      /\ g.mapping_table = f.mapping_table /\ g.reverse_map = f.reverse_map
      /\ g.writes = f.writes /\ g.host_writes = f.host_writes
      /\ g.gc_moves = f.gc_moves
  BY <1>1, <1>2 DEF Tables
<1> QED
  BY <1>3 DEF g, states, counts, first

\* Erasing keeps the invariant: write_pointer is at the bottom of a FREE block, and
\* free_pages grows by at least what became FREE.
LEMMA ErasedInv ==
  ASSUME NEW f, GCInv(f), NEW b \in Blocks
  PROVE  GCInv(gc_erase_block(f, b))
<1> DEFINE g == gc_erase_block(f, b)
<1>0. f \in Tables
  BY DEF GCInv
<1>1. /\ g \in Tables
      /\ g.page_state = [p \in PPN |-> IF p \in PagesOf(b) THEN "FREE" ELSE f.page_state[p]]
      /\ g.page_id = f.page_id
      /\ g.mapping_table = f.mapping_table /\ g.reverse_map = f.reverse_map
      /\ g.write_pointer = b * FTL_PAGES_PER_BLOCK
      /\ g.erase_count = [f.erase_count EXCEPT ![b] = f.erase_count[b] + 1]
      /\ g.free_pages = f.free_pages + FTL_PAGES_PER_BLOCK
      /\ g.erases = f.erases + 1
      /\ g.writes = f.writes /\ g.host_writes = f.host_writes
      /\ g.gc_moves = f.gc_moves
  BY <1>0, ErasedFields, Zenon
<1> HIDE DEF g
<1>2. \A p \in PPN : g.page_state[p] = IF p \in PagesOf(b) THEN "FREE" ELSE f.page_state[p]
  BY <1>1
<1>3. KnowsOwner(g)
  BY <1>1, <1>2 DEF GCInv, KnowsOwner
<1>4. FilledBelow(g)
  <2> SUFFICES ASSUME NEW c \in Blocks, NEW p \in PagesOf(c)
               PROVE  /\ \A q \in PagesOf(c) :
                           p < q /\ g.page_state[q] = "VALID" => g.page_state[p] # "FREE"
                      /\ p < g.write_pointer /\ g.write_pointer \in PagesOf(c) =>
                           g.page_state[p] # "FREE"
    BY DEF FilledBelow
  <2>1. /\ PagesOf(c) \subseteq PPN
        /\ g.write_pointer \in PagesOf(b)
        /\ \A q \in PagesOf(b) : ~ (q < g.write_pointer)
    BY <1>1, PagesOfBlock, NumPagesBound, GeometryAssumption
  <2>2. CASE c = b
    BY <1>2, <2>1, <2>2
  <2>3. CASE c # b
    <3>1. \A q \in PagesOf(c) : q \notin PagesOf(b)
      BY <2>3, BlocksDisjoint
    <3> QED
      BY <1>2, <2>1, <3>1 DEF GCInv, FilledBelow
  <2> QED
    BY <2>2, <2>3
<1>5. Counted(g)
  <2> DEFINE before == PagesIn(f, "FREE")
             after  == PagesIn(g, "FREE")
  <2>1. /\ after \subseteq before \cup PagesOf(b)
        /\ before \subseteq PPN /\ PagesOf(b) \subseteq PPN
    BY <1>2, PagesOfBlock DEF PagesIn
  <2>2. g.free_pages >= Cardinality(after) + (FTL_MAX_PHYSICAL_PAGES - NumPages)
    <3>1. f.free_pages >= Cardinality(before) + (FTL_MAX_PHYSICAL_PAGES - NumPages)
      BY DEF GCInv, Counted
    <3> HIDE DEF before, after
    <3>2. /\ IsFiniteSet(before) /\ IsFiniteSet(PagesOf(b))
          /\ IsFiniteSet(before \cup PagesOf(b))
          /\ before \cap PagesOf(b) \subseteq PPN /\ after \subseteq PPN
      BY <2>1, PageSetsFinite
    <3>3. /\ Cardinality(before \cup PagesOf(b))
               = Cardinality(before) + Cardinality(PagesOf(b)) - Cardinality(before \cap PagesOf(b))
          /\ Cardinality(after) <= Cardinality(before \cup PagesOf(b))
      BY <2>1, <3>2, FS_Union, FS_Subset
    <3>4. /\ Cardinality(before) \in Nat /\ Cardinality(after) \in Nat
          /\ Cardinality(before \cap PagesOf(b)) \in Nat
      BY <2>1, <3>2, PageSetsFinite
    <3>5. Cardinality(PagesOf(b)) = FTL_PAGES_PER_BLOCK
      BY PagesOfBlock
    <3>6. Cardinality(after) <= Cardinality(before) + FTL_PAGES_PER_BLOCK
      BY <3>3, <3>4, <3>5, GeometryAssumption
    <3>7. f.free_pages \in Nat
      BY <1>0 DEF Tables
    <3> QED
      BY <1>1, <3>1, <3>4, <3>6, <3>7, NumPagesBound, GeometryAssumption
  <2>3. \A c \in Blocks : g.erase_count[c] <= g.erases
    <3>1. f.erase_count \in [Blocks -> Nat] /\ f.erases \in Nat
      BY <1>0 DEF Tables
    <3> QED
      BY <1>1, <3>1 DEF GCInv, Counted
  <2> QED
    BY <1>1, <2>2, <2>3 DEF GCInv, Counted
<1> QED
  BY <1>1, <1>3, <1>4, <1>5 DEF GCInv, g

\* A block without VALID pages is erased without loss.
LEMMA ErasedKeeps ==
  ASSUME NEW f, GCInv(f), NEW b \in Blocks,
         \A p \in PagesOf(b) : f.page_state[p] # "VALID"
  PROVE  Keeps(f, gc_erase_block(f, b))
<1> DEFINE g == gc_erase_block(f, b)
<1>1. /\ f \in Tables /\ g \in Tables
      /\ g.page_state = [p \in PPN |-> IF p \in PagesOf(b) THEN "FREE" ELSE f.page_state[p]]
      /\ g.page_data = f.page_data
      /\ g.mapping_table = f.mapping_table /\ g.reverse_map = f.reverse_map
  BY ErasedFields, Zenon DEF GCInv
<1> HIDE DEF g
<1>2. ASSUME NEW l \in LBA, Holds(f, l)
      PROVE  Holds(g, l) /\ ftl_read(g, l) = ftl_read(f, l)
  <2>1. /\ f.mapping_table[l] \in PPN
        /\ f.mapping_table[l] # NONE
        /\ f.reverse_map[f.mapping_table[l]] = l
        /\ f.page_state[f.mapping_table[l]] = "VALID"
    BY <1>1, <1>2, HoldsIff
  <2>2. g.page_state[f.mapping_table[l]] = "VALID"
    BY <1>1, <2>1
  <2>3. Holds(g, l)
    BY <1>1, <2>1, <2>2, HoldsIff
  <2> QED
    BY <1>1, <1>2, <2>3, HoldsIff
<1>3. ASSUME Ordered(f)
      PROVE  Ordered(g)
  <2> SUFFICES ASSUME NEW c \in Blocks, NEW p \in PagesOf(c), NEW q \in PagesOf(c),
                      p < q, g.page_state[q] # "FREE"
               PROVE  g.page_state[p] # "FREE"
    BY DEF Ordered
  <2>1. PagesOf(c) \subseteq PPN
    BY PagesOfBlock
  <2>2. q \notin PagesOf(b) /\ f.page_state[q] # "FREE"
    BY <1>1, <2>1
  <2>3. p \notin PagesOf(b)
    BY <2>2, BlocksDisjoint
  <2> QED
    BY <1>1, <1>3, <2>1, <2>2, <2>3 DEF Ordered
<1> QED
  BY <1>1, <1>2, <1>3 DEF Keeps, g
--------------------------------------------------------------------------------
(* The choice of a victim. *)

\* One round of the scan: block b against the best s so far.
Better(f, s, b) ==
  /\ Eligible(f, b)
  /\ CountIn(f, b, "VALID") < s.fewest
  /\ Policy = "AGED_BLOCKS" => f.erase_count[b] > f.erase_count[s.victim]

Nobody == [victim |-> 0, fewest |-> FTL_PAGES_PER_BLOCK + 1, found |-> FALSE]

Best(f, s, b) ==
  IF Better(f, s, b)
  THEN [victim |-> b, fewest |-> CountIn(f, b, "VALID"), found |-> TRUE]
  ELSE s

Selection(f, n, scan) ==
  scan = [i \in 0 .. n |-> IF i = 0 THEN Nobody ELSE Best(f, scan[i - 1], i - 1)]

\* The scan is well defined, over however many blocks.
LEMMA SelectionExists ==
  ASSUME NEW f, NEW n \in Nat
  PROVE  \E scan : Selection(f, n, scan)
<1> DEFINE Stuck == {k \in Nat : ~ \E scan : Selection(f, k, scan)}
<1>1. SUFFICES ASSUME Stuck # {} PROVE FALSE
  OBVIOUS
<1>2. PICK k \in Stuck : \A j \in Stuck : k <= j
  BY <1>1, LeastElement
<1>3. CASE k = 0
  <2>1. Selection(f, 0, [i \in 0 .. 0 |-> Nobody])
    BY DEF Selection
  <2> QED
    BY <1>2, <1>3, <2>1
<1>4. CASE k # 0
  <2>1. k - 1 \in Nat /\ k - 1 \notin Stuck
    BY <1>2, <1>4
  <2>2. PICK scan : Selection(f, k - 1, scan)
    BY <2>1
  <2> DEFINE longer == [i \in 0 .. k |-> IF i < k THEN scan[i] ELSE Best(f, scan[k - 1], k - 1)]
  <2>3. Selection(f, k, longer)
    <3>1. ASSUME NEW i \in 0 .. k
          PROVE  longer[i] = IF i = 0 THEN Nobody ELSE Best(f, longer[i - 1], i - 1)
      <4>1. CASE i = 0
        BY <1>2, <1>4, <2>1, <2>2, <4>1 DEF Selection
      <4>2. CASE i # 0 /\ i < k
        <5>1. i \in 0 .. k - 1 /\ i - 1 \in 0 .. k - 1 /\ i - 1 < k /\ i - 1 \in 0 .. k
          BY <1>2, <4>2
        <5>2. scan[i] = Best(f, scan[i - 1], i - 1)
          BY <2>2, <4>2, <5>1 DEF Selection
        <5> QED
          BY <4>2, <5>1, <5>2
      <4>3. CASE i = k
        BY <1>2, <1>4, <4>3
      <4> QED
        BY <1>2, <4>1, <4>2, <4>3
    <3>2. longer = [i \in 0 .. k |-> longer[i]]
      OBVIOUS
    <3> HIDE DEF longer
    <3> QED
      BY <3>1, <3>2, Zenon DEF Selection
  <2> QED
    BY <1>2, <2>3
<1> QED
  BY <1>3, <1>4

\* What the scan knows after i blocks.  Only AGED_BLOCKS may pass over a block with
\* fewer VALID pages than the best.
Chosen(f, i, s) ==
  /\ s.fewest \in Nat
  /\ s.found => /\ s.victim \in Blocks
                /\ Eligible(f, s.victim)
                /\ s.fewest = CountIn(f, s.victim, "VALID")
  /\ ~ s.found => s.fewest = FTL_PAGES_PER_BLOCK + 1
  /\ Policy # "AGED_BLOCKS" =>
       \A c \in Blocks : c < i /\ Eligible(f, c) => s.fewest <= CountIn(f, c, "VALID")

\* The number of pages of a block in a state.
LEMMA CountOfBlock ==
  ASSUME NEW f, NEW b \in Blocks, NEW s
  PROVE  CountIn(f, b, s) \in 0 .. FTL_PAGES_PER_BLOCK
<1> DEFINE S == {p \in PagesOf(b) : f.page_state[p] = s}
<1>1. S \subseteq PagesOf(b) /\ PagesOf(b) \subseteq PPN
  BY PagesOfBlock
<1> HIDE DEF S
<1>2. /\ Cardinality(S) <= Cardinality(PagesOf(b))
      /\ Cardinality(S) \in Nat
  BY <1>1, PageSetsFinite, FS_Subset
<1> QED
  BY <1>2, PagesOfBlock, GeometryAssumption DEF CountIn, S

\* The victim is an eligible block, and unless wear is levelled no eligible block has
\* fewer pages to copy: the greedy policy of the code, which COST_BENEFIT shares.
THEOREM VictimIsGreedy ==
  ASSUME NEW f, gc_select_victim(f) # NONE
  PROVE  /\ gc_select_victim(f) \in Blocks
         /\ Eligible(f, gc_select_victim(f))
         /\ Policy # "AGED_BLOCKS" =>
              \A c \in Blocks : Eligible(f, c) =>
                CountIn(f, gc_select_victim(f), "VALID") <= CountIn(f, c, "VALID")
<1> DEFINE scan == CHOOSE scan : Selection(f, NUM_BLOCKS, scan)
<1>1. Selection(f, NUM_BLOCKS, scan)
  BY SelectionExists, GeometryAssumption
<1>2. gc_select_victim(f) = IF scan[NUM_BLOCKS].found THEN scan[NUM_BLOCKS].victim ELSE NONE
  BY DEF gc_select_victim, Selection, Nobody, Best, Better
<1> HIDE DEF scan
<1>3. /\ scan[0] = Nobody
      /\ \A i \in 1 .. NUM_BLOCKS : scan[i] = Best(f, scan[i - 1], i - 1)
  <2>1. 0 \in 0 .. NUM_BLOCKS /\ \A i \in 1 .. NUM_BLOCKS : i \in 0 .. NUM_BLOCKS /\ i # 0
    BY GeometryAssumption
  <2> QED
    BY <1>1, <2>1 DEF Selection
<1> DEFINE Bad == {i \in Nat : i <= NUM_BLOCKS /\ ~ Chosen(f, i, scan[i])}
<1>4. Bad = {}
  <2> SUFFICES ASSUME Bad # {} PROVE FALSE
    OBVIOUS
  <2>1. PICK i \in Bad : \A j \in Bad : i <= j
    BY LeastElement
  <2>2. Chosen(f, 0, Nobody)
    BY GeometryAssumption DEF Chosen, Nobody, Blocks
  <2>3. i \in Nat /\ i # 0 /\ i <= NUM_BLOCKS /\ ~ Chosen(f, i, scan[i])
    BY <1>3, <2>1, <2>2
  <2>4. i - 1 \in Nat /\ i \in 1 .. NUM_BLOCKS /\ i - 1 \in Blocks /\ i - 1 <= NUM_BLOCKS
    BY <2>3, GeometryAssumption DEF Blocks
  <2>5. Chosen(f, i - 1, scan[i - 1])
    BY <2>1, <2>4
  <2>6. scan[i] = Best(f, scan[i - 1], i - 1)
    BY <1>3, <2>4
  <2> HIDE DEF Bad
  <2>7. \A c \in Blocks : CountIn(f, c, "VALID") \in Nat /\ CountIn(f, c, "VALID") <= FTL_PAGES_PER_BLOCK
    BY CountOfBlock, GeometryAssumption
  <2>8. \A c \in Blocks : c < i <=> c < i - 1 \/ c = i - 1
    BY <2>3 DEF Blocks
  <2>9. CASE Better(f, scan[i - 1], i - 1)
    <3>1. /\ scan[i].victim = i - 1 /\ scan[i].found
          /\ scan[i].fewest = CountIn(f, i - 1, "VALID")
          /\ scan[i].fewest < scan[i - 1].fewest
          /\ Eligible(f, i - 1)
      BY <2>6, <2>9 DEF Best, Better
    <3> QED
      BY <2>3, <2>4, <2>5, <2>7, <2>8, <3>1 DEF Chosen
  <2>10. CASE ~ Better(f, scan[i - 1], i - 1)
    <3>1. scan[i] = scan[i - 1]
      BY <2>6, <2>10 DEF Best
    <3>2. Policy # "AGED_BLOCKS" /\ Eligible(f, i - 1) =>
             scan[i - 1].fewest <= CountIn(f, i - 1, "VALID")
      BY <2>4, <2>5, <2>7, <2>10 DEF Better, Chosen
    <3> QED
      BY <2>3, <2>5, <2>8, <3>1, <3>2 DEF Chosen
  <2> QED
    BY <2>9, <2>10
<1>5. Chosen(f, NUM_BLOCKS, scan[NUM_BLOCKS])
  BY <1>4, GeometryAssumption
<1>6. \A c \in Blocks : c < NUM_BLOCKS
  BY GeometryAssumption DEF Blocks
<1>7. scan[NUM_BLOCKS].found /\ gc_select_victim(f) = scan[NUM_BLOCKS].victim
  BY <1>2
<1> QED
  BY <1>5, <1>6, <1>7 DEF Chosen
--------------------------------------------------------------------------------
(* The operations as wholes. *)

\* A collection: the victim is emptied, erased, and counted.
Collected(f, b) == gc_erase_block(gc_migrate(f, b), b)

\* A whole collection keeps the invariant, erases its block once and, with room ahead,
\* keeps every block's data; the erased block held no VALID page any more.
LEMMA CollectedInv ==
  ASSUME NEW f, GCInv(f), NEW b \in Blocks
  PROVE  /\ GCInv(Collected(f, b))
         /\ Collected(f, b).erases = f.erases + 1
         /\ Collected(f, b).erase_count = [f.erase_count EXCEPT ![b] = f.erase_count[b] + 1]
         /\ CountIn(gc_migrate(f, b), b, "VALID") = 0
         /\ RoomAhead(f, b) => Keeps(f, Collected(f, b))
<1> DEFINE m == gc_migrate(f, b)
           g == Collected(f, b)
<1>1. Round(f, b, FTL_PAGES_PER_BLOCK, m)
  BY MigrateRound
<1>2. GCInv(m) /\ SameWear(f, m) /\ m \in Tables
  BY <1>1 DEF Round, GCInv
<1>3. \A p \in PagesOf(b) : m.page_state[p] # "VALID"
  <2>1. \A p \in PagesOf(b) : p < b * FTL_PAGES_PER_BLOCK + FTL_PAGES_PER_BLOCK
    BY PagesOfBlock, NumPagesBound, GeometryAssumption
  <2> QED
    BY <1>1, <2>1 DEF Round
<1>4. g = gc_erase_block(m, b)
  BY DEF Collected
<1> HIDE DEF m, g
<1>5. GCInv(g)
  BY <1>2, <1>4, ErasedInv
<1>6. /\ g.erases = m.erases + 1
      /\ g.erase_count = [m.erase_count EXCEPT ![b] = m.erase_count[b] + 1]
  BY <1>2, <1>4, ErasedFields, Zenon
<1>7. Keeps(m, g)
  BY <1>2, <1>3, <1>4, ErasedKeeps
<1>8. RoomAhead(f, b) => Keeps(f, g)
  BY <1>1, <1>7 DEF Round, Keeps
<1>9. CountIn(m, b, "VALID") = 0
  <2>1. {p \in PagesOf(b) : m.page_state[p] = "VALID"} = {}
    BY <1>3
  <2> QED
    BY <2>1, FS_EmptySet DEF CountIn
<1> QED
  BY <1>2, <1>5, <1>6, <1>8, <1>9 DEF SameWear, m, g

\* gc_trigger collects its victim or does nothing.
LEMMA TriggerIs ==
  ASSUME NEW f
  PROVE  \/ gc_trigger(f).rc # 1 /\ gc_trigger(f).ftl = f
         \/ /\ gc_trigger(f).rc = 1
            /\ gc_select_victim(f) \in Blocks
            /\ gc_trigger(f).ftl = Collected(f, gc_select_victim(f))
<1>1. gc_select_victim(f) # NONE => gc_select_victim(f) \in Blocks
  BY VictimIsGreedy
<1> QED
  BY <1>1 DEF gc_trigger, Collected

\* With every mapped block holding its page, a write leaves it so and changes the
\* contents of its block alone.
LEMMA WriteReliable ==
  ASSUME NEW f, GCInv(f), AllHold(f), Ordered(f), NEW l \in LBA, NEW d \in Data,
         ftl_write(f, l, d).rc = 0
  PROVE  LET w == ftl_write(f, l, d).ftl
         IN  /\ AllHold(w) /\ Ordered(w)
             /\ ContentOf(w) = [ContentOf(f) EXCEPT ![l] = d]
<1> DEFINE w == ftl_write(f, l, d).ftl
<1>0. f \in Tables
  BY DEF GCInv
<1>1. f.mapping_table[l] # NONE => /\ f.reverse_map[f.mapping_table[l]] = l
                                   /\ f.page_state[f.mapping_table[l]] # "FREE"
  BY <1>0, HoldsIff DEF AllHold
<1>2. /\ Holds(w, l)
      /\ ftl_read(w, l) = [rc |-> 0, data |-> d]
      /\ \A m \in LBA \ {l} :
           /\ w.mapping_table[m] = f.mapping_table[m]
           /\ Holds(f, m) => Holds(w, m) /\ ftl_read(w, m) = ftl_read(f, m)
  BY <1>1, WriteHolds
<1>3. Ordered(w)
  BY <1>1, WriteOrdered
<1> HIDE DEF w
<1>4. AllHold(w)
  BY <1>2 DEF AllHold
<1>5. ContentOf(w)[l] = d
  BY <1>2 DEF ContentOf
<1>6. ASSUME NEW m \in LBA \ {l}
      PROVE  ContentOf(w)[m] = ContentOf(f)[m]
  <2>1. CASE f.mapping_table[m] = NONE
    BY <1>2, <2>1, ContentAt
  <2>2. CASE f.mapping_table[m] # NONE
    BY <1>2, <2>2 DEF AllHold, ContentOf
  <2> QED
    BY <2>1, <2>2
<1>7. ContentOf(w) = [ContentOf(f) EXCEPT ![l] = d]
  BY <1>5, <1>6, ContentChanged
<1> QED
  BY <1>3, <1>4, <1>7 DEF w

\* The same of a trim.
LEMMA TrimReliable ==
  ASSUME NEW f, GCInv(f), AllHold(f), Ordered(f), NEW l \in LBA
  PROVE  LET g == ftl_trim(f, l)
         IN  /\ AllHold(g) /\ Ordered(g)
             /\ ContentOf(g) = [ContentOf(f) EXCEPT ![l] = Zero]
<1> DEFINE g    == ftl_trim(f, l)
           phys == f.mapping_table[l]
<1>0. f \in Tables /\ f.mapping_table \in [LBA -> PPN \cup {NONE}]
  BY DEF GCInv, Tables
<1>1. /\ g.mapping_table = [f.mapping_table EXCEPT ![l] = NONE]
      /\ \/ phys = NONE /\ g = f
         \/ phys \in PPN /\ Invalidated(f, phys, g)
  BY <1>0, TrimMarks
<1> HIDE DEF g
<1>2. ASSUME NEW m \in LBA \ {l}
      PROVE  /\ g.mapping_table[m] = f.mapping_table[m]
             /\ Holds(f, m) => Holds(g, m) /\ ftl_read(g, m) = ftl_read(f, m)
  <2>1. g.mapping_table[m] = f.mapping_table[m]
    BY <1>0, <1>1
  <2>2. CASE phys = NONE /\ g = f
    BY <2>1, <2>2
  <2>3. CASE phys \in PPN /\ Invalidated(f, phys, g)
    <3>1. phys # NONE
      BY <2>3, NumPagesBound DEF PPN, NONE
    <3>2. f.reverse_map[phys] = l
      BY <1>0, <3>1, HoldsIff DEF AllHold
    <3>3. Holds(f, m) => f.mapping_table[m] # phys
      BY <3>2 DEF Holds
    <3> HIDE DEF phys
    <3> QED
      BY <1>0, <2>1, <2>3, <3>3, InvalidatedHolds
  <2> QED
    BY <1>1, <2>2, <2>3
<1>3. AllHold(g)
  <2>1. g.mapping_table[l] = NONE
    BY <1>0, <1>1
  <2> QED
    BY <1>2, <2>1 DEF AllHold
<1>4. Ordered(g)
  <2>1. CASE phys \in PPN /\ Invalidated(f, phys, g)
    <3>1. f.page_state[phys] # "FREE"
      <4>1. phys # NONE
        BY <2>1, NumPagesBound DEF PPN, NONE
      <4> QED
        BY <1>0, <4>1, HoldsIff DEF AllHold
    <3> HIDE DEF phys
    <3> QED
      BY <1>0, <2>1, <3>1, InvalidatedOrdered
  <2> QED
    BY <1>1, <2>1
<1>5. ContentOf(g)[l] = Zero
  BY <1>0, <1>1, ContentAt
<1>6. ASSUME NEW m \in LBA \ {l}
      PROVE  ContentOf(g)[m] = ContentOf(f)[m]
  <2>1. CASE f.mapping_table[m] = NONE
    BY <1>2, <2>1, ContentAt
  <2>2. CASE f.mapping_table[m] # NONE
    BY <1>2, <2>2 DEF AllHold, ContentOf
  <2> QED
    BY <2>1, <2>2
<1>7. ContentOf(g) = [ContentOf(f) EXCEPT ![l] = Zero]
  BY <1>5, <1>6, ContentChanged
<1> QED
  BY <1>3, <1>4, <1>7 DEF g
--------------------------------------------------------------------------------
(* The theorems. *)

GCInductive ==
  /\ GCInv(ftl)
  /\ ftl.erases <= MaxErases
  /\ roomy \in BOOLEAN
  /\ roomy => AllHold(ftl) /\ Ordered(ftl)

\* The invariant holds from initialisation on, through every write, trim and collection.
LEMMA GCInvariant == GCSpec => []GCInductive
<1>1. GCInit => GCInductive
  <2>1. ftl_init.erases = 0
    BY DEF ftl_init
  <2> QED
    BY <2>1, InitGC, GCAssumption DEF GCInit, Init, GCInductive
<1>2. GCInductive /\ [GCNext]_gc_vars => GCInductive'
  <2> SUFFICES ASSUME GCInductive, [GCNext]_gc_vars
               PROVE  GCInductive'
    OBVIOUS
  <2>0. GCInv(ftl) /\ ftl \in Tables /\ ftl.erases \in Nat
    BY DEF GCInductive, GCInv, Tables
  <2>1. ASSUME NEW l \in LBA, NEW d \in Data, HostWrite(l, d)
        PROVE  GCInductive'
    <3>1. /\ ftl' = ftl_write(ftl, l, d).ftl
          /\ roomy' = (roomy /\ ftl_write(ftl, l, d).rc = 0)
      BY <2>1 DEF HostWrite, FtlWrite
    <3>2. GCInv(ftl') /\ SameWear(ftl, ftl')
      BY <2>0, <3>1, WriteInv
    <3>3. roomy' => AllHold(ftl') /\ Ordered(ftl')
      BY <2>0, <3>1, WriteReliable DEF GCInductive
    <3>4. roomy' \in BOOLEAN
      BY <3>1
    <3> QED
      BY <3>2, <3>3, <3>4 DEF GCInductive, SameWear
  <2>2. ASSUME NEW l \in LBA, HostTrim(l)
        PROVE  GCInductive'
    <3>1. ftl' = ftl_trim(ftl, l) /\ roomy' = roomy
      BY <2>2 DEF HostTrim, FtlTrim
    <3>2. \/ ftl' = ftl
          \/ \E p \in PPN : Invalidated(ftl, p, ftl')
      BY <2>0, <3>1, TrimMarks
    <3>3. GCInv(ftl') /\ SameWear(ftl, ftl')
      <4>1. CASE ftl' = ftl
        BY <2>0, <4>1, Zenon DEF SameWear
      <4>2. ASSUME NEW p \in PPN, Invalidated(ftl, p, ftl')
            PROVE  GCInv(ftl') /\ SameWear(ftl, ftl')
        BY <2>0, <4>2, InvalidatedInv, Zenon DEF Invalidated, SameCounters
      <4> QED
        BY <3>2, <4>1, <4>2
    <3>4. roomy' => AllHold(ftl') /\ Ordered(ftl')
      BY <2>0, <3>1, TrimReliable DEF GCInductive
    <3> QED
      BY <3>1, <3>3, <3>4 DEF GCInductive, SameWear
  <2>3. CASE GcTrigger
    <3> DEFINE b == gc_select_victim(ftl)
    <3>1. /\ ftl.erases < MaxErases
          /\ ftl' = gc_trigger(ftl).ftl
          /\ roomy' = (roomy /\ (gc_trigger(ftl).rc = 1 => RoomAhead(ftl, b)))
      BY <2>3 DEF GcTrigger
    <3>2. CASE gc_trigger(ftl).rc # 1 /\ gc_trigger(ftl).ftl = ftl
      BY <3>1, <3>2 DEF GCInductive
    <3>3. CASE /\ gc_trigger(ftl).rc = 1
               /\ b \in Blocks
               /\ gc_trigger(ftl).ftl = Collected(ftl, b)
      <4> HIDE DEF b
      <4>1. /\ GCInv(ftl')
            /\ ftl'.erases = ftl.erases + 1
            /\ RoomAhead(ftl, b) => Keeps(ftl, ftl')
        <5>1. ftl' = Collected(ftl, b)
          BY <3>1, <3>3
        <5>2. /\ GCInv(Collected(ftl, b))
              /\ Collected(ftl, b).erases = ftl.erases + 1
              /\ RoomAhead(ftl, b) => Keeps(ftl, Collected(ftl, b))
          BY <2>0, <3>3, CollectedInv
        <5> QED
          BY <5>1, <5>2, Zenon
      <4>2. ftl'.erases <= MaxErases
        BY <2>0, <3>1, <4>1, GCAssumption
      <4>3. roomy' => AllHold(ftl') /\ Ordered(ftl')
        BY <3>1, <3>3, <4>1 DEF GCInductive, Keeps, AllHold
      <4>4. roomy' \in BOOLEAN
        BY <3>1
      <4> QED
        BY <4>1, <4>2, <4>3, <4>4 DEF GCInductive
    <3> QED
      BY <3>2, <3>3, TriggerIs
  <2>4. CASE UNCHANGED gc_vars
    BY <2>4 DEF gc_vars, GCInductive
  <2> QED
    BY <2>1, <2>2, <2>3, <2>4 DEF GCNext
<1> QED
  BY <1>1, <1>2, PTL DEF GCSpec

\* In every state, with the collector at work: the tables keep their types and no block
\* is erased more often than all of them together, every program of flash is a host
\* write or a copy, free_pages never falls below the FREE pages (so -2 is never
\* answered), and while the host leaves room each block is programmed in order.
THEOREM CollectorSound == GCSpec => []GCSound
<1>1. GCInductive => GCSound
  <2> SUFFICES ASSUME GCInductive PROVE GCSound
    OBVIOUS
  <2>0. ftl \in Tables
    BY DEF GCInductive, GCInv
  <2>1. GCTypeOK
    <3>1. ftl.erase_count \in [Blocks -> 0 .. MaxErases] /\ ftl.erases \in 0 .. MaxErases
      <4>1. ftl.erase_count \in [Blocks -> Nat] /\ ftl.erases \in Nat
        BY <2>0 DEF Tables
      <4>2. \A b \in Blocks : ftl.erase_count[b] <= ftl.erases
        BY DEF GCInductive, GCInv, Counted
      <4>3. ftl.erases <= MaxErases
        BY DEF GCInductive
      <4> QED
        BY <4>1, <4>2, <4>3, GCAssumption
    <3> QED
      BY <2>0, <3>1 DEF GCTypeOK, Tables
  <2>2. CountersAccount
    BY DEF GCInductive, GCInv, Counted, CountersAccount
  <2>3. BlockProgrammedInOrder
    <3> SUFFICES ASSUME roomy, NEW b \in Blocks, NEW p \in PagesOf(b), NEW q \in PagesOf(b),
                        p < q, ftl.page_state[p] = "FREE"
                 PROVE  ftl.page_state[q] = "FREE"
      BY DEF BlockProgrammedInOrder
    <3> QED
      BY DEF GCInductive, Ordered
  <2> QED
    BY <2>1, <2>2, <2>3 DEF GCSound
<1> QED
  BY <1>1, GCInvariant, PTL

\* A step that erases a block is a collection of that block.
LEMMA ErasureCollects ==
  ASSUME GCInductive, [GCNext]_gc_vars, NEW b \in Blocks,
         ftl'.erase_count[b] > ftl.erase_count[b]
  PROVE  ftl' = Collected(ftl, b)
<1>0. /\ GCInv(ftl) /\ ftl \in Tables
      /\ ftl.erase_count \in [Blocks -> Nat]
  BY DEF GCInductive, GCInv, Tables
<1>1. ~ (ftl'.erase_count = ftl.erase_count)
  BY <1>0
<1>2. ASSUME NEW l \in LBA, NEW d \in Data, HostWrite(l, d)
      PROVE  FALSE
  BY <1>0, <1>1, <1>2, WriteInv DEF HostWrite, FtlWrite, SameWear
<1>3. ASSUME NEW l \in LBA, HostTrim(l)
      PROVE  FALSE
  BY <1>0, <1>1, <1>3, TrimMarks DEF HostTrim, FtlTrim, Invalidated, SameCounters, SameWear
<1>4. CASE GcTrigger
  <2> DEFINE v == gc_select_victim(ftl)
  <2>1. ftl' = gc_trigger(ftl).ftl
    BY <1>4 DEF GcTrigger
  <2>2. v \in Blocks /\ ftl' = Collected(ftl, v)
    BY <1>1, <2>1, TriggerIs
  <2> HIDE DEF v
  <2>3. ftl'.erase_count = [ftl.erase_count EXCEPT ![v] = ftl.erase_count[v] + 1]
    BY <1>0, <2>2, CollectedInv
  <2>4. b = v
    BY <1>0, <2>3
  <2> QED
    BY <2>2, <2>4
<1>5. CASE UNCHANGED gc_vars
  BY <1>1, <1>5 DEF gc_vars
<1> QED
  BY <1>2, <1>3, <1>4, <1>5 DEF GCNext

\* When a block is erased no VALID page is left in it, however its pages were moved.
THEOREM VictimsDrained == GCSpec => VictimDrained
<1>1. GCInductive /\ [GCNext]_gc_vars =>
        \A b \in Blocks : ftl'.erase_count[b] > ftl.erase_count[b] =>
          CountIn(gc_migrate(ftl, b), b, "VALID") = 0
  BY CollectedInv DEF GCInductive
<1> QED
  BY <1>1, GCInvariant, PTL DEF GCSpec, VictimDrained

\* With room ahead for its VALID pages, collecting a block loses no data that a read
\* could return, in any state, however many writes were refused before.
THEOREM DataPreserved == GCSpec => CollectionPreservesData
<1>1. GCInductive /\ [GCNext]_gc_vars =>
        \A b \in Blocks :
          ftl'.erase_count[b] > ftl.erase_count[b] /\ RoomAhead(ftl, b) =>
            \A l \in LBA : Holds(ftl, l) => ftl_read(ftl', l) = ftl_read(ftl, l)
  <2> SUFFICES ASSUME GCInductive, [GCNext]_gc_vars, NEW b \in Blocks,
                      ftl'.erase_count[b] > ftl.erase_count[b], RoomAhead(ftl, b)
               PROVE  Keeps(ftl, ftl')
    BY DEF Keeps
  <2> QED
    BY ErasureCollects, CollectedInv DEF GCInductive
<1> QED
  BY <1>1, GCInvariant, PTL DEF GCSpec, CollectionPreservesData

\* While the host leaves room, translation layer and collector together are a block
\* device that accepts every write and loses nothing: collections are invisible.
THEOREM ReliableWhileRoomy == GCSpec => ReliableWithRoom
<1>1. GCInductive /\ [GCNext]_gc_vars => (roomy' => [Reliable!Next]_Content)
  <2> SUFFICES ASSUME GCInductive, [GCNext]_gc_vars, roomy'
               PROVE  [Reliable!Next]_Content
    OBVIOUS
  <2>0. GCInv(ftl)
    BY DEF GCInductive
  <2>1. ASSUME NEW l \in LBA, NEW d \in Data, HostWrite(l, d)
        PROVE  Reliable!Next
    <3>1. /\ ftl' = ftl_write(ftl, l, d).ftl
          /\ roomy /\ ftl_write(ftl, l, d).rc = 0
      BY <2>1 DEF HostWrite, FtlWrite
    <3>2. Content' = [Content EXCEPT ![l] = d]
      BY <2>0, <3>1, WriteReliable DEF GCInductive, Content
    <3> QED
      BY <3>2 DEF Reliable!Next, Reliable!Write
  <2>2. ASSUME NEW l \in LBA, HostTrim(l)
        PROVE  Reliable!Next
    <3>1. ftl' = ftl_trim(ftl, l) /\ roomy
      BY <2>2 DEF HostTrim, FtlTrim
    <3>2. Content' = [Content EXCEPT ![l] = Zero]
      BY <2>0, <3>1, TrimReliable DEF GCInductive, Content
    <3> QED
      BY <3>2 DEF Reliable!Next, Reliable!Trim
  <2>3. CASE GcTrigger
    <3> DEFINE b == gc_select_victim(ftl)
    <3>1. /\ ftl' = gc_trigger(ftl).ftl
          /\ roomy /\ (gc_trigger(ftl).rc = 1 => RoomAhead(ftl, b))
      BY <2>3 DEF GcTrigger
    <3>2. CASE gc_trigger(ftl).rc # 1 /\ gc_trigger(ftl).ftl = ftl
      BY <3>1, <3>2 DEF Content
    <3>3. CASE /\ gc_trigger(ftl).rc = 1
               /\ b \in Blocks
               /\ gc_trigger(ftl).ftl = Collected(ftl, b)
      <4> HIDE DEF b
      <4>1. Keeps(ftl, ftl')
        <5>1. ftl' = Collected(ftl, b) /\ RoomAhead(ftl, b)
          BY <3>1, <3>3
        <5>2. Keeps(ftl, Collected(ftl, b))
          BY <2>0, <3>3, <5>1, CollectedInv
        <5> QED
          BY <5>1, <5>2, Zenon
      <4>2. AllHold(ftl)
        BY <3>1 DEF GCInductive
      <4>3. ASSUME NEW l \in LBA
            PROVE  ContentOf(ftl')[l] = ContentOf(ftl)[l]
        <5>1. CASE ftl.mapping_table[l] = NONE
          BY <4>1, <5>1, ContentAt DEF Keeps
        <5>2. CASE ftl.mapping_table[l] # NONE
          BY <4>1, <4>2, <5>2 DEF Keeps, AllHold, ContentOf
        <5> QED
          BY <5>1, <5>2
      <4> QED
        BY <4>3, ContentEqual DEF Content
    <3> QED
      BY <3>2, <3>3, TriggerIs
  <2>4. CASE UNCHANGED gc_vars
    BY <2>4 DEF gc_vars, Content
  <2> QED
    BY <2>1, <2>2, <2>3, <2>4 DEF GCNext
<1> QED
  BY <1>1, GCInvariant, PTL DEF GCSpec, ReliableWithRoom
================================================================================
