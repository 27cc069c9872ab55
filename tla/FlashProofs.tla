------------------------------ MODULE FlashProofs ------------------------------
(***************************************************************************)
(* Proofs about the wear leveler of module WearLeveling and the two further*)
(* ways into the translation layer of module FTLExt, put together in       *)
(* MCFlash: for every number of blocks and of erasures, every burst and    *)
(* threshold, every array and every buffer; and about the SSD controller   *)
(* of module SSDController, for every device, queue depth, number of       *)
(* channels and number of commands.                                        *)
(*                                                                         *)
(* The wear leveler stays even because between two snapshots all erasures  *)
(* go to one block, a least worn one of the snapshot.  A buffer is flushed *)
(* one page at a time; each round moves one block and leaves the others    *)
(* where they are.                                                         *)
(*                                                                         *)
(* The controller's issue queue always holds the last commands of the      *)
(* history, so ssdc_process executes the history in order.  The inductive  *)
(* invariant says what the translation layer shows after the executed part *)
(* of it: each block reads the data of its last successful write, or an    *)
(* error that a refused write explains, and write_pointer counts the       *)
(* successful writes.                                                      *)
(***************************************************************************)
EXTENDS MCFlash, SSDController, FTLProofs, SequenceTheorems

(* The scans of the wear leveler. *)

\* The least counter is the counter of some block.
LEMMA LeastIs ==
  ASSUME NEW c \in [WLBlocks -> Nat]
  PROVE  /\ Least(c) \in Nat
         /\ \E b \in WLBlocks : c[b] = Least(c)
         /\ \A b \in WLBlocks : Least(c) <= c[b]
<1> DEFINE Values == {c[b] : b \in WLBlocks}
<1>1. Values \in SUBSET Nat /\ c[0] \in Values
  BY WearAssumption DEF WLBlocks
<1>2. \E n \in Values : \A m \in Values : n <= m
  BY <1>1, LeastElement
<1>3. \E n \in Values : \A b \in WLBlocks : n <= c[b]
  BY <1>2
<1>4. Least(c) \in Values /\ \A b \in WLBlocks : Least(c) <= c[b]
  BY <1>3 DEF Least
<1> QED
  BY <1>1, <1>4

\* So is the greatest one: a first block that no earlier one or itself exceeds.
LEMMA GreatestIs ==
  ASSUME NEW c \in [WLBlocks -> Nat]
  PROVE  /\ Greatest(c) \in Nat
         /\ \E b \in WLBlocks : c[b] = Greatest(c)
         /\ \A b \in WLBlocks : Greatest(c) >= c[b]
<1> DEFINE Bad == {k \in Nat : k < WL_MAX_BLOCKS
                                 /\ ~ \E b \in 0 .. k : \A i \in 0 .. k : c[i] <= c[b]}
<1>0. WL_MAX_BLOCKS \in Nat \ {0}
  BY WearAssumption
<1>1. Bad = {}
  <2> SUFFICES ASSUME Bad # {} PROVE FALSE
    OBVIOUS
  <2>1. PICK k \in Bad : \A j \in Bad : k <= j
    BY LeastElement
  <2>0. k \in Nat /\ k < WL_MAX_BLOCKS /\ ~ \E b \in 0 .. k : \A i \in 0 .. k : c[i] <= c[b]
    BY <2>1
  <2>2. \A i \in 0 .. k : i \in WLBlocks /\ c[i] \in Nat
    <3>1. \A i \in 0 .. k : i \in 0 .. WL_MAX_BLOCKS - 1
      BY <1>0, <2>0
    <3> QED
      BY <3>1 DEF WLBlocks
  <2>3. k # 0
    <3>1. c[0] <= c[0]
      BY <2>0, <2>2
    <3> QED
      BY <2>0, <3>1
  <2>4. k - 1 \in Nat /\ k - 1 < WL_MAX_BLOCKS /\ ~ (k <= k - 1)
    BY <1>0, <2>0, <2>3
  <2>5. PICK b \in 0 .. k - 1 : \A i \in 0 .. k - 1 : c[i] <= c[b]
    BY <2>1, <2>4
  <2> HIDE DEF Bad
  <2>6. \A i \in 0 .. k : i \in 0 .. k - 1 \/ i = k
    BY <2>0
  <2>7. b \in 0 .. k /\ k \in 0 .. k
    BY <2>0
  <2>8. c[b] \in Nat /\ c[k] \in Nat
    BY <2>2, <2>7
  <2>9. CASE c[k] <= c[b]
    <3>1. \A i \in 0 .. k : c[i] <= c[b]
      BY <2>5, <2>6, <2>9
    <3> QED
      BY <2>0, <2>7, <3>1
  <2>10. CASE c[b] <= c[k]
    <3> SUFFICES ASSUME NEW i \in 0 .. k PROVE c[i] <= c[k]
      BY <2>0, <2>7
    <3>1. c[i] \in Nat
      BY <2>2
    <3>2. c[i] <= c[b] \/ i = k
      BY <2>5, <2>6
    <3> QED
      BY <2>8, <2>10, <3>1, <3>2
  <2> QED
    BY <2>8, <2>9, <2>10
<1>2. WL_MAX_BLOCKS - 1 \in Nat /\ WL_MAX_BLOCKS - 1 < WL_MAX_BLOCKS
  BY <1>0
<1>3. \E b \in WLBlocks : \A i \in WLBlocks : c[i] <= c[b]
  BY <1>1, <1>2 DEF WLBlocks
<1>4. \E n \in {c[b] : b \in WLBlocks} : \A b \in WLBlocks : n >= c[b]
  BY <1>3
<1>5. Greatest(c) \in {c[b] : b \in WLBlocks} /\ \A b \in WLBlocks : Greatest(c) >= c[b]
  BY <1>4 DEF Greatest
<1> QED
  BY <1>5

\* The block picked is one of the least worn of the snapshot.
LEMMA PickIs ==
  ASSUME NEW c \in [WLBlocks -> Nat]
  PROVE  /\ wl_select_block(c) \in WLBlocks
         /\ c[wl_select_block(c)] = Least(c)
<1> DEFINE First == {b \in WLBlocks : c[b] = Least(c)}
<1>1. First \in SUBSET Nat /\ First # {}
  BY LeastIs, WearAssumption DEF WLBlocks
<1>2. \E b \in First : \A i \in First : b <= i
  BY <1>1, LeastElement
<1>3. \E b \in WLBlocks : c[b] = Least(c) /\ \A i \in WLBlocks : c[i] = Least(c) => b <= i
  BY <1>2
<1> QED
  BY <1>3 DEF wl_select_block

\* The scan for the last block with a value finds one if there is one.
LEMMA LastWithIs ==
  ASSUME NEW c \in [WLBlocks -> Nat], NEW n, \E b \in WLBlocks : c[b] = n
  PROVE  LastWith(c, n) \in WLBlocks /\ c[LastWith(c, n)] = n
<1> DEFINE Back == {k \in Nat : \E b \in WLBlocks : c[b] = n /\ k = WL_MAX_BLOCKS - b}
<1>0. WL_MAX_BLOCKS \in Nat
  BY WearAssumption
<1>1. Back # {}
  <2>1. PICK b \in WLBlocks : c[b] = n
    OBVIOUS
  <2>2. WL_MAX_BLOCKS - b \in Nat
    BY <1>0 DEF WLBlocks
  <2> QED
    BY <2>1, <2>2
<1>2. PICK k \in Back : \A j \in Back : k <= j
  BY <1>1, LeastElement
<1>3. PICK b \in WLBlocks : c[b] = n /\ k = WL_MAX_BLOCKS - b
  BY <1>2
<1>4. ASSUME NEW i \in WLBlocks, c[i] = n
      PROVE  i <= b
  <2>1. WL_MAX_BLOCKS - i \in Back
    BY <1>0, <1>4 DEF WLBlocks
  <2> QED
    BY <1>0, <1>2, <1>3, <2>1 DEF WLBlocks
<1> QED
  BY <1>3, <1>4 DEF LastWith
--------------------------------------------------------------------------------
(* The wear leveler. *)

\* The counters are the wear until a balance rewrites one; and while the leveler alone
\* chooses, only the block the snapshot picks has been erased since the snapshot.
WearInv ==
  /\ WLTypeOK
  /\ algorithm = "DYNAMIC" \/ balances = 0 =>
       erase_count = worn /\ (since = 0 => stats = worn)
  /\ algorithm = "DYNAMIC" /\ levelled =>
       /\ since <= WLBurst
       /\ worn = [stats EXCEPT ![wl_select_block(stats)] = stats[wl_select_block(stats)] + since]
       /\ \A b, c \in WLBlocks : stats[b] - stats[c] <= WLBurst

\* Erasing only the block picked, no more often than the burst, keeps the wear even.
LEMMA WearSpread ==
  ASSUME WearInv, algorithm = "DYNAMIC", levelled
  PROVE  \A b, c \in WLBlocks : worn[b] - worn[c] <= WLBurst
<1> DEFINE t == wl_select_block(stats)
<1>1. /\ stats \in [WLBlocks -> Nat] /\ since \in Nat /\ since <= WLBurst /\ WLBurst \in Nat
      /\ worn = [stats EXCEPT ![t] = stats[t] + since]
      /\ \A b, c \in WLBlocks : stats[b] - stats[c] <= WLBurst
  BY WearAssumption DEF WearInv, WLTypeOK
<1>2. t \in WLBlocks /\ \A b \in WLBlocks : stats[t] <= stats[b]
  BY <1>1, PickIs, LeastIs
<1> HIDE DEF t
<1> SUFFICES ASSUME NEW b \in WLBlocks, NEW c \in WLBlocks
             PROVE  worn[b] - worn[c] <= WLBurst
  OBVIOUS
<1>3. /\ stats[b] \in Nat /\ stats[c] \in Nat /\ stats[t] <= stats[c]
      /\ stats[b] - stats[c] <= WLBurst
  BY <1>1, <1>2
<1>4. /\ worn[b] = IF b = t THEN stats[b] + since ELSE stats[b]
      /\ worn[c] = IF c = t THEN stats[c] + since ELSE stats[c]
  BY <1>1, <1>2
<1> QED
  BY <1>1, <1>3, <1>4

\* A balance rewrites counters with natural numbers, and none under DYNAMIC.
LEMMA BalancedIs ==
  ASSUME NEW c \in [WLBlocks -> Nat]
  PROVE  /\ Balanced(c) \in [WLBlocks -> Nat]
         /\ algorithm = "DYNAMIC" \/ ~TooWide(c) => Balanced(c) = c
<1>1. CASE ~TooWide(c) \/ algorithm = "DYNAMIC"
  BY <1>1 DEF Balanced
<1>2. CASE ~(~TooWide(c) \/ algorithm = "DYNAMIC")
  <2> DEFINE hi == LastWith(c, Greatest(c))
             lo == LastWith(c, Least(c))
             h  == [c EXCEPT ![hi] = c[hi] \div 2]
  <2>1. hi \in WLBlocks /\ lo \in WLBlocks
    BY LastWithIs, LeastIs, GreatestIs
  <2>2. Balanced(c) = [h EXCEPT ![lo] = h[lo] * 2]
    BY <1>2 DEF Balanced
  <2> HIDE DEF hi, lo
  <2>3. c[hi] \div 2 \in Nat
    BY <2>1
  <2>4. h \in [WLBlocks -> Nat]
    BY <2>3
  <2> HIDE DEF h
  <2>5. h[lo] * 2 \in Nat
    BY <2>1, <2>4
  <2> QED
    BY <1>2, <2>2, <2>4, <2>5
<1> QED
  BY <1>1, <1>2

\* A fresh leveler satisfies the invariant.
LEMMA WearInit == WLInit => WearInv
<1> SUFFICES ASSUME WLInit PROVE WearInv
  OBVIOUS
<1> DEFINE zero == [b \in WLBlocks |-> 0]
<1>1. /\ erase_count = zero /\ stats = zero /\ worn = zero
      /\ balances = 0 /\ since = 0 /\ levelled = TRUE
      /\ algorithm \in {"DYNAMIC", "STATIC", "HYBRID"}
  BY DEF WLInit
<1>2. zero \in [WLBlocks -> Nat] /\ zero \in [WLBlocks -> 0 .. MaxWear]
  BY WearAssumption
<1>3. WLTypeOK
  BY <1>1, <1>2, WearAssumption DEF WLTypeOK
<1>4. wl_select_block(zero) \in WLBlocks
  BY <1>2, PickIs
<1>5. zero = [zero EXCEPT ![wl_select_block(zero)] = zero[wl_select_block(zero)] + 0]
  BY <1>4
<1>6. \A b, c \in WLBlocks : zero[b] - zero[c] <= WLBurst
  BY WearAssumption
<1> HIDE DEF zero
<1> QED
  BY <1>1, <1>3, <1>5, <1>6, WearAssumption DEF WearInv

\* Every step of the leveler, the collector's erasures among them, keeps it.
LEMMA WearNext == WearInv /\ [WLNext]_wl_vars => WearInv'
<1> SUFFICES ASSUME WearInv, [WLNext]_wl_vars PROVE WearInv'
  OBVIOUS
<1>0. /\ algorithm \in {"DYNAMIC", "STATIC", "HYBRID"}
      /\ erase_count \in [WLBlocks -> Nat] /\ stats \in [WLBlocks -> Nat]
      /\ worn \in [WLBlocks -> 0 .. MaxWear]
      /\ balances \in 0 .. MaxBalances /\ since \in Nat /\ levelled \in BOOLEAN
      /\ WLBurst \in Nat /\ MaxWear \in Nat /\ MaxBalances \in Nat
  BY WearAssumption DEF WearInv, WLTypeOK
<1>1. ASSUME NEW e \in WLBlocks, WLErase(e)
      PROVE  WearInv'
  <2>1. /\ worn[e] < MaxWear
        /\ erase_count' = [erase_count EXCEPT ![e] = erase_count[e] + 1]
        /\ worn' = [worn EXCEPT ![e] = worn[e] + 1]
        /\ since' = since + 1
        /\ levelled' = (levelled /\ since < WLBurst /\ e = wl_select_block(stats))
        /\ algorithm' = algorithm /\ balances' = balances /\ stats' = stats
    BY <1>1 DEF WLErase
  <2>2. WLTypeOK'
    <3>1. worn[e] + 1 \in 0 .. MaxWear /\ erase_count[e] + 1 \in Nat
      BY <1>0, <2>1
    <3> QED
      BY <1>0, <2>1, <3>1 DEF WLTypeOK
  <2>3. algorithm = "DYNAMIC" \/ balances = 0 => erase_count' = worn'
    BY <2>1 DEF WearInv
  <2>4. since' # 0
    BY <1>0, <2>1
  <2>5. ASSUME algorithm = "DYNAMIC", levelled'
        PROVE  /\ since' <= WLBurst
               /\ worn' = [stats EXCEPT ![wl_select_block(stats)] = stats[wl_select_block(stats)] + since']
               /\ \A b, c \in WLBlocks : stats[b] - stats[c] <= WLBurst
    <3>1. /\ levelled /\ since < WLBurst /\ e = wl_select_block(stats)
          /\ worn = [stats EXCEPT ![e] = stats[e] + since]
          /\ \A b, c \in WLBlocks : stats[b] - stats[c] <= WLBurst
      BY <2>1, <2>5 DEF WearInv
    <3>2. since' <= WLBurst
      BY <1>0, <2>1, <3>1
    <3>3. stats[e] \in Nat /\ worn[e] = stats[e] + since
      BY <1>0, <3>1
    <3>4. worn[e] + 1 = stats[e] + since'
      BY <1>0, <2>1, <3>3
    <3>5. worn' = [stats EXCEPT ![e] = stats[e] + since']
      BY <2>1, <3>1, <3>4
    <3> QED
      BY <3>1, <3>2, <3>5
  <2> QED
    BY <2>1, <2>2, <2>3, <2>4, <2>5 DEF WearInv
<1>2. ASSUME stats' = erase_count, since' = 0, worn' = worn, levelled' = levelled,
             algorithm' = algorithm, WLTypeOK',
             algorithm = "DYNAMIC" \/ balances' = 0 =>
               erase_count' = erase_count /\ (algorithm = "DYNAMIC" \/ balances = 0)
      PROVE  WearInv'
  <2>1. algorithm' = "DYNAMIC" \/ balances' = 0 => erase_count' = worn' /\ stats' = worn'
    BY <1>2 DEF WearInv
  <2>2. ASSUME algorithm = "DYNAMIC", levelled
        PROVE  /\ since' <= WLBurst
               /\ worn' = [stats' EXCEPT ![wl_select_block(stats')] = stats'[wl_select_block(stats')] + since']
               /\ \A b, c \in WLBlocks : stats'[b] - stats'[c] <= WLBurst
    <3>1. stats' = worn /\ worn' = worn
      BY <1>2, <2>1, <2>2
    <3>2. wl_select_block(stats') \in WLBlocks /\ stats' \in [WLBlocks -> Nat]
      BY <1>0, <1>2, PickIs
    <3>3. stats'[wl_select_block(stats')] + 0 = stats'[wl_select_block(stats')]
      BY <3>2
    <3>4. worn' = [stats' EXCEPT ![wl_select_block(stats')] = stats'[wl_select_block(stats')] + 0]
      BY <3>1, <3>2, <3>3
    <3>5. \A b, c \in WLBlocks : worn[b] - worn[c] <= WLBurst
      BY <2>2, WearSpread
    <3>6. since' <= WLBurst
      BY <1>0, <1>2
    <3> QED
      BY <1>2, <3>1, <3>4, <3>5, <3>6, Zenon
  <2> QED
    BY <1>2, <2>1, <2>2 DEF WearInv
<1>3. CASE wl_update_stats
  <2>1. WLTypeOK'
    BY <1>0, <1>3 DEF wl_update_stats, WLTypeOK
  <2> QED
    BY <1>2, <1>3, <2>1 DEF wl_update_stats
<1>4. CASE wl_check_and_balance
  <2>1. /\ stats' = erase_count /\ since' = 0
        /\ erase_count' = Balanced(erase_count)
        /\ algorithm' = algorithm /\ worn' = worn /\ levelled' = levelled
        /\ balances' = IF TooWide(erase_count) THEN balances + 1 ELSE balances
        /\ TooWide(erase_count) => balances < MaxBalances
    BY <1>4 DEF wl_check_and_balance
  <2>2. /\ Balanced(erase_count) \in [WLBlocks -> Nat]
        /\ algorithm = "DYNAMIC" \/ ~TooWide(erase_count) => Balanced(erase_count) = erase_count
    BY <1>0, BalancedIs
  <2>3. WLTypeOK'
    <3>1. balances' \in 0 .. MaxBalances
      BY <1>0, <2>1
    <3> QED
      BY <1>0, <2>1, <2>2, <3>1 DEF WLTypeOK
  <2>4. algorithm = "DYNAMIC" \/ balances' = 0 =>
          erase_count' = erase_count /\ (algorithm = "DYNAMIC" \/ balances = 0)
    BY <1>0, <2>1, <2>2
  <2> QED
    BY <1>2, <2>1, <2>3, <2>4
<1>5. CASE UNCHANGED wl_vars
  BY <1>5 DEF wl_vars, WearInv, WLTypeOK
<1> QED
  BY <1>1, <1>3, <1>4, <1>5 DEF WLNext

\* What the invariant says of the choices.
LEMMA WearSound == WearInv => WLTypeOK /\ SpreadBounded /\ FreshChoiceIsLeastWorn
<1> SUFFICES ASSUME WearInv PROVE WLTypeOK /\ SpreadBounded /\ FreshChoiceIsLeastWorn
  OBVIOUS
<1>1. SpreadBounded
  BY WearSpread DEF SpreadBounded
<1>2. ASSUME since = 0, algorithm = "DYNAMIC" \/ balances = 0
      PROVE  LET plan == wl_static_migration_plan(stats)
             IN  /\ \A c \in WLBlocks : worn[wl_select_block(stats)] <= worn[c]
                 /\ plan.gain > 0 =>
                      /\ worn[plan.dest] - worn[plan.source] = plan.gain
                      /\ \A c \in WLBlocks : worn[plan.source] <= worn[c] /\ worn[c] <= worn[plan.dest]
  <2> DEFINE plan == wl_static_migration_plan(stats)
  <2>1. stats = worn /\ stats \in [WLBlocks -> Nat]
    BY <1>2 DEF WearInv, WLTypeOK
  <2>2. \A c \in WLBlocks : worn[wl_select_block(stats)] <= worn[c]
    BY <2>1, PickIs, LeastIs
  <2>3. CASE ~TooWide(stats)
    <3>1. plan.gain = 0
      BY <2>3 DEF wl_static_migration_plan
    <3> QED
      BY <2>2, <3>1
  <2>4. CASE TooWide(stats)
    <3>1. /\ plan.gain = Greatest(stats) - Least(stats)
          /\ plan.source = LastWith(stats, Least(stats))
          /\ plan.dest = LastWith(stats, Greatest(stats))
      BY <2>4 DEF wl_static_migration_plan
    <3>2. /\ stats[LastWith(stats, Least(stats))] = Least(stats)
          /\ stats[LastWith(stats, Greatest(stats))] = Greatest(stats)
      BY <2>1, LastWithIs, LeastIs, GreatestIs
    <3>3. \A c \in WLBlocks : Least(stats) <= stats[c] /\ stats[c] <= Greatest(stats)
      BY <2>1, LeastIs, GreatestIs
    <3> HIDE DEF plan
    <3> QED
      BY <2>1, <2>2, <3>1, <3>2, <3>3 DEF plan
  <2> QED
    BY <2>3, <2>4
<1>3. FreshChoiceIsLeastWorn
  BY <1>2 DEF FreshChoiceIsLeastWorn
<1> QED
  BY <1>1, <1>3 DEF WearInv
--------------------------------------------------------------------------------
(* The search of ftl_allocate_block. *)

\* The value of the search at page b with c pages counted, from the values further on.
Found(f, n, search, b, c) ==
  IF c = n THEN b - n
  ELSE IF b >= NumPages THEN NONE
  ELSE IF f.page_state[b] # "FREE"
       THEN search[(b + FTL_PAGES_PER_BLOCK) % FTL_MAX_PHYSICAL_PAGES][0]
       ELSE search[(b + 1) % FTL_MAX_PHYSICAL_PAGES][c + 1]

Searches(f, n, search) ==
  search = [b \in 0 .. FTL_MAX_PHYSICAL_PAGES - 1 |-> [c \in 0 .. n |-> Found(f, n, search, b, c)]]

\* The tables are a block longer than the array: the search only moves forward.
LEMMA SearchMoves ==
  ASSUME NEW b \in PPN
  PROVE  /\ (b + FTL_PAGES_PER_BLOCK) % FTL_MAX_PHYSICAL_PAGES = b + FTL_PAGES_PER_BLOCK
         /\ (b + 1) % FTL_MAX_PHYSICAL_PAGES = b + 1
         /\ b + FTL_PAGES_PER_BLOCK \in 0 .. FTL_MAX_PHYSICAL_PAGES - 1
         /\ b + 1 \in 0 .. FTL_MAX_PHYSICAL_PAGES - 1
         /\ FTL_PAGES_PER_BLOCK \in Nat \ {0}
<1>1. (NUM_BLOCKS + 1) * FTL_PAGES_PER_BLOCK = NumPages + FTL_PAGES_PER_BLOCK
  BY GeometryAssumption DEF NumPages
<1>2. /\ NumPages + FTL_PAGES_PER_BLOCK <= FTL_MAX_PHYSICAL_PAGES
      /\ FTL_PAGES_PER_BLOCK \in Nat \ {0} /\ NumPages \in Nat /\ FTL_MAX_PHYSICAL_PAGES \in Nat
  BY <1>1, GeometryAssumption, OversizedTables, NumPagesBound
<1>3. b \in Nat /\ b < NumPages
  BY <1>2 DEF PPN
<1>4. /\ b + FTL_PAGES_PER_BLOCK \in 0 .. FTL_MAX_PHYSICAL_PAGES - 1
      /\ b + 1 \in 0 .. FTL_MAX_PHYSICAL_PAGES - 1
  BY <1>2, <1>3
<1>5. FTL_MAX_PHYSICAL_PAGES \in Nat \ {0}
  BY <1>2
<1>6. \A x \in 0 .. FTL_MAX_PHYSICAL_PAGES - 1 : x % FTL_MAX_PHYSICAL_PAGES = x
  BY <1>5
<1> QED
  BY <1>2, <1>4, <1>6

\* A search exists: it can be extended page by page from the end of the array down.
LEMMA SearchExists ==
  ASSUME NEW f, NEW n \in Nat
  PROVE  \E search : Searches(f, n, search)
<1> DEFINE M == FTL_MAX_PHYSICAL_PAGES
           From(k, s) == /\ s = [b \in 0 .. M - 1 |-> [c \in 0 .. n |-> s[b][c]]]
                         /\ \A b \in 0 .. M - 1, c \in 0 .. n :
                              b >= NumPages - k => s[b][c] = Found(f, n, s, b, c)
           Stuck == {k \in Nat : k <= NumPages /\ ~ \E s : From(k, s)}
<1>0. NumPages \in Nat /\ M \in Nat /\ NumPages < M
  BY NumPagesBound
<1>1. Stuck = {}
  <2> SUFFICES ASSUME Stuck # {} PROVE FALSE
    OBVIOUS
  <2>1. PICK k \in Stuck : \A j \in Stuck : k <= j
    BY LeastElement
  <2>2. k \in Nat /\ k <= NumPages /\ ~ \E s : From(k, s)
    BY <2>1
  <2>3. CASE k = 0
    <3> DEFINE s == [b \in 0 .. M - 1 |-> [c \in 0 .. n |-> IF c = n THEN b - n ELSE NONE]]
    <3>1. \A b \in 0 .. M - 1, c \in 0 .. n : s[b][c] = IF c = n THEN b - n ELSE NONE
      OBVIOUS
    <3>2. s = [b \in 0 .. M - 1 |-> [c \in 0 .. n |-> s[b][c]]]
      BY <3>1
    <3> HIDE DEF s
    <3>3. \A b \in 0 .. M - 1, c \in 0 .. n : b >= NumPages - 0 => s[b][c] = Found(f, n, s, b, c)
      BY <1>0, <3>1 DEF Found
    <3>4. From(0, s)
      BY <3>2, <3>3
    <3> QED
      BY <2>2, <2>3, <3>4
  <2>4. CASE k # 0
    <3>1. k - 1 \in Nat /\ k - 1 <= NumPages /\ ~ (k <= k - 1)
      BY <1>0, <2>2, <2>4
    <3>2. PICK s : From(k - 1, s)
      BY <2>1, <3>1
    <3> DEFINE p == NumPages - k
               t == [b \in 0 .. M - 1 |-> [c \in 0 .. n |-> IF b = p THEN Found(f, n, s, b, c) ELSE s[b][c]]]
    <3>3. /\ p \in PPN /\ p \in 0 .. M - 1
          /\ \A b \in 0 .. M - 1 : b >= NumPages - k => b = p \/ (b > p /\ b >= NumPages - (k - 1))
      BY <1>0, <2>2, <2>4 DEF PPN
    <3>4. \A b \in 0 .. M - 1, c \in 0 .. n :
            t[b][c] = IF b = p THEN Found(f, n, s, b, c) ELSE s[b][c]
      OBVIOUS
    <3>5. t = [b \in 0 .. M - 1 |-> [c \in 0 .. n |-> t[b][c]]]
      BY <3>4
    <3> HIDE DEF t, p
    <3>6. ASSUME NEW b \in 0 .. M - 1, NEW c \in 0 .. n, b >= p
          PROVE  Found(f, n, t, b, c) = Found(f, n, s, b, c)
      <4>1. CASE b \in PPN
        <5>1. /\ (b + FTL_PAGES_PER_BLOCK) % M = b + FTL_PAGES_PER_BLOCK
              /\ (b + 1) % M = b + 1
              /\ b + FTL_PAGES_PER_BLOCK \in 0 .. M - 1 /\ b + FTL_PAGES_PER_BLOCK # p
              /\ b + 1 \in 0 .. M - 1 /\ b + 1 # p
          <6>1. /\ (b + FTL_PAGES_PER_BLOCK) % M = b + FTL_PAGES_PER_BLOCK
                /\ (b + 1) % M = b + 1
                /\ b + FTL_PAGES_PER_BLOCK \in 0 .. M - 1 /\ b + 1 \in 0 .. M - 1
                /\ FTL_PAGES_PER_BLOCK \in Nat \ {0}
            BY <4>1, SearchMoves
          <6>2. p \in Int
            BY <1>0, <3>3
          <6>3. b + FTL_PAGES_PER_BLOCK # p /\ b + 1 # p
            BY <3>6, <6>1, <6>2
          <6> QED
            BY <6>1, <6>3
        <5>2. t[b + FTL_PAGES_PER_BLOCK][0] = s[b + FTL_PAGES_PER_BLOCK][0]
          BY <3>4, <5>1
        <5>3. c # n => t[b + 1][c + 1] = s[b + 1][c + 1]
          BY <3>4, <5>1
        <5> QED
          BY <5>1, <5>2, <5>3 DEF Found
      <4>2. CASE b \notin PPN
        BY <1>0, <4>2 DEF Found, PPN
      <4> QED
        BY <4>1, <4>2
    <3>7. ASSUME NEW b \in 0 .. M - 1, NEW c \in 0 .. n, b >= NumPages - k
          PROVE  t[b][c] = Found(f, n, t, b, c)
      <4>1. b >= p
        BY <3>7 DEF p
      <4>2. t[b][c] = Found(f, n, s, b, c)
        BY <3>2, <3>3, <3>4, <3>7
      <4> QED
        BY <3>6, <4>1, <4>2
    <3>8. From(k, t)
      BY <3>5, <3>7
    <3> QED
      BY <2>2, <3>8
  <2> QED
    BY <2>3, <2>4
<1>2. PICK s : From(NumPages, s)
  BY <1>0, <1>1
<1>3. \A b \in 0 .. M - 1, c \in 0 .. n : s[b][c] = Found(f, n, s, b, c)
  BY <1>0, <1>2
<1>4. s = [b \in 0 .. M - 1 |-> [c \in 0 .. n |-> Found(f, n, s, b, c)]]
  BY <1>2, <1>3
<1> QED
  BY <1>4 DEF Searches

\* What is found is a run of n FREE pages of the array.
LEMMA FindRunIs ==
  ASSUME NEW f, f.write_pointer \in 0 .. NumPages, NEW n \in Nat
  PROVE  \/ FindRun(f, n) = NONE
         \/ /\ FindRun(f, n) \in Int
            /\ \A i \in 0 .. n - 1 : /\ FindRun(f, n) + i \in PPN
                                     /\ f.page_state[FindRun(f, n) + i] = "FREE"
<1> DEFINE M == FTL_MAX_PHYSICAL_PAGES
           search == CHOOSE search : Searches(f, n, search)
           FreeRun(q) == q \in Int /\ \A i \in 0 .. n - 1 : q + i \in PPN /\ f.page_state[q + i] = "FREE"
           Before(b, c) == \A p \in b - c .. b - 1 : p \in PPN /\ f.page_state[p] = "FREE"
<1>0. NumPages \in Nat /\ M \in Nat /\ NumPages < M
  BY NumPagesBound
<1>1. Searches(f, n, search)
  BY SearchExists
<1>2. FindRun(f, n) = search[f.write_pointer][0]
  BY DEF FindRun, Searches, Found
<1> HIDE DEF search
<1>3. \A b \in 0 .. M - 1, c \in 0 .. n : search[b][c] = Found(f, n, search, b, c)
  <2> DEFINE body == [b \in 0 .. M - 1 |-> [c \in 0 .. n |-> Found(f, n, search, b, c)]]
  <2>1. \A b \in 0 .. M - 1, c \in 0 .. n : body[b][c] = Found(f, n, search, b, c)
    OBVIOUS
  <2>2. search = body
    BY <1>1, Zenon DEF Searches
  <2> HIDE DEF body
  <2> QED
    BY <2>1, <2>2
<1> DEFINE Bad == {k \in Nat : \E b \in 0 .. M - 1, c \in 0 .. n :
                      /\ k = M - b
                      /\ Before(b, c)
                      /\ ~ (search[b][c] = NONE \/ FreeRun(search[b][c]))}
<1>4. Bad = {}
  <2> SUFFICES ASSUME Bad # {} PROVE FALSE
    OBVIOUS
  <2>1. PICK k \in Bad : \A j \in Bad : k <= j
    BY LeastElement
  <2>2. PICK b \in 0 .. M - 1, c \in 0 .. n :
          /\ k = M - b
          /\ Before(b, c)
          /\ ~ (search[b][c] = NONE \/ FreeRun(search[b][c]))
    BY <2>1
  <2>3. ASSUME NEW e \in 0 .. M - 1, NEW g \in 0 .. n, e > b, Before(e, g)
        PROVE  search[e][g] = NONE \/ FreeRun(search[e][g])
    <3>1. M - e \in Nat /\ ~ (k <= M - e)
      BY <1>0, <2>2, <2>3
    <3>2. M - e \notin Bad
      BY <2>1, <3>1
    <3> QED
      BY <2>3, <3>1, <3>2
  <2> HIDE DEF Bad
  <2>4. CASE c = n
    <3>1. search[b][c] = b - n
      BY <1>3, <2>4 DEF Found
    <3>2. \A i \in 0 .. n - 1 : (b - n) + i \in b - n .. b - 1
      OBVIOUS
    <3>3. FreeRun(b - n)
      BY <2>2, <2>4, <3>2
    <3> QED
      BY <2>2, <3>1, <3>3
  <2>5. CASE c # n /\ b >= NumPages
    BY <1>3, <2>2, <2>5 DEF Found
  <2>6. CASE c # n /\ ~ (b >= NumPages)
    <3>1. b \in PPN
      BY <1>0, <2>6 DEF PPN
    <3>2. CASE f.page_state[b] # "FREE"
      <4>1. b + FTL_PAGES_PER_BLOCK \in 0 .. M - 1 /\ b + FTL_PAGES_PER_BLOCK > b /\ 0 \in 0 .. n
        BY <3>1, SearchMoves
      <4>2. search[b][c] = search[b + FTL_PAGES_PER_BLOCK][0]
        BY <1>3, <2>6, <3>1, <3>2, SearchMoves DEF Found
      <4>3. Before(b + FTL_PAGES_PER_BLOCK, 0)
        BY <4>1
      <4> QED
        BY <2>2, <2>3, <4>1, <4>2, <4>3
    <3>3. CASE f.page_state[b] = "FREE"
      <4>1. b + 1 \in 0 .. M - 1 /\ b + 1 > b /\ c + 1 \in 0 .. n
        BY <2>6, <3>1, SearchMoves
      <4>2. search[b][c] = search[b + 1][c + 1]
        BY <1>3, <2>6, <3>1, <3>3, SearchMoves DEF Found
      <4>3. Before(b + 1, c + 1)
        <5>1. \A p \in (b + 1) - (c + 1) .. (b + 1) - 1 : p = b \/ p \in b - c .. b - 1
          OBVIOUS
        <5> QED
          BY <2>2, <3>1, <3>3, <5>1
      <4> QED
        BY <2>2, <2>3, <4>1, <4>2, <4>3
    <3> QED
      BY <3>2, <3>3
  <2> QED
    BY <2>4, <2>5, <2>6
<1>5. f.write_pointer \in 0 .. M - 1 /\ 0 \in 0 .. n /\ M - f.write_pointer \in Nat
  BY <1>0
<1>6. Before(f.write_pointer, 0)
  BY <1>5
<1>7. search[f.write_pointer][0] = NONE \/ FreeRun(search[f.write_pointer][0])
  BY <1>4, <1>5, <1>6
<1> QED
  BY <1>2, <1>7
--------------------------------------------------------------------------------
(* The layer under all its handlers. *)

\* No block is mapped to a FREE page: what a later write programs is no block's page.
MappedUsed(f) ==
  \A l \in LBA : f.mapping_table[l] # NONE => f.page_state[f.mapping_table[l]] # "FREE"

\* What every handler of ftl.c but the collector keeps of the layer.
LayerInv(f) ==
  /\ f \in Tables
  /\ f.free_pages < UINT32
  /\ \A b \in Blocks : f.erase_count[b] = 0
  /\ f.erases = 0 /\ f.gc_moves = 0
  /\ MappedUsed(f)

\* Only an erasure makes a page FREE again.
UsedStays(f, g) == \A p \in PPN : f.page_state[p] # "FREE" => g.page_state[p] # "FREE"

\* A handler that leaves the wear alone and maps blocks to used pages only.
LEMMA LayerKept ==
  ASSUME NEW f, LayerInv(f), NEW g \in Tables,
         SameWear(f, g), g.gc_moves = f.gc_moves, g.free_pages < UINT32, MappedUsed(g)
  PROVE  LayerInv(g)
BY DEF LayerInv, SameWear

\* Invalidating an old version.
LEMMA InvalidateLayer ==
  ASSUME NEW f, LayerInv(f), NEW l \in LBA
  PROVE  LET g == InvalidateOld(f, l)
         IN  LayerInv(g) /\ UsedStays(f, g) /\ UsedStays(g, f)
<1> DEFINE g   == InvalidateOld(f, l)
           old == f.mapping_table[l]
<1>0. /\ f \in Tables /\ f.free_pages < UINT32
      /\ f.mapping_table \in [LBA -> PPN \cup {NONE}]
      /\ f.page_state \in [PPN -> PageState]
  BY DEF LayerInv, Tables
<1>1. /\ g \in Tables
      /\ g.mapping_table = f.mapping_table
      /\ SameCounters(f, g)
      /\ old = NONE => g = f
      /\ old # NONE => /\ old \in PPN
                       /\ g.page_state = [f.page_state EXCEPT ![old] = "INVALID"]
  BY <1>0, InvalidateOldTables
<1> HIDE DEF g
<1>2. old # NONE => f.page_state[old] # "FREE"
  BY DEF LayerInv, MappedUsed
<1>3. UsedStays(f, g) /\ UsedStays(g, f)
  BY <1>0, <1>1, <1>2 DEF UsedStays
<1>4. MappedUsed(g)
  BY <1>0, <1>1, <1>3 DEF MappedUsed, UsedStays, LayerInv
<1>5. LayerInv(g)
  BY <1>0, <1>1, <1>4, LayerKept DEF SameCounters
<1> QED
  BY <1>3, <1>5 DEF g

\* Programming a page.
LEMMA ProgrammedLayer ==
  ASSUME NEW f, LayerInv(f), NEW l \in LBA, NEW d, NEW q \in PPN, NEW g,
         Programmed(f, l, d, q, g)
  PROVE  LayerInv(g) /\ UsedStays(f, g)
<1>0. /\ f.mapping_table \in [LBA -> PPN \cup {NONE}]
      /\ f.page_state \in [PPN -> PageState]
      /\ f.free_pages \in Nat /\ f.free_pages < UINT32 /\ UINT32 \in Nat
  BY ExtAssumption DEF LayerInv, Tables
<1>1. /\ g \in Tables /\ SameWear(f, g) /\ g.gc_moves = f.gc_moves
      /\ g.free_pages = f.free_pages - 1
      /\ g.page_state = [f.page_state EXCEPT ![q] = "VALID"]
      /\ g.mapping_table = [f.mapping_table EXCEPT ![l] = q]
  BY DEF Programmed
<1>2. UsedStays(f, g)
  BY <1>0, <1>1 DEF UsedStays
<1>3. MappedUsed(g)
  <2> SUFFICES ASSUME NEW m \in LBA, g.mapping_table[m] # NONE
               PROVE  g.page_state[g.mapping_table[m]] # "FREE"
    BY DEF MappedUsed
  <2>1. CASE m = l
    BY <1>0, <1>1, <2>1
  <2>2. CASE m # l
    <3>1. /\ g.mapping_table[m] = f.mapping_table[m] /\ f.mapping_table[m] \in PPN
          /\ f.page_state[f.mapping_table[m]] # "FREE"
      BY <1>0, <1>1, <2>2 DEF LayerInv, MappedUsed
    <3> QED
      BY <1>2, <3>1 DEF UsedStays
  <2> QED
    BY <2>1, <2>2
<1>4. g.free_pages < UINT32
  BY <1>0, <1>1
<1> QED
  BY <1>1, <1>2, <1>3, <1>4, LayerKept

\* A change of the layer's page states that makes no page FREE.
LEMMA StatesLayer ==
  ASSUME NEW f, LayerInv(f), NEW g \in Tables,
         SameWear(f, g), g.gc_moves = f.gc_moves, g.free_pages = f.free_pages,
         UsedStays(f, g),
         \A l \in LBA : g.mapping_table[l] \in {f.mapping_table[l], NONE}
  PROVE  LayerInv(g)
<1>0. f.mapping_table \in [LBA -> PPN \cup {NONE}] /\ f.free_pages < UINT32
  BY DEF LayerInv, Tables
<1>1. MappedUsed(g)
  <2> SUFFICES ASSUME NEW m \in LBA, g.mapping_table[m] # NONE
               PROVE  g.page_state[g.mapping_table[m]] # "FREE"
    BY DEF MappedUsed
  <2>1. g.mapping_table[m] = f.mapping_table[m] /\ f.mapping_table[m] \in PPN
    BY <1>0
  <2>2. f.page_state[f.mapping_table[m]] # "FREE"
    BY <2>1 DEF LayerInv, MappedUsed
  <2> QED
    BY <2>1, <2>2 DEF UsedStays
<1>2. g.free_pages < UINT32
  BY <1>0
<1> QED
  BY <1>1, <1>2, LayerKept

\* A write: its page is programmed, or the log has ended, or no page is left to count.
LEMMA WriteLayer ==
  ASSUME NEW f, LayerInv(f), NEW l \in LBA, NEW d \in Data
  PROVE  LET w == ftl_write(f, l, d).ftl
         IN  LayerInv(w) /\ UsedStays(f, w)
<1> DEFINE g == InvalidateOld(f, l)
           w == ftl_write(f, l, d).ftl
<1>0. f \in Tables
  BY DEF LayerInv
<1>1. LayerInv(g) /\ UsedStays(f, g) /\ g \in Tables /\ g.free_pages = f.free_pages
  BY <1>0, InvalidateLayer, InvalidateOldTables DEF SameCounters
<1>2. CASE f.free_pages = 0
  <2>1. w = g
    BY <1>1, <1>2 DEF ftl_write
  <2> QED
    BY <1>1, <2>1
<1>3. CASE f.free_pages # 0
  <2>1. \/ \E q : FirstFree(g, q) /\ Programmed(g, l, d, q, w)
        \/ w = [g EXCEPT !.write_pointer = NumPages]
    BY <1>0, <1>3, WriteEnds
  <2> HIDE DEF g, w
  <2>2. CASE \E q : FirstFree(g, q) /\ Programmed(g, l, d, q, w)
    <3>1. PICK q : FirstFree(g, q) /\ Programmed(g, l, d, q, w)
      BY <2>2
    <3>2. q \in PPN
      BY <3>1 DEF FirstFree
    <3>3. LayerInv(w) /\ UsedStays(g, w)
      BY <1>1, <3>1, <3>2, ProgrammedLayer
    <3> QED
      BY <1>1, <3>3 DEF UsedStays, w
  <2>3. CASE w = [g EXCEPT !.write_pointer = NumPages]
    <3>1. /\ w \in Tables /\ w.page_state = g.page_state /\ w.mapping_table = g.mapping_table
          /\ SameWear(g, w) /\ w.gc_moves = g.gc_moves /\ w.free_pages = g.free_pages
      BY <1>1, <2>3, NumPagesBound DEF Tables, SameWear
    <3>2. UsedStays(g, w) /\ UsedStays(f, w)
      BY <1>1, <3>1 DEF UsedStays
    <3>3. LayerInv(w)
      BY <1>1, <3>1, <3>2, StatesLayer
    <3> QED
      BY <3>2, <3>3 DEF w
  <2> QED
    BY <2>1, <2>2, <2>3
<1> QED
  BY <1>2, <1>3

\* A trim.
LEMMA TrimLayer ==
  ASSUME NEW f, LayerInv(f), NEW l \in LBA
  PROVE  LET g == ftl_trim(f, l)
         IN  LayerInv(g) /\ UsedStays(f, g)
<1> DEFINE g    == ftl_trim(f, l)
           phys == f.mapping_table[l]
<1>0. f \in Tables /\ f.page_state \in [PPN -> PageState]
  BY DEF LayerInv, Tables
<1>1. \/ phys = NONE /\ g = f
      \/ phys \in PPN /\ Invalidated(f, phys, g)
  BY <1>0, TrimMarks
<1> HIDE DEF g, phys
<1>2. CASE g = f
  BY <1>2 DEF UsedStays, g
<1>3. CASE phys \in PPN /\ Invalidated(f, phys, g)
  <2>1. /\ g \in Tables /\ SameCounters(f, g)
        /\ g.page_state = [f.page_state EXCEPT ![phys] = "INVALID"]
        /\ \A m \in LBA : g.mapping_table[m] \in {f.mapping_table[m], NONE}
    BY <1>3 DEF Invalidated
  <2>2. UsedStays(f, g)
    BY <1>0, <1>3, <2>1 DEF UsedStays
  <2>3. LayerInv(g)
    BY <2>1, <2>2, StatesLayer DEF SameCounters
  <2> QED
    BY <2>2, <2>3 DEF g
<1> QED
  BY <1>1, <1>2, <1>3

\* A range of blocks mapped to a run of FREE pages.
LEMMA AllocateLayer ==
  ASSUME NEW f, LayerInv(f), NEW start \in LBA, NEW n \in 1 .. FTL_MAX_LBAS - start
  PROVE  LET g    == ftl_allocate_block(f, start, n).ftl
             phys == FindRun(f, n)
         IN  /\ LayerInv(g) /\ UsedStays(f, g)
             /\ g # f =>
                  /\ phys \in Int
                  /\ \A i \in 0 .. n - 1 : phys + i \in PPN /\ f.page_state[phys + i] = "FREE"
                  /\ g.page_state = [p \in PPN |-> IF p \in phys .. phys + n - 1
                                                   THEN "VALID" ELSE f.page_state[p]]
                  /\ g.mapping_table = [l \in LBA |-> IF l \in start .. start + n - 1
                                                      THEN phys + (l - start) ELSE f.mapping_table[l]]
<1> DEFINE a    == ftl_allocate_block(f, start, n)
           g    == a.ftl
           phys == FindRun(f, n)
           new  == phys .. phys + n - 1
           ps   == [p \in PPN |-> IF p \in new THEN "VALID" ELSE f.page_state[p]]
           mt   == [l \in LBA |-> IF l \in start .. start + n - 1
                                  THEN phys + (l - start) ELSE f.mapping_table[l]]
           rm   == [p \in PPN |-> IF p \in new THEN start + (p - phys) ELSE f.reverse_map[p]]
<1>0. /\ f \in Tables /\ f.write_pointer \in 0 .. NumPages
      /\ f.mapping_table \in [LBA -> PPN \cup {NONE}]
      /\ f.reverse_map \in [PPN -> LBA \cup {NONE}]
      /\ f.page_state \in [PPN -> PageState]
      /\ f.free_pages \in Nat /\ f.free_pages < UINT32 /\ UINT32 \in Nat
  BY ExtAssumption DEF LayerInv, Tables
<1>n. /\ n \in Nat /\ start \in Nat /\ FTL_MAX_LBAS \in Nat
      /\ start + n <= FTL_MAX_LBAS
  BY GeometryAssumption DEF LBA
<1>1. \/ phys = NONE
      \/ /\ phys \in Int
         /\ \A i \in 0 .. n - 1 : phys + i \in PPN /\ f.page_state[phys + i] = "FREE"
  BY <1>0, <1>n, FindRunIs
<1>2. CASE f.free_pages < n \/ phys = NONE
  <2>1. g = f
    BY <1>2 DEF ftl_allocate_block
  <2> QED
    BY <2>1 DEF UsedStays
<1>3. CASE ~ (f.free_pages < n) /\ phys # NONE
  <2>1. a.ftl = [f EXCEPT !.page_state = ps, !.mapping_table = mt, !.reverse_map = rm,
                          !.free_pages = f.free_pages - n]
    BY <1>0, <1>3 DEF ftl_allocate_block, Tables
  <2> HIDE DEF a, phys
  <2>2. /\ phys \in Int
        /\ \A i \in 0 .. n - 1 : phys + i \in PPN /\ f.page_state[phys + i] = "FREE"
    BY <1>1, <1>3
  <2>3. ASSUME NEW p \in new
        PROVE  p \in PPN /\ f.page_state[p] = "FREE" /\ start + (p - phys) \in LBA
    <3>1. p - phys \in 0 .. n - 1 /\ phys + (p - phys) = p
      BY <1>n, <2>2
    <3>2. start + (p - phys) \in LBA
      BY <1>n, <3>1 DEF LBA
    <3> QED
      BY <2>2, <3>1, <3>2
  <2>4. ASSUME NEW l \in start .. start + n - 1
        PROVE  phys + (l - start) \in PPN /\ phys + (l - start) \in new
    <3>1. l - start \in 0 .. n - 1
      BY <1>n
    <3>2. phys + (l - start) \in PPN
      BY <2>2, <3>1
    <3>3. phys + (l - start) \in new
      BY <1>n, <2>2, <3>1
    <3> QED
      BY <3>2, <3>3
  <2>5. ps \in [PPN -> PageState]
    BY <1>0 DEF PageState
  <2>6. mt \in [LBA -> PPN \cup {NONE}]
    BY <1>0, <2>4
  <2>7. rm \in [PPN -> LBA \cup {NONE}]
    BY <1>0, <2>3
  <2>8. f.free_pages - n \in Nat /\ f.free_pages - n < UINT32
    BY <1>0, <1>3, <1>n
  <2> HIDE DEF ps, mt, rm, new
  <2>9. /\ g.page_state = ps /\ g.mapping_table = mt /\ g.free_pages = f.free_pages - n
        /\ SameWear(f, g) /\ g.gc_moves = f.gc_moves
    BY <1>0, <2>1 DEF Tables, SameWear
  <2>10. g \in Tables
    BY <1>0, <2>1, <2>5, <2>6, <2>7, <2>8 DEF Tables
  <2> HIDE DEF g
  <2>11. UsedStays(f, g)
    BY <2>9 DEF UsedStays, ps
  <2>12. MappedUsed(g)
    <3> SUFFICES ASSUME NEW m \in LBA, mt[m] # NONE
                 PROVE  ps[mt[m]] # "FREE"
      BY <2>9 DEF MappedUsed
    <3>1. CASE m \in start .. start + n - 1
      <4>1. mt[m] \in PPN /\ mt[m] \in new
        BY <2>4, <3>1 DEF mt
      <4> QED
        BY <4>1 DEF ps
    <3>2. CASE m \notin start .. start + n - 1
      <4>1. mt[m] = f.mapping_table[m] /\ mt[m] \in PPN
        BY <1>0, <3>2 DEF mt
      <4>2. f.page_state[mt[m]] # "FREE"
        BY <4>1 DEF LayerInv, MappedUsed
      <4> QED
        BY <4>1, <4>2 DEF ps
    <3> QED
      BY <3>1, <3>2
  <2>13. LayerInv(g)
    BY <2>8, <2>9, <2>10, <2>12, LayerKept
  <2> QED
    BY <2>2, <2>9, <2>11, <2>13 DEF g, a, phys, ps, mt, new
<1> QED
  BY <1>2, <1>3

\* Buffering a block in a page of the array.
LEMMA SlcLayer ==
  ASSUME NEW f, LayerInv(f), NEW l \in LBA, NEW d \in Data, NEW page \in PPN
  PROVE  LET g == SlcProgram(f, l, d, page)
         IN  /\ LayerInv(g) /\ UsedStays(f, g)
             /\ g.page_state[page] = "VALID"
<1> DEFINE g == SlcProgram(f, l, d, page)
<1>0. /\ f \in Tables
      /\ f.mapping_table \in [LBA -> PPN \cup {NONE}]
      /\ f.page_state \in [PPN -> PageState]
      /\ f.free_pages \in Nat /\ UINT32 \in Nat \ {0}
  BY ExtAssumption, GeometryAssumption DEF LayerInv, Tables
<1>1. (f.free_pages - 1) % UINT32 \in 0 .. UINT32 - 1
  BY <1>0
<1>2. /\ f.writes + 1 \in Nat
      /\ f.host_writes + 1 \in Nat
  BY <1>0 DEF Tables
<1>3. g = [f EXCEPT !.page_data = [f.page_data EXCEPT ![page] = d],
                    !.page_state = [f.page_state EXCEPT ![page] = "VALID"],
                    !.mapping_table = [f.mapping_table EXCEPT ![l] = page],
                    !.free_pages = (f.free_pages - 1) % UINT32,
                    !.writes = f.writes + 1,
                    !.host_writes = f.host_writes + 1]
  BY <1>0 DEF SlcProgram, Tables
<1> HIDE DEF g
<1>4. /\ g.page_state = [f.page_state EXCEPT ![page] = "VALID"]
      /\ g.mapping_table = [f.mapping_table EXCEPT ![l] = page]
      /\ SameWear(f, g) /\ g.gc_moves = f.gc_moves
      /\ g.free_pages = (f.free_pages - 1) % UINT32
  BY <1>0, <1>3 DEF Tables, SameWear
<1>5. /\ [f.page_data EXCEPT ![page] = d] \in [PPN -> Data]
      /\ [f.page_state EXCEPT ![page] = "VALID"] \in [PPN -> PageState]
      /\ [f.mapping_table EXCEPT ![l] = page] \in [LBA -> PPN \cup {NONE}]
      /\ (f.free_pages - 1) % UINT32 \in Nat
      /\ (f.free_pages - 1) % UINT32 < UINT32
  BY <1>0, <1>1 DEF Tables, PageState
<1>6. g \in Tables
  BY <1>0, <1>2, <1>3, <1>5 DEF Tables
<1>7. UsedStays(f, g) /\ g.page_state[page] = "VALID"
  BY <1>0, <1>4 DEF UsedStays
<1>8. MappedUsed(g)
  <2> SUFFICES ASSUME NEW m \in LBA, g.mapping_table[m] # NONE
               PROVE  g.page_state[g.mapping_table[m]] # "FREE"
    BY DEF MappedUsed
  <2>1. CASE m = l
    BY <1>0, <1>4, <1>7, <2>1
  <2>2. CASE m # l
    <3>1. /\ g.mapping_table[m] = f.mapping_table[m] /\ f.mapping_table[m] \in PPN
          /\ f.page_state[f.mapping_table[m]] # "FREE"
      BY <1>0, <1>4, <2>2 DEF LayerInv, MappedUsed
    <3> QED
      BY <1>7, <3>1 DEF UsedStays
  <2> QED
    BY <2>1, <2>2
<1>9. LayerInv(g)
  BY <1>4, <1>5, <1>6, <1>8, LayerKept
<1> QED
  BY <1>7, <1>9 DEF g
--------------------------------------------------------------------------------
(* The flush. *)

\* The n-th round of a flush writes back the n-th buffer page.
FlushRound(g, q, n) ==
  IF g.page_state[n - 1] # "VALID" THEN g
  ELSE [ftl_write(g, q[n], g.page_data[n - 1]).ftl EXCEPT !.page_state[n - 1] = "INVALID"]

FlushRounds(f, q, n, flushed) ==
  flushed = [i \in 0 .. n |-> IF i = 0 THEN f ELSE FlushRound(flushed[i - 1], q, i)]

\* The rounds exist, however many pages are buffered.
LEMMA FlushRoundsExist ==
  ASSUME NEW f, NEW q, NEW n \in Nat
  PROVE  \E flushed : FlushRounds(f, q, n, flushed)
<1> DEFINE Stuck == {k \in Nat : ~ \E flushed : FlushRounds(f, q, k, flushed)}
<1>1. SUFFICES ASSUME Stuck # {} PROVE FALSE
  OBVIOUS
<1>2. PICK k \in Stuck : \A j \in Stuck : k <= j
  BY <1>1, LeastElement
<1>3. CASE k = 0
  <2>1. FlushRounds(f, q, 0, [i \in 0 .. 0 |-> f])
    BY DEF FlushRounds
  <2> QED
    BY <1>2, <1>3, <2>1
<1>4. CASE k # 0
  <2>1. k - 1 \in Nat /\ k - 1 \notin Stuck
    BY <1>2, <1>4
  <2>2. PICK flushed : FlushRounds(f, q, k - 1, flushed)
    BY <2>1
  <2> DEFINE longer == [i \in 0 .. k |-> IF i < k THEN flushed[i] ELSE FlushRound(flushed[k - 1], q, k)]
  <2>3. FlushRounds(f, q, k, longer)
    <3>1. ASSUME NEW i \in 0 .. k
          PROVE  longer[i] = IF i = 0 THEN f ELSE FlushRound(longer[i - 1], q, i)
      <4>1. CASE i = 0
        BY <1>2, <1>4, <2>1, <2>2, <4>1 DEF FlushRounds
      <4>2. CASE i # 0 /\ i < k
        <5>1. i \in 0 .. k - 1 /\ i - 1 < k /\ i - 1 \in 0 .. k
          BY <1>2, <4>2
        <5>2. flushed[i] = FlushRound(flushed[i - 1], q, i)
          BY <2>2, <4>2, <5>1 DEF FlushRounds
        <5> QED
          BY <4>2, <5>1, <5>2
      <4>3. CASE i = k
        BY <1>2, <1>4, <4>3
      <4> QED
        BY <1>2, <4>1, <4>2, <4>3
    <3>2. longer = [i \in 0 .. k |-> longer[i]]
      OBVIOUS
    <3> HIDE DEF longer
    <3> QED
      BY <3>1, <3>2, Zenon DEF FlushRounds
  <2> QED
    BY <1>2, <2>3
<1> QED
  BY <1>3, <1>4

\* FlushPages is the last of its rounds.
LEMMA FlushedRounds ==
  ASSUME NEW f, NEW q, Len(q) \in Nat
  PROVE  \E flushed : /\ flushed[0] = f
                      /\ \A i \in 1 .. Len(q) : flushed[i] = FlushRound(flushed[i - 1], q, i)
                      /\ FlushPages(f, q) = flushed[Len(q)]
<1> DEFINE n       == Len(q)
           flushed == CHOOSE flushed : FlushRounds(f, q, n, flushed)
<1>1. FlushRounds(f, q, n, flushed)
  BY FlushRoundsExist
<1>2. FlushPages(f, q) = flushed[n]
  BY DEF FlushPages, FlushRounds, FlushRound
<1> HIDE DEF flushed
<1>3. flushed[0] = f /\ \A i \in 1 .. n : flushed[i] = FlushRound(flushed[i - 1], q, i)
  BY <1>1 DEF FlushRounds
<1> QED
  BY <1>2, <1>3

\* Marking a used page INVALID.
LEMMA MarkLayer ==
  ASSUME NEW f, LayerInv(f), NEW i \in PPN, f.page_state[i] # "FREE"
  PROVE  LET g == [f EXCEPT !.page_state[i] = "INVALID"]
         IN  LayerInv(g) /\ UsedStays(f, g)
<1> DEFINE g == [f EXCEPT !.page_state[i] = "INVALID"]
<1>0. f \in Tables /\ f.page_state \in [PPN -> PageState] /\ f.mapping_table \in [LBA -> PPN \cup {NONE}]
  BY DEF LayerInv, Tables
<1>1. /\ g \in Tables /\ SameWear(f, g) /\ g.gc_moves = f.gc_moves
      /\ g.free_pages = f.free_pages /\ g.mapping_table = f.mapping_table
      /\ g.page_state = [f.page_state EXCEPT ![i] = "INVALID"]
  BY <1>0 DEF Tables, SameWear, PageState
<1> HIDE DEF g
<1>2. UsedStays(f, g)
  BY <1>0, <1>1 DEF UsedStays
<1>3. LayerInv(g)
  BY <1>1, <1>2, StatesLayer
<1> QED
  BY <1>2, <1>3 DEF g

\* A round of the flush.
LEMMA RoundLayer ==
  ASSUME NEW g, LayerInv(g), NEW q \in Seq(LBA), NEW n \in 1 .. Len(q), Len(q) <= NumPages
  PROVE  LayerInv(FlushRound(g, q, n)) /\ UsedStays(g, FlushRound(g, q, n))
<1> DEFINE w == ftl_write(g, q[n], g.page_data[n - 1]).ftl
           h == [w EXCEPT !.page_state[n - 1] = "INVALID"]
<1>0. n - 1 \in PPN /\ q[n] \in LBA /\ g.page_data \in [PPN -> Data]
  <2>1. n \in Nat /\ n >= 1 /\ n <= NumPages
    BY NumPagesBound
  <2>2. n - 1 \in PPN
    BY <2>1, NumPagesBound DEF PPN
  <2> QED
    BY <2>2 DEF LayerInv, Tables
<1>1. CASE g.page_state[n - 1] # "VALID"
  BY <1>1 DEF FlushRound, UsedStays
<1>2. CASE g.page_state[n - 1] = "VALID"
  <2>1. LayerInv(w) /\ UsedStays(g, w)
    BY <1>0, WriteLayer
  <2> HIDE DEF w
  <2>2. w.page_state[n - 1] # "FREE"
    BY <1>0, <1>2, <2>1 DEF UsedStays
  <2>3. LayerInv(h) /\ UsedStays(w, h)
    BY <1>0, <2>1, <2>2, MarkLayer
  <2>4. FlushRound(g, q, n) = h
    BY <1>2 DEF FlushRound, w
  <2> HIDE DEF h
  <2>5. UsedStays(g, h)
    BY <2>1, <2>3 DEF UsedStays
  <2> QED
    BY <2>3, <2>4, <2>5
<1> QED
  BY <1>1, <1>2

\* The whole flush.
LEMMA FlushLayer ==
  ASSUME NEW f, LayerInv(f), NEW q \in Seq(LBA), Len(q) <= NumPages
  PROVE  LayerInv(FlushPages(f, q)) /\ UsedStays(f, FlushPages(f, q))
<1>0. Len(q) \in Nat
  OBVIOUS
<1>1. PICK flushed : /\ flushed[0] = f
                     /\ \A i \in 1 .. Len(q) : flushed[i] = FlushRound(flushed[i - 1], q, i)
                     /\ FlushPages(f, q) = flushed[Len(q)]
  BY <1>0, FlushedRounds
<1> DEFINE Bad == {k \in Nat : k <= Len(q) /\ ~ (LayerInv(flushed[k]) /\ UsedStays(f, flushed[k]))}
<1>2. Bad = {}
  <2> SUFFICES ASSUME Bad # {} PROVE FALSE
    OBVIOUS
  <2>1. PICK k \in Bad : \A j \in Bad : k <= j
    BY LeastElement
  <2>2. k \in Nat /\ k <= Len(q) /\ ~ (LayerInv(flushed[k]) /\ UsedStays(f, flushed[k]))
    BY <2>1
  <2>3. k # 0
    BY <1>1, <2>2 DEF UsedStays
  <2>4. k - 1 \in Nat /\ k - 1 <= Len(q) /\ ~ (k <= k - 1) /\ k \in 1 .. Len(q)
    BY <1>0, <2>2, <2>3
  <2>5. LayerInv(flushed[k - 1]) /\ UsedStays(f, flushed[k - 1])
    BY <2>1, <2>4
  <2>6. flushed[k] = FlushRound(flushed[k - 1], q, k)
    BY <1>1, <2>4
  <2>7. LayerInv(flushed[k]) /\ UsedStays(flushed[k - 1], flushed[k])
    BY <2>4, <2>5, <2>6, RoundLayer
  <2> QED
    BY <2>2, <2>5, <2>7 DEF UsedStays
<1> QED
  BY <1>0, <1>1, <1>2
--------------------------------------------------------------------------------
(* The inductive invariant of the buffer and the layer. *)

\* The pages that the buffer has filled have not become FREE again.
BufferUsed ==
  \A n \in 1 .. Len(ftl_ext.slc_pages) : ftl.page_state[n - 1] # "FREE"

ExtInv ==
  /\ LayerInv(ftl)
  /\ ftl_ext \in [slc_pages : Seq(LBA), slc_enabled : BOOLEAN]
  /\ Len(ftl_ext.slc_pages) <= FTL_SLC_BUFFER_PAGES
  /\ BufferUsed

\* The buffer's pages are pages of the array.
LEMMA BufferFits ==
  ASSUME ExtInv
  PROVE  /\ ftl_ext.slc_pages \in Seq(LBA)
         /\ Len(ftl_ext.slc_pages) \in Nat
         /\ Len(ftl_ext.slc_pages) <= NumPages
         /\ \A n \in 1 .. Len(ftl_ext.slc_pages) : n - 1 \in PPN /\ ftl_ext.slc_pages[n] \in LBA
<1>1. ftl_ext.slc_pages \in Seq(LBA) /\ Len(ftl_ext.slc_pages) <= FTL_SLC_BUFFER_PAGES
  BY DEF ExtInv
<1> DEFINE q == ftl_ext.slc_pages
<1>2. q \in Seq(LBA) /\ Len(q) <= FTL_SLC_BUFFER_PAGES
  BY <1>1
<1> HIDE DEF q
<1>3. Len(q) \in Nat /\ Len(q) <= NumPages /\ \A n \in 1 .. Len(q) : q[n] \in LBA
  BY <1>2, ExtAssumption, NumPagesBound
<1>4. \A n \in 1 .. Len(q) : n - 1 \in PPN
  BY <1>3, NumPagesBound DEF PPN
<1> QED
  BY <1>2, <1>3, <1>4 DEF q

\* A handler of the layer alone, or one that leaves the buffer as it is.
LEMMA LayerStepKeeps ==
  ASSUME ExtInv, LayerInv(ftl'), UsedStays(ftl, ftl'), ftl_ext' = ftl_ext
  PROVE  ExtInv'
<1>1. BufferUsed'
  <2> SUFFICES ASSUME NEW n \in 1 .. Len(ftl_ext.slc_pages)
               PROVE  ftl'.page_state[n - 1] # "FREE"
    BY DEF BufferUsed
  <2>1. n - 1 \in PPN /\ ftl.page_state[n - 1] # "FREE"
    BY BufferFits DEF ExtInv, BufferUsed
  <2> QED
    BY <2>1 DEF UsedStays
<1> QED
  BY <1>1 DEF ExtInv

\* The layer starts sound, with an empty write buffer.
LEMMA ExtInitInv == ExtInit => ExtInv
<1> SUFFICES ASSUME ExtInit PROVE ExtInv
  OBVIOUS
<1>1. ftl = ftl_init /\ ftl_ext = [slc_pages |-> <<>>, slc_enabled |-> FALSE]
  BY DEF ExtInit, Init
<1>2. ftl_init \in Tables
  <2>1. \A p \in PPN : 0 \in PPN
    BY NumPagesBound DEF PPN
  <2> QED
    BY <2>1, NumPagesBound, ZeroAssumption DEF ftl_init, Tables, PageState, BlockState
<1>3. LayerInv(ftl_init)
  <2>1. ftl_init.free_pages < UINT32
    BY ExtAssumption DEF ftl_init
  <2>2. /\ \A b \in Blocks : ftl_init.erase_count[b] = 0
        /\ ftl_init.erases = 0 /\ ftl_init.gc_moves = 0
        /\ \A l \in LBA : ftl_init.mapping_table[l] = NONE
    BY DEF ftl_init
  <2> QED
    BY <1>2, <2>1, <2>2 DEF LayerInv, MappedUsed
<1>4. <<>> \in Seq(LBA) /\ Len(<<>>) = 0
  OBVIOUS
<1>5. /\ ftl_ext.slc_pages = <<>>
      /\ ftl_ext \in [slc_pages : Seq(LBA), slc_enabled : BOOLEAN]
  BY <1>1, <1>4
<1>6. Len(ftl_ext.slc_pages) <= FTL_SLC_BUFFER_PAGES /\ BufferUsed
  BY <1>4, <1>5, ExtAssumption, NumPagesBound DEF BufferUsed
<1> QED
  BY <1>1, <1>3, <1>5, <1>6 DEF ExtInv

\* Every handler of FTLExt keeps the invariant.
LEMMA ExtNextInv == ExtInv /\ [ExtNext]_ext_vars => ExtInv'
<1> SUFFICES ASSUME ExtInv, [ExtNext]_ext_vars PROVE ExtInv'
  OBVIOUS
<1>0. /\ LayerInv(ftl)
      /\ ftl_ext.slc_pages \in Seq(LBA)
      /\ ftl_ext \in [slc_pages : Seq(LBA), slc_enabled : BOOLEAN]
      /\ Len(ftl_ext.slc_pages) <= NumPages
  BY BufferFits DEF ExtInv
<1>1. CASE Next /\ UNCHANGED ftl_ext
  <2>1. PICK l \in LBA : (\E d \in Data : FtlWrite(l, d)) \/ FtlTrim(l)
    BY <1>1 DEF Next
  <2>2. LayerInv(ftl') /\ UsedStays(ftl, ftl')
    BY <1>0, <2>1, WriteLayer, TrimLayer DEF FtlWrite, FtlTrim
  <2> QED
    BY <1>1, <2>2, LayerStepKeeps
<1>2. ASSUME NEW start \in LBA, NEW n \in 1 .. FTL_MAX_LBAS - start, AllocateBlock(start, n)
      PROVE  ExtInv'
  <2>1. LayerInv(ftl') /\ UsedStays(ftl, ftl')
    BY <1>0, <1>2, AllocateLayer DEF AllocateBlock
  <2> QED
    BY <1>2, <2>1, LayerStepKeeps DEF AllocateBlock
<1>3. ASSUME NEW l \in LBA, NEW d \in Data, SlcBufferWrite(l, d)
      PROVE  ExtInv'
  <2>1. CASE BufferTakes /\ ftl' = SlcProgram(ftl, l, d, Len(ftl_ext.slc_pages))
               /\ ftl_ext' = [ftl_ext EXCEPT !.slc_pages = Append(@, l)]
    <3> DEFINE q == ftl_ext.slc_pages
               page == Len(q)
    <3>1. page \in PPN /\ page < FTL_SLC_BUFFER_PAGES
      <4>1. Len(q) \in Nat /\ Len(q) < FTL_SLC_BUFFER_PAGES
        BY <1>0, <2>1 DEF BufferTakes
      <4> HIDE DEF q
      <4> QED
        BY <4>1, ExtAssumption, NumPagesBound DEF PPN
    <3>2. LayerInv(ftl') /\ UsedStays(ftl, ftl') /\ ftl'.page_state[page] = "VALID"
      BY <1>0, <2>1, <3>1, SlcLayer
    <3>3. ftl_ext' = [ftl_ext EXCEPT !.slc_pages = Append(q, l)]
      BY <2>1
    <3>4. Append(q, l) \in Seq(LBA) /\ Len(Append(q, l)) = Len(q) + 1 /\ Len(q) \in Nat
      BY <1>0
    <3>5. /\ ftl_ext' \in [slc_pages : Seq(LBA), slc_enabled : BOOLEAN]
          /\ ftl_ext'.slc_pages = Append(q, l)
      BY <1>0, <3>3, <3>4
    <3>6. \A n \in 1 .. Len(q) : n - 1 \in PPN /\ ftl.page_state[n - 1] # "FREE"
      BY BufferFits DEF ExtInv, BufferUsed
    <3> HIDE DEF q, page
    <3>7. ASSUME NEW n \in 1 .. Len(Append(q, l))
          PROVE  ftl'.page_state[n - 1] # "FREE"
      <4>1. CASE n \in 1 .. Len(q)
        BY <3>2, <3>6, <4>1 DEF UsedStays
      <4>2. CASE n = Len(q) + 1
        <5>1. n - 1 = page
          BY <3>4, <4>2 DEF page
        <5> QED
          BY <3>2, <5>1
      <4>3. n \in 1 .. Len(q) \/ n = Len(q) + 1
        BY <3>4
      <4> QED
        BY <4>1, <4>2, <4>3
    <3>8. Len(ftl_ext'.slc_pages) <= FTL_SLC_BUFFER_PAGES
      BY <3>1, <3>4, <3>5, ExtAssumption, NumPagesBound DEF page
    <3>9. BufferUsed'
      BY <3>5, <3>7 DEF BufferUsed
    <3> QED
      BY <3>2, <3>5, <3>8, <3>9 DEF ExtInv
  <2>2. CASE ftl' = ftl_write(ftl, l, d).ftl /\ UNCHANGED ftl_ext
    BY <1>0, <2>2, WriteLayer, LayerStepKeeps
  <2> QED
    BY <1>3, <2>1, <2>2 DEF SlcBufferWrite
<1>4. ASSUME LayerInv(ftl'), ftl_ext' \in [slc_pages : {<<>>}, slc_enabled : BOOLEAN]
      PROVE  ExtInv'
  <2>0. <<>> \in Seq(LBA) /\ Len(<<>>) = 0
    OBVIOUS
  <2>1. ftl_ext'.slc_pages = <<>> /\ ftl_ext' \in [slc_pages : Seq(LBA), slc_enabled : BOOLEAN]
    BY <1>4, <2>0
  <2>2. Len(ftl_ext'.slc_pages) <= FTL_SLC_BUFFER_PAGES /\ BufferUsed'
    BY <2>0, <2>1, ExtAssumption, NumPagesBound DEF BufferUsed
  <2> QED
    BY <1>4, <2>1, <2>2 DEF ExtInv
<1>5. CASE SlcBufferInit
  BY <1>0, <1>4, <1>5 DEF SlcBufferInit
<1>6. CASE SlcBufferFlush
  <2>1. LayerInv(ftl')
    BY <1>0, <1>6, FlushLayer DEF SlcBufferFlush
  <2>2. ftl_ext' \in [slc_pages : {<<>>}, slc_enabled : BOOLEAN]
    BY <1>0, <1>6 DEF SlcBufferFlush
  <2> QED
    BY <1>4, <2>1, <2>2
<1>7. CASE UNCHANGED ext_vars
  <2>1. ftl' = ftl /\ ftl_ext' = ftl_ext
    BY <1>7 DEF ext_vars
  <2>2. LayerInv(ftl') /\ UsedStays(ftl, ftl')
    BY <1>0, <2>1 DEF UsedStays
  <2> QED
    BY <2>1, <2>2, LayerStepKeeps
<1> QED
  BY <1>1, <1>2, <1>3, <1>5, <1>6, <1>7 DEF ExtNext

\* What the invariant says of the types.
LEMMA ExtTyped == ExtInv => ExtTypeOK
<1> SUFFICES ASSUME ExtInv PROVE ExtTypeOK
  OBVIOUS
<1>1. /\ ftl \in Tables /\ ftl.free_pages < UINT32
      /\ \A b \in Blocks : ftl.erase_count[b] = 0
      /\ ftl.erases = 0 /\ ftl.gc_moves = 0
  BY DEF ExtInv, LayerInv
<1>2. ftl.erase_count \in [Blocks -> {0}]
  BY <1>1 DEF Tables
<1>3. [ftl EXCEPT !.free_pages = 0] \in
          [page_id       : [PPN -> PPN],
           page_state    : [PPN -> PageState],
           page_data     : [PPN -> Data],
           block_state   : [Blocks -> BlockState],
           erase_count   : [Blocks -> {0}],
           mapping_table : [LBA -> PPN \cup {NONE}],
           reverse_map   : [PPN -> LBA \cup {NONE}],
           write_pointer : 0 .. NumPages,
           free_pages    : {0},
           writes        : Nat,
           host_writes   : Nat,
           gc_moves      : {0},
           erases        : {0}]
  BY <1>1, <1>2 DEF Tables
<1>4. ftl.free_pages \in 0 .. UINT32 - 1
  <2>1. ftl.free_pages \in Nat
    BY <1>1 DEF Tables
  <2> QED
    BY <1>1, <2>1, ExtAssumption
<1> QED
  BY <1>3, <1>4 DEF ExtInv, ExtTypeOK

\* The buffer and the tables keep their types, the wear stays even and a fresh choice
\* is one of the least worn (the whole of FTLExt and WearLeveling).
THEOREM FlashCorrect == FlashSpec => []FlashSound
<1> DEFINE Inv == ExtInv /\ WearInv
<1>1. FlashInit => Inv
  BY ExtInitInv, WearInit DEF FlashInit
<1>2. Inv /\ [FlashNext]_<<part, ext_vars, wl_vars>> => Inv'
  <2> SUFFICES ASSUME Inv, [FlashNext]_<<part, ext_vars, wl_vars>> PROVE Inv'
    OBVIOUS
  <2>1. [ExtNext]_ext_vars /\ [WLNext]_wl_vars
    BY DEF FlashNext
  <2> QED
    BY <2>1, ExtNextInv, WearNext
<1>3. Inv => FlashSound
  BY ExtTyped, WearSound DEF FlashSound
<1> QED
  BY <1>1, <1>2, <1>3, PTL DEF FlashSpec

\* The invariant holds in every state: the two action properties start from it.
LEMMA FlashInvariant == FlashSpec => []ExtInv
<1>1. FlashInit => ExtInv
  BY ExtInitInv DEF FlashInit
<1>2. ExtInv /\ [FlashNext]_<<part, ext_vars, wl_vars>> => ExtInv'
  <2>1. [FlashNext]_<<part, ext_vars, wl_vars>> => [ExtNext]_ext_vars
    BY DEF FlashNext
  <2> QED
    BY <2>1, ExtNextInv
<1> QED
  BY <1>1, <1>2, PTL DEF FlashSpec

\* Cardinality of what is left when a run of n elements is taken from a finite set.
LEMMA RunTaken ==
  ASSUME NEW S, IsFiniteSet(S), NEW first \in Int, NEW n \in Nat,
         first .. first + n - 1 \subseteq S
  PROVE  Cardinality(S \ (first .. first + n - 1)) = Cardinality(S) - n
<1> DEFINE run == first .. first + n - 1
<1>1. IsFiniteSet(run) /\ Cardinality(run) = n
  BY FS_Interval
<1>2. /\ Cardinality(S \ run) = Cardinality(S) - Cardinality(S \cap run)
      /\ S \cap run = run
  BY FS_Difference
<1> QED
  BY <1>1, <1>2

\* ftl_allocate_block takes FREE pages in block order, exactly as many as blocks.
THEOREM AllocationFresh == FlashSpec => AllocationIsFresh
<1>1. ASSUME ExtInv, NEW start \in LBA, NEW n \in 2 .. FTL_MAX_LBAS - start,
             AllocateBlock(start, n), ftl' # ftl
      PROVE  /\ \A i \in 0 .. n - 1 :
                    /\ ftl.page_state[ftl'.mapping_table[start + i]] = "FREE"
                    /\ ftl'.mapping_table[start + i] = ftl'.mapping_table[start] + i
             /\ Cardinality(PagesIn(ftl', "FREE")) = Cardinality(PagesIn(ftl, "FREE")) - n
  <2> DEFINE phys == FindRun(ftl, n)
             new  == phys .. phys + n - 1
  <2>0. /\ FTL_MAX_LBAS \in Nat /\ start \in Nat /\ n \in Nat /\ n >= 2
        /\ start + n <= FTL_MAX_LBAS
    BY GeometryAssumption DEF LBA
  <2>1. /\ phys \in Int
        /\ \A i \in 0 .. n - 1 : phys + i \in PPN /\ ftl.page_state[phys + i] = "FREE"
        /\ ftl'.page_state = [p \in PPN |-> IF p \in new THEN "VALID" ELSE ftl.page_state[p]]
        /\ ftl'.mapping_table = [l \in LBA |-> IF l \in start .. start + n - 1
                                               THEN phys + (l - start) ELSE ftl.mapping_table[l]]
    <3>1. LayerInv(ftl) /\ n \in 1 .. FTL_MAX_LBAS - start
      BY <1>1, <2>0 DEF ExtInv
    <3>2. ftl' = ftl_allocate_block(ftl, start, n).ftl
      BY <1>1 DEF AllocateBlock
    <3> QED
      BY <1>1, <3>1, <3>2, AllocateLayer
  <2> HIDE DEF phys
  <2>2. ASSUME NEW i \in 0 .. n - 1
        PROVE  ftl'.mapping_table[start + i] = phys + i
    <3>1. start + i \in LBA /\ start + i \in start .. start + n - 1 /\ (start + i) - start = i
      BY <2>0 DEF LBA
    <3> QED
      BY <2>1, <3>1
  <2>3. ftl'.mapping_table[start] = phys
    <3>1. 0 \in 0 .. n - 1 /\ start + 0 = start /\ phys + 0 = phys
      BY <2>0, <2>1
    <3> QED
      BY <2>2, <3>1
  <2>4. \A p \in new : p \in PPN /\ ftl.page_state[p] = "FREE"
    <3> SUFFICES ASSUME NEW p \in new PROVE p \in PPN /\ ftl.page_state[p] = "FREE"
      OBVIOUS
    <3>1. p - phys \in 0 .. n - 1 /\ phys + (p - phys) = p
      BY <2>0, <2>1
    <3> QED
      BY <2>1, <3>1
  <2>5. PagesIn(ftl', "FREE") = PagesIn(ftl, "FREE") \ new /\ new \subseteq PagesIn(ftl, "FREE")
    BY <2>1, <2>4 DEF PagesIn
  <2>6. IsFiniteSet(PagesIn(ftl, "FREE"))
    BY PageSetsFinite DEF PagesIn
  <2>7. Cardinality(PagesIn(ftl', "FREE")) = Cardinality(PagesIn(ftl, "FREE")) - n
    <3> DEFINE F == PagesIn(ftl, "FREE")
    <3>1. IsFiniteSet(F) /\ n \in Nat /\ phys \in Int /\ phys .. phys + n - 1 \subseteq F
      BY <2>0, <2>1, <2>5, <2>6
    <3>2. PagesIn(ftl', "FREE") = F \ (phys .. phys + n - 1)
      BY <2>5
    <3> HIDE DEF F
    <3>3. Cardinality(F \ (phys .. phys + n - 1)) = Cardinality(F) - n
      BY <3>1, RunTaken
    <3> QED
      BY <3>2, <3>3, Zenon DEF F
  <2> QED
    BY <2>1, <2>2, <2>3, <2>7
<1>2. ExtInv => [\A start \in LBA : \A n \in 2 .. FTL_MAX_LBAS - start :
          AllocateBlock(start, n) /\ ftl' # ftl =>
              /\ \A i \in 0 .. n - 1 :
                    /\ ftl.page_state[ftl'.mapping_table[start + i]] = "FREE"
                    /\ ftl'.mapping_table[start + i] = ftl'.mapping_table[start] + i
              /\ Cardinality(PagesIn(ftl', "FREE")) = Cardinality(PagesIn(ftl, "FREE")) - n
      ]_ext_vars
  BY <1>1
<1> QED
  BY <1>2, FlashInvariant, PTL DEF AllocationIsFresh
--------------------------------------------------------------------------------
(* Flushing a current buffer. *)

Reachable(f) == {p \in PPN : p >= f.write_pointer /\ f.page_state[p] = "FREE"}

\* After n rounds of a flush that starts at f: the blocks read what they read, the rest
\* of the buffer is current, and there is room for it.
Flushing(f, q, n, g) ==
  /\ LayerInv(g)
  /\ \A k \in 1 .. Len(q) : g.page_state[k - 1] # "FREE"
  /\ \A k \in n + 1 .. Len(q), l \in LBA :
        g.page_state[k - 1] = "VALID" => (g.mapping_table[l] = k - 1 <=> l = q[k])
  /\ Cardinality(Reachable(g)) >= Len(q) - n
  /\ g.free_pages >= Len(q) - n
  /\ \A l \in LBA : ftl_read(g, l) = ftl_read(f, l)

\* A block reads the same from two layers that agree on its page.
LEMMA SameRead ==
  ASSUME NEW f, NEW g, NEW l \in LBA,
         f.mapping_table[l] = NONE => g.mapping_table[l] = NONE,
         f.mapping_table[l] # NONE =>
           /\ g.mapping_table[l] # NONE
           /\ g.page_state[g.mapping_table[l]] = f.page_state[f.mapping_table[l]]
           /\ g.page_data[g.mapping_table[l]] = f.page_data[f.mapping_table[l]]
  PROVE  ftl_read(g, l) = ftl_read(f, l)
<1>1. CASE f.mapping_table[l] = NONE
  BY <1>1 DEF ftl_read
<1>2. CASE f.mapping_table[l] # NONE
  BY <1>2, Zenon DEF ftl_read
<1> QED
  BY <1>1, <1>2

\* A round that writes a page back moves its block to a page that was nobody's.
LEMMA WriteBack ==
  ASSUME NEW f, NEW q \in Seq(LBA), Len(q) <= NumPages, NEW n \in 1 .. Len(q), NEW g,
         Flushing(f, q, n - 1, g), g.page_state[n - 1] = "VALID"
  PROVE  Flushing(f, q, n, FlushRound(g, q, n))
<1> DEFINE i == n - 1
           l == q[n]
           d == g.page_data[i]
           m == InvalidateOld(g, l)
           w == ftl_write(g, l, d).ftl
           h == FlushRound(g, q, n)
<1>0. /\ i \in PPN /\ l \in LBA
      /\ g \in Tables
      /\ g.page_state \in [PPN -> PageState]
      /\ g.page_data \in [PPN -> Data]
      /\ g.mapping_table \in [LBA -> PPN \cup {NONE}]
      /\ g.free_pages \in Nat
  <2>1. n \in Nat /\ n >= 1 /\ n <= NumPages
    BY NumPagesBound
  <2>2. n - 1 \in PPN
    BY <2>1, NumPagesBound DEF PPN
  <2> QED
    BY <2>2 DEF Flushing, LayerInv, Tables
<1>n. /\ Len(q) \in Nat /\ n \in Nat
      /\ Len(q) - i = (Len(q) - n) + 1
      /\ Len(q) - n \in Nat
  OBVIOUS
<1>1. /\ d \in Data
      /\ i # NONE
      /\ g.mapping_table[l] = i
      /\ \A k \in LBA : g.mapping_table[k] = i <=> k = l
  <2>1. n \in (n - 1) + 1 .. Len(q)
    BY <1>n
  <2>2. \A k \in LBA : g.mapping_table[k] = n - 1 <=> k = q[n]
    BY <2>1 DEF Flushing
  <2>3. n - 1 # NONE
    BY <1>n DEF NONE
  <2> QED
    BY <1>0, <2>2, <2>3
<1>2. h = [w EXCEPT !.page_state[i] = "INVALID"]
  BY DEF FlushRound
<1>3. /\ m \in Tables
      /\ m.mapping_table = g.mapping_table
      /\ m.page_data = g.page_data
      /\ m.write_pointer = g.write_pointer
      /\ m.free_pages = g.free_pages
      /\ m.page_state = [g.page_state EXCEPT ![i] = "INVALID"]
  <2> DEFINE old == g.mapping_table[l]
  <2>1. /\ m \in Tables
        /\ m.mapping_table = g.mapping_table
        /\ m.page_data = g.page_data
        /\ m.write_pointer = g.write_pointer
        /\ SameCounters(g, m)
        /\ old # NONE => m.page_state = [g.page_state EXCEPT ![old] = "INVALID"]
    BY <1>0, InvalidateOldTables
  <2>2. old = i /\ old # NONE
    BY <1>1
  <2> HIDE DEF m, old, l, i
  <2> QED
    BY <2>1, <2>2 DEF SameCounters
<1>4. /\ g.free_pages >= (Len(q) - n) + 1
      /\ g.free_pages # 0
      /\ Cardinality(Reachable(g)) >= (Len(q) - n) + 1
  <2>1. g.free_pages >= Len(q) - (n - 1) /\ Cardinality(Reachable(g)) >= Len(q) - (n - 1)
    BY DEF Flushing
  <2> HIDE DEF Flushing
  <2> DEFINE C == Cardinality(Reachable(g))
  <2>2. C >= Len(q) - (n - 1)
    BY <2>1
  <2> HIDE DEF C
  <2>3. C >= (Len(q) - n) + 1
    BY <1>n, <2>2
  <2> QED
    BY <1>0, <1>n, <2>1, <2>3 DEF C
<1>5. LayerInv(h) /\ UsedStays(g, h)
  BY RoundLayer DEF Flushing
<1>6. \/ \E p : FirstFree(m, p) /\ Programmed(m, l, d, p, w)
      \/ \A r \in PPN : g.write_pointer <= r => m.page_state[r] # "FREE"
  BY <1>0, <1>1, <1>4, WriteEnds
<1> HIDE DEF m, w, h, d, i, l
<1>7. IsFiniteSet(Reachable(g)) /\ Cardinality(Reachable(g)) \in Nat
  BY PageSetsFinite DEF Reachable
<1>8. \E r \in PPN : g.write_pointer <= r /\ g.page_state[r] = "FREE"
  <2>1. Reachable(g) # {}
    BY <1>4, <1>7, <1>n, FS_EmptySet
  <2>2. g.write_pointer \in Int /\ \A r \in PPN : r \in Int
    BY <1>0, NumPagesBound DEF Tables, PPN
  <2> QED
    BY <2>1, <2>2 DEF Reachable
<1>9. PICK p : FirstFree(m, p) /\ Programmed(m, l, d, p, w)
  <2>1. g.page_state[i] # "FREE"
    BY DEF i
  <2> QED
    BY <1>0, <1>3, <1>6, <1>8, <2>1
<1>10. /\ p \in PPN /\ p # i /\ p # NONE
       /\ g.page_state[p] = "FREE"
       /\ g.write_pointer <= p
       /\ \A r \in PPN : g.write_pointer <= r /\ r < p => g.page_state[r] # "FREE"
  <2>1. /\ p \in PPN /\ m.page_state[p] = "FREE" /\ g.write_pointer <= p
        /\ \A r \in PPN : g.write_pointer <= r /\ r < p => m.page_state[r] # "FREE"
    BY <1>3, <1>9 DEF FirstFree
  <2>2. p # NONE
    BY <2>1, NumPagesBound DEF PPN, NONE
  <2>3. g.page_state[i] = "VALID"
    BY DEF i
  <2> QED
    BY <1>0, <1>3, <2>1, <2>2, <2>3
<1>11. /\ h.page_state = [m.page_state EXCEPT ![p] = "VALID", ![i] = "INVALID"]
       /\ h.page_data = [g.page_data EXCEPT ![p] = d]
       /\ h.mapping_table = [g.mapping_table EXCEPT ![l] = p]
       /\ h.write_pointer = p + 1
       /\ h.free_pages = g.free_pages - 1
  <2>1. /\ w \in Tables
        /\ w.page_state = [m.page_state EXCEPT ![p] = "VALID"]
        /\ w.page_data = [g.page_data EXCEPT ![p] = d]
        /\ w.mapping_table = [g.mapping_table EXCEPT ![l] = p]
        /\ w.write_pointer = p + 1
        /\ w.free_pages = g.free_pages - 1
    BY <1>3, <1>9 DEF Programmed
  <2> QED
    BY <1>2, <2>1 DEF Tables
<1>12. /\ h.page_state[p] = "VALID"
       /\ h.page_state[i] = "INVALID"
       /\ \A r \in PPN \ {p, i} : h.page_state[r] = g.page_state[r]
       /\ h.page_data[p] = d
       /\ \A r \in PPN \ {p} : h.page_data[r] = g.page_data[r]
       /\ h.mapping_table[l] = p
       /\ \A k \in LBA \ {l} : h.mapping_table[k] = g.mapping_table[k]
  BY <1>0, <1>3, <1>10, <1>11
<1>13. \A k \in LBA : g.mapping_table[k] # p
  BY <1>10 DEF Flushing, LayerInv, MappedUsed
<1>14. ASSUME NEW k \in LBA
       PROVE  ftl_read(h, k) = ftl_read(g, k)
  <2>1. CASE k = l
    <3>1. ftl_read(h, k) = [rc |-> 0, data |-> d]
      BY <1>10, <1>12, <2>1 DEF ftl_read
    <3>2. ftl_read(g, k) = [rc |-> 0, data |-> d]
      <4>1. g.page_state[i] = "VALID" /\ g.page_data[i] = d
        BY DEF i, d
      <4> QED
        BY <1>1, <2>1, <4>1 DEF ftl_read
    <3> QED
      BY <3>1, <3>2
  <2>2. CASE k # l
    <3>1. /\ h.mapping_table[k] = g.mapping_table[k]
          /\ g.mapping_table[k] \notin {p, i}
          /\ g.mapping_table[k] \in PPN \cup {NONE}
      BY <1>0, <1>1, <1>12, <1>13, <2>2
    <3>2. g.mapping_table[k] # NONE =>
             /\ h.page_state[h.mapping_table[k]] = g.page_state[g.mapping_table[k]]
             /\ h.page_data[h.mapping_table[k]] = g.page_data[g.mapping_table[k]]
      BY <1>12, <3>1
    <3> QED
      BY <3>1, <3>2, SameRead
  <2> QED
    BY <2>1, <2>2
<1>15. ASSUME NEW k \in 1 .. Len(q)
       PROVE  k - 1 \in PPN /\ k - 1 # p /\ h.page_state[k - 1] # "FREE"
  <2>1. k - 1 \in PPN
    <3>1. k \in Nat /\ k >= 1 /\ k <= NumPages
      BY <1>n, NumPagesBound
    <3> QED
      BY <3>1, NumPagesBound DEF PPN
  <2>2. g.page_state[k - 1] # "FREE"
    BY DEF Flushing
  <2> QED
    BY <1>5, <1>10, <2>1, <2>2 DEF UsedStays
<1>16. ASSUME NEW k \in n + 1 .. Len(q), NEW b \in LBA, h.page_state[k - 1] = "VALID"
       PROVE  h.mapping_table[b] = k - 1 <=> b = q[k]
  <2>1. k \in 1 .. Len(q) /\ k \in (n - 1) + 1 .. Len(q) /\ k - 1 # i
    BY <1>n DEF i
  <2>2. k - 1 \in PPN /\ k - 1 # p
    BY <1>15, <2>1
  <2>3. g.page_state[k - 1] = "VALID"
    BY <1>12, <1>16, <2>1, <2>2
  <2>4. \A c \in LBA : g.mapping_table[c] = k - 1 <=> c = q[k]
    BY <2>1, <2>3 DEF Flushing
  <2>5. CASE b = l
    BY <1>0, <1>1, <1>12, <2>1, <2>2, <2>4, <2>5
  <2>6. CASE b # l
    BY <1>12, <2>4, <2>6
  <2> QED
    BY <2>5, <2>6
<1>17. Cardinality(Reachable(h)) >= Len(q) - n
  <2>1. Reachable(h) = Reachable(g) \ {p} /\ p \in Reachable(g)
    <3>0. /\ p \in Int /\ g.write_pointer \in Int /\ \A r \in PPN : r \in Int
          /\ g.page_state[i] = "VALID"
      BY <1>0, <1>10, NumPagesBound DEF Tables, PPN, i
    <3>1. p \in Reachable(g)
      BY <1>10, <3>0 DEF Reachable
    <3>2. ASSUME NEW r \in Reachable(h)
          PROVE  r \in Reachable(g) \ {p}
      <4>1. r \in PPN /\ r >= p + 1 /\ h.page_state[r] = "FREE"
        BY <1>11 DEF Reachable
      <4>2. r # p /\ r # i /\ r >= g.write_pointer
        BY <1>10, <1>12, <3>0, <4>1
      <4> QED
        BY <1>12, <4>1, <4>2 DEF Reachable
    <3>3. ASSUME NEW r \in Reachable(g) \ {p}
          PROVE  r \in Reachable(h)
      <4>1. r \in PPN /\ r >= g.write_pointer /\ g.page_state[r] = "FREE" /\ r # p /\ r # i
        BY <3>0 DEF Reachable
      <4>2. ~ (r < p)
        BY <1>10, <3>0, <4>1
      <4>3. r >= p + 1
        BY <3>0, <4>1, <4>2
      <4>4. h.page_state[r] = "FREE"
        BY <1>12, <4>1
      <4> QED
        BY <1>11, <4>1, <4>3, <4>4 DEF Reachable
    <3> QED
      BY <3>1, <3>2, <3>3
  <2>2. Cardinality(Reachable(h)) = Cardinality(Reachable(g)) - 1
    BY <1>7, <2>1, FS_RemoveElement
  <2> DEFINE C == Cardinality(Reachable(g))
  <2>3. C \in Nat /\ C >= (Len(q) - n) + 1
    BY <1>4, <1>7
  <2> HIDE DEF C
  <2>4. C - 1 >= Len(q) - n
    BY <1>n, <2>3
  <2> QED
    BY <2>2, <2>4 DEF C
<1>18. h.free_pages >= Len(q) - n
  BY <1>0, <1>4, <1>11, <1>n
<1>19. \A k \in LBA : ftl_read(h, k) = ftl_read(f, k)
  BY <1>14 DEF Flushing
<1>20. Flushing(f, q, n, h)
  BY <1>5, <1>15, <1>16, <1>17, <1>18, <1>19 DEF Flushing
<1> QED
  BY <1>20 DEF h

\* The whole flush moves blocks and changes none.
THEOREM FlushPreserves == FlashSpec => FlushPreservesCurrent
<1>1. ASSUME ExtInv, SlcBufferFlush, BufferCurrent,
             Cardinality(ReachableFree) >= Len(ftl_ext.slc_pages),
             ftl.free_pages >= Len(ftl_ext.slc_pages),
             NEW l \in LBA
      PROVE  ftl_read(ftl', l) = ftl_read(ftl, l)
  <2> DEFINE q == ftl_ext.slc_pages
  <2>0. /\ q \in Seq(LBA) /\ Len(q) \in Nat /\ Len(q) <= NumPages
        /\ ftl' = FlushPages(ftl, q)
    BY <1>1, BufferFits DEF SlcBufferFlush
  <2>1. PICK flushed : /\ flushed[0] = ftl
                       /\ \A i \in 1 .. Len(q) : flushed[i] = FlushRound(flushed[i - 1], q, i)
                       /\ FlushPages(ftl, q) = flushed[Len(q)]
    BY <2>0, FlushedRounds
  <2>2. Flushing(ftl, q, 0, ftl)
    <3>1. LayerInv(ftl) /\ \A k \in 1 .. Len(q) : ftl.page_state[k - 1] # "FREE"
      BY <1>1 DEF ExtInv, BufferUsed
    <3>2. \A k \in 1 .. Len(q), b \in LBA :
            ftl.page_state[k - 1] = "VALID" => (ftl.mapping_table[b] = k - 1 <=> b = q[k])
      BY <1>1 DEF BufferCurrent
    <3>3. Cardinality(Reachable(ftl)) >= Len(q) /\ ftl.free_pages >= Len(q)
      BY <1>1 DEF ReachableFree, Reachable
    <3> HIDE DEF q
    <3>4. Len(q) - 0 = Len(q) /\ 0 + 1 = 1
      BY <2>0
    <3> QED
      BY <3>1, <3>2, <3>3, <3>4 DEF Flushing
  <2> HIDE DEF q
  <2> DEFINE Bad == {k \in Nat : k <= Len(q) /\ ~ Flushing(ftl, q, k, flushed[k])}
  <2>3. Bad = {}
    <3> SUFFICES ASSUME Bad # {} PROVE FALSE
      OBVIOUS
    <3>1. PICK k \in Bad : \A j \in Bad : k <= j
      BY LeastElement
    <3>2. k \in Nat /\ k <= Len(q) /\ ~ Flushing(ftl, q, k, flushed[k])
      BY <3>1
    <3>3. k # 0
      BY <2>1, <2>2, <3>2
    <3>4. k - 1 \in Nat /\ k - 1 <= Len(q) /\ ~ (k <= k - 1) /\ k \in 1 .. Len(q)
      BY <2>0, <3>2, <3>3
    <3>5. Flushing(ftl, q, k - 1, flushed[k - 1])
      BY <3>1, <3>4
    <3>6. flushed[k] = FlushRound(flushed[k - 1], q, k)
      BY <2>1, <3>4
    <3>7. CASE flushed[k - 1].page_state[k - 1] = "VALID"
      BY <2>0, <3>2, <3>4, <3>5, <3>6, <3>7, WriteBack
    <3>8. CASE flushed[k - 1].page_state[k - 1] # "VALID"
      <4>1. flushed[k] = flushed[k - 1]
        BY <3>6, <3>8 DEF FlushRound
      <4>2. /\ \A c : c >= Len(q) - (k - 1) /\ c \in Int => c >= Len(q) - k
            /\ \A c \in k + 1 .. Len(q) : c \in (k - 1) + 1 .. Len(q)
        BY <2>0, <3>4
      <4>3. flushed[k - 1].free_pages \in Int /\ Cardinality(Reachable(flushed[k - 1])) \in Int
        <5>1. Cardinality(Reachable(flushed[k - 1])) \in Nat
          BY PageSetsFinite DEF Reachable
        <5>2. flushed[k - 1].free_pages \in Nat
          BY <3>5 DEF Flushing, LayerInv, Tables
        <5> QED
          BY <5>1, <5>2
      <4>4. Flushing(ftl, q, k, flushed[k - 1])
        <5> DEFINE g == flushed[k - 1]
        <5>1. Flushing(ftl, q, k - 1, g)
          BY <3>5
        <5>2. /\ Cardinality(Reachable(g)) >= Len(q) - k
              /\ g.free_pages >= Len(q) - k
          BY <4>2, <4>3, <5>1 DEF Flushing
        <5>3. \A c \in k + 1 .. Len(q), b \in LBA :
                 g.page_state[c - 1] = "VALID" => (g.mapping_table[b] = c - 1 <=> b = q[c])
          BY <4>2, <5>1 DEF Flushing
        <5> HIDE DEF g
        <5>4. Flushing(ftl, q, k, g)
          BY <5>1, <5>2, <5>3 DEF Flushing
        <5> QED
          BY <5>4 DEF g
      <4> QED
        BY <3>2, <4>1, <4>4
    <3> QED
      BY <3>7, <3>8
  <2>4. Flushing(ftl, q, Len(q), flushed[Len(q)])
    BY <2>0, <2>3
  <2> QED
    BY <2>0, <2>1, <2>4 DEF Flushing
<1>2. ExtInv => [SlcBufferFlush /\ BufferCurrent
          /\ Cardinality(ReachableFree) >= Len(ftl_ext.slc_pages)
          /\ ftl.free_pages >= Len(ftl_ext.slc_pages)
          => \A l \in LBA : ftl_read(ftl', l) = ftl_read(ftl, l)]_ext_vars
  BY <1>1
<1> QED
  BY <1>2, FlashInvariant, PTL DEF FlushPreservesCurrent
--------------------------------------------------------------------------------
(* What a write does to the blocks the host reads. *)

\* On a consistent layer a write is accepted and seen by the next read of its block
\* alone, or refused: then the array is full, and the block may read as an error.
LEMMA WriteOutcome ==
  ASSUME NEW f, Consistent(f), Accounted(f), NEW l \in LBA, NEW d \in Data
  PROVE  LET w == ftl_write(f, l, d)
         IN  /\ Consistent(w.ftl) /\ Accounted(w.ftl)
             /\ \A m \in LBA \ {l} : ftl_read(w.ftl, m) = ftl_read(f, m)
             /\ \/ /\ w.rc = 0
                   /\ ftl_read(w.ftl, l) = [rc |-> 0, data |-> d]
                   /\ w.ftl.write_pointer = f.write_pointer + 1
                \/ /\ w.rc # 0
                   /\ ftl_read(w.ftl, l) = ftl_read(f, l) \/ ftl_read(w.ftl, l).rc # 0
                   /\ w.ftl.write_pointer = f.write_pointer
                   /\ f.write_pointer = NumPages
<1> DEFINE g   == InvalidateOld(f, l)
           w   == ftl_write(f, l, d)
           q   == g.write_pointer
           old == f.mapping_table[l]
<1>1. Consistent(w.ftl) /\ Accounted(w.ftl)
  BY WriteConsistent, WriteAccounted
<1>2. /\ Consistent(g) /\ Accounted(g) /\ g \in FTLRecord /\ f \in FTLRecord
      /\ g.write_pointer = f.write_pointer
      /\ g.mapping_table = f.mapping_table
      /\ g.page_data = f.page_data
      /\ old = NONE => g = f
      /\ old # NONE => g.page_state = [f.page_state EXCEPT ![old] = "INVALID"]
  BY InvalidateConsistent, InvalidateAccounted, InvalidateOldFields DEF Consistent
<1>3. /\ f.page_state \in [PPN -> PageState] /\ g.page_state \in [PPN -> PageState]
      /\ f.mapping_table \in [LBA -> PPN \cup {NONE}]
      /\ f.page_data \in [PPN -> Data]
      /\ f.write_pointer \in 0 .. NumPages
  BY <1>2 DEF FTLRecord
<1>4. \/ /\ w.rc # 0
         /\ w.ftl = [g EXCEPT !.write_pointer = NumPages]
         /\ \A p \in PPN : p >= q => g.page_state[p] # "FREE"
      \/ /\ w.rc = 0
         /\ q \in PPN
         /\ g.free_pages # 0
         /\ w.ftl = Program(g, l, d, q)
  <2>1. g.free_pages # 0
    <3>1. Cardinality(PagesIn(g, "FREE")) \in Nat
      BY PageSetsFinite DEF PagesIn
    <3> QED
      BY <1>2, <3>1, NumPagesBound DEF Accounted
  <2> QED
    BY <2>1, WriteCases
<1> HIDE DEF g, w
<1>5. ASSUME NEW m \in LBA \ {l}
      PROVE  /\ old # NONE => f.mapping_table[m] # old
             /\ ftl_read(g, m) = ftl_read(f, m)
  <2>1. old # NONE => f.mapping_table[m] # old
    BY DEF Consistent, Unaliased
  <2>2. f.mapping_table[m] # NONE =>
          g.page_state[f.mapping_table[m]] = f.page_state[f.mapping_table[m]]
    BY <1>2, <1>3, <2>1
  <2> QED
    BY <1>2, <2>1, <2>2 DEF ftl_read
<1>6. CASE /\ w.rc # 0
           /\ w.ftl = [g EXCEPT !.write_pointer = NumPages]
           /\ \A p \in PPN : p >= q => g.page_state[p] # "FREE"
  <2>1. /\ w.ftl.page_data = g.page_data /\ w.ftl.page_state = g.page_state
        /\ w.ftl.mapping_table = g.mapping_table
        /\ w.ftl.write_pointer = NumPages
    BY <1>2, <1>6 DEF FTLRecord
  <2>2. \A m \in LBA : ftl_read(w.ftl, m) = ftl_read(g, m)
    BY <2>1 DEF ftl_read
  <2>3. q \notin PPN
    BY <1>2, <1>6, NumPagesBound DEF Consistent, LogShaped, PPN
  <2>4. f.write_pointer = NumPages
    BY <1>2, <1>3, <2>3, NumPagesBound DEF PPN
  <2>5. old # NONE => ftl_read(g, l).rc # 0
    <3>1. old # NONE => g.page_state[old] # "VALID"
      BY <1>2, <1>3
    <3> QED
      BY <1>2, <3>1 DEF ftl_read
  <2>6. old = NONE => ftl_read(g, l) = ftl_read(f, l)
    BY <1>2
  <2> QED
    BY <1>1, <1>5, <1>6, <2>1, <2>2, <2>4, <2>5, <2>6 DEF w
<1>7. CASE /\ w.rc = 0
           /\ q \in PPN
           /\ g.free_pages # 0
           /\ w.ftl = Program(g, l, d, q)
  <2>1. Programmed(g, l, d, q, w.ftl)
    BY <1>2, <1>7, ProgramFields
  <2>2. /\ w.ftl.page_state = [g.page_state EXCEPT ![q] = "VALID"]
        /\ w.ftl.page_data = [g.page_data EXCEPT ![q] = d]
        /\ w.ftl.mapping_table = [g.mapping_table EXCEPT ![l] = q]
        /\ w.ftl.write_pointer = f.write_pointer + 1
    BY <1>2, <2>1 DEF Programmed
  <2>3. q # NONE /\ g.page_state[q] = "FREE"
    BY <1>2, <1>7, NumPagesBound DEF Consistent, LogShaped, PPN, NONE
  <2>4. ftl_read(w.ftl, l) = [rc |-> 0, data |-> d]
    <3>1. /\ w.ftl.mapping_table[l] = q
          /\ w.ftl.page_state[q] = "VALID"
          /\ w.ftl.page_data[q] = d
      BY <1>2, <1>3, <1>7, <2>2
    <3> QED
      BY <2>3, <3>1 DEF ftl_read
  <2>5. ASSUME NEW m \in LBA \ {l}
        PROVE  ftl_read(w.ftl, m) = ftl_read(g, m)
    <3>1. w.ftl.mapping_table[m] = g.mapping_table[m]
      BY <1>2, <1>3, <2>2
    <3>2. g.mapping_table[m] # q
      BY <1>2, <2>3 DEF Consistent, Unaliased
    <3>3. g.mapping_table[m] # NONE =>
            /\ w.ftl.page_state[g.mapping_table[m]] = g.page_state[g.mapping_table[m]]
            /\ w.ftl.page_data[g.mapping_table[m]] = g.page_data[g.mapping_table[m]]
      BY <1>2, <1>3, <2>2, <3>2
    <3> QED
      BY <3>1, <3>3 DEF ftl_read
  <2> QED
    BY <1>1, <1>5, <1>7, <2>2, <2>4, <2>5 DEF w
<1> QED
  BY <1>4, <1>6, <1>7
--------------------------------------------------------------------------------
(* The inductive invariant, of a record s as ssdc_process passes it on. *)

\* What ReadsLastWrite and ErrorsExplained say of one command of history h.
WritesTo(h, l, n) ==
  {u \in 1 .. n : h[u].type = "WRITE" /\ h[u].lba = l /\ h[u].status = "COMPLETE"}

Written(h, n) == {u \in 1 .. n : h[u].type = "WRITE" /\ h[u].status = "COMPLETE"}

RefusedBefore(h, l, n) ==
  \E u \in 1 .. n : h[u].type = "WRITE" /\ h[u].lba = l /\ h[u].status = "ERROR"

LastWritten(h, l, n, d) ==
  \/ WritesTo(h, l, n) = {} /\ d = Zero
  \/ \E u \in WritesTo(h, l, n) : (\A v \in WritesTo(h, l, n) : v <= u) /\ d = h[u].data

ReadAnswered(h, t) ==
  h[t].type = "READ" /\ h[t].status = "COMPLETE" => LastWritten(h, h[t].lba, t - 1, h[t].data)

ErrorAnswered(h, t) ==
  h[t].status = "ERROR" =>
    \/ h[t].type = "READ" /\ RefusedBefore(h, h[t].lba, t - 1)
    \/ h[t].type = "WRITE" /\ Cardinality(Written(h, t - 1)) = NumPages

\* The commands of history h that are not in queue issue any more.
Done(h, issue) == Len(h) - Len(issue)

\* Block by block, the layer f shows what the first n commands of h wrote.
Shows(f, h, n) ==
  /\ \A l \in LBA : \/ ftl_read(f, l).rc = 0 /\ LastWritten(h, l, n, ftl_read(f, l).data)
                    \/ ftl_read(f, l).rc # 0 /\ RefusedBefore(h, l, n)
  /\ Cardinality(Written(h, n)) = f.write_pointer

Queued(s) ==
  /\ s.history \in Seq(Commands) /\ Len(s.history) <= MaxCommands
  /\ s.issue \in Seq(Commands) /\ Len(s.issue) <= SSDC_QUEUE_DEPTH
  /\ s.completion \in Seq(Commands) /\ Len(s.completion) <= SSDC_QUEUE_DEPTH
  /\ Len(s.issue) <= Len(s.history)
  /\ \A i \in 1 .. Len(s.issue) : /\ s.issue[i] = s.history[Done(s.history, s.issue) + i]
                                 /\ s.issue[i].status = "PENDING"
  /\ \A t \in 1 .. Len(s.history) : s.history[t].tag = t

SSDInv(s) ==
  /\ Consistent(s.ftl) /\ Accounted(s.ftl)
  /\ s.busy = 0
  /\ Queued(s)
  /\ \A t \in 1 .. Done(s.history, s.issue) :
       ReadAnswered(s.history, t) /\ ErrorAnswered(s.history, t)
  /\ Shows(s.ftl, s.history, Done(s.history, s.issue))

\* Histories that agree on their first n commands answer them alike.
LEMMA SameAnswers ==
  ASSUME NEW h, NEW k, NEW n \in Nat, \A u \in 1 .. n : k[u] = h[u]
  PROVE  /\ Written(k, n) = Written(h, n)
         /\ \A l : /\ WritesTo(k, l, n) = WritesTo(h, l, n)
                   /\ RefusedBefore(k, l, n) <=> RefusedBefore(h, l, n)
                   /\ \A d : LastWritten(k, l, n, d) <=> LastWritten(h, l, n, d)
         /\ \A t \in 1 .. n : /\ ReadAnswered(k, t) <=> ReadAnswered(h, t)
                              /\ ErrorAnswered(k, t) <=> ErrorAnswered(h, t)
<1>1. ASSUME NEW m \in Nat, m <= n
      PROVE  /\ Written(k, m) = Written(h, m)
             /\ \A l : /\ WritesTo(k, l, m) = WritesTo(h, l, m)
                       /\ RefusedBefore(k, l, m) <=> RefusedBefore(h, l, m)
                       /\ \A d : LastWritten(k, l, m, d) <=> LastWritten(h, l, m, d)
  <2>1. \A u \in 1 .. m : k[u] = h[u]
    BY <1>1
  <2>2. Written(k, m) = Written(h, m)
    BY <2>1 DEF Written
  <2>3. \A l : WritesTo(k, l, m) = WritesTo(h, l, m)
    BY <2>1 DEF WritesTo
  <2>4. \A l : RefusedBefore(k, l, m) <=> RefusedBefore(h, l, m)
    BY <2>1 DEF RefusedBefore
  <2>5. ASSUME NEW l, NEW d
        PROVE  LastWritten(k, l, m, d) <=> LastWritten(h, l, m, d)
    <3>1. \A u \in WritesTo(h, l, m) : k[u] = h[u]
      BY <2>1 DEF WritesTo
    <3> QED
      BY <2>3, <3>1 DEF LastWritten
  <2> QED
    BY <2>2, <2>3, <2>4, <2>5
<1>2. ASSUME NEW t \in 1 .. n
      PROVE  /\ ReadAnswered(k, t) <=> ReadAnswered(h, t)
             /\ ErrorAnswered(k, t) <=> ErrorAnswered(h, t)
  <2>1. t - 1 \in Nat /\ t - 1 <= n /\ k[t] = h[t]
    OBVIOUS
  <2> QED
    BY <1>1, <2>1 DEF ReadAnswered, ErrorAnswered
<1> QED
  BY <1>1, <1>2

\* One command more, command t.
LEMMA OneMore ==
  ASSUME NEW h, NEW t \in Nat \ {0}
  PROVE  /\ \A l : /\ WritesTo(h, l, t) =
                        IF h[t].type = "WRITE" /\ h[t].lba = l /\ h[t].status = "COMPLETE"
                        THEN WritesTo(h, l, t - 1) \cup {t} ELSE WritesTo(h, l, t - 1)
                   /\ RefusedBefore(h, l, t - 1) => RefusedBefore(h, l, t)
         /\ \A d : h[t].type = "WRITE" /\ h[t].status = "COMPLETE" /\ d = h[t].data =>
                     LastWritten(h, h[t].lba, t, d)
         /\ \A l, d : /\ ~ (h[t].type = "WRITE" /\ h[t].lba = l /\ h[t].status = "COMPLETE")
                      /\ LastWritten(h, l, t - 1, d)
                      => LastWritten(h, l, t, d)
         /\ Cardinality(Written(h, t - 1)) \in Nat
         /\ Cardinality(Written(h, t)) =
              IF h[t].type = "WRITE" /\ h[t].status = "COMPLETE"
              THEN Cardinality(Written(h, t - 1)) + 1 ELSE Cardinality(Written(h, t - 1))
<1>0. /\ t - 1 \in Nat
      /\ 1 .. t = (1 .. t - 1) \cup {t}
      /\ t \notin 1 .. t - 1
  OBVIOUS
<1>1. ASSUME NEW l
      PROVE  WritesTo(h, l, t) =
               IF h[t].type = "WRITE" /\ h[t].lba = l /\ h[t].status = "COMPLETE"
               THEN WritesTo(h, l, t - 1) \cup {t} ELSE WritesTo(h, l, t - 1)
  BY <1>0 DEF WritesTo
<1>2. ASSUME NEW l
      PROVE  RefusedBefore(h, l, t - 1) => RefusedBefore(h, l, t)
  BY <1>0 DEF RefusedBefore
<1>3. ASSUME NEW d, h[t].type = "WRITE", h[t].status = "COMPLETE", d = h[t].data
      PROVE  LastWritten(h, h[t].lba, t, d)
  <2>1. WritesTo(h, h[t].lba, t) = WritesTo(h, h[t].lba, t - 1) \cup {t}
    BY <1>1, <1>3
  <2>2. \A v \in WritesTo(h, h[t].lba, t) : v <= t
    BY DEF WritesTo
  <2> QED
    BY <1>3, <2>1, <2>2 DEF LastWritten
<1>4. ASSUME NEW l, NEW d, LastWritten(h, l, t - 1, d),
             ~ (h[t].type = "WRITE" /\ h[t].lba = l /\ h[t].status = "COMPLETE")
      PROVE  LastWritten(h, l, t, d)
  <2>1. WritesTo(h, l, t) = WritesTo(h, l, t - 1)
    BY <1>1, <1>4
  <2> QED
    BY <1>4, <2>1 DEF LastWritten
<1>5. /\ Written(h, t) = IF h[t].type = "WRITE" /\ h[t].status = "COMPLETE"
                         THEN Written(h, t - 1) \cup {t} ELSE Written(h, t - 1)
      /\ t \notin Written(h, t - 1)
      /\ Written(h, t - 1) \subseteq 1 .. t - 1
  BY <1>0 DEF Written
<1>6. IsFiniteSet(Written(h, t - 1))
  <2>1. IsFiniteSet(1 .. t - 1)
    BY <1>0, FS_Interval
  <2> QED
    BY <1>5, <2>1, FS_Subset
<1>7. Cardinality(Written(h, t - 1)) \in Nat
  BY <1>6, FS_CardinalityType
<1>8. Cardinality(Written(h, t - 1) \cup {t}) = Cardinality(Written(h, t - 1)) + 1
  BY <1>5, <1>6, FS_AddElement
<1> QED
  BY <1>1, <1>2, <1>3, <1>4, <1>5, <1>7, <1>8
--------------------------------------------------------------------------------
(* One command of ssdc_process. *)

\* The command at the head of the issue queue, and where it is in the history.
LEMMA HeadOfIssue ==
  ASSUME NEW s, Queued(s), s.issue # <<>>
  PROVE  LET t == Done(s.history, s.issue) + 1
         IN  /\ t \in 1 .. Len(s.history) /\ t \in Nat \ {0} /\ t = Len(s.history) - Len(s.issue) + 1
             /\ Head(s.issue) = s.history[t]
             /\ s.history[t] \in Commands
             /\ s.history[t].tag = t
             /\ s.history[t].status = "PENDING"
             /\ Len(s.issue) \in Nat \ {0}
             /\ Len(s.history) \in Nat
             /\ Tail(s.issue) \in Seq(Commands)
             /\ Len(Tail(s.issue)) = Len(s.issue) - 1
             /\ \A i \in 1 .. Len(Tail(s.issue)) : Tail(s.issue)[i] = s.issue[i + 1]
<1> DEFINE t == Done(s.history, s.issue) + 1
<1>1. /\ s.history \in Seq(Commands) /\ s.issue \in Seq(Commands)
      /\ Len(s.issue) <= Len(s.history)
  BY DEF Queued
<1>2. /\ Len(s.history) \in Nat
      /\ Len(s.issue) \in Nat \ {0}
  BY <1>1, LenProperties, EmptySeq
<1>3. /\ t \in 1 .. Len(s.history) /\ t \in Nat \ {0}
      /\ t = Len(s.history) - Len(s.issue) + 1
  <2>1. t = Len(s.history) - Len(s.issue) + 1
    BY <1>2 DEF Done
  <2> HIDE DEF t
  <2>2. t \in Int /\ 1 <= t /\ t <= Len(s.history)
    BY <1>1, <1>2, <2>1
  <2>3. t \in 1 .. Len(s.history)
    BY <1>2, <2>2
  <2>4. t \in Nat \ {0}
    BY <2>2
  <2> QED
    BY <2>1, <2>3, <2>4
<1>4. /\ Tail(s.issue) \in Seq(Commands)
      /\ Len(Tail(s.issue)) = Len(s.issue) - 1
      /\ \A i \in 1 .. Len(Tail(s.issue)) : Tail(s.issue)[i] = s.issue[i + 1]
  BY <1>1, HeadTailProperties
<1>5. Head(s.issue) = s.issue[1]
  BY <1>1
<1>6. s.issue[1] = s.history[t] /\ s.issue[1].status = "PENDING"
  BY <1>2, <1>3 DEF Queued
<1>7. s.history[t] \in Commands
  BY <1>1, <1>3, ElementOfSeq
<1>8. s.history[t].tag = t /\ s.history[t].status = "PENDING"
  BY <1>3, <1>6 DEF Queued
<1> HIDE DEF t
<1> QED
  BY <1>2, <1>3, <1>4, <1>5, <1>6, <1>7, <1>8 DEF t

\* The completion queue takes a command, or swallows it when it is full.
LEMMA CompletionTakes ==
  ASSUME NEW q \in Seq(Commands), Len(q) <= SSDC_QUEUE_DEPTH, NEW c \in Commands
  PROVE  /\ cq_enqueue(q, c) \in Seq(Commands)
         /\ Len(cq_enqueue(q, c)) <= SSDC_QUEUE_DEPTH
         /\ Len(cq_enqueue(q, c)) <= Len(q) + 1
         /\ Tags(q) \subseteq Tags(cq_enqueue(q, c))
         /\ Len(q) < SSDC_QUEUE_DEPTH => c.tag \in Tags(cq_enqueue(q, c))
<1>0. Len(q) \in Nat /\ SSDC_QUEUE_DEPTH \in Nat
  BY LenProperties, ControllerAssumption
<1>1. CASE Len(q) >= SSDC_QUEUE_DEPTH
  <2>1. cq_enqueue(q, c) = q
    BY <1>1 DEF cq_enqueue
  <2> QED
    BY <1>0, <1>1, <2>1
<1>2. CASE ~ (Len(q) >= SSDC_QUEUE_DEPTH)
  <2> DEFINE r == Append(q, c)
  <2>1. cq_enqueue(q, c) = r
    BY <1>2 DEF cq_enqueue
  <2>2. /\ r \in Seq(Commands)
        /\ Len(r) = Len(q) + 1
        /\ \A i \in 1 .. Len(q) : r[i] = q[i]
        /\ r[Len(q) + 1] = c
    BY AppendProperties
  <2> HIDE DEF r
  <2>3. Tags(q) \subseteq Tags(r) /\ c.tag \in Tags(r)
    BY <1>0, <2>2 DEF Tags
  <2> QED
    BY <1>0, <1>2, <2>1, <2>2, <2>3
<1> QED
  BY <1>1, <1>2

\* The command executed: it keeps its identity, is answered by what the layer shows
\* after the commands before it, and leaves the layer showing its own effect.
LEMMA ExecuteAnswers ==
  ASSUME NEW f, Consistent(f), Accounted(f), NEW h, NEW t \in Nat \ {0},
         h[t] \in Commands, h[t].status = "PENDING", Shows(f, h, t - 1),
         NEW k, k[t] = Execute(f, h[t]).cmd, \A u \in 1 .. t - 1 : k[u] = h[u]
  PROVE  /\ Consistent(Execute(f, h[t]).ftl) /\ Accounted(Execute(f, h[t]).ftl)
         /\ k[t] \in Commands /\ k[t].tag = h[t].tag
         /\ ReadAnswered(k, t) /\ ErrorAnswered(k, t)
         /\ Shows(Execute(f, h[t]).ftl, k, t)
<1> DEFINE c == h[t]
           r == ftl_read(f, c.lba)
           w == ftl_write(f, c.lba, c.data)
           g == Execute(f, c).ftl
<1>0. /\ c.type \in IOType /\ c.lba \in LBA /\ c.data \in Data
      /\ c \in [type : IOType, lba : LBA, data : Data, status : IOStatus,
                cmd_id : 0 .. SSDC_QUEUE_DEPTH - 1, tag : 1 .. MaxCommands]
      /\ t - 1 \in Nat
  BY DEF Commands
<1>1. /\ Shows(f, k, t - 1)
      /\ \A l : RefusedBefore(k, l, t - 1) <=> RefusedBefore(h, l, t - 1)
  BY <1>0, SameAnswers DEF Shows
<1>2. /\ r.data \in Data
      /\ \A l \in LBA : ftl_read(f, l).rc = 0 => ftl_read(f, l).data \in Data
  <2>1. /\ f.page_data \in [PPN -> Data]
        /\ f.mapping_table \in [LBA -> PPN \cup {NONE}]
    BY DEF Consistent, FTLRecord
  <2>2. \A l \in LBA : ftl_read(f, l).data \in Data
    BY <2>1, ZeroAssumption DEF ftl_read
  <2> QED
    BY <1>0, <2>2
<1>3. CASE c.type = "READ"
  <2>1. /\ g = f
        /\ k[t] = [c EXCEPT !.data = r.data, !.status = IF r.rc = 0 THEN "COMPLETE" ELSE "ERROR"]
    BY <1>3 DEF Execute
  <2> HIDE DEF c, r, g
  <2>2. /\ k[t] \in Commands /\ k[t].tag = c.tag
        /\ k[t].type = "READ" /\ k[t].lba = c.lba /\ k[t].data = r.data
        /\ k[t].status = IF r.rc = 0 THEN "COMPLETE" ELSE "ERROR"
    BY <1>0, <1>2, <1>3, <2>1 DEF Commands, IOStatus
  <2>3. \/ r.rc = 0 /\ LastWritten(k, c.lba, t - 1, r.data)
        \/ r.rc # 0 /\ RefusedBefore(k, c.lba, t - 1)
    BY <1>0, <1>1 DEF Shows, r
  <2>4. ReadAnswered(k, t) /\ ErrorAnswered(k, t)
    BY <2>2, <2>3 DEF ReadAnswered, ErrorAnswered
  <2>5. Shows(f, k, t)
    <3>1. \A l \in LBA : \A d : LastWritten(k, l, t - 1, d) => LastWritten(k, l, t, d)
      BY <2>2, OneMore
    <3>2. \A l \in LBA : RefusedBefore(k, l, t - 1) => RefusedBefore(k, l, t)
      BY OneMore
    <3>3. Cardinality(Written(k, t)) = Cardinality(Written(k, t - 1))
      BY <2>2, OneMore
    <3> QED
      BY <1>1, <3>1, <3>2, <3>3 DEF Shows
  <2> QED
    BY <2>1, <2>2, <2>4, <2>5 DEF c, g
<1>4. CASE c.type = "WRITE"
  <2>1. /\ g = w.ftl
        /\ k[t] = [c EXCEPT !.status = IF w.rc = 0 THEN "COMPLETE" ELSE "ERROR"]
    BY <1>4 DEF Execute
  <2>2. /\ Consistent(w.ftl) /\ Accounted(w.ftl)
        /\ \A m \in LBA \ {c.lba} : ftl_read(w.ftl, m) = ftl_read(f, m)
        /\ \/ /\ w.rc = 0
              /\ ftl_read(w.ftl, c.lba) = [rc |-> 0, data |-> c.data]
              /\ w.ftl.write_pointer = f.write_pointer + 1
           \/ /\ w.rc # 0
              /\ ftl_read(w.ftl, c.lba) = ftl_read(f, c.lba) \/ ftl_read(w.ftl, c.lba).rc # 0
              /\ w.ftl.write_pointer = f.write_pointer
              /\ f.write_pointer = NumPages
    BY <1>0, WriteOutcome
  <2> HIDE DEF c, w, g
  <2>3. /\ k[t] \in Commands /\ k[t].tag = c.tag
        /\ k[t].type = "WRITE" /\ k[t].lba = c.lba /\ k[t].data = c.data
        /\ k[t].status = IF w.rc = 0 THEN "COMPLETE" ELSE "ERROR"
    BY <1>0, <1>4, <2>1 DEF Commands, IOStatus
  <2>4. ReadAnswered(k, t) /\ ErrorAnswered(k, t)
    BY <1>1, <2>2, <2>3 DEF ReadAnswered, ErrorAnswered, Shows
  <2>5. /\ \A l \in LBA \ {c.lba} : \A d : LastWritten(k, l, t - 1, d) => LastWritten(k, l, t, d)
        /\ \A l \in LBA : RefusedBefore(k, l, t - 1) => RefusedBefore(k, l, t)
        /\ w.rc = 0 => LastWritten(k, c.lba, t, c.data)
        /\ w.rc # 0 => \A d : LastWritten(k, c.lba, t - 1, d) => LastWritten(k, c.lba, t, d)
        /\ Cardinality(Written(k, t)) = IF w.rc = 0 THEN Cardinality(Written(k, t - 1)) + 1
                                                    ELSE Cardinality(Written(k, t - 1))
    BY <2>3, OneMore
  <2>6. w.rc # 0 => RefusedBefore(k, c.lba, t)
    BY <2>3 DEF RefusedBefore
  <2>7. Shows(w.ftl, k, t)
    <3>1. ASSUME NEW l \in LBA \ {c.lba}
          PROVE  \/ ftl_read(w.ftl, l).rc = 0 /\ LastWritten(k, l, t, ftl_read(w.ftl, l).data)
                 \/ ftl_read(w.ftl, l).rc # 0 /\ RefusedBefore(k, l, t)
      BY <1>1, <2>2, <2>5 DEF Shows
    <3>2. \/ ftl_read(w.ftl, c.lba).rc = 0 /\ LastWritten(k, c.lba, t, ftl_read(w.ftl, c.lba).data)
          \/ ftl_read(w.ftl, c.lba).rc # 0 /\ RefusedBefore(k, c.lba, t)
      <4>1. CASE w.rc = 0
        BY <2>2, <2>5, <4>1
      <4>2. CASE w.rc # 0
        <5>1. \/ ftl_read(f, c.lba).rc = 0 /\ LastWritten(k, c.lba, t - 1, ftl_read(f, c.lba).data)
              \/ ftl_read(f, c.lba).rc # 0
          BY <1>0, <1>1 DEF Shows
        <5> QED
          BY <2>2, <2>5, <2>6, <4>2, <5>1
      <4> QED
        BY <4>1, <4>2
    <3>3. Cardinality(Written(k, t)) = w.ftl.write_pointer
      BY <1>1, <2>2, <2>5 DEF Shows
    <3> QED
      BY <3>1, <3>2, <3>3 DEF Shows
  <2> QED
    BY <2>1, <2>2, <2>3, <2>4, <2>7 DEF c, g
<1>5. CASE c.type = "ERASE"
  <2>1. g = f /\ k[t] = [c EXCEPT !.status = "COMPLETE"]
    BY <1>5 DEF Execute
  <2> HIDE DEF c, g
  <2>2. /\ k[t] \in Commands /\ k[t].tag = c.tag
        /\ k[t].type = "ERASE" /\ k[t].status = "COMPLETE"
    BY <1>0, <1>5, <2>1 DEF Commands, IOStatus
  <2>3. ReadAnswered(k, t) /\ ErrorAnswered(k, t)
    BY <2>2 DEF ReadAnswered, ErrorAnswered
  <2>4. Shows(f, k, t)
    <3>1. \A l \in LBA : \A d : LastWritten(k, l, t - 1, d) => LastWritten(k, l, t, d)
      BY <2>2, OneMore
    <3>2. \A l \in LBA : RefusedBefore(k, l, t - 1) => RefusedBefore(k, l, t)
      BY OneMore
    <3>3. Cardinality(Written(k, t)) = Cardinality(Written(k, t - 1))
      BY <2>2, OneMore
    <3> QED
      BY <1>1, <3>1, <3>2, <3>3 DEF Shows
  <2> QED
    BY <2>1, <2>2, <2>3, <2>4 DEF c, g
<1> QED
  BY <1>0, <1>3, <1>4, <1>5 DEF IOType

\* One round of ssdc_process executes the next command of the history.
LEMMA ServeInv ==
  ASSUME NEW s, SSDInv(s), s.issue # <<>>
  PROVE  LET g == ServeNext(s)
         IN  /\ SSDInv(g)
             /\ Len(g.issue) = Len(s.issue) - 1
             /\ g.completion = cq_enqueue(s.completion, g.history[Head(s.issue).tag])
             /\ g.history[Head(s.issue).tag] \in Commands
             /\ g.history[Head(s.issue).tag].tag = Head(s.issue).tag
             /\ \A i \in 1 .. Len(s.issue) - 1 : g.issue[i] = s.issue[i + 1]
<1> DEFINE t == Done(s.history, s.issue) + 1
           h == s.history
           e == Execute(s.ftl, h[t])
           k == [h EXCEPT ![t] = e.cmd]
           g == ServeNext(s)
<1>0. /\ Consistent(s.ftl) /\ Accounted(s.ftl) /\ s.busy = 0 /\ Queued(s)
      /\ Shows(s.ftl, h, t - 1)
      /\ \A u \in 1 .. t - 1 : ReadAnswered(h, u) /\ ErrorAnswered(h, u)
  <2>1. t - 1 = Done(s.history, s.issue)
    <3>1. Len(s.history) \in Nat /\ Len(s.issue) \in Nat
      BY LenProperties DEF SSDInv, Queued
    <3> QED
      BY <3>1 DEF Done
  <2> HIDE DEF t
  <2> QED
    BY <2>1 DEF SSDInv
<1>1. /\ t \in 1 .. Len(h) /\ t \in Nat \ {0} /\ t = Len(h) - Len(s.issue) + 1
      /\ Head(s.issue) = h[t]
      /\ h[t] \in Commands /\ h[t].tag = t /\ h[t].status = "PENDING"
      /\ Len(s.issue) \in Nat \ {0} /\ Len(h) \in Nat
      /\ Tail(s.issue) \in Seq(Commands)
      /\ Len(Tail(s.issue)) = Len(s.issue) - 1
      /\ \A i \in 1 .. Len(Tail(s.issue)) : Tail(s.issue)[i] = s.issue[i + 1]
  BY <1>0, HeadOfIssue
<1>2. h \in Seq(Commands) /\ DOMAIN h = 1 .. Len(h)
  BY <1>0, LenProperties DEF Queued
<1> HIDE DEF t, h, e
<1>t. t \in Int /\ 1 <= t /\ t <= Len(h) /\ Len(h) \in Nat
  BY <1>1
<1>3. k[t] = e.cmd /\ \A u \in 1 .. t - 1 : k[u] = h[u]
  BY <1>t, <1>2
<1>4. /\ Consistent(e.ftl) /\ Accounted(e.ftl)
      /\ k[t] \in Commands /\ k[t].tag = t
      /\ ReadAnswered(k, t) /\ ErrorAnswered(k, t)
      /\ Shows(e.ftl, k, t)
  <2>1. /\ k[t] = Execute(s.ftl, h[t]).cmd
        /\ \A u \in 1 .. t - 1 : k[u] = h[u]
    BY <1>3 DEF e
  <2>2. /\ t \in Nat \ {0} /\ h[t] \in Commands /\ h[t].status = "PENDING"
        /\ Consistent(s.ftl) /\ Accounted(s.ftl) /\ Shows(s.ftl, h, t - 1)
    BY <1>0, <1>1
  <2> HIDE DEF k
  <2>3. /\ Consistent(Execute(s.ftl, h[t]).ftl) /\ Accounted(Execute(s.ftl, h[t]).ftl)
        /\ k[t] \in Commands /\ k[t].tag = h[t].tag
        /\ ReadAnswered(k, t) /\ ErrorAnswered(k, t)
        /\ Shows(Execute(s.ftl, h[t]).ftl, k, t)
    BY <2>1, <2>2, ExecuteAnswers, Zenon
  <2> QED
    BY <1>1, <2>3 DEF e
<1>5. /\ k \in Seq(Commands) /\ Len(k) = Len(h)
      /\ \A u \in 1 .. Len(h) : k[u] = IF u = t THEN k[t] ELSE h[u]
  <2>1. e.cmd \in Commands
    BY <1>3, <1>4
  <2>2. k \in Seq(Commands) /\ Len(k) = Len(h)
    BY <1>1, <1>2, <2>1, ExceptSeq
  <2>3. \A u \in 1 .. Len(h) : u # t => k[u] = h[u]
    BY <1>2
  <2> QED
    BY <2>2, <2>3
<1>6. /\ g.issue = Tail(s.issue)
      /\ g.completion = cq_enqueue(s.completion, k[t])
      /\ g.busy = 0
      /\ g.ftl = e.ftl
      /\ g.history = k
  <2>1. Serving(s)
    BY <1>0, ControllerAssumption DEF Serving
  <2>2. Execute(s.ftl, Head(s.issue)) = e
    BY <1>1 DEF e
  <2>3. e.cmd.tag = t
    BY <1>3, <1>4
  <2>4. g = [issue |-> Tail(s.issue), completion |-> cq_enqueue(s.completion, e.cmd),
             busy |-> (s.busy + 1) - 1, ftl |-> e.ftl, history |-> k]
    BY <2>1, <2>2, <2>3 DEF ServeNext, h
  <2> QED
    BY <1>0, <1>3, <2>4
<1> HIDE DEF k, g, e
<1>7. Done(k, g.issue) = t
  <2>1. Len(k) = Len(h) /\ Len(g.issue) = Len(s.issue) - 1
    BY <1>1, <1>5, <1>6
  <2>2. t = Len(h) - Len(s.issue) + 1 /\ Len(s.issue) \in Nat
    BY <1>1
  <2> QED
    BY <1>t, <2>1, <2>2 DEF Done
<1>8. Queued(g)
  <2>1. /\ g.completion \in Seq(Commands) /\ Len(g.completion) <= SSDC_QUEUE_DEPTH
    BY <1>0, <1>4, <1>6, CompletionTakes DEF Queued
  <2>2. \A i \in 1 .. Len(g.issue) : g.issue[i] = k[t + i]
    <3> SUFFICES ASSUME NEW i \in 1 .. Len(g.issue)
                 PROVE  g.issue[i] = k[t + i]
      OBVIOUS
    <3>1. /\ g.issue[i] = s.issue[i + 1] /\ i + 1 \in 1 .. Len(s.issue)
      BY <1>1, <1>6
    <3>2. s.issue[i + 1] = h[Done(h, s.issue) + (i + 1)]
      BY <1>0, <3>1 DEF Queued, h
    <3>3. Done(h, s.issue) + (i + 1) = t + i
      <4>1. t = Len(h) - Len(s.issue) + 1 /\ Len(s.issue) \in Nat /\ Len(h) \in Nat /\ i \in Int
        BY <1>1
      <4> DEFINE a == Len(h)
                 b == Len(s.issue)
      <4>2. Done(h, s.issue) = a - b
        BY DEF Done
      <4>3. t = a - b + 1 /\ a \in Int /\ b \in Int
        BY <4>1
      <4> HIDE DEF a, b
      <4>4. (a - b) + (i + 1) = t + i
        BY <1>t, <4>3
      <4> QED
        BY <4>2, <4>4
    <3>4. t + i \in 1 .. Len(h) /\ t + i # t
      BY <1>1, <3>1
    <3> QED
      BY <1>5, <3>1, <3>2, <3>3, <3>4
  <2>3. \A u \in 1 .. Len(k) : k[u].tag = u
    BY <1>0, <1>4, <1>5 DEF Queued, h
  <2>4. \A i \in 1 .. Len(g.issue) : g.issue[i].status = "PENDING"
    BY <1>0, <1>1, <1>6 DEF Queued
  <2>5. /\ Len(g.issue) <= SSDC_QUEUE_DEPTH /\ Len(g.issue) <= Len(k)
        /\ Len(k) <= MaxCommands
    BY <1>0, <1>1, <1>5, <1>6, ControllerAssumption DEF Queued, h
  <2> QED
    BY <1>1, <1>5, <1>6, <1>7, <2>1, <2>2, <2>3, <2>4, <2>5 DEF Queued
<1>9. \A u \in 1 .. t : ReadAnswered(k, u) /\ ErrorAnswered(k, u)
  <2>1. ASSUME NEW u \in 1 .. t - 1
        PROVE  ReadAnswered(k, u) /\ ErrorAnswered(k, u)
    <3>1. t - 1 \in Nat
      BY <1>1
    <3> QED
      BY <1>0, <1>3, <2>1, <3>1, SameAnswers
  <2>2. \A u \in 1 .. t : u \in 1 .. t - 1 \/ u = t
    BY <1>t
  <2> QED
    BY <1>4, <2>1, <2>2
<1>10. SSDInv(g)
  BY <1>4, <1>6, <1>7, <1>8, <1>9 DEF SSDInv
<1> QED
  BY <1>1, <1>4, <1>6, <1>10 DEF g
--------------------------------------------------------------------------------
(* The rounds of one call of ssdc_process. *)

\* serve holds the first n rounds of a call that starts at s.
Rounds(s, n, serve) ==
  serve = [i \in 0 .. n |-> IF i = 0 THEN s ELSE ServeNext(serve[i - 1])]

\* The rounds exist: a least number of rounds without them would follow one with them.
LEMMA RoundsExist ==
  ASSUME NEW s, NEW n \in Nat
  PROVE  \E serve : Rounds(s, n, serve)
<1> DEFINE Stuck == {k \in Nat : ~ \E serve : Rounds(s, k, serve)}
<1>1. SUFFICES ASSUME Stuck # {} PROVE FALSE
  OBVIOUS
<1>2. PICK k \in Stuck : \A j \in Stuck : k <= j
  BY <1>1, LeastElement
<1>3. CASE k = 0
  <2>1. Rounds(s, 0, [i \in 0 .. 0 |-> s])
    BY DEF Rounds
  <2> QED
    BY <1>2, <1>3, <2>1
<1>4. CASE k # 0
  <2>1. k - 1 \in Nat /\ k - 1 \notin Stuck
    BY <1>2, <1>4
  <2>2. PICK serve : Rounds(s, k - 1, serve)
    BY <2>1
  <2> DEFINE longer == [i \in 0 .. k |-> IF i < k THEN serve[i] ELSE ServeNext(serve[k - 1])]
  <2>3. Rounds(s, k, longer)
    <3>1. ASSUME NEW i \in 0 .. k
          PROVE  longer[i] = IF i = 0 THEN s ELSE ServeNext(longer[i - 1])
      <4>1. CASE i = 0
        BY <1>2, <1>4, <2>1, <2>2, <4>1 DEF Rounds
      <4>2. CASE i # 0 /\ i < k
        <5>1. i \in 0 .. k - 1 /\ i - 1 < k /\ i - 1 \in 0 .. k
          BY <1>2, <4>2
        <5>2. serve[i] = ServeNext(serve[i - 1])
          BY <2>2, <4>2, <5>1 DEF Rounds
        <5> QED
          BY <4>2, <5>1, <5>2
      <4>3. CASE i = k
        BY <1>2, <1>4, <4>3
      <4> QED
        BY <1>2, <4>1, <4>2, <4>3
    <3>2. longer = [i \in 0 .. k |-> longer[i]]
      OBVIOUS
    <3> HIDE DEF longer
    <3> QED
      BY <3>1, <3>2, Zenon DEF Rounds
  <2> QED
    BY <1>2, <2>3
<1> QED
  BY <1>3, <1>4

\* The record ssdc_process starts from.
Current == [issue |-> issue_queue, completion |-> completion_queue,
            busy |-> busy_channels, ftl |-> ftl, history |-> history]

\* Served is the last of its rounds.
LEMMA ServedRounds ==
  ASSUME Len(issue_queue) \in Nat
  PROVE  \E serve : /\ serve[0] = Current
                    /\ \A i \in 1 .. Len(issue_queue) : serve[i] = ServeNext(serve[i - 1])
                    /\ Served = serve[Len(issue_queue)]
<1> DEFINE n     == Len(issue_queue)
           serve == CHOOSE serve : Rounds(Current, n, serve)
<1>1. Rounds(Current, n, serve)
  BY RoundsExist
<1>2. Served = serve[n]
  BY DEF Served, Rounds, Current
<1> HIDE DEF serve
<1>3. serve[0] = Current /\ \A i \in 1 .. n : serve[i] = ServeNext(serve[i - 1])
  BY <1>1 DEF Rounds
<1> QED
  BY <1>2, <1>3

\* The queues after the first n rounds of a call that starts at s.
Batch(s, n, g) ==
  /\ SSDInv(g)
  /\ Len(g.issue) = Len(s.issue) - n
  /\ \A i \in 1 .. Len(s.issue) - n : g.issue[i] = s.issue[i + n]
  /\ Len(g.completion) <= Len(s.completion) + n
  /\ Len(s.issue) + Len(s.completion) <= SSDC_QUEUE_DEPTH =>
       \A i \in 1 .. n : s.issue[i].tag \in Tags(g.completion)

\* One round more.
LEMMA BatchStep ==
  ASSUME NEW s, SSDInv(s), NEW n \in Nat, n < Len(s.issue), NEW g, Batch(s, n, g)
  PROVE  Batch(s, n + 1, ServeNext(g))
<1> DEFINE k == ServeNext(g)
           c == k.history[Head(g.issue).tag]
<1>1. /\ SSDInv(g)
      /\ Len(g.issue) = Len(s.issue) - n
      /\ \A i \in 1 .. Len(s.issue) - n : g.issue[i] = s.issue[i + n]
      /\ Len(g.completion) <= Len(s.completion) + n
  BY DEF Batch
<1>2. /\ Len(s.issue) \in Nat /\ Len(s.completion) \in Nat /\ Len(g.completion) \in Nat
      /\ g.issue \in Seq(Commands)
      /\ g.completion \in Seq(Commands) /\ Len(g.completion) <= SSDC_QUEUE_DEPTH
      /\ SSDC_QUEUE_DEPTH \in Nat
  BY <1>1, LenProperties, ControllerAssumption DEF SSDInv, Queued
<1>3. g.issue # <<>> /\ Head(g.issue) = s.issue[n + 1]
  <2>1. Len(g.issue) # 0 /\ 1 \in 1 .. Len(s.issue) - n
    BY <1>1, <1>2
  <2>2. g.issue # <<>>
    BY <2>1
  <2>3. Head(g.issue) = g.issue[1]
    BY <1>2, <2>2
  <2>4. g.issue[1] = s.issue[n + 1]
    BY <1>1, <2>1
  <2> QED
    BY <2>2, <2>3, <2>4
<1>4. /\ SSDInv(k)
      /\ Len(k.issue) = Len(g.issue) - 1
      /\ k.completion = cq_enqueue(g.completion, c)
      /\ c \in Commands
      /\ c.tag = Head(g.issue).tag
      /\ \A i \in 1 .. Len(g.issue) - 1 : k.issue[i] = g.issue[i + 1]
  BY <1>1, <1>3, ServeInv, Zenon
<1> HIDE DEF k, c
<1>5. /\ Len(k.completion) <= Len(g.completion) + 1
      /\ Tags(g.completion) \subseteq Tags(k.completion)
      /\ Len(g.completion) < SSDC_QUEUE_DEPTH => c.tag \in Tags(k.completion)
  BY <1>2, <1>4, CompletionTakes
<1>6. /\ Len(s.issue) \in Nat /\ Len(s.completion) \in Nat /\ Len(g.completion) \in Nat
      /\ Len(k.completion) \in Nat /\ SSDC_QUEUE_DEPTH \in Nat
      /\ Len(g.issue) = Len(s.issue) - n /\ n < Len(s.issue)
      /\ Len(g.completion) <= Len(s.completion) + n
      /\ Len(k.issue) = Len(g.issue) - 1
      /\ Len(k.completion) <= Len(g.completion) + 1
  BY <1>1, <1>2, <1>4, <1>5, LenProperties DEF SSDInv, Queued
<1>7. \A i \in 1 .. Len(s.issue) - (n + 1) : k.issue[i] = s.issue[i + (n + 1)]
  <2> SUFFICES ASSUME NEW i \in 1 .. Len(s.issue) - (n + 1)
               PROVE  k.issue[i] = s.issue[i + (n + 1)]
    OBVIOUS
  <2>1. /\ i \in 1 .. Len(g.issue) - 1 /\ i + 1 \in 1 .. Len(s.issue) - n
        /\ (i + 1) + n = i + (n + 1)
    BY <1>1, <1>2
  <2> QED
    BY <1>1, <1>4, <2>1
<1>8. ASSUME Len(s.issue) + Len(s.completion) <= SSDC_QUEUE_DEPTH, NEW i \in 1 .. n + 1
      PROVE  s.issue[i].tag \in Tags(k.completion)
  <2>1. CASE i \in 1 .. n
    BY <1>5, <1>8, <2>1 DEF Batch
  <2>2. CASE i = n + 1
    <3>1. Len(g.completion) < SSDC_QUEUE_DEPTH
      <4> DEFINE a == Len(s.issue)
                 b == Len(s.completion)
                 d == Len(g.completion)
      <4>1. /\ a \in Nat /\ b \in Nat /\ d \in Nat /\ SSDC_QUEUE_DEPTH \in Nat
            /\ n < a /\ d <= b + n /\ a + b <= SSDC_QUEUE_DEPTH
        BY <1>6, <1>8
      <4> HIDE DEF a, b, d
      <4>2. d < SSDC_QUEUE_DEPTH
        BY <4>1
      <4> QED
        BY <4>2 DEF d
    <3> QED
      BY <1>3, <1>4, <1>5, <2>2, <3>1
  <2> QED
    BY <2>1, <2>2
<1>9. Len(k.issue) = Len(s.issue) - (n + 1) /\ Len(k.completion) <= Len(s.completion) + (n + 1)
  <2> DEFINE a == Len(s.issue)
             b == Len(s.completion)
             d == Len(g.completion)
             e == Len(k.completion)
             i == Len(k.issue)
  <2>1. /\ a \in Nat /\ b \in Nat /\ d \in Nat /\ e \in Nat
        /\ i = (a - n) - 1 /\ d <= b + n /\ e <= d + 1
    BY <1>6
  <2> HIDE DEF a, b, d, e, i
  <2>2. i = a - (n + 1) /\ e <= b + (n + 1)
    BY <2>1
  <2> QED
    BY <2>2 DEF a, b, e, i
<1> QED
  BY <1>4, <1>7, <1>8, <1>9 DEF Batch, k

\* A whole call empties the issue queue, keeps the invariant, and answers every
\* command unless the completion queue was too small for the batch.
LEMMA ProcessInv ==
  ASSUME SSDInv(Current)
  PROVE  /\ SSDInv(Served)
         /\ Served.issue = <<>>
         /\ Len(issue_queue) + Len(completion_queue) <= SSDC_QUEUE_DEPTH =>
              Tags(issue_queue) \subseteq Tags(Served.completion)
<1> DEFINE s == Current
           n == Len(issue_queue)
<1>1. s.issue = issue_queue /\ s.completion = completion_queue
  BY DEF Current
<1>2. n \in Nat /\ Len(completion_queue) \in Nat
  BY <1>1, LenProperties DEF SSDInv, Queued
<1>3. PICK serve : /\ serve[0] = s
                   /\ \A i \in 1 .. n : serve[i] = ServeNext(serve[i - 1])
                   /\ Served = serve[n]
  BY <1>2, ServedRounds
<1> HIDE DEF s, n
<1>4. Batch(s, 0, serve[0])
  <2>1. \A i \in 1 .. Len(s.issue) - 0 : s.issue[i] = s.issue[i + 0]
    BY <1>1, <1>2 DEF n
  <2>2. Len(s.issue) \in Nat /\ Len(s.completion) \in Nat
    BY <1>1, <1>2 DEF n
  <2> QED
    BY <1>3, <2>1, <2>2 DEF Batch, s
<1>5. \A m \in 0 .. n : Batch(s, m, serve[m])
  <2> DEFINE Broken == {m \in 0 .. n : ~ Batch(s, m, serve[m])}
  <2>1. SUFFICES ASSUME Broken # {} PROVE FALSE
    OBVIOUS
  <2>2. Broken \in SUBSET Nat
    OBVIOUS
  <2>3. PICK m \in Broken : \A j \in Broken : m <= j
    BY <2>1, <2>2, LeastElement
  <2>4. m # 0 /\ m \in 0 .. n
    BY <1>4, <2>3
  <2>5. /\ m - 1 \in Nat /\ m - 1 \in 0 .. n /\ m - 1 < n /\ m \in 1 .. n
        /\ (m - 1) + 1 = m /\ ~ (m <= m - 1)
    BY <1>2, <2>4
  <2>6. Batch(s, m - 1, serve[m - 1])
    BY <2>3, <2>5
  <2>7. n = Len(s.issue) /\ SSDInv(s)
    BY <1>1 DEF n, s
  <2>8. Batch(s, (m - 1) + 1, ServeNext(serve[m - 1]))
    BY <2>5, <2>6, <2>7, BatchStep
  <2>9. Batch(s, m, serve[m])
    BY <1>3, <2>5, <2>8
  <2> QED
    BY <2>3, <2>9
<1>6. Batch(s, n, Served)
  BY <1>2, <1>3, <1>5
<1>7. Served.issue = <<>>
  <2>1. Served.issue \in Seq(Commands) /\ Len(Served.issue) = n - n
    BY <1>1, <1>6 DEF Batch, SSDInv, Queued, n
  <2> QED
    BY <1>2, <2>1, EmptySeq
<1>8. Len(issue_queue) + Len(completion_queue) <= SSDC_QUEUE_DEPTH =>
        Tags(issue_queue) \subseteq Tags(Served.completion)
  BY <1>1, <1>6 DEF Batch, Tags, n
<1> QED
  BY <1>6, <1>7, <1>8 DEF Batch
--------------------------------------------------------------------------------
(* The invariant of the controller. *)

\* Accepting a command leaves the executed part of the history alone.
LEMMA AcceptInv ==
  ASSUME NEW s, SSDInv(s), Len(s.history) < MaxCommands, Len(s.issue) < SSDC_QUEUE_DEPTH,
         NEW c \in Commands, c.status = "PENDING", c.tag = Len(s.history) + 1,
         NEW g, g.issue = Append(s.issue, c), g.history = Append(s.history, c),
         g.completion = s.completion, g.busy = s.busy, g.ftl = s.ftl
  PROVE  SSDInv(g)
<1> DEFINE h == s.history
           k == Append(h, c)
           n == Done(h, s.issue)
           a == Len(h)
           b == Len(s.issue)
<1>1. /\ h \in Seq(Commands) /\ s.issue \in Seq(Commands)
      /\ a \in Nat /\ b \in Nat /\ b <= a
      /\ MaxCommands \in Nat /\ SSDC_QUEUE_DEPTH \in Nat
  BY LenProperties, ControllerAssumption DEF SSDInv, Queued
<1>2. /\ k \in Seq(Commands)
      /\ Len(k) = a + 1
      /\ \A i \in 1 .. a : k[i] = h[i]
      /\ k[a + 1] = c
  BY <1>1, AppendProperties
<1>3. /\ g.issue \in Seq(Commands)
      /\ Len(g.issue) = b + 1
      /\ \A i \in 1 .. b : g.issue[i] = s.issue[i]
      /\ g.issue[b + 1] = c
  BY <1>1, AppendProperties
<1>4. n \in Nat /\ n <= a /\ n = a - b /\ Done(k, g.issue) = n
  <2>1. n = a - b /\ Done(k, g.issue) = (a + 1) - (b + 1)
    BY <1>2, <1>3 DEF Done
  <2> HIDE DEF n, a, b, k
  <2> QED
    BY <1>1, <2>1
<1>5. /\ \A i \in 1 .. b : s.issue[i] = h[n + i] /\ s.issue[i].status = "PENDING"
      /\ \A t \in 1 .. a : h[t].tag = t
      /\ a < MaxCommands /\ b < SSDC_QUEUE_DEPTH
      /\ g.completion \in Seq(Commands) /\ Len(g.completion) <= SSDC_QUEUE_DEPTH
      /\ Consistent(g.ftl) /\ Accounted(g.ftl) /\ g.busy = 0
      /\ \A t \in 1 .. n : ReadAnswered(h, t) /\ ErrorAnswered(h, t)
      /\ Shows(s.ftl, h, n)
      /\ c.tag = a + 1
      /\ g.history = k
  BY DEF SSDInv, Queued
<1> HIDE DEF h, k, n, a, b
<1>6. \A i \in 1 .. b + 1 : g.issue[i] = k[n + i] /\ g.issue[i].status = "PENDING"
  <2> SUFFICES ASSUME NEW i \in 1 .. b + 1
               PROVE  g.issue[i] = k[n + i] /\ g.issue[i].status = "PENDING"
    OBVIOUS
  <2>1. CASE i \in 1 .. b
    <3>1. n + i \in 1 .. a
      BY <1>1, <1>4, <2>1
    <3>2. k[n + i] = h[n + i]
      BY <1>2, <3>1
    <3>3. g.issue[i] = s.issue[i]
      BY <1>3, <2>1
    <3>4. s.issue[i] = h[n + i] /\ s.issue[i].status = "PENDING"
      BY <1>5, <2>1
    <3> QED
      BY <3>2, <3>3, <3>4
  <2>2. CASE i = b + 1
    <3>1. n + i = a + 1
      BY <1>1, <1>4, <2>2
    <3>2. g.issue[i] = c
      BY <1>3, <2>2, Zenon
    <3>3. k[n + i] = c
      BY <1>2, <3>1, Zenon
    <3> QED
      BY <3>2, <3>3, Zenon
  <2>3. i \in 1 .. b \/ i = b + 1
    BY <1>1
  <2> QED
    BY <2>1, <2>2, <2>3
<1>7. \A t \in 1 .. a + 1 : k[t].tag = t
  <2>1. \A t \in 1 .. a + 1 : t \in 1 .. a \/ t = a + 1
    BY <1>1
  <2> QED
    BY <1>2, <1>5, <2>1
<1>8. /\ \A t \in 1 .. n : ReadAnswered(k, t) /\ ErrorAnswered(k, t)
      /\ Shows(s.ftl, k, n)
  <2>1. \A u \in 1 .. n : k[u] = h[u]
    BY <1>1, <1>2, <1>4
  <2>2. /\ Written(k, n) = Written(h, n)
        /\ \A l : /\ RefusedBefore(k, l, n) <=> RefusedBefore(h, l, n)
                  /\ \A d : LastWritten(k, l, n, d) <=> LastWritten(h, l, n, d)
        /\ \A t \in 1 .. n : /\ ReadAnswered(k, t) <=> ReadAnswered(h, t)
                             /\ ErrorAnswered(k, t) <=> ErrorAnswered(h, t)
    BY <1>4, <2>1, SameAnswers
  <2> QED
    BY <1>5, <2>2 DEF Shows
<1>9. a + 1 <= MaxCommands /\ b + 1 <= SSDC_QUEUE_DEPTH /\ b + 1 <= a + 1
  BY <1>1, <1>5
<1>10. Queued(g)
  BY <1>2, <1>3, <1>4, <1>5, <1>6, <1>7, <1>9 DEF Queued
<1> QED
  BY <1>4, <1>5, <1>8, <1>10 DEF SSDInv

\* A submission is accepted whole, or refused and leaves nothing behind.
LEMMA EnqueueInv ==
  ASSUME SSDInv(Current), Len(history) < MaxCommands,
         NEW type \in IOType, NEW l \in LBA, NEW d \in Data,
         Enqueue(IOCommand(type, l, d)),
         UNCHANGED <<ftl, completion_queue, busy_channels>>
  PROVE  SSDInv(Current')
<1> DEFINE c == IOCommand(type, l, d)
<1>1. /\ Current.issue = issue_queue /\ Current.completion = completion_queue
      /\ Current.busy = busy_channels /\ Current.ftl = ftl /\ Current.history = history
      /\ Current'.issue = issue_queue' /\ Current'.completion = completion_queue
      /\ Current'.busy = busy_channels /\ Current'.ftl = ftl /\ Current'.history = history'
  BY DEF Current
<1>2. /\ issue_queue \in Seq(Commands) /\ history \in Seq(Commands)
      /\ Len(issue_queue) \in Nat /\ Len(history) \in Nat
      /\ Len(issue_queue) <= SSDC_QUEUE_DEPTH
      /\ SSDC_QUEUE_DEPTH \in Nat /\ MaxCommands \in Nat
  BY <1>1, LenProperties, ControllerAssumption DEF SSDInv, Queued
<1>3. CASE Len(issue_queue) >= SSDC_QUEUE_DEPTH
  <2>1. issue_queue' = issue_queue /\ history' = history
    BY <1>3 DEF Enqueue, cq_enqueue
  <2>2. Current' = Current
    BY <2>1 DEF Current
  <2> QED
    BY <2>2
<1>4. CASE ~ (Len(issue_queue) >= SSDC_QUEUE_DEPTH)
  <2>1. issue_queue' = Append(issue_queue, c)
    BY <1>4 DEF Enqueue, cq_enqueue
  <2>2. c \in Commands /\ c.status = "PENDING" /\ c.tag = Len(history) + 1
    <3>1. /\ Len(issue_queue) \in 0 .. SSDC_QUEUE_DEPTH - 1
          /\ Len(history) + 1 \in 1 .. MaxCommands
      BY <1>2, <1>4
    <3>2. (IF type = "WRITE" THEN d ELSE Zero) \in Data
      BY ZeroAssumption
    <3> QED
      BY <3>1, <3>2 DEF IOCommand, Commands, IOStatus
  <2>3. issue_queue' # issue_queue
    <3>1. Len(Append(issue_queue, c)) = Len(issue_queue) + 1
      BY <1>2, <2>2, AppendProperties
    <3> QED
      BY <1>2, <2>1, <3>1
  <2>4. history' = Append(history, c)
    BY <2>3 DEF Enqueue
  <2>5. Len(issue_queue) < SSDC_QUEUE_DEPTH
    BY <1>2, <1>4
  <2> HIDE DEF c
  <2> QED
    BY <1>1, <2>1, <2>2, <2>4, <2>5, AcceptInv
<1> QED
  BY <1>3, <1>4

\* The inductive invariant of the specification.
SSDInductive == SSDInv(Current) /\ channel_busy \in [Channels -> BOOLEAN]

\* It holds at the start and is kept by every step.
LEMMA SSDInvariant == SSDSpec => []SSDInductive
<1>1. SSDInit => SSDInductive
  <2> SUFFICES ASSUME SSDInit PROVE SSDInductive
    OBVIOUS
  <2>1. /\ Current.issue = <<>> /\ Current.completion = <<>> /\ Current.history = <<>>
        /\ Current.busy = 0 /\ Current.ftl = ftl_init
    BY DEF SSDInit, Init, Current
  <2>2. Consistent(ftl_init) /\ Accounted(ftl_init)
    BY InitConsistent, InitAccounted
  <2>3. Queued(Current)
    BY <2>1, EmptySeq, ControllerAssumption DEF Queued, Done
  <2>4. Done(<<>>, <<>>) = 0
    BY DEF Done
  <2>5. Shows(ftl_init, <<>>, 0)
    <3>1. \A l \in LBA : ftl_read(ftl_init, l) = [rc |-> 0, data |-> Zero]
      BY DEF ftl_read, ftl_init
    <3>2. \A l \in LBA : WritesTo(<<>>, l, 0) = {}
      BY DEF WritesTo
    <3>3. Written(<<>>, 0) = {}
      BY DEF Written
    <3>4. Cardinality({}) = 0
      BY FS_EmptySet
    <3>5. ftl_init.write_pointer = 0
      BY DEF ftl_init
    <3>6. \A l \in LBA : LastWritten(<<>>, l, 0, Zero)
      BY <3>2 DEF LastWritten
    <3>7. \A l \in LBA : ftl_read(ftl_init, l).rc = 0 /\ ftl_read(ftl_init, l).data = Zero
      BY <3>1
    <3> QED
      BY <3>3, <3>4, <3>5, <3>6, <3>7, Zenon DEF Shows
  <2>6. SSDInv(Current)
    BY <2>1, <2>2, <2>3, <2>4, <2>5 DEF SSDInv
  <2>7. channel_busy \in [Channels -> BOOLEAN]
    BY DEF SSDInit
  <2> QED
    BY <2>6, <2>7 DEF SSDInductive
<1>2. SSDInductive /\ [SSDNext]_vars => SSDInductive'
  <2> SUFFICES ASSUME SSDInductive, [SSDNext]_vars PROVE SSDInductive'
    OBVIOUS
  <2>0. SSDInv(Current) /\ channel_busy \in [Channels -> BOOLEAN]
    BY DEF SSDInductive
  <2>1. ASSUME NEW type \in IOType, NEW l \in LBA, NEW d \in Data, ssdc_submit_io(type, l, d)
        PROVE  SSDInductive'
    BY <2>0, <2>1, EnqueueInv DEF ssdc_submit_io, SSDInductive
  <2>2. ASSUME NEW type \in IOType, NEW l \in LBA, NEW d \in Data,
               ssdc_interleaved_submit(type, l, d)
        PROVE  SSDInductive'
    <3>1. channel_busy' \in [Channels -> BOOLEAN]
      BY <2>0, <2>2 DEF ssdc_interleaved_submit
    <3>2. SSDInv(Current')
      BY <2>0, <2>2, EnqueueInv DEF ssdc_interleaved_submit
    <3> QED
      BY <3>1, <3>2 DEF SSDInductive
  <2>3. CASE ssdc_process
    <3>1. /\ issue_queue' = Served.issue /\ completion_queue' = Served.completion
          /\ busy_channels' = Served.busy /\ ftl' = Served.ftl /\ history' = Served.history
          /\ channel_busy' = channel_busy
      BY <2>3 DEF ssdc_process
    <3>2. SSDInv(Served)
      BY <2>0, ProcessInv
    <3>3. SSDInv(Current')
      <4> DEFINE g == Served
      <4>1. /\ Current'.issue = g.issue /\ Current'.completion = g.completion
            /\ Current'.busy = g.busy /\ Current'.ftl = g.ftl /\ Current'.history = g.history
        BY <3>1 DEF Current
      <4> HIDE DEF g
      <4> QED
        BY <3>2, <4>1 DEF SSDInv, Queued, g
    <3> QED
      BY <2>0, <3>1, <3>3 DEF SSDInductive
  <2>4. CASE ssdc_complete
    <3>1. /\ completion_queue # <<>> /\ completion_queue' = Tail(completion_queue)
          /\ issue_queue' = issue_queue /\ busy_channels' = busy_channels /\ ftl' = ftl
          /\ history' = history /\ channel_busy' = channel_busy
      BY <2>4 DEF ssdc_complete
    <3>2. /\ completion_queue \in Seq(Commands) /\ Len(completion_queue) <= SSDC_QUEUE_DEPTH
          /\ Len(completion_queue) \in Nat
      BY <2>0, LenProperties DEF SSDInv, Queued, Current
    <3>3. /\ Tail(completion_queue) \in Seq(Commands)
          /\ Len(Tail(completion_queue)) <= SSDC_QUEUE_DEPTH
      BY <3>1, <3>2, HeadTailProperties, ControllerAssumption
    <3>4. /\ Current'.issue = Current.issue /\ Current'.completion = Tail(completion_queue)
          /\ Current'.busy = Current.busy /\ Current'.ftl = Current.ftl
          /\ Current'.history = Current.history
      BY <3>1 DEF Current
    <3>5. SSDInv(Current')
      BY <2>0, <3>3, <3>4 DEF SSDInv, Queued
    <3> QED
      BY <2>0, <3>1, <3>5 DEF SSDInductive
  <2>5. CASE UNCHANGED vars
    BY <2>0, <2>5 DEF vars, queues, SSDInductive, Current
  <2> QED
    BY <2>1, <2>2, <2>3, <2>4, <2>5 DEF SSDNext
<1> QED
  BY <1>1, <1>2, PTL DEF SSDSpec
--------------------------------------------------------------------------------
(* What follows from it. *)

\* SSDSound: the queues hold commands, a read that completes returns the data of the
\* last successful write to its block accepted before it, and a command fails only
\* behind a refused write to its block or on a full device (ssd_controller.c with
\* ftl.c), for every device and every number of commands.
THEOREM ControllerSound == SSDSpec => []SSDSound
<1>1. SSDInductive => SSDSound
  <2> SUFFICES ASSUME SSDInductive PROVE SSDSound
    OBVIOUS
  <2> DEFINE n == Done(history, issue_queue)
  <2>1. /\ Consistent(ftl) /\ busy_channels = 0
        /\ history \in Seq(Commands)
        /\ issue_queue \in Seq(Commands) /\ Len(issue_queue) <= SSDC_QUEUE_DEPTH
        /\ completion_queue \in Seq(Commands) /\ Len(completion_queue) <= SSDC_QUEUE_DEPTH
        /\ Len(issue_queue) <= Len(history)
        /\ \A i \in 1 .. Len(issue_queue) : /\ issue_queue[i] = history[n + i]
                                            /\ issue_queue[i].status = "PENDING"
        /\ \A t \in 1 .. n : ReadAnswered(history, t) /\ ErrorAnswered(history, t)
        /\ channel_busy \in [Channels -> BOOLEAN]
    BY DEF SSDInductive, SSDInv, Queued, Current
  <2>2. SSDTypeOK
    <3>1. TypeOK
      BY <2>1 DEF Consistent, TypeOK
    <3> QED
      BY <2>1, <3>1, ControllerAssumption DEF SSDTypeOK
  <2>3. /\ Len(history) \in Nat /\ Len(issue_queue) \in Nat
        /\ n = Len(history) - Len(issue_queue)
    BY <2>1, LenProperties DEF Done
  <2> HIDE DEF n
  <2>4. ASSUME NEW t \in 1 .. Len(history)
        PROVE  ReadAnswered(history, t) /\ ErrorAnswered(history, t)
    <3>1. CASE t \in 1 .. n
      BY <2>1, <3>1
    <3>2. CASE t \notin 1 .. n
      <4>1. t - n \in 1 .. Len(issue_queue) /\ n + (t - n) = t
        BY <2>1, <2>3, <3>2
      <4>2. history[t].status = "PENDING"
        BY <2>1, <4>1
      <4> QED
        BY <4>2 DEF ReadAnswered, ErrorAnswered
    <3> QED
      BY <3>1, <3>2
  <2>5. ReadsLastWrite
    <3>1. \A l, t : WritesBefore(l, t) = WritesTo(history, l, t - 1)
      BY DEF WritesBefore, WritesTo
    <3> QED
      BY <2>4, <3>1 DEF ReadsLastWrite, ReadAnswered, LastWritten
  <2>6. ErrorsExplained
    BY <2>4 DEF ErrorsExplained, ErrorAnswered, RefusedBefore, Written
  <2> QED
    BY <2>2, <2>5, <2>6 DEF SSDSound
<1> QED
  BY <1>1, SSDInvariant, PTL

\* BatchAnswered: a call of ssdc_process that takes a command takes them all, and all
\* of them reach the completion queue unless it was too small for the batch.
THEOREM NothingSwallowed == SSDSpec => BatchAnswered
<1>1. SSDInductive /\ [SSDNext]_vars =>
        (Len(issue_queue') < Len(issue_queue) =>
          /\ issue_queue' = <<>>
          /\ \/ Tags(issue_queue) \subseteq Tags(completion_queue')
             \/ Len(issue_queue) + Len(completion_queue) > SSDC_QUEUE_DEPTH)
  <2> SUFFICES ASSUME SSDInductive, [SSDNext]_vars, Len(issue_queue') < Len(issue_queue)
               PROVE  /\ issue_queue' = <<>>
                      /\ \/ Tags(issue_queue) \subseteq Tags(completion_queue')
                         \/ Len(issue_queue) + Len(completion_queue) > SSDC_QUEUE_DEPTH
    OBVIOUS
  <2>1. /\ SSDInv(Current)
        /\ issue_queue \in Seq(Commands) /\ completion_queue \in Seq(Commands)
        /\ Len(issue_queue) \in Nat /\ Len(completion_queue) \in Nat
        /\ SSDC_QUEUE_DEPTH \in Nat
    BY LenProperties, ControllerAssumption DEF SSDInductive, SSDInv, Queued, Current
  <2>2. issue_queue' # issue_queue
    BY <2>1
  <2>3. ASSUME NEW c, Enqueue(c) PROVE FALSE
    <3>1. Len(Append(issue_queue, c)) = Len(issue_queue) + 1
      BY <2>1
    <3> QED
      BY <2>1, <2>2, <2>3, <3>1 DEF Enqueue, cq_enqueue
  <2>4. CASE ssdc_process
    <3>1. issue_queue' = Served.issue /\ completion_queue' = Served.completion
      BY <2>4 DEF ssdc_process
    <3>2. /\ Served.issue = <<>>
          /\ Len(issue_queue) + Len(completion_queue) <= SSDC_QUEUE_DEPTH =>
               Tags(issue_queue) \subseteq Tags(Served.completion)
      BY <2>1, ProcessInv
    <3> QED
      BY <2>1, <3>1, <3>2
  <2>5. CASE ssdc_complete
    BY <2>2, <2>5 DEF ssdc_complete
  <2>6. CASE UNCHANGED vars
    BY <2>2, <2>6 DEF vars, queues
  <2> QED
    BY <2>3, <2>4, <2>5, <2>6 DEF SSDNext, ssdc_submit_io, ssdc_interleaved_submit
<1> QED
  BY <1>1, SSDInvariant, PTL DEF SSDSpec, BatchAnswered
================================================================================
