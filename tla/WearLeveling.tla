------------------------------ MODULE WearLeveling ------------------------------
(***************************************************************************)
(* The wear leveler of mini-storage-hardware (src/wear_leveling.c).  It    *)
(* keeps a snapshot of the erase counters of all blocks, picks the block   *)
(* to use next from the snapshot, and "balances" by rewriting counters.    *)
(*                                                                         *)
(* Left out: the floating-point predictions computed from the snapshot     *)
(* (average, deviation, endurance, retention), which no decision uses.     *)
(* Erasures are those of gc_erase_block (module GC): they count the block  *)
(* up.  worn is not in the code: the erasures a block really went through. *)
(***************************************************************************)
EXTENDS Integers, FiniteSets

CONSTANTS
    WL_MAX_BLOCKS,   \* 64
    WLThreshold,       \* wl->threshold (default 100)
    WLBurst,           \* erasures between two updates of the snapshot
    MaxWear,       \* bound: erasures of one block
    MaxBalances      \* bound: balances that found the spread too wide

ASSUME WearAssumption ==
    /\ WL_MAX_BLOCKS \in Nat \ {0}
    /\ WLThreshold \in Nat
    /\ WLBurst \in Nat
    /\ MaxWear \in Nat
    /\ MaxBalances \in Nat

WLBlocks == 0 .. WL_MAX_BLOCKS - 1

VARIABLES
    algorithm,     \* wl->algorithm: "DYNAMIC", "STATIC" or "HYBRID"
    erase_count,   \* the counter of each block, in the FTL
    balances,      \* erases, and 128ths of gc_moves, that balances added to the FTL's statistics
    stats,         \* wl->stats.erase_counts; stats.min and stats.max follow from it
    worn,          \* history: erasures since the device was new
    since,         \* history: erasures since the snapshot
    levelled       \* history: all erased blocks were picks, at most WLBurst per snapshot

wl_vars == <<algorithm, erase_count, balances, stats, worn, since, levelled>>
--------------------------------------------------------------------------------
Least(c)    == CHOOSE n \in {c[b] : b \in WLBlocks} : \A b \in WLBlocks : n <= c[b]
Greatest(c) == CHOOSE n \in {c[b] : b \in WLBlocks} : \A b \in WLBlocks : n >= c[b]

\* The last block with value n: the scans of wl_check_and_balance and
\* wl_static_migration_plan keep overwriting their candidate.
LastWith(c, n) == CHOOSE b \in WLBlocks : c[b] = n /\ \A i \in WLBlocks : c[i] = n => i <= b

\* Mutant of wl_select_block: the most worn block is picked.
wl_select_block_worst(c) ==
    CHOOSE b \in WLBlocks : c[b] = Greatest(c) /\ \A i \in WLBlocks : c[i] = Greatest(c) => b <= i

\* The first block with the lowest counter of snapshot c.
wl_select_block(c) ==
    CHOOSE b \in WLBlocks : c[b] = Least(c) /\ \A i \in WLBlocks : c[i] = Least(c) => b <= i

TooWide(c) == Greatest(c) - Least(c) >= WLThreshold

\* No plan where the spread does not pay for the copies.
wl_static_migration_plan(c) ==
    IF ~TooWide(c) THEN [gain |-> 0, source |-> 0, dest |-> 0]
    ELSE [gain   |-> Greatest(c) - Least(c),
          source |-> LastWith(c, Least(c)),
          dest   |-> LastWith(c, Greatest(c))]

\* The counters after a balance: halved for the most erased block and then
\* doubled for the least erased one, unless the algorithm is dynamic.
Balanced(c) ==
    IF ~TooWide(c) \/ algorithm = "DYNAMIC" THEN c
    ELSE LET hi == LastWith(c, Greatest(c))
             lo == LastWith(c, Least(c))
             h  == [c EXCEPT ![hi] = @ \div 2]
         IN  [h EXCEPT ![lo] = @ * 2]
--------------------------------------------------------------------------------
WLInit ==
    /\ algorithm \in {"DYNAMIC", "STATIC", "HYBRID"}
    /\ erase_count = [b \in WLBlocks |-> 0]
    /\ stats = erase_count
    /\ worn = erase_count
    /\ balances = 0
    /\ since = 0
    /\ levelled = TRUE

\* Any block may be erased: the collector does not ask the leveler.
WLErase(b) ==
    /\ worn[b] < MaxWear
    /\ erase_count' = [erase_count EXCEPT ![b] = @ + 1]
    /\ worn' = [worn EXCEPT ![b] = @ + 1]
    /\ since' = since + 1
    /\ levelled' = (levelled /\ since < WLBurst /\ b = wl_select_block(stats))
    /\ UNCHANGED <<algorithm, balances, stats>>

wl_update_stats ==
    /\ stats' = erase_count
    /\ since' = 0
    /\ UNCHANGED <<algorithm, erase_count, balances, worn, levelled>>

\* No block is moved or erased, yet the statistics count one erasure and a block of
\* copies.  The snapshot is taken before the counters are rewritten, so it is stale
\* at once.
wl_check_and_balance ==
    /\ stats' = erase_count
    /\ IF TooWide(erase_count)
           THEN balances < MaxBalances /\ balances' = balances + 1
           ELSE UNCHANGED balances
    /\ erase_count' = Balanced(erase_count)
    /\ since' = 0
    /\ UNCHANGED <<algorithm, worn, levelled>>

WLNext ==
    \/ \E b \in WLBlocks : WLErase(b)
    \/ wl_update_stats
    \/ wl_check_and_balance

WLSpec == WLInit /\ [][WLNext]_wl_vars
--------------------------------------------------------------------------------
(* Properties. *)

\* Counters, snapshot and history stay natural numbers: no balance takes a counter
\* below zero (they are unsigned in the code).
WLTypeOK ==
    /\ algorithm \in {"DYNAMIC", "STATIC", "HYBRID"}
    /\ erase_count \in [WLBlocks -> Nat]
    /\ stats \in [WLBlocks -> Nat]
    /\ worn \in [WLBlocks -> 0 .. MaxWear]
    /\ balances \in 0 .. MaxBalances
    /\ since \in Nat
    /\ levelled \in BOOLEAN

\* What dynamic levelling is for: if every erased block was picked by
\* wl_select_block, and the snapshot is refreshed after at most WLBurst erasures,
\* then no block is ever more than WLBurst erasures ahead of another.
SpreadBounded ==
    algorithm = "DYNAMIC" /\ levelled => \A b, c \in WLBlocks : worn[b] - worn[c] <= WLBurst

\* With a fresh snapshot the block picked is one of the least worn, and a plan to
\* migrate moves data from a least worn to a most worn block, as long as no balance
\* has rewritten a counter.
FreshChoiceIsLeastWorn ==
    since = 0 /\ (algorithm = "DYNAMIC" \/ balances = 0) =>
        /\ \A c \in WLBlocks : worn[wl_select_block(stats)] <= worn[c]
        /\ LET plan == wl_static_migration_plan(stats)
           IN  plan.gain > 0 =>
                   /\ worn[plan.dest] - worn[plan.source] = plan.gain
                   /\ \A c \in WLBlocks : worn[plan.source] <= worn[c] /\ worn[c] <= worn[plan.dest]
================================================================================
