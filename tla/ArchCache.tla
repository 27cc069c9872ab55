------------------------------- MODULE ArchCache -------------------------------
(***************************************************************************)
(* The set-associative cache of mini-computer-arch (src/cache.c), alone    *)
(* and as the first-level caches of a multicore (src/multicore.c), which   *)
(* no protocol keeps coherent: the bus only counts.                        *)
(*                                                                         *)
(* A line's bytes are left out: a miss fills it with zeros, nothing lies   *)
(* below the cache, and a line written back is lost.  Of the statistics,   *)
(* misses, evictions and write-backs are kept.                             *)
(***************************************************************************)
EXTENDS Integers, Sequences, FiniteSets, FiniteSetsExt, SequencesExt

CONSTANTS
    Cores,                   \* the cores, each with its first-level cache
    Single,                  \* a cache used alone
    Configs,                 \* bound: [total_size, line_size, associativity] asked for
    CACHE_MAX_SETS,          \* sets a cache may have
    Addresses,               \* bound: the addresses accessed
    MaxAccesses              \* bound: accesses, of all caches together

ASSUME ArchCacheAssumption == CACHE_MAX_SETS \in Nat \ {0} /\ Addresses \subseteq Nat /\ MaxAccesses \in Nat

ReplacementPolicy == {"LRU", "FIFO", "RANDOM", "LFU"}
WritePolicy == {"WRITE_THROUGH", "WRITE_BACK"}
CacheLine == [valid : BOOLEAN, dirty : BOOLEAN, tag : Nat, lru_counter : Nat, access_count : Nat]
EmptyLine == [valid |-> FALSE, dirty |-> FALSE, tag |-> 0, lru_counter |-> 0, access_count |-> 0]

VARIABLES
    cache,     \* cache[c]: geometry, policies, lines, global_counter, statistics
    bus,       \* bus_transaction_count
    used       \* history: used[c], <<index, tag>> of c's accesses since the last flush

archcache_vars == <<cache, bus, used>>
--------------------------------------------------------------------------------
\* Whole part of the logarithm: a number of sets that is no power of two leaves some unused.
log2_u32[x \in Nat] == IF x <= 1 THEN 0 ELSE 1 + log2_u32[x \div 2]

cache_decompose_address(c, address) ==
    LET line == address \div 2 ^ log2_u32[c.line_size]
        sets == 2 ^ log2_u32[c.num_sets]
    IN  [index |-> line % sets, tag |-> line \div sets]

Lowest(ways, Key(_)) ==
    CHOOSE w \in ways : \A v \in ways : Key(w) < Key(v) \/ (Key(w) = Key(v) /\ w <= v)

\* A way that is not valid first; FIFO goes by the count of all accesses.
find_replacement_candidate(c, set) ==
    LET ways == DOMAIN set
        free == {w \in ways : ~set[w].valid}
    IN  IF free # {} THEN {Min(free)}
        ELSE CASE c.replacement = "LRU"    -> {Lowest(ways, LAMBDA w : set[w].lru_counter)}
               [] c.replacement = "FIFO"   -> {c.global_counter % c.associativity}
               [] c.replacement = "RANDOM" -> ways
               [] c.replacement = "LFU"    -> {Lowest(ways, LAMBDA w : set[w].access_count)}

Matching(c, a) == {w \in 0 .. c.associativity - 1 : c.sets[a.index][w].valid /\ c.sets[a.index][w].tag = a.tag}

\* Mutant of Touched: a hit does not count as a use.
TouchedLate(c, line) == [line EXCEPT !.access_count = @ + 1]

Touched(c, line) == [line EXCEPT !.lru_counter = c.global_counter, !.access_count = @ + 1]

\* The caches an access may leave: write says which.  A write through a hit dirties the
\* line too; an eviction of a dirty line counts as written back only under write-back.
Accessed(cache0, a, write) ==
    LET c    == [cache0 EXCEPT !.global_counter = @ + 1]
        back == c.write_policy = "WRITE_BACK"
        Filled == [valid |-> TRUE, dirty |-> write /\ back, tag |-> a.tag,
                   lru_counter |-> c.global_counter, access_count |-> 1]
    IN  IF Matching(c, a) # {}
        THEN LET w == Min(Matching(c, a))
                 t == Touched(c, c.sets[a.index][w])
             IN  {[c EXCEPT !.sets[a.index][w] = [t EXCEPT !.dirty = @ \/ write],
                            !.writebacks = IF write /\ ~back THEN @ + 1 ELSE @]}
        ELSE {LET old == c.sets[a.index][w]
              IN  [c EXCEPT !.sets[a.index][w] = Filled,
                            !.misses = @ + 1,
                            !.evictions = IF old.valid THEN @ + 1 ELSE @,
                            !.writebacks = IF old.valid /\ old.dirty /\ back THEN @ + 1 ELSE @] :
                 w \in find_replacement_candidate(c, c.sets[a.index])}

cache_init(config, rp, wp) ==
    LET sets == (config.total_size \div config.line_size) \div config.associativity
        num  == IF sets < 1 THEN 1 ELSE IF sets > CACHE_MAX_SETS THEN CACHE_MAX_SETS ELSE sets
    IN  [num_sets |-> num, line_size |-> config.line_size, associativity |-> config.associativity,
         replacement |-> rp, write_policy |-> wp, global_counter |-> 0,
         misses |-> 0, evictions |-> 0, writebacks |-> 0, flushed |-> 0,
         sets |-> [i \in 0 .. num - 1 |-> [w \in 0 .. config.associativity - 1 |-> EmptyLine]]]
--------------------------------------------------------------------------------
\* mc_init: every core's cache replaces the least recently used and writes back.
ArchCacheInit ==
    /\ \E config \in Configs, rp \in ReplacementPolicy, wp \in WritePolicy :
          cache = [c \in Cores \cup {Single} |->
                      IF c = Single THEN cache_init(config, rp, wp)
                      ELSE cache_init(config, "LRU", "WRITE_BACK")]
    /\ bus = 0
    /\ used = [c \in Cores \cup {Single} |-> <<>>]

\* cache_read and cache_write.
Access(c, address, write) ==
    LET a == cache_decompose_address(cache[c], address)
    IN  /\ FoldSet(LAMBDA d, n : n + cache[d].global_counter, 0, DOMAIN cache) < MaxAccesses
        /\ \E after \in Accessed(cache[c], a, write) : cache' = [cache EXCEPT ![c] = after]
        /\ used' = [used EXCEPT ![c] = Append(@, <<a.index, a.tag>>)]

cache_access(address, write) == Access(Single, address, write) /\ UNCHANGED bus

\* Bit 31 of the instruction chooses the read.
mc_run_core(c, address, bit31) == Access(c, address, ~bit31) /\ bus' = bus + 1

\* How many lines of a cache satisfy P.
Lines(c, P(_)) ==
    FoldSet(LAMBDA i, n : n + Cardinality({w \in DOMAIN c.sets[i] : P(c.sets[i][w])}), 0, DOMAIN c.sets)

\* flushed counts the lines for the property below.
cache_flush(c) ==
    LET old == cache[c]
        WrittenBack(line) == line.valid /\ line.dirty /\ old.write_policy = "WRITE_BACK"
    IN  /\ cache' = [cache EXCEPT
                        ![c].sets = [i \in DOMAIN @ |-> [w \in DOMAIN @[i] |-> EmptyLine]],
                        ![c].writebacks = @ + Lines(old, WrittenBack),
                        ![c].flushed = @ + Lines(old, LAMBDA line : line.valid)]
        /\ used' = [used EXCEPT ![c] = <<>>]
        /\ UNCHANGED bus

ArchCacheNext ==
    \/ \E address \in Addresses, b \in BOOLEAN :
          cache_access(address, b) \/ \E c \in Cores : mc_run_core(c, address, b)
    \/ cache_flush(Single)

ArchCacheSpec == ArchCacheInit /\ [][ArchCacheNext]_archcache_vars
--------------------------------------------------------------------------------
(* Properties. *)

\* The last n different tags of a set's accesses.
RECURSIVE LastTags(_, _, _)
LastTags(accesses, index, n) ==
    IF n = 0 \/ accesses = <<>> THEN {}
    ELSE LET a == Last(accesses)
             before == Front(accesses)
         IN  IF a[1] # index THEN LastTags(before, index, n)
             ELSE {a[2]} \cup LastTags(SelectSeq(before, LAMBDA x : x # a), index, n - 1)

Held(c, i) == {cache[c].sets[i][w].tag : w \in {v \in DOMAIN cache[c].sets[i] : cache[c].sets[i][v].valid}}

\* A cache holds a tag at most once in a set; under LRU each set holds exactly the tags
\* used last, as many as it has ways; the last access is held under every policy; and
\* the statistics account for every line: a miss that evicted nothing is a line that is
\* still there or was flushed.
CacheHoldsRecent ==
    \A c \in DOMAIN cache : \A i \in DOMAIN cache[c].sets :
        LET valid == {w \in DOMAIN cache[c].sets[i] : cache[c].sets[i][w].valid}
        IN  /\ Cardinality(Held(c, i)) = Cardinality(valid)
            /\ cache[c].replacement = "LRU" => Held(c, i) = LastTags(used[c], i, cache[c].associativity)
            /\ LastTags(used[c], i, 1) \subseteq Held(c, i)
            /\ cache[c].misses - cache[c].evictions = cache[c].flushed
                  + Lines(cache[c], LAMBDA line : line.valid)
================================================================================
