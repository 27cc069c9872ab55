------------------------------ MODULE SnoopCache ------------------------------
(***************************************************************************)
(* The caches of mini-cpu-arch (src/cache.c): one cache with its           *)
(* replacement and write policies, the hierarchy L1I/L1D - L2 - L3, and    *)
(* the bus on which up to four caches snoop each other's accesses.         *)
(*                                                                         *)
(* A cache keeps no bytes.  Snoop, access and change of state are separate *)
(* calls of the program; BusRead and BusWrite make them in the order of    *)
(* the state diagram of cache.c:430-437, one access at a time.             *)
(***************************************************************************)
EXTENDS Integers, Sequences, FiniteSets, FiniteSetsExt, SequencesExt

CONSTANTS
    Buses,              \* bound: [cores, geom, replace, write, addrs, accesses]: what is tried on a bus
    LevelGeometries,    \* bound: level -> geometry, or NoLevel, of the hierarchy's caches
    LevelAddresses,     \* bound: addresses accessed through the hierarchy
    MaxLevelAccesses    \* bound: accesses through the hierarchy

Levels == {"L1I", "L1D", "L2", "L3"}
NoLevel == [line_size |-> 0, associativity |-> 0, num_sets |-> 0]
Geometries == [line_size : Nat \ {0}, associativity : Nat \ {0}, num_sets : Nat \ {0}]

PowersOfTwo(n) == {2 ^ k : k \in 0 .. n}
SplitsByBits(g) == g.line_size \in PowersOfTwo(g.line_size) /\ g.num_sets \in PowersOfTwo(g.num_sets)

ReplacePolicy == {"LRU", "FIFO", "RANDOM", "PLRU"}
WritePolicies == {"THROUGH_NO_ALLOC", "THROUGH_ALLOC", "BACK_ALLOC"}
MESIState == {"M", "E", "S", "I"}

\* cache_addr_split takes log2 of sizes it masks with, and plru_update indexes the bits of
\* a set as a full tree: geometries that are not powers of two are left out.
ASSUME SnoopAssumption ==
    /\ MaxLevelAccesses \in Nat /\ LevelAddresses \subseteq Nat
    /\ \A l \in Levels :
          /\ LevelGeometries[l] \in Geometries \cup (IF l = "L3" THEN {NoLevel} ELSE {})
          /\ LevelGeometries[l] # NoLevel => SplitsByBits(LevelGeometries[l])
    /\ \A b \in Buses :
          /\ Cardinality(b.cores) \in 1 .. 4 /\ b.accesses \in Nat /\ b.addrs \subseteq Nat
          /\ b.geom \in Geometries /\ SplitsByBits(b.geom) /\ b.geom.associativity \in PowersOfTwo(b.geom.associativity)
          /\ b.replace \in ReplacePolicy /\ b.write \in WritePolicies

CacheLineOf == [valid : BOOLEAN, dirty : BOOLEAN, tag : Nat, access_order : Nat, mesi_state : MESIState]

VARIABLE sc     \* [kind, addrs, left: accesses to come, cache: name -> cache, recent: name -> history]
--------------------------------------------------------------------------------
\* Shift and mask, for sizes that are powers of two.
cache_addr_split(addr, g) ==
    [set |-> (addr \div g.line_size) % g.num_sets, tag |-> addr \div (g.line_size * g.num_sets)]

cache_init(g, rp, wp) ==
    [geom |-> g, replace_policy |-> rp, write_policy |-> wp, clock |-> 0, writebacks |-> 0,
     lines |-> [s \in 0 .. g.num_sets - 1 |-> [w \in 0 .. g.associativity - 1 |->
        [valid |-> FALSE, dirty |-> FALSE, tag |-> 0, access_order |-> 0, mesi_state |-> "I"]]],
     plru_bits |-> [s \in 0 .. g.num_sets - 1 |-> [n \in 0 .. g.associativity - 2 |-> 0]]]

\* Forgets every line and keeps the policies; the tags stay but are not valid.
cache_reset(c) ==
    [cache_init(c.geom, c.replace_policy, c.write_policy) EXCEPT
        !.lines = [s \in DOMAIN c.lines |-> [w \in DOMAIN c.lines[s] |->
            [c.lines[s][w] EXCEPT !.valid = FALSE, !.dirty = FALSE, !.mesi_state = "I", !.access_order = 0]]]]

\* The ways that hold the address; the state of the protocol is not looked at.
cache_lookup(c, addr) ==
    LET a == cache_addr_split(addr, c.geom)
    IN  {w \in DOMAIN c.lines[a.set] : c.lines[a.set][w].valid /\ c.lines[a.set][w].tag = a.tag}

\* One level down the tree of a set: the half of the ways on the left or on the right.
Descend(at, left) ==
    LET mid == (at.rs + at.re) \div 2
    IN  IF left THEN [rs |-> at.rs, re |-> mid, node |-> 2 * at.node + 1]
                ELSE [rs |-> mid, re |-> at.re, node |-> 2 * at.node + 2]

\* Mutant of plru_update: the nodes point towards the way just used.
PointTowards(bits, way, assoc) ==
    LET down[i \in 0 .. assoc] ==
            IF i = 0 THEN [at |-> [rs |-> 0, re |-> assoc, node |-> 0], bits |-> bits]
            ELSE LET p == down[i - 1]
                     left == way < (p.at.rs + p.at.re) \div 2
                 IN  IF p.at.re - p.at.rs <= 1 THEN p
                     ELSE [at |-> Descend(p.at, left), bits |-> [p.bits EXCEPT ![p.at.node] = IF left THEN 0 ELSE 1]]
    IN  down[assoc].bits

\* On the way down to the way just used every node is made to point to the other half.
plru_update(bits, way, assoc) ==
    LET down[i \in 0 .. assoc] ==
            IF i = 0 THEN [at |-> [rs |-> 0, re |-> assoc, node |-> 0], bits |-> bits]
            ELSE LET p == down[i - 1]
                     left == way < (p.at.rs + p.at.re) \div 2
                 IN  IF p.at.re - p.at.rs <= 1 THEN p
                     ELSE [at |-> Descend(p.at, left), bits |-> [p.bits EXCEPT ![p.at.node] = IF left THEN 1 ELSE 0]]
    IN  down[assoc].bits

\* Where the nodes point to.
plru_victim(bits, assoc) ==
    LET down[i \in 0 .. assoc] ==
            IF i = 0 THEN [rs |-> 0, re |-> assoc, node |-> 0]
            ELSE LET p == down[i - 1]
                 IN  IF p.re - p.rs <= 1 THEN p ELSE Descend(p, bits[p.node] = 0)
    IN  down[assoc].rs

\* First a way that is not valid; FIFO reads the order that every hit renews, as LRU does.
find_victim(c, set) ==
    LET ways == DOMAIN c.lines[set]
        free == {w \in ways : ~c.lines[set][w].valid}
        oldest == CHOOSE w \in ways : \A v \in ways :
                      \/ c.lines[set][w].access_order < c.lines[set][v].access_order
                      \/ c.lines[set][w].access_order = c.lines[set][v].access_order /\ w <= v
    IN  IF free # {} THEN {Min(free)}
        ELSE CASE c.replace_policy = "RANDOM" -> ways
               [] c.replace_policy \in {"FIFO", "LRU"} -> {oldest}
               [] c.replace_policy = "PLRU" -> {plru_victim(c.plru_bits[set], c.geom.associativity)}

Used(c, set, way) ==
    IF c.replace_policy = "PLRU" /\ c.geom.associativity > 1
    THEN [c EXCEPT !.plru_bits[set] = plru_update(@, way, c.geom.associativity)] ELSE c

\* The victim, written back when dirty, replaced by the line in state st.
Filled(c, a, dirty, st) ==
    {LET old == c.lines[a.set][w]
     IN  Used([c EXCEPT !.lines[a.set][w] = [valid |-> TRUE, dirty |-> dirty, tag |-> a.tag,
                                             access_order |-> c.clock, mesi_state |-> st],
                        !.writebacks = IF old.valid /\ old.dirty THEN @ + 1 ELSE @], a.set, w) :
     w \in find_victim(c, a.set)}

cache_read(c0, addr) ==
    LET c == [c0 EXCEPT !.clock = @ + 1]
        a == cache_addr_split(addr, c.geom)
        w == Min(cache_lookup(c, addr))
    IN  IF cache_lookup(c, addr) # {}
        THEN {Used([c EXCEPT !.lines[a.set][w].access_order = c.clock], a.set, w)}
        ELSE Filled(c, a, FALSE, "E")

\* A write hit does not touch the PLRU bits, and makes a write-through line MODIFIED too.
cache_write(c0, addr) ==
    LET c == [c0 EXCEPT !.clock = @ + 1]
        a == cache_addr_split(addr, c.geom)
        w == Min(cache_lookup(c, addr))
        back == c.write_policy = "BACK_ALLOC"
    IN  IF cache_lookup(c, addr) # {}
        THEN LET line == c.lines[a.set][w]
             IN  {[c EXCEPT !.lines[a.set][w] =
                        [line EXCEPT !.access_order = c.clock, !.mesi_state = "M", !.dirty = line.dirty \/ back]]}
        ELSE IF c.write_policy = "THROUGH_NO_ALLOC" THEN {c}
        ELSE Filled(c, a, back, "M")

StateIn(c, addr) ==
    LET a == cache_addr_split(addr, c.geom)
    IN  IF cache_lookup(c, addr) = {} THEN "I" ELSE c.lines[a.set][Min(cache_lookup(c, addr))].mesi_state

cache_set_mesi(c, addr, st) ==
    LET a == cache_addr_split(addr, c.geom)
    IN  IF cache_lookup(c, addr) = {} THEN c
        ELSE [c EXCEPT !.lines[a.set][Min(cache_lookup(c, addr))].mesi_state = st]
--------------------------------------------------------------------------------
\* Every other copy becomes INVALID; a modified one is counted as written back.  The line
\* stays valid and, if it was, dirty.
mesi_bus_write_snoop(caches, core, addr) ==
    [i \in DOMAIN caches |->
        IF i = core \/ StateIn(caches[i], addr) = "I" THEN caches[i]
        ELSE [cache_set_mesi(caches[i], addr, "I") EXCEPT
                !.writebacks = IF StateIn(caches[i], addr) = "M" THEN @ + 1 ELSE @]]

\* Mutant of mesi_bus_read_snoop: a copy held exclusively is left alone.
ReadSnoopModifiedOnly(caches, core, addr) ==
    [i \in DOMAIN caches |->
        IF i = core \/ StateIn(caches[i], addr) # "M" THEN caches[i] ELSE cache_set_mesi(caches[i], addr, "S")]

\* Modified and exclusive copies become SHARED, the modified one written back.
mesi_bus_read_snoop(caches, core, addr) ==
    [i \in DOMAIN caches |->
        IF i = core \/ StateIn(caches[i], addr) \notin {"M", "E"} THEN caches[i]
        ELSE [cache_set_mesi(caches[i], addr, "S") EXCEPT
                !.writebacks = IF StateIn(caches[i], addr) = "M" THEN @ + 1 ELSE @]]

\* History: the lines a cache was asked for, and how many accesses were left the last time.
Recent(name, addr) ==
    LET line == cache_addr_split(addr, sc.cache[name].geom)
    IN  [sc.recent EXCEPT ![name] = {r \in @ : r.line # line} \cup {[line |-> line, left |-> sc.left]}]

\* A core reads: snoop, access, and SHARED when another cache has the line (SHARED too when
\* its own copy had been invalidated by a snoop: the hit itself leaves it INVALID).
BusRead(core, addr) ==
    \E c \in cache_read(sc.cache[core], addr) :
        LET snooped == mesi_bus_read_snoop(sc.cache, core, addr)
            shared  == \E i \in DOMAIN snooped \ {core} : StateIn(snooped[i], addr) # "I"
            own     == IF shared THEN cache_set_mesi(c, addr, "S")
                       ELSE IF StateIn(c, addr) = "I" THEN cache_set_mesi(c, addr, "E") ELSE c
        IN  sc' = [sc EXCEPT !.cache = [snooped EXCEPT ![core] = own], !.left = @ - 1,
                             !.recent = Recent(core, addr)]

\* A write counts unless it goes past the cache, or hits a cache that PLRU governs.
Remembered(name, addr) ==
    LET c == sc.cache[name]
        past == IF cache_lookup(c, addr) = {} THEN c.write_policy = "THROUGH_NO_ALLOC" ELSE c.replace_policy = "PLRU"
    IN  IF past THEN sc.recent ELSE Recent(name, addr)

BusWrite(core, addr) ==
    \E c \in cache_write(sc.cache[core], addr) :
        sc' = [sc EXCEPT !.cache = [mesi_bus_write_snoop(sc.cache, core, addr) EXCEPT ![core] = c],
                         !.left = @ - 1, !.recent = Remembered(core, addr)]

BusReset(core) ==
    sc' = [sc EXCEPT !.cache[core] = cache_reset(@), !.recent[core] = {}, !.left = @ - 1]
--------------------------------------------------------------------------------
HasL3 == sc.cache["L3"].geom # NoLevel
Hit(level, addr) == cache_lookup(sc.cache[level], addr) # {}

\* A first-level hit changes no order.  A line found further down is read into the levels
\* above it; one found nowhere costs main_memory_latency and is put in no level.
cache_hierarchy_read(addr, l1) ==
    LET fill == IF Hit(l1, addr) THEN {}
                ELSE IF Hit("L2", addr) THEN {l1}
                ELSE IF HasL3 /\ Hit("L3", addr) THEN {l1, "L2"} ELSE {}
    IN  \E upper \in cache_read(sc.cache[l1], addr), l2 \in cache_read(sc.cache["L2"], addr) :
            sc' = [sc EXCEPT
                !.cache = [sc.cache EXCEPT ![l1] = IF l1 \in fill THEN upper ELSE @,
                                           !["L2"] = IF "L2" \in fill THEN l2 ELSE @],
                !.recent = [sc.recent EXCEPT ![l1] = IF l1 \in fill THEN Recent(l1, addr)[l1] ELSE @,
                                             !["L2"] = IF "L2" \in fill THEN Recent("L2", addr)["L2"] ELSE @],
                !.left = @ - 1]

cache_hierarchy_write(addr) ==
    LET through == sc.cache["L1D"].write_policy # "BACK_ALLOC"
    IN  \E l1 \in cache_write(sc.cache["L1D"], addr), l2 \in cache_write(sc.cache["L2"], addr) :
            sc' = [sc EXCEPT
                !.cache = [sc.cache EXCEPT !["L1D"] = l1, !["L2"] = IF through THEN l2 ELSE @],
                !.recent = [sc.recent EXCEPT !["L1D"] = Remembered("L1D", addr)["L1D"],
                                             !["L2"] = IF through THEN Remembered("L2", addr)["L2"] ELSE @],
                !.left = @ - 1]

\* A level three filled by its own user, as cache_read on h->L3 does.
WarmL3(addr) ==
    /\ HasL3
    /\ \E c \in cache_read(sc.cache["L3"], addr) :
         sc' = [sc EXCEPT !.cache["L3"] = c, !.recent = Recent("L3", addr), !.left = @ - 1]
--------------------------------------------------------------------------------
mesi_bus_init(b) ==
    [kind |-> "bus", addrs |-> b.addrs, left |-> b.accesses, recent |-> [c \in b.cores |-> {}],
     cache |-> [c \in b.cores |-> cache_init(b.geom, b.replace, b.write)]]

\* Every level LRU; L1I and L3 write back; no third level when its size is 0.
cache_hierarchy_init(l1_wp, l2_wp) ==
    [kind |-> "hierarchy", addrs |-> LevelAddresses, left |-> MaxLevelAccesses,
     recent |-> [l \in Levels |-> {}],
     cache |-> [l \in Levels |->
        cache_init(LevelGeometries[l], "LRU",
                   CASE l = "L1D" -> l1_wp [] l = "L2" -> l2_wp [] OTHER -> "BACK_ALLOC")]]

SnoopInit ==
    \/ \E b \in Buses : sc = mesi_bus_init(b)
    \/ \E l1_wp, l2_wp \in WritePolicies : sc = cache_hierarchy_init(l1_wp, l2_wp)

SnoopNext ==
    /\ sc.left > 0
    /\ \/ /\ sc.kind = "bus"
          /\ \E core \in DOMAIN sc.cache :
                BusReset(core) \/ \E addr \in sc.addrs : BusRead(core, addr) \/ BusWrite(core, addr)
       \/ /\ sc.kind = "hierarchy"
          /\ \E addr \in sc.addrs :
                cache_hierarchy_write(addr) \/ WarmL3(addr) \/ \E l1 \in {"L1I", "L1D"} : cache_hierarchy_read(addr, l1)

SnoopSpec == SnoopInit /\ [][SnoopNext]_sc
--------------------------------------------------------------------------------
\* Reads and writes of one line by several caches, each preceded by its snoop, leave at
\* most one cache with the line modified or exclusive, and then no other with a usable copy.
OwnerAlone ==
    sc.kind = "bus" =>
        \A addr \in sc.addrs, i \in DOMAIN sc.cache : StateIn(sc.cache[i], addr) \in {"M", "E"} =>
            \A j \in DOMAIN sc.cache \ {i} : StateIn(sc.cache[j], addr) = "I"

\* The lines of a set that a cache was asked for after all but n - 1 others at most.
AskedLast(name, set, n) ==
    LET asked == {r \in sc.recent[name] : r.line.set = set}
    IN  {r.line.tag : r \in {q \in asked : Cardinality({p \in asked : p.left < q.left}) < n}}

\* What a cache keeps: under LRU and FIFO each set holds the lines last asked for, as many
\* as it has ways; under PLRU at least the line last read or brought in is kept until two
\* others have come.  Holds on every level of the hierarchy too.
KeepsRecent ==
    \A n \in DOMAIN sc.cache :
        LET c == sc.cache[n]
            many == IF c.replace_policy \in {"LRU", "FIFO"} THEN c.geom.associativity
                    ELSE IF c.replace_policy = "PLRU" THEN Min({2, c.geom.associativity}) ELSE 1
        IN  \A s \in DOMAIN c.lines :
                AskedLast(n, s, many)
                    \subseteq {c.lines[s][w].tag : w \in {v \in DOMAIN c.lines[s] : c.lines[s][v].valid}}

\* The two promises of the caches: coherence on the bus and recency in each cache.
SnoopSound == OwnerAlone /\ KeepsRecent
================================================================================
