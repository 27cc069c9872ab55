---------------------------- MODULE ClockedCircuits ----------------------------
(* mini-digital-circuit/src/sequential.c, bus_arbiter.c and memory.c: flip-flops,  *)
(* latches, shift registers and counters, the bus arbiters, and the cache and TLB  *)
(* of the memory model.  The parts share no state.  Names, setup times, hit counts *)
(* and the word array behind memory_read are left out.                              *)
EXTENDS Integers, Sequences, FiniteSets, FiniteSetsExt, SequencesExt

CONSTANTS
    RegWidth,                    \* bits of a shift register
    CounterBits,                 \* bits of a counter
    BUS_MASTERS, TdmaSlots,      \* masters of an arbiter, slot counts configured
    DcSets, DcWays, DcLineSize,  \* geometry of a cache; sizes are in words
    DcAddresses, DcValues,       \* word addresses used and values written
    DtlbEntries, Vpns, Ppns,     \* a TLB, the pages and the frames
    MaxBusCycles, MaxDcAccesses  \* bounds

\* An arbiter has one master at least (bus_arbiter_create); a table of no slots, by which
\* bus_arbiter_arbitrate would divide, is not configured.
ASSUME ClockedAssumption ==
    /\ RegWidth \in Nat /\ CounterBits \in Nat /\ DtlbEntries \in Nat
    /\ BUS_MASTERS \in Nat \ {0} /\ TdmaSlots \subseteq Nat \ {0}

VARIABLES
    ff,       \* the flip-flops and latches
    shr,      \* a shift register and what was shifted in
    cnt,      \* a counter
    bus,      \* arbiters by bus, and the arbitrations a request has seen
    dcache,   \* a cache, and the last value written to each address
    dtlb      \* a TLB, and the translations inserted since the page was invalidated

clocked_vars == <<ff, shr, cnt, bus, dcache, dtlb>>

-----------------------------------------------------------------------------
(* Flip-flops and latches.  An output is the pair q, q_bar. *)

Out(b) == [q |-> b, q_bar |-> ~b]
Swapped(o) == [q |-> o.q_bar, q_bar |-> o.q]

FlipInit == ff = [dff |-> Out(FALSE), reset |-> FALSE, preset |-> FALSE, jk |-> Out(FALSE), t |-> Out(FALSE),
                  sr |-> Out(FALSE), latch |-> Out(FALSE)]

\* A synchronous reset or a preset is never taken back.
dff_clock(d) ==
    ff' = [ff EXCEPT !.dff = Out(IF ff.reset THEN FALSE ELSE IF ff.preset THEN TRUE ELSE d)]

dff_reset(async) ==
    ff' = IF async THEN [ff EXCEPT !.dff = Out(FALSE)] ELSE [ff EXCEPT !.reset = TRUE]

dff_preset == ff' = [ff EXCEPT !.preset = TRUE, !.dff = Out(TRUE)]

JkNext(o, j, k) == CASE j /\ k -> Swapped(o) [] j /\ ~k -> Out(TRUE) [] ~j /\ k -> Out(FALSE) [] OTHER -> o

jkff_clock(j, k) == ff' = [ff EXCEPT !.jk = JkNext(@, j, k)]
tff_clock(t) == ff' = [ff EXCEPT !.t = IF t THEN Swapped(@) ELSE @]

\* Both inputs at once change nothing.
sr_latch_eval(s, r) == ff' = [ff EXCEPT !.sr = IF s = r THEN @ ELSE Out(s)]
d_latch_eval(d, enable) == ff' = [ff EXCEPT !.latch = IF enable THEN Out(d) ELSE @]

FlipNext ==
    \E x, y \in BOOLEAN :
        \/ dff_clock(x) \/ dff_reset(x) \/ dff_preset
        \/ jkff_clock(x, y) \/ tff_clock(x) \/ sr_latch_eval(x, y) \/ d_latch_eval(x, y)

-----------------------------------------------------------------------------
(* Shift registers.  Position 0 is the left end. *)

ShiftInit == \E dir \in {"LEFT", "RIGHT", "BIDIR"} :
                shr = [direction |-> dir, bits |-> [i \in 0 .. RegWidth - 1 |-> FALSE], given |-> <<>>]

\* Bidirectional registers shift as left ones do.
ShiftedBits(direction, bits, left, right) ==
    IF direction = "RIGHT"
    THEN [i \in 0 .. RegWidth - 1 |-> IF i < RegWidth - 1 THEN bits[i + 1] ELSE right]
    ELSE [i \in 0 .. RegWidth - 1 |-> IF i > 0 THEN bits[i - 1] ELSE left]

shift_reg_shift(left, right) ==
    shr' = [shr EXCEPT !.bits = ShiftedBits(shr.direction, @, left, right),
                       !.given = SubSeq(<<IF shr.direction = "RIGHT" THEN right ELSE left>> \o @, 1,
                                        IF Len(@) < RegWidth THEN Len(@) + 1 ELSE RegWidth)]

shift_reg_load(data) == shr' = [shr EXCEPT !.bits = data, !.given = <<>>]

ShiftNext ==
    \/ \E l, r \in BOOLEAN : shift_reg_shift(l, r)
    \/ \E data \in [0 .. RegWidth - 1 -> BOOLEAN] : shift_reg_load(data)

-----------------------------------------------------------------------------
(* Counters. *)

\* Johnson and ring counters count in binary too.
CounterTypes == {"BINARY", "BCD", "GRAY", "JOHNSON", "RING", "UP_DOWN"}

BitOf(n, i) == (n \div 2^i) % 2
FromBits(bit) == FoldSet(LAMBDA i, sum : sum + bit[i] * 2^i, 0, DOMAIN bit)
bin2gray(n) == FromBits([i \in 0 .. CounterBits - 1 |-> (BitOf(n, i) + BitOf(n, i + 1)) % 2])
gray2bin(n) ==
    FromBits([i \in 0 .. CounterBits - 1 |-> FoldSet(LAMBDA j, s : s + BitOf(n, j), 0, i .. CounterBits - 1) % 2])

CounterInit == \E type \in CounterTypes : cnt = [type |-> type, value |-> 0, up |-> TRUE, moved |-> 0]

CounterNext(type, value, up) ==
    LET step == IF up THEN 1 ELSE -1
    IN  CASE type = "BCD"  -> IF up THEN (value + 1) % 10 ELSE IF value = 0 THEN 9 ELSE value - 1
          [] type = "GRAY" -> bin2gray((gray2bin(value) + step) % 2^CounterBits)
          [] OTHER -> (value + step) % 2^CounterBits

Period(type) == IF type = "BCD" THEN 10 ELSE 2^CounterBits

counter_tick == cnt' = [cnt EXCEPT !.value = CounterNext(cnt.type, @, cnt.up),
                                   !.moved = (@ + (IF cnt.up THEN 1 ELSE -1)) % Period(cnt.type)]
counter_reset == cnt' = [cnt EXCEPT !.value = 0, !.moved = 0]
counter_set_direction(up) == cnt' = [cnt EXCEPT !.up = up]

CountNext == counter_tick \/ counter_reset \/ \E up \in BOOLEAN : counter_set_direction(up)

-----------------------------------------------------------------------------
(* Bus arbiters. *)

Masters == 0 .. BUS_MASTERS - 1

bus_arbiter_create(type) ==
    [type |-> type, request |-> {}, grant |-> {}, current_master |-> -1, tdma_slot |-> 0,
     tdma_num_slots |-> BUS_MASTERS, starvation_count |-> [m \in Masters |-> 0], cycle |-> 0,
     passed |-> [m \in Masters |-> 0]]

\* A single arbiter of any kind, or the pair of bus_system_create.
BusInit ==
    \/ \E type \in {"FIXED", "RR", "TDMA"} :
          bus = [arb |-> [b \in {"address"} |-> bus_arbiter_create(type)], busy |-> FALSE]
    \/ bus = [arb |-> [b \in {"address", "data"} |-> bus_arbiter_create("RR")], busy |-> FALSE]

Granted(a, m) ==
    [a EXCEPT !.grant = {m}, !.current_master = m, !.cycle = @ + 1,
              !.starvation_count = [j \in Masters |-> IF a.type = "RR" /\ j # m /\ j \in a.request THEN @[j] + 1 ELSE @[j]],
              !.tdma_slot = IF a.type = "TDMA" THEN @ + 1 ELSE @]

\* Mutant of RrChoice: the search starts at master 0 every time.
RrFromZero(a) == Min(a.request)

\* The first requester behind the master served last.
RrChoice(a) ==
    Min({i \in 0 .. BUS_MASTERS - 1 : (a.current_master + 1 + i) % BUS_MASTERS \in a.request}) + a.current_master + 1

ChosenMaster(a) ==
    CASE a.type = "FIXED" /\ a.request # {} -> Min(a.request)
      [] a.type = "RR" /\ a.request # {}    -> RrChoice(a) % BUS_MASTERS
      [] a.type = "TDMA" /\ (a.tdma_slot % a.tdma_num_slots) \in a.request -> a.tdma_slot % a.tdma_num_slots
      [] OTHER -> -1

\* Without a grant the cycle advances, twice under TDMA, and current_master keeps its value.
Arbitrated(a) ==
    LET m == ChosenMaster(a)
        b == IF m # -1 THEN Granted(a, m)
             ELSE [a EXCEPT !.grant = {}, !.cycle = @ + (IF a.type = "TDMA" THEN 2 ELSE 1),
                            !.tdma_slot = IF a.type = "TDMA" THEN @ + 1 ELSE @]
    IN  [b EXCEPT !.passed = [j \in Masters |-> IF j \in a.request \ {m} THEN @[j] + 1 ELSE 0]]

\* A master of the pair asks for both buses and gives both back.
bus_arbiter_request(m) ==
    bus' = [bus EXCEPT !.arb = [b \in DOMAIN bus.arb |-> [bus.arb[b] EXCEPT !.request = @ \cup {m}]]]
bus_arbiter_release(m) ==
    bus' = [bus EXCEPT !.arb = [b \in DOMAIN bus.arb |->
                [bus.arb[b] EXCEPT !.request = @ \ {m}, !.grant = @ \ {m}, !.passed[m] = 0]]]
bus_arbiter_arbitrate(b) == bus' = [bus EXCEPT !.arb[b] = Arbitrated(@)]
bus_arbiter_tdma_configure(b, n) == bus' = [bus EXCEPT !.arb[b].tdma_num_slots = n, !.arb[b].passed = [m \in Masters |-> 0]]
bus_system_tick == bus' = IF bus.busy THEN bus ELSE [bus EXCEPT !.arb = [b \in DOMAIN @ |-> Arbitrated(@[b])]]

BusNext ==
    /\ \A b \in DOMAIN bus.arb : bus.arb[b].cycle < MaxBusCycles
    /\ \/ \E m \in Masters : bus_arbiter_request(m) \/ bus_arbiter_release(m)
       \/ \E b \in DOMAIN bus.arb : DOMAIN bus.arb = {b} /\ bus_arbiter_arbitrate(b)
       \/ \E b \in DOMAIN bus.arb, n \in TdmaSlots : bus.arb[b].type = "TDMA" /\ bus_arbiter_tdma_configure(b, n)
       \/ Cardinality(DOMAIN bus.arb) = 2 /\ bus_system_tick

-----------------------------------------------------------------------------
(* The cache of memory.c: nothing is fetched, a write that misses takes a line over. *)

\* Bits needed for n values; a set index may pass the last set when n is no power of two.
BitsFor(n) == CHOOSE b \in 0 .. n : 2^b >= n /\ (b > 0 => 2^(b - 1) < n)
addr_offset(addr) == addr % DcLineSize
addr_set(addr) == (addr \div 2^BitsFor(DcLineSize)) % 2^BitsFor(DcSets)
addr_tag(addr) == addr \div 2^(BitsFor(DcLineSize) + BitsFor(DcSets))

DcLine == [valid |-> FALSE, dirty |-> FALSE, tag |-> 0, last_access |-> 0, own |-> {},
           data |-> [o \in 0 .. DcLineSize - 1 |-> 0]]
DcacheInit == \E policy \in {"WRITE_THROUGH", "WRITE_BACK"} :
    dcache = [policy |-> policy, sets |-> [s \in 0 .. DcSets - 1 |-> [w \in 0 .. DcWays - 1 |-> DcLine]],
              accesses |-> 0, write_backs |-> 0, latest |-> [a \in DcAddresses |-> 0]]

DcHits(addr) == {w \in 0 .. DcWays - 1 : dcache.sets[addr_set(addr)][w].valid
                                          /\ dcache.sets[addr_set(addr)][w].tag = addr_tag(addr)}
Cached(addr) == addr_set(addr) < DcSets

\* The first invalid way but way 0; else the least recently used, way 0 as any other.
DcVictim(set) ==
    LET free   == {w \in 1 .. DcWays - 1 : ~set[w].valid}
        before == IF free = {} THEN 0 .. DcWays - 1 ELSE 0 .. Min(free) - 1
        oldest == Min({set[w].last_access : w \in before})
    IN  IF free # {} THEN Min(free) ELSE Min({w \in before : set[w].last_access = oldest})

cache_read(addr) ==
    dcache' = IF Cached(addr) /\ DcHits(addr) # {}
              THEN [dcache EXCEPT !.accesses = @ + 1,
                                  !.sets[addr_set(addr)][Min(DcHits(addr))].last_access = dcache.accesses + 1]
              ELSE [dcache EXCEPT !.accesses = @ + 1]

\* Mutant of Refilled: the line keeps its old tag.
KeepsTag(line, addr, value, now) ==
    [line EXCEPT !.valid = TRUE, !.dirty = dcache.policy = "WRITE_BACK", !.last_access = now,
                 !.data[addr_offset(addr)] = value, !.own = {addr_offset(addr)}]

\* Only the word written is stored; the others are what the line held before.
Refilled(line, addr, value, now) ==
    [line EXCEPT !.valid = TRUE, !.dirty = dcache.policy = "WRITE_BACK", !.tag = addr_tag(addr), !.last_access = now,
                 !.data[addr_offset(addr)] = value, !.own = {addr_offset(addr)}]

Rewritten(line, addr, value, now) ==
    [line EXCEPT !.dirty = dcache.policy = "WRITE_BACK", !.last_access = now,
                 !.data[addr_offset(addr)] = value, !.own = @ \cup {addr_offset(addr)}]

cache_write(addr, value) ==
    LET s    == addr_set(addr)
        now  == dcache.accesses + 1
        hit  == DcHits(addr)
        w    == IF hit # {} THEN Min(hit) ELSE DcVictim(dcache.sets[s])
        line == dcache.sets[s][w]
    IN  dcache' = IF ~Cached(addr) THEN [dcache EXCEPT !.accesses = now]
                  ELSE [dcache EXCEPT !.accesses = now, !.latest[addr] = value,
                        !.write_backs = IF \/ hit # {} /\ dcache.policy = "WRITE_BACK"
                                           \/ hit = {} /\ line.valid /\ line.dirty
                                        THEN @ + 1 ELSE @,
                        !.sets[s][w] = IF hit # {} THEN Rewritten(@, addr, value, now) ELSE Refilled(@, addr, value, now)]

Dropped(line) == [line EXCEPT !.valid = FALSE, !.dirty = FALSE]
WriteBacks(lines) == Cardinality({x \in DOMAIN lines : lines[x].dirty})

cache_invalidate(addr) ==
    LET s == addr_set(addr)
    IN  dcache' = IF ~Cached(addr) THEN dcache
                  ELSE [dcache EXCEPT !.sets[s] = [w \in DOMAIN @ |-> IF w \in DcHits(addr) THEN Dropped(@[w]) ELSE @[w]],
                                      !.write_backs = @ + WriteBacks([w \in DcHits(addr) |-> dcache.sets[s][w]])]

cache_flush ==
    dcache' = [dcache EXCEPT !.sets = [s \in DOMAIN @ |-> [w \in DOMAIN @[s] |-> Dropped(@[s][w])]],
                             !.write_backs = @ + WriteBacks([p \in (0 .. DcSets - 1) \X (0 .. DcWays - 1) |->
                                                                dcache.sets[p[1]][p[2]]])]

DcacheNext ==
    /\ dcache.accesses < MaxDcAccesses
    /\ \/ \E a \in DcAddresses : cache_read(a) \/ cache_invalidate(a) \/ \E v \in DcValues : cache_write(a, v)
       \/ cache_flush

-----------------------------------------------------------------------------
(* The TLB of memory.c: a page may be inserted again beside its old entry. *)

DtlbInit == dtlb = [entries |-> [i \in 1 .. DtlbEntries |-> [vpn |-> 0, ppn |-> 0, valid |-> FALSE, last_access |-> 0]],
                    clock |-> 0, given |-> {}]

tlb_hits(vpn) == {i \in 1 .. DtlbEntries : dtlb.entries[i].valid /\ dtlb.entries[i].vpn = vpn}

tlb_lookup(vpn) ==
    dtlb' = [dtlb EXCEPT !.clock = @ + 1,
                         !.entries = IF tlb_hits(vpn) = {} THEN @
                                     ELSE [@ EXCEPT ![Min(tlb_hits(vpn))].last_access = dtlb.clock + 1]]

tlb_insert(vpn, ppn) ==
    LET e      == dtlb.entries
        free   == {i \in 2 .. DtlbEntries : ~e[i].valid}
        oldest == Min({e[i].last_access : i \in DOMAIN e})
        lru    == IF free # {} THEN Min(free) ELSE Min({i \in DOMAIN e : e[i].last_access = oldest})
    IN  dtlb' = [dtlb EXCEPT !.entries[lru] = [vpn |-> vpn, ppn |-> ppn, valid |-> TRUE, last_access |-> dtlb.clock],
                             !.given = @ \cup {<<vpn, ppn>>}]

tlb_invalidate(vpn) ==
    dtlb' = [dtlb EXCEPT !.entries = [i \in DOMAIN @ |-> IF @[i].vpn = vpn THEN [@[i] EXCEPT !.valid = FALSE] ELSE @[i]],
                         !.given = {g \in @ : g[1] # vpn}]
tlb_flush == dtlb' = [dtlb EXCEPT !.entries = [i \in DOMAIN @ |-> [@[i] EXCEPT !.valid = FALSE]], !.given = {}]

DtlbNext ==
    /\ dtlb.clock < MaxDcAccesses
    /\ \/ \E v \in Vpns : tlb_lookup(v) \/ tlb_invalidate(v) \/ \E p \in Ppns : tlb_insert(v, p)
       \/ tlb_flush

-----------------------------------------------------------------------------
ClockedInit == FlipInit /\ ShiftInit /\ CounterInit /\ BusInit /\ DcacheInit /\ DtlbInit

ClockedNext ==
    \/ FlipNext   /\ UNCHANGED <<shr, cnt, bus, dcache, dtlb>>
    \/ ShiftNext  /\ UNCHANGED <<ff, cnt, bus, dcache, dtlb>>
    \/ CountNext  /\ UNCHANGED <<ff, shr, bus, dcache, dtlb>>
    \/ BusNext    /\ UNCHANGED <<ff, shr, cnt, dcache, dtlb>>
    \/ DcacheNext /\ UNCHANGED <<ff, shr, cnt, bus, dtlb>>
    \/ DtlbNext   /\ UNCHANGED <<ff, shr, cnt, bus, dcache>>

ClockedSpec == ClockedInit /\ [][ClockedNext]_clocked_vars
-----------------------------------------------------------------------------

\* The outputs of every flip-flop and latch stay opposite, and a shift register holds the bits
\* last shifted in, in order (sequential.c).
StorageHolds ==
    /\ \A o \in {ff.dff, ff.jk, ff.t, ff.sr, ff.latch} : o.q_bar = ~o.q
    /\ \A i \in 1 .. Len(shr.given) :
          shr.bits[IF shr.direction = "RIGHT" THEN RegWidth - i ELSE i - 1] = shr.given[i]

\* A counter shows the code of the ticks up less the ticks down, and a Gray counter's
\* next value, either way, differs in one bit (counter_tick).
CountersExact ==
    LET Differ(a, b) == Cardinality({i \in 0 .. CounterBits : BitOf(a, i) # BitOf(b, i)})
    IN  /\ cnt.value = IF cnt.type = "GRAY" THEN bin2gray(cnt.moved) ELSE cnt.moved
        /\ cnt.type = "GRAY" => \A up \in BOOLEAN : Differ(cnt.value, CounterNext("GRAY", cnt.value, up)) = 1

\* At most one master is granted and it still asks; a round-robin requester is passed over by
\* each other master once at most, a TDMA requester waits one turn of the slots
\* (bus_arbiter_arbitrate).
BusFair ==
    \A b \in DOMAIN bus.arb :
        LET a == bus.arb[b]
        IN  /\ Cardinality(a.grant) <= 1 /\ a.grant \subseteq a.request
            /\ a.type = "RR" => \A m \in Masters : a.passed[m] < BUS_MASTERS
            /\ a.type = "TDMA" => \A m \in Masters : m < a.tdma_num_slots => a.passed[m] < a.tdma_num_slots

\* A line stands for one address range: no tag twice in a set, and the words written since the
\* line was taken over read as last written (cache_read, cache_write).
DcacheWordsLatest ==
    /\ \A s \in DOMAIN dcache.sets : \A v, w \in DOMAIN dcache.sets[s] :
          dcache.sets[s][v].valid /\ dcache.sets[s][w].valid /\ dcache.sets[s][v].tag = dcache.sets[s][w].tag => v = w
    /\ \A a \in DcAddresses : Cached(a) => \A w \in DcHits(a) :
          LET line == dcache.sets[addr_set(a)][w]
          IN  addr_offset(a) \in line.own => line.data[addr_offset(a)] = dcache.latest[a]

\* A translation found was inserted since its page was last invalidated, even when the page has
\* several entries (tlb_insert, tlb_invalidate).
DtlbForgets ==
    \A i \in DOMAIN dtlb.entries :
        dtlb.entries[i].valid => <<dtlb.entries[i].vpn, dtlb.entries[i].ppn>> \in dtlb.given

\* The clocked parts keep what they store, share the bus fairly and forget what was invalidated
\* (sequential.c, bus_arbiter.c, memory.c).
ClockedSound == StorageHolds /\ BusFair /\ DtlbForgets
================================================================================
