----------------------------- MODULE ProcessorProofs -----------------------------
(***************************************************************************)
(* Theorems about three parts of mini-cpu-arch, for every value of their   *)
(* constants.                                                              *)
(*                                                                         *)
(* The memory system.  The TLB: an entry is global exactly if its page is, *)
(* an insertion never makes a second entry for a page, and what the page   *)
(* table says now was mapped since the last flush.  The controller: its    *)
(* queue is in the order of arrival, so the earliest of a set of requests  *)
(* is the first of them, and whatever stands before it is not of the set.  *)
(*                                                                         *)
(* The out-of-order core.  The calls are functions of the processor, and   *)
(* the invariant OooInv is a property of a processor and the histories, so *)
(* that one lemma for each call serves the call alone and the step that    *)
(* makes three of them.  Core holds whatever happens, Flow while there is  *)
(* no fault, Settles while the only fault is a commit that undid a younger *)
(* result, and ExecutedInOrder until a result is lost on the bus.          *)
(*                                                                         *)
(* The snooping caches.  CacheInv relates one cache to the history of what *)
(* it was asked for: under LRU and FIFO the stamps are in the order of the *)
(* history and what was dropped is older than all that is held; under PLRU *)
(* the root of the tree points away from the latest line.  An access is    *)
(* reduced to Put, the use of one way, so that each policy is treated once *)
(* for all accesses; Alone relates two caches of a bus.                    *)
(***************************************************************************)
EXTENDS OutOfOrder, CpuMemorySystem, SnoopCache, FiniteSetTheorems, SequenceTheorems,
        WellFoundedInduction, NaturalsInduction, TLAPS

\* Every non-empty set of naturals has a least element.
LEMMA LeastElement ==
  ASSUME NEW S \in SUBSET Nat, S # {}
  PROVE  \E m \in S : \A n \in S : m <= n
<1>1. PICK x \in S : \A y \in S : <<y, x>> \notin OpToRel(<, Nat)
  BY NatLessThanWellFounded, WFMin, Zenon
<1>2. \A y \in S : ~(y < x)
  BY <1>1 DEF OpToRel
<1> QED
  BY <1>2

\* Min of a set of naturals is in the set, and no element is less.
LEMMA MinIs ==
  ASSUME NEW S \in SUBSET Nat, S # {}
  PROVE  Min(S) \in S /\ \A n \in S : Min(S) <= n
BY LeastElement DEF Min
--------------------------------------------------------------------------------
(* The TLB. *)

\* The frames a TLB entry can hold: that of an entry never filled is the one chosen.
EntryRecord ==
    [valid : BOOLEAN, vpn : Pages \cup GlobalPages,
     pfn : MmuFrames \cup {CHOOSE f \in MmuFrames : TRUE}, global_page : BOOLEAN,
     access_order : Nat]

MmuRecord ==
    [entries : [Pages -> PageTableEntry], tlb : [Slots -> EntryRecord], clock : Nat,
     policy : TLBReplacePolicy, calls : Nat]

\* A TLB t that follows what was held, h, with one entry for a page, global exactly if
\* the page is.
Follows(t, h) ==
    /\ \A i \in Slots : t[i].valid =>
          /\ t[i].global_page \/ <<t[i].vpn, t[i].pfn>> \in h
          /\ t[i].global_page <=> t[i].vpn \in GlobalPages
    /\ \A i, j \in Slots : t[i].valid /\ t[j].valid /\ t[i].vpn = t[j].vpn => i = j

MmuInv ==
    /\ mmu \in MmuRecord
    /\ \A p \in Pages : mmu.entries[p] # NoPage => <<p, mmu.entries[p]>> \in held
    /\ Follows(mmu.tlb, held)

\* The types of the unit's fields, one by one.
LEMMA MmuFields ==
  ASSUME mmu \in MmuRecord
  PROVE  /\ mmu.tlb \in [Slots -> EntryRecord] /\ mmu.clock \in Nat /\ mmu.calls \in Nat
         /\ mmu.entries \in [Pages -> PageTableEntry] /\ mmu.policy \in TLBReplacePolicy
         /\ \A i \in Slots : /\ mmu.tlb[i] \in EntryRecord
                             /\ mmu.tlb[i].valid \in BOOLEAN /\ mmu.tlb[i].global_page \in BOOLEAN
                             /\ mmu.tlb[i].access_order \in Nat
<1>1. /\ mmu.tlb \in [Slots -> EntryRecord] /\ mmu.clock \in Nat /\ mmu.calls \in Nat
      /\ mmu.entries \in [Pages -> PageTableEntry] /\ mmu.policy \in TLBReplacePolicy
  BY DEF MmuRecord
<1> QED
  BY <1>1 DEF EntryRecord

\* The slot found for a page is valid and holds it.
LEMMA MatchIs ==
  ASSUME mmu \in MmuRecord, NEW page, Matches(page) # {}
  PROVE  LET i == Min(Matches(page))
         IN  i \in Slots /\ mmu.tlb[i].valid /\ mmu.tlb[i].vpn = page
<1>1. Matches(page) \in SUBSET Nat
  BY DEF Matches, Slots
<1> QED
  BY <1>1, MinIs DEF Matches

\* What an insertion does: one slot takes the page, and it is the one that had it if any
\* had; a global entry of another page gives way only if all entries are global.
Inserted(page, frame, i, e) ==
    /\ e.valid /\ e.vpn = page /\ e.pfn = frame /\ (e.global_page <=> page \in GlobalPages)
    /\ \A j \in Slots : mmu.tlb[j].valid /\ mmu.tlb[j].vpn = page => j = i
    /\ mmu.policy # "RANDOM" /\ mmu.tlb[i].valid /\ mmu.tlb[i].global_page /\ mmu.tlb[i].vpn # page =>
          \A j \in Slots : mmu.tlb[j].valid /\ mmu.tlb[j].global_page
    /\ mmu' = [mmu EXCEPT !.tlb = [mmu.tlb EXCEPT ![i] = e],
                          !.clock = mmu.clock + 1, !.calls = mmu.calls + 1]

\* tlb_evict picks an existing entry, and a global one only if it has no other.
LEMMA EvictedIs ==
  ASSUME mmu \in MmuRecord, NEW i \in Evicted(mmu.tlb)
  PROVE  /\ i \in Slots
         /\ mmu.policy # "RANDOM" /\ mmu.tlb[i].global_page =>
               \A j \in Slots : mmu.tlb[j].global_page
<1> DEFINE others == {k \in Slots : ~mmu.tlb[k].global_page}
<1>1. CASE mmu.policy = "RANDOM"
  BY <1>1 DEF Evicted
<1>2. CASE mmu.policy # "RANDOM" /\ others = {}
  <2>1. i = 0
    BY <1>2, Zenon DEF Evicted
  <2>2. 0 \in Slots
    BY CpuMemoryAssumption DEF Slots
  <2> QED
    BY <1>2, <2>1, <2>2
<1>3. CASE mmu.policy # "RANDOM" /\ others # {}
  <2>1. i = CHOOSE k \in others : \A j \in others : mmu.tlb[k].access_order <= mmu.tlb[j].access_order
    BY <1>3, Zenon DEF Evicted
  <2>2. \E k \in others : \A j \in others : mmu.tlb[k].access_order <= mmu.tlb[j].access_order
    <3> DEFINE S == {mmu.tlb[k].access_order : k \in others}
    <3>1. \A k \in others : mmu.tlb[k].access_order \in Nat
      BY MmuFields
    <3>2. S \in SUBSET Nat /\ S # {}
      BY <1>3, <3>1
    <3>3. PICK x \in S : \A y \in S : x <= y
      BY <3>2, LeastElement
    <3> QED
      BY <3>3
  <2>3. i \in others
    BY <2>1, <2>2
  <2> QED
    BY <2>3
<1> QED
  BY <1>1, <1>2, <1>3

\* Whatever the policy, tlb_insert overwrites one entry with the new translation: the
\* one that held the page, else a free one, else a victim.
LEMMA InsertIs ==
  ASSUME MmuInv, NEW page \in Pages \cup GlobalPages, NEW frame \in MmuFrames,
         NEW global \in BOOLEAN, global <=> page \in GlobalPages,
         mmu' \in tlb_insert(page, frame, global)
  PROVE  \E i \in Slots, e \in EntryRecord : Inserted(page, frame, i, e)
<1> DEFINE free == {j \in Slots : ~mmu.tlb[j].valid}
           into == IF Matches(page) # {} THEN {Min(Matches(page))}
                   ELSE IF free # {} THEN {Min(free)} ELSE Evicted(mmu.tlb)
           old(i) == [mmu.tlb[i] EXCEPT !.pfn = frame, !.access_order = mmu.clock]
           fresh == [valid |-> TRUE, vpn |-> page, pfn |-> frame, global_page |-> global,
                     access_order |-> mmu.clock]
           Written(i) == IF Matches(page) # {} THEN old(i) ELSE fresh
<1>1. PICK i \in into :
        mmu' = [mmu EXCEPT !.tlb[i] = Written(i), !.clock = @ + 1, !.calls = @ + 1]
  BY Zenon DEF tlb_insert
<1>2. mmu \in MmuRecord /\ Follows(mmu.tlb, held)
  BY DEF MmuInv
<1>3. mmu' = [mmu EXCEPT !.tlb = [mmu.tlb EXCEPT ![i] = Written(i)],
                         !.clock = mmu.clock + 1, !.calls = mmu.calls + 1]
  BY <1>1, <1>2 DEF MmuRecord
<1>4. CASE Matches(page) # {}
  <2>1. i = Min(Matches(page))
    BY <1>1, <1>4
  <2>2. i \in Slots /\ mmu.tlb[i].valid /\ mmu.tlb[i].vpn = page
    BY <1>2, <1>4, <2>1, MatchIs
  <2>3. mmu.tlb[i] \in EntryRecord /\ mmu.clock \in Nat
    BY <1>2, <2>2, MmuFields
  <2>4. /\ old(i) \in EntryRecord /\ old(i).valid /\ old(i).vpn = page /\ old(i).pfn = frame
        /\ old(i).global_page = mmu.tlb[i].global_page
    BY <2>2, <2>3 DEF EntryRecord
  <2>5. old(i).global_page <=> page \in GlobalPages
    BY <1>2, <2>2, <2>4 DEF Follows
  <2>6. \A j \in Slots : mmu.tlb[j].valid /\ mmu.tlb[j].vpn = page => j = i
    BY <1>2, <2>2 DEF Follows
  <2>7. Written(i) = old(i)
    BY <1>4
  <2> HIDE DEF old, Written
  <2>8. Inserted(page, frame, i, old(i))
    BY <1>3, <2>2, <2>4, <2>5, <2>6, <2>7 DEF Inserted
  <2> QED
    BY <2>2, <2>4, <2>8
<1>5. CASE Matches(page) = {}
  <2>1. fresh \in EntryRecord
    BY <1>2, MmuFields DEF EntryRecord
  <2>2. Written(i) = fresh
    BY <1>5
  <2>3. /\ fresh.valid /\ fresh.vpn = page /\ fresh.pfn = frame
        /\ fresh.global_page <=> page \in GlobalPages
    OBVIOUS
  <2>4. \A j \in Slots : ~(mmu.tlb[j].valid /\ mmu.tlb[j].vpn = page)
    BY <1>5 DEF Matches
  <2>5. /\ i \in Slots
        /\ mmu.policy # "RANDOM" /\ mmu.tlb[i].valid /\ mmu.tlb[i].global_page =>
              \A j \in Slots : mmu.tlb[j].valid /\ mmu.tlb[j].global_page
    <3>1. CASE free # {}
      <4>1. i = Min(free)
        BY <1>1, <1>5, <3>1
      <4>2. free \in SUBSET Nat
        BY DEF Slots
      <4>3. i \in free
        BY <3>1, <4>1, <4>2, MinIs
      <4> QED
        BY <4>3
    <3>2. CASE free = {}
      <4>1. i \in Evicted(mmu.tlb)
        BY <1>1, <1>5, <3>2
      <4>2. \A j \in Slots : mmu.tlb[j].valid
        BY <3>2
      <4> QED
        BY <1>2, <4>1, <4>2, EvictedIs
    <3> QED
      BY <3>1, <3>2
  <2> HIDE DEF fresh, Written
  <2>6. Inserted(page, frame, i, fresh)
    BY <1>3, <2>2, <2>3, <2>4, <2>5 DEF Inserted
  <2> QED
    BY <2>1, <2>5, <2>6
<1> QED
  BY <1>4, <1>5

\* An insertion of a mapping that is held keeps the invariant.
LEMMA InsertedInv ==
  ASSUME MmuInv, NEW page \in Pages \cup GlobalPages, NEW frame \in MmuFrames,
         NEW i \in Slots, NEW e \in EntryRecord, Inserted(page, frame, i, e),
         page \in GlobalPages \/ <<page, frame>> \in held, held' = held
  PROVE  MmuInv'
<1>1. /\ mmu \in MmuRecord /\ Follows(mmu.tlb, held)
      /\ \A p \in Pages : mmu.entries[p] # NoPage => <<p, mmu.entries[p]>> \in held
  BY DEF MmuInv
<1> DEFINE t == [mmu.tlb EXCEPT ![i] = e]
<1>2. mmu' = [mmu EXCEPT !.tlb = t, !.clock = mmu.clock + 1, !.calls = mmu.calls + 1]
  BY DEF Inserted
<1>3. t \in [Slots -> EntryRecord] /\ mmu.clock + 1 \in Nat /\ mmu.calls + 1 \in Nat
  BY <1>1, MmuFields
<1>4. t[i] = e /\ \A j \in Slots : j # i => t[j] = mmu.tlb[j]
  BY <1>1, MmuFields
<1>5. e.valid /\ e.vpn = page /\ e.pfn = frame /\ (e.global_page <=> page \in GlobalPages)
  BY DEF Inserted
<1>6. \A j \in Slots : mmu.tlb[j].valid /\ mmu.tlb[j].vpn = page => j = i
  BY DEF Inserted
<1> HIDE DEF t
<1>7. mmu' \in MmuRecord /\ mmu'.tlb = t /\ mmu'.entries = mmu.entries
  BY <1>1, <1>2, <1>3 DEF MmuRecord
<1>8. Follows(t, held)
  <2>1. \A j \in Slots : t[j].valid =>
          /\ t[j].global_page \/ <<t[j].vpn, t[j].pfn>> \in held
          /\ t[j].global_page <=> t[j].vpn \in GlobalPages
    BY <1>1, <1>4, <1>5 DEF Follows
  <2>2. \A j, k \in Slots : t[j].valid /\ t[k].valid /\ t[j].vpn = t[k].vpn => j = k
    BY <1>1, <1>4, <1>5, <1>6 DEF Follows
  <2> QED
    BY <2>1, <2>2 DEF Follows
<1> QED
  BY <1>1, <1>7, <1>8 DEF MmuInv

\* A hit changes nothing but the order.
LEMMA HitKeeps ==
  ASSUME MmuInv, NEW page, Matches(page) # {},
         mmu' = [mmu EXCEPT !.tlb[Min(Matches(page))].access_order = mmu.clock,
                            !.clock = @ + 1, !.calls = @ + 1]
  PROVE  /\ mmu' \in MmuRecord /\ mmu'.entries = mmu.entries /\ mmu'.policy = mmu.policy
         /\ \A j \in Slots : /\ mmu'.tlb[j].valid = mmu.tlb[j].valid
                             /\ mmu'.tlb[j].vpn = mmu.tlb[j].vpn
                             /\ mmu'.tlb[j].pfn = mmu.tlb[j].pfn
                             /\ mmu'.tlb[j].global_page = mmu.tlb[j].global_page
<1> DEFINE i == Min(Matches(page))
           e == [mmu.tlb[i] EXCEPT !.access_order = mmu.clock]
           t == [mmu.tlb EXCEPT ![i] = e]
<1>1. mmu \in MmuRecord
  BY DEF MmuInv
<1>2. i \in Slots
  BY <1>1, MatchIs
<1>3. mmu' = [mmu EXCEPT !.tlb = t, !.clock = mmu.clock + 1, !.calls = mmu.calls + 1]
  BY <1>1 DEF MmuRecord
<1> HIDE DEF i
<1>4. /\ e \in EntryRecord /\ e.valid = mmu.tlb[i].valid /\ e.vpn = mmu.tlb[i].vpn
      /\ e.pfn = mmu.tlb[i].pfn /\ e.global_page = mmu.tlb[i].global_page
  <2>1. mmu.tlb[i] \in EntryRecord /\ mmu.clock \in Nat
    BY <1>1, <1>2, MmuFields
  <2> QED
    BY <2>1 DEF EntryRecord
<1> HIDE DEF e
<1>5. t \in [Slots -> EntryRecord] /\ t[i] = e /\ \A j \in Slots : j # i => t[j] = mmu.tlb[j]
  BY <1>1, <1>2, <1>4, MmuFields
<1> HIDE DEF t
<1>6. mmu' \in MmuRecord /\ mmu'.tlb = t /\ mmu'.entries = mmu.entries /\ mmu'.policy = mmu.policy
  <2>1. mmu.clock + 1 \in Nat /\ mmu.calls + 1 \in Nat
    BY <1>1, MmuFields
  <2> QED
    BY <1>1, <1>3, <1>5, <2>1 DEF MmuRecord
<1> QED
  BY <1>4, <1>5, <1>6

\* A call that leaves the TLB alone.
LEMMA CallKeeps ==
  ASSUME MmuInv, mmu' = [mmu EXCEPT !.calls = @ + 1]
  PROVE  /\ mmu' \in MmuRecord /\ mmu'.tlb = mmu.tlb /\ mmu'.entries = mmu.entries
         /\ mmu'.policy = mmu.policy
<1>1. mmu \in MmuRecord
  BY DEF MmuInv
<1> QED
  BY <1>1 DEF MmuRecord

\* A flush leaves the global entries valid and the others not.
LEMMA FlushKeeps ==
  ASSUME MmuInv, tlb_flush
  PROVE  /\ mmu' \in MmuRecord /\ mmu'.entries = mmu.entries /\ mmu'.policy = mmu.policy
         /\ \A j \in Slots : /\ mmu'.tlb[j].valid = (mmu.tlb[j].valid /\ mmu.tlb[j].global_page)
                             /\ mmu'.tlb[j].vpn = mmu.tlb[j].vpn
                             /\ mmu'.tlb[j].pfn = mmu.tlb[j].pfn
                             /\ mmu'.tlb[j].global_page = mmu.tlb[j].global_page
<1> DEFINE e(j) == [mmu.tlb[j] EXCEPT !.valid = mmu.tlb[j].valid /\ mmu.tlb[j].global_page]
           t == [j \in Slots |-> e(j)]
<1>1. mmu \in MmuRecord
  BY DEF MmuInv
<1>2. \A j \in Slots : /\ e(j) \in EntryRecord
                       /\ e(j).valid = (mmu.tlb[j].valid /\ mmu.tlb[j].global_page)
                       /\ e(j).vpn = mmu.tlb[j].vpn /\ e(j).pfn = mmu.tlb[j].pfn
                       /\ e(j).global_page = mmu.tlb[j].global_page
  <2> SUFFICES ASSUME NEW j \in Slots
               PROVE  /\ e(j) \in EntryRecord
                      /\ e(j).valid = (mmu.tlb[j].valid /\ mmu.tlb[j].global_page)
                      /\ e(j).vpn = mmu.tlb[j].vpn /\ e(j).pfn = mmu.tlb[j].pfn
                      /\ e(j).global_page = mmu.tlb[j].global_page
    OBVIOUS
  <2>1. mmu.tlb[j] \in EntryRecord
    BY <1>1, MmuFields
  <2>2. (mmu.tlb[j].valid /\ mmu.tlb[j].global_page) \in BOOLEAN
    OBVIOUS
  <2> QED
    BY <2>1, <2>2 DEF EntryRecord
<1>3. [j \in Slots |-> [mmu.tlb[j] EXCEPT !.valid = @ /\ mmu.tlb[j].global_page]] = t
  <2>1. \A j \in Slots : mmu.tlb[j] \in EntryRecord
    BY <1>1, MmuFields
  <2>2. \A j \in Slots : [mmu.tlb[j] EXCEPT !.valid = @ /\ mmu.tlb[j].global_page] = e(j)
    BY <2>1 DEF EntryRecord
  <2> QED
    BY <2>2
<1>4. mmu' = [mmu EXCEPT !.tlb = t, !.calls = mmu.calls + 1]
  <2>1. mmu' = [mmu EXCEPT !.tlb = t, !.calls = @ + 1]
    BY <1>3, Zenon DEF tlb_flush
  <2> HIDE DEF t
  <2> QED
    BY <1>1, <2>1 DEF MmuRecord
<1> HIDE DEF e
<1>5. t \in [Slots -> EntryRecord] /\ \A j \in Slots : t[j] = e(j)
  BY <1>2
<1> HIDE DEF t
<1>6. mmu' \in MmuRecord /\ mmu'.tlb = t /\ mmu'.entries = mmu.entries /\ mmu'.policy = mmu.policy
  <2>1. mmu.calls + 1 \in Nat
    BY <1>1, MmuFields
  <2> QED
    BY <1>1, <1>4, <1>5, <2>1 DEF MmuRecord
<1> QED
  BY <1>2, <1>5, <1>6

\* The pages of the valid global entries.
GlobalsOf(m) == {m.tlb[i].vpn : i \in {j \in Slots : m.tlb[j].valid /\ m.tlb[j].global_page}}

\* A TLB of global entries alone has as many global pages as slots.
LEMMA AllGlobal ==
  ASSUME MmuInv, \A j \in Slots : mmu.tlb[j].valid /\ mmu.tlb[j].global_page
  PROVE  Cardinality(GlobalsOf(mmu)) = TLB_ENTRIES
<1> DEFINE G == GlobalsOf(mmu)
           f == [j \in Slots |-> mmu.tlb[j].vpn]
<1>1. G = {mmu.tlb[j].vpn : j \in Slots}
  BY DEF GlobalsOf
<1>2. \A j, k \in Slots : mmu.tlb[j].vpn = mmu.tlb[k].vpn => j = k
  BY DEF MmuInv, Follows
<1> HIDE DEF G
<1>3. f \in Bijection(Slots, G)
  <2>1. \A j \in Slots : f[j] = mmu.tlb[j].vpn
    OBVIOUS
  <2>2. f \in [Slots -> G]
    BY <1>1
  <2> HIDE DEF f
  <2>3. \A j, k \in Slots : f[j] = f[k] => j = k
    BY <1>2, <2>1
  <2>4. \A g \in G : \E j \in Slots : f[j] = g
    BY <1>1, <2>1
  <2>5. f \in Injection(Slots, G)
    BY <2>2, <2>3 DEF Injection, IsInjective
  <2>6. f \in Surjection(Slots, G)
    BY <2>2, <2>4 DEF Surjection
  <2> QED
    BY <2>5, <2>6 DEF Bijection
<1>4. IsFiniteSet(Slots) /\ Cardinality(Slots) = TLB_ENTRIES
  BY FS_Interval, CpuMemoryAssumption DEF Slots
<1> HIDE DEF f
<1>5. Cardinality(G) = Cardinality(Slots)
  BY <1>3, <1>4, FS_Bijection DEF ExistsBijection
<1> QED
  BY <1>4, <1>5 DEF G

\* The unit starts with no entry and no mapping to remember.
LEMMA MmuInit == (\E p \in TLBReplacePolicy : mmu = tlb_init(p)) /\ held = {} => MmuInv
<1> SUFFICES ASSUME NEW p \in TLBReplacePolicy, mmu = tlb_init(p) PROVE MmuInv
  OBVIOUS
<1>1. Invalid \in EntryRecord /\ ~Invalid.valid
  BY CpuMemoryAssumption DEF Invalid, EntryRecord, Pages
<1> HIDE DEF Invalid
<1> DEFINE n == [q \in Pages |-> NoPage]
           t == [i \in Slots |-> Invalid]
<1>2. n \in [Pages -> PageTableEntry] /\ t \in [Slots -> EntryRecord]
  BY <1>1 DEF PageTableEntry
<1>3. (\A q \in Pages : n[q] = NoPage) /\ (\A i \in Slots : ~t[i].valid)
  BY <1>1
<1>4. mmu = [entries |-> n, tlb |-> t, clock |-> 0, policy |-> p, calls |-> 0]
  BY DEF tlb_init
<1> HIDE DEF n, t
<1>5. mmu \in MmuRecord /\ mmu.entries = n /\ mmu.tlb = t
  BY <1>2, <1>4 DEF MmuRecord
<1> QED
  BY <1>3, <1>5 DEF MmuInv, Follows

\* What a call does to the TLB: an insertion, or nothing but the order and the valid
\* bits of entries that are not global.
LEMMA MmuCalls ==
  ASSUME MmuInv, MmuNext
  PROVE  \/ /\ mmu' \in MmuRecord /\ mmu'.policy = mmu.policy
            /\ \A j \in Slots : /\ mmu'.tlb[j].valid => mmu.tlb[j].valid
                                /\ mmu.tlb[j].valid /\ mmu.tlb[j].global_page => mmu'.tlb[j].valid
                                /\ mmu'.tlb[j].vpn = mmu.tlb[j].vpn
                                /\ mmu'.tlb[j].pfn = mmu.tlb[j].pfn
                                /\ mmu'.tlb[j].global_page = mmu.tlb[j].global_page
            /\ \/ held \subseteq held'
               \/ \A j \in Slots : mmu'.tlb[j].valid => mmu'.tlb[j].global_page
            /\ \A p \in Pages : mmu'.entries[p] # NoPage => <<p, mmu'.entries[p]>> \in held'
         \/ \E page \in Pages \cup GlobalPages, frame \in MmuFrames, i \in Slots, e \in EntryRecord :
               /\ Inserted(page, frame, i, e)
               /\ page \in GlobalPages \/ <<page, frame>> \in held
               /\ held' = held
<1>1. /\ mmu \in MmuRecord /\ Follows(mmu.tlb, held)
      /\ \A p \in Pages : mmu.entries[p] # NoPage => <<p, mmu.entries[p]>> \in held
      /\ mmu.entries \in [Pages -> PageTableEntry]
  BY MmuFields DEF MmuInv
<1>2. CASE tlb_flush
  <2>1. /\ mmu' \in MmuRecord /\ mmu'.entries = mmu.entries /\ mmu'.policy = mmu.policy
        /\ \A j \in Slots : /\ mmu'.tlb[j].valid = (mmu.tlb[j].valid /\ mmu.tlb[j].global_page)
                            /\ mmu'.tlb[j].vpn = mmu.tlb[j].vpn
                            /\ mmu'.tlb[j].pfn = mmu.tlb[j].pfn
                            /\ mmu'.tlb[j].global_page = mmu.tlb[j].global_page
    BY <1>2, FlushKeeps
  <2>2. \A p \in Pages : mmu'.entries[p] # NoPage => <<p, mmu'.entries[p]>> \in held'
    <3>1. held' = {h \in held : mmu.entries[h[1]] = h[2]}
      BY <1>2 DEF tlb_flush
    <3> QED
      BY <1>1, <2>1, <3>1
  <2> QED
    BY <2>1, <2>2
<1>3. ASSUME NEW page \in Pages, pagetable_unmap(page)
      PROVE  /\ mmu' \in MmuRecord /\ mmu'.policy = mmu.policy /\ mmu'.tlb = mmu.tlb
             /\ held' = held
             /\ \A p \in Pages : mmu'.entries[p] # NoPage => <<p, mmu'.entries[p]>> \in held'
  <2> DEFINE n == [mmu.entries EXCEPT ![page] = NoPage]
  <2>1. mmu' = [mmu EXCEPT !.entries = n, !.calls = mmu.calls + 1] /\ held' = held
    BY <1>1, <1>3 DEF pagetable_unmap, MmuRecord
  <2>2. /\ n \in [Pages -> PageTableEntry]
        /\ \A p \in Pages : n[p] # NoPage => n[p] = mmu.entries[p]
    BY <1>1 DEF PageTableEntry
  <2> HIDE DEF n
  <2>3. /\ mmu' \in MmuRecord /\ mmu'.policy = mmu.policy /\ mmu'.tlb = mmu.tlb
        /\ mmu'.entries = n
    <3>1. mmu.calls + 1 \in Nat
      BY <1>1, MmuFields
    <3> QED
      BY <1>1, <2>1, <2>2, <3>1 DEF MmuRecord
  <2> QED
    BY <1>1, <2>1, <2>2, <2>3
<1>4. ASSUME NEW page \in Pages, NEW f \in MmuFrames, pagetable_map(page, f)
      PROVE  /\ mmu' \in MmuRecord /\ mmu'.policy = mmu.policy /\ mmu'.tlb = mmu.tlb
             /\ held \subseteq held'
             /\ \A p \in Pages : mmu'.entries[p] # NoPage => <<p, mmu'.entries[p]>> \in held'
  <2> DEFINE n == [mmu.entries EXCEPT ![page] = f]
  <2>1. mmu' = [mmu EXCEPT !.entries = n, !.calls = mmu.calls + 1] /\ held' = held \cup {<<page, f>>}
    BY <1>1, <1>4 DEF pagetable_map, MmuRecord
  <2>2. /\ n \in [Pages -> PageTableEntry] /\ n[page] = f
        /\ \A p \in Pages : p # page => n[p] = mmu.entries[p]
    BY <1>1 DEF PageTableEntry
  <2> HIDE DEF n
  <2>3. /\ mmu' \in MmuRecord /\ mmu'.policy = mmu.policy /\ mmu'.tlb = mmu.tlb
        /\ mmu'.entries = n
    <3>1. mmu.calls + 1 \in Nat
      BY <1>1, MmuFields
    <3> QED
      BY <1>1, <2>1, <2>2, <3>1 DEF MmuRecord
  <2> QED
    BY <1>1, <2>1, <2>2, <2>3
<1>5. ASSUME NEW page \in Pages \cup GlobalPages, mmu_translate(page), Matches(page) # {}
      PROVE  /\ mmu' \in MmuRecord /\ mmu'.entries = mmu.entries /\ mmu'.policy = mmu.policy
             /\ held' = held
             /\ \A j \in Slots : /\ mmu'.tlb[j].valid = mmu.tlb[j].valid
                                 /\ mmu'.tlb[j].vpn = mmu.tlb[j].vpn
                                 /\ mmu'.tlb[j].pfn = mmu.tlb[j].pfn
                                 /\ mmu'.tlb[j].global_page = mmu.tlb[j].global_page
  <2>1. /\ held' = held
        /\ mmu' = [mmu EXCEPT !.tlb[Min(Matches(page))].access_order = mmu.clock,
                              !.clock = @ + 1, !.calls = @ + 1]
    BY <1>5, Zenon DEF mmu_translate
  <2> QED
    BY <1>5, <2>1, HitKeeps
<1>6. ASSUME NEW page \in Pages \cup GlobalPages, mmu_translate(page), Matches(page) = {},
             page \notin Pages \/ mmu.entries[page] = NoPage
      PROVE  /\ mmu' \in MmuRecord /\ mmu'.tlb = mmu.tlb /\ mmu'.entries = mmu.entries
             /\ mmu'.policy = mmu.policy /\ held' = held
  <2>1. held' = held /\ mmu' = [mmu EXCEPT !.calls = @ + 1]
    BY <1>6, Zenon DEF mmu_translate
  <2> QED
    BY <2>1, CallKeeps
<1>7. ASSUME NEW page \in Pages \cup GlobalPages, mmu_translate(page), Matches(page) = {},
             page \in Pages, mmu.entries[page] # NoPage
      PROVE  \E frame \in MmuFrames, i \in Slots, e \in EntryRecord :
               /\ Inserted(page, frame, i, e)
               /\ <<page, frame>> \in held
               /\ held' = held
  <2>1. held' = held /\ mmu' \in tlb_insert(page, mmu.entries[page], FALSE)
    BY <1>7, Zenon DEF mmu_translate
  <2>2. mmu.entries[page] \in MmuFrames /\ <<page, mmu.entries[page]>> \in held
    BY <1>1, <1>7 DEF PageTableEntry
  <2>3. FALSE <=> page \in GlobalPages
    BY <1>7, CpuMemoryAssumption DEF Pages
  <2>4. \E i \in Slots, e \in EntryRecord : Inserted(page, mmu.entries[page], i, e)
    BY <2>1, <2>2, <2>3, InsertIs
  <2> QED
    BY <2>1, <2>2, <2>4
<1>8. ASSUME NEW page \in GlobalPages, NEW f \in MmuFrames, InsertGlobal(page, f)
      PROVE  \E i \in Slots, e \in EntryRecord : Inserted(page, f, i, e) /\ held' = held
  <2>1. held' = held /\ mmu' \in tlb_insert(page, f, TRUE)
    BY <1>8 DEF InsertGlobal
  <2>2. (TRUE <=> page \in GlobalPages) /\ page \in Pages \cup GlobalPages /\ TRUE \in BOOLEAN
    OBVIOUS
  <2>3. \E i \in Slots, e \in EntryRecord : Inserted(page, f, i, e)
    BY <2>1, <2>2, InsertIs, Zenon
  <2> QED
    BY <2>1, <2>3
<1>9. \/ tlb_flush
      \/ \E page \in Pages : pagetable_unmap(page)
      \/ \E page \in Pages, f \in MmuFrames : pagetable_map(page, f)
      \/ \E page \in Pages \cup GlobalPages : mmu_translate(page)
      \/ \E page \in GlobalPages, f \in MmuFrames : InsertGlobal(page, f)
  BY Zenon DEF MmuNext
<1>10. CASE \E page \in Pages : pagetable_unmap(page)
  BY <1>3, <1>10
<1>11. CASE \E page \in Pages, f \in MmuFrames : pagetable_map(page, f)
  BY <1>4, <1>11
<1>12. CASE \E page \in Pages \cup GlobalPages : mmu_translate(page)
  <2>1. PICK page \in Pages \cup GlobalPages : mmu_translate(page)
    BY <1>12
  <2>2. CASE Matches(page) # {}
    BY <1>1, <1>5, <2>1, <2>2
  <2>3. CASE Matches(page) = {} /\ (page \notin Pages \/ mmu.entries[page] = NoPage)
    BY <1>1, <1>6, <2>1, <2>3
  <2>4. CASE Matches(page) = {} /\ page \in Pages /\ mmu.entries[page] # NoPage
    BY <1>7, <2>1, <2>4
  <2> QED
    BY <2>2, <2>3, <2>4
<1>13. CASE \E page \in GlobalPages, f \in MmuFrames : InsertGlobal(page, f)
  BY <1>8, <1>13
<1> QED
  BY <1>2, <1>9, <1>10, <1>11, <1>12, <1>13

\* Every operation of the unit keeps entries, page table and held mappings in step.
LEMMA MmuNextInv == MmuInv /\ MmuNext => MmuInv'
<1> SUFFICES ASSUME MmuInv, MmuNext PROVE MmuInv'
  OBVIOUS
<1>1. mmu \in MmuRecord /\ Follows(mmu.tlb, held)
  BY DEF MmuInv
<1>2. ASSUME /\ mmu' \in MmuRecord /\ mmu'.policy = mmu.policy
             /\ \A j \in Slots : /\ mmu'.tlb[j].valid => mmu.tlb[j].valid
                                 /\ mmu.tlb[j].valid /\ mmu.tlb[j].global_page => mmu'.tlb[j].valid
                                 /\ mmu'.tlb[j].vpn = mmu.tlb[j].vpn
                                 /\ mmu'.tlb[j].pfn = mmu.tlb[j].pfn
                                 /\ mmu'.tlb[j].global_page = mmu.tlb[j].global_page
             /\ \/ held \subseteq held'
                \/ \A j \in Slots : mmu'.tlb[j].valid => mmu'.tlb[j].global_page
             /\ \A p \in Pages : mmu'.entries[p] # NoPage => <<p, mmu'.entries[p]>> \in held'
      PROVE  MmuInv'
  BY <1>1, <1>2 DEF MmuInv, Follows
<1> QED
  BY <1>2, MmuCalls, InsertedInv

\* A global entry stays: only an insertion into a TLB of global entries takes one away.
LEMMA GlobalsKept ==
  ASSUME MmuInv, MmuNext, mmu.policy # "RANDOM", Cardinality(GlobalsOf(mmu)) < TLB_ENTRIES
  PROVE  GlobalsOf(mmu) \subseteq GlobalsOf(mmu')
<1> SUFFICES ASSUME NEW k \in Slots, mmu.tlb[k].valid, mmu.tlb[k].global_page
             PROVE  \E j \in Slots : /\ mmu'.tlb[j].valid /\ mmu'.tlb[j].global_page
                                     /\ mmu'.tlb[j].vpn = mmu.tlb[k].vpn
  BY DEF GlobalsOf
<1>1. ASSUME NEW page \in Pages \cup GlobalPages, NEW frame \in MmuFrames, NEW i \in Slots,
             NEW e \in EntryRecord, Inserted(page, frame, i, e)
      PROVE  \E j \in Slots : /\ mmu'.tlb[j].valid /\ mmu'.tlb[j].global_page
                              /\ mmu'.tlb[j].vpn = mmu.tlb[k].vpn
  <2>1. mmu \in MmuRecord /\ Follows(mmu.tlb, held)
    BY DEF MmuInv
  <2>2. mmu' = [mmu EXCEPT !.tlb = [mmu.tlb EXCEPT ![i] = e],
                           !.clock = mmu.clock + 1, !.calls = mmu.calls + 1]
    BY <1>1 DEF Inserted
  <2>3. mmu'.tlb[i] = e /\ \A j \in Slots : j # i => mmu'.tlb[j] = mmu.tlb[j]
    BY <2>1, <2>2 DEF MmuRecord
  <2>4. CASE k # i
    BY <2>3, <2>4
  <2>5. CASE k = i /\ mmu.tlb[i].vpn = page
    <3>1. mmu.tlb[i].vpn \in GlobalPages
      BY <2>1, <2>5 DEF Follows
    <3> QED
      BY <1>1, <2>3, <2>5, <3>1 DEF Inserted
  <2>6. CASE k = i /\ mmu.tlb[i].vpn # page
    <3>1. \A j \in Slots : mmu.tlb[j].valid /\ mmu.tlb[j].global_page
      BY <1>1, <2>6 DEF Inserted
    <3>2. Cardinality(GlobalsOf(mmu)) = TLB_ENTRIES
      BY <3>1, AllGlobal
    <3> QED
      BY <3>2, CpuMemoryAssumption
  <2> QED
    BY <2>4, <2>5, <2>6
<1>2. CASE /\ mmu' \in MmuRecord /\ mmu'.policy = mmu.policy
           /\ \A j \in Slots : /\ mmu'.tlb[j].valid => mmu.tlb[j].valid
                               /\ mmu.tlb[j].valid /\ mmu.tlb[j].global_page => mmu'.tlb[j].valid
                               /\ mmu'.tlb[j].vpn = mmu.tlb[j].vpn
                               /\ mmu'.tlb[j].pfn = mmu.tlb[j].pfn
                               /\ mmu'.tlb[j].global_page = mmu.tlb[j].global_page
  BY <1>2
<1> QED
  BY <1>1, <1>2, MmuCalls
--------------------------------------------------------------------------------
(* The memory controller. *)

Request == [addr : CtrlAddresses, arrival_time : Nat, id : Nat]

\* A queue in the order of arrival, of requests made up to some number and time.
InOrder(q, time, made) ==
    /\ \A i \in 1 .. Len(q) : q[i].arrival_time <= time /\ q[i].id <= made
    /\ \A i, j \in 1 .. Len(q) : i < j =>
          q[i].arrival_time <= q[j].arrival_time /\ q[i].id < q[j].id

McInv ==
    /\ mc = [queue |-> mc.queue, bank_busy |-> mc.bank_busy, total_served |-> mc.total_served,
             made |-> mc.made, last |-> mc.last]
    /\ mc.queue \in Seq(Request) /\ mc.total_served \in Nat /\ mc.made \in Nat
    /\ InOrder(mc.queue, mc.total_served, mc.made)
    /\ OvertakenOnlyByHits

\* Of a set of places in a queue in order, the earliest is the first.
LEMMA EarliestIs ==
  ASSUME McInv, NEW S \in SUBSET (1 .. Len(mc.queue)), S # {}
  PROVE  Earliest(S) \in S /\ \A j \in S : Earliest(S) <= j
<1> DEFINE q == mc.queue
<1>1. \A i \in S : i \in Nat /\ q[i].arrival_time \in Nat
  <2>1. q \in Seq(Request)
    BY DEF McInv
  <2>2. \A i \in 1 .. Len(q) : q[i] \in Request
    BY <2>1
  <2> QED
    BY <2>2 DEF Request
<1>2. \A i, j \in S : i < j => q[i].arrival_time <= q[j].arrival_time
  <2>1. Len(q) \in Nat
    BY DEF McInv
  <2> QED
    BY <2>1 DEF McInv, InOrder
<1>3. S \in SUBSET Nat
  BY <1>1
<1>4. PICK m \in S : \A j \in S : m <= j
  BY <1>3, LeastElement
<1> DEFINE Before(i) == \A j \in S : \/ q[i].arrival_time < q[j].arrival_time
                                     \/ q[i].arrival_time = q[j].arrival_time /\ i <= j
<1>5. Earliest(S) = CHOOSE i \in S : Before(i)
  BY DEF Earliest
<1> HIDE DEF q
<1>6. Before(m)
  BY <1>1, <1>2, <1>4
<1>7. Earliest(S) \in S /\ Before(Earliest(S))
  <2> HIDE DEF Before
  <2> QED
    BY <1>5, <1>6
<1>8. \A j \in S : Earliest(S) <= j
  <2> DEFINE e == Earliest(S)
  <2>1. e \in S /\ \A j \in S : \/ q[e].arrival_time < q[j].arrival_time
                                \/ q[e].arrival_time = q[j].arrival_time /\ e <= j
    BY <1>7
  <2> HIDE DEF e
  <2>2. \A j \in S : e <= j
    BY <1>1, <1>2, <2>1
  <2> QED
    BY <2>2 DEF e
<1> QED
  BY <1>7, <1>8

\* A queue in order without one of its requests is in order.
LEMMA RemovedInOrder ==
  ASSUME NEW q \in Seq(Request), NEW time \in Nat, NEW made \in Nat, InOrder(q, time, made),
         NEW b \in 1 .. Len(q)
  PROVE  RemoveAt(q, b) \in Seq(Request) /\ InOrder(RemoveAt(q, b), time + 1, made)
<1> DEFINE n == Len(q)
           r == RemoveAt(q, b)
           lo == SubSeq(q, 1, b - 1)
           hi == SubSeq(q, b + 1, n)
           at(i) == IF i < b THEN i ELSE i + 1
<1>1. n \in Nat /\ b \in 1 .. n /\ \A i \in 1 .. n : q[i] \in Request
  OBVIOUS
<1>2. /\ lo \in Seq(Request) /\ Len(lo) = b - 1
      /\ \A i \in 1 .. b - 1 : lo[i] = q[i]
  <2>1. \A i \in 1 .. b - 1 : q[i] \in Request
    BY <1>1
  <2> HIDE DEF n
  <2>2. /\ lo \in Seq(Request) /\ Len(lo) = IF 1 <= b - 1 THEN b - 1 - 1 + 1 ELSE 0
        /\ \A i \in 1 .. b - 1 - 1 + 1 : lo[i] = q[1 + i - 1]
    BY <1>1, <2>1, SubSeqProperties
  <2> QED
    BY <1>1, <2>2
<1>3. /\ hi \in Seq(Request) /\ Len(hi) = n - b
      /\ \A i \in 1 .. n - b : hi[i] = q[b + i]
  <2>1. \A i \in b + 1 .. n : q[i] \in Request
    BY <1>1
  <2> HIDE DEF n
  <2>2. /\ hi \in Seq(Request) /\ Len(hi) = IF b + 1 <= n THEN n - (b + 1) + 1 ELSE 0
        /\ \A i \in 1 .. n - (b + 1) + 1 : hi[i] = q[b + 1 + i - 1]
    BY <1>1, <2>1, SubSeqProperties
  <2> QED
    BY <1>1, <2>2
<1>4. r = lo \o hi
  BY DEF RemoveAt
<1> HIDE DEF r, lo, hi, n
<1>5. /\ r \in Seq(Request) /\ Len(r) = n - 1
      /\ \A i \in 1 .. n - 1 : r[i] = q[at(i)]
  <2>1. /\ r \in Seq(Request) /\ Len(r) = Len(lo) + Len(hi)
        /\ \A i \in 1 .. Len(lo) + Len(hi) : r[i] = IF i <= Len(lo) THEN lo[i] ELSE hi[i - Len(lo)]
    BY <1>2, <1>3, <1>4, ConcatProperties
  <2>2. Len(r) = n - 1
    BY <1>1, <1>2, <1>3, <2>1
  <2>3. ASSUME NEW i \in 1 .. n - 1
        PROVE  r[i] = q[at(i)]
    <3>1. i \in 1 .. Len(lo) + Len(hi)
      BY <1>1, <1>2, <1>3
    <3>2. CASE i < b
      BY <1>1, <1>2, <2>1, <3>1, <3>2
    <3>3. CASE ~(i < b)
      <4>1. r[i] = hi[i - (b - 1)] /\ i - (b - 1) \in 1 .. n - b
        BY <1>1, <1>2, <2>1, <3>1, <3>3
      <4>2. b + (i - (b - 1)) = i + 1
        BY <1>1
      <4> QED
        BY <1>3, <3>3, <4>1, <4>2
    <3> QED
      BY <3>2, <3>3
  <2> QED
    BY <2>1, <2>2, <2>3
<1>6. \A i \in 1 .. n - 1 : at(i) \in 1 .. n
  BY <1>1
<1>7. \A i, j \in 1 .. n - 1 : i < j => at(i) < at(j)
  BY <1>1
<1>8. /\ \A i \in 1 .. n : q[i].arrival_time <= time /\ q[i].id <= made
      /\ \A i, j \in 1 .. n : i < j =>
            q[i].arrival_time <= q[j].arrival_time /\ q[i].id < q[j].id
  BY DEF InOrder, n
<1>9. \A i \in 1 .. n : q[i].arrival_time \in Nat /\ q[i].id \in Nat
  BY <1>1 DEF Request
<1> HIDE DEF at
<1>10. \A i \in 1 .. n - 1 : r[i].arrival_time <= time + 1 /\ r[i].id <= made
  BY <1>5, <1>6, <1>8, <1>9
<1>11. \A i, j \in 1 .. n - 1 : i < j =>
          r[i].arrival_time <= r[j].arrival_time /\ r[i].id < r[j].id
  BY <1>5, <1>6, <1>7, <1>8
<1> QED
  BY <1>5, <1>10, <1>11 DEF InOrder, r

\* The controller starts with an empty queue, which is in order.
LEMMA McInit == mc = memctrl_init => McInv
<1> SUFFICES ASSUME mc = memctrl_init PROVE McInv
  OBVIOUS
<1>1. <<>> \in Seq(Request) /\ Len(<<>>) = 0
  OBVIOUS
<1>2. mc.queue = <<>> /\ mc.total_served = 0 /\ mc.made = 0 /\ mc.last = NoService
  BY DEF memctrl_init
<1>3. mc = [queue |-> mc.queue, bank_busy |-> mc.bank_busy, total_served |-> mc.total_served,
            made |-> mc.made, last |-> mc.last]
  BY DEF memctrl_init
<1>4. InOrder(mc.queue, mc.total_served, mc.made)
  BY <1>1, <1>2 DEF InOrder
<1>5. OvertakenOnlyByHits
  BY <1>2 DEF OvertakenOnlyByHits, NoService
<1> QED
  BY <1>1, <1>2, <1>3, <1>4, <1>5 DEF McInv

\* A request goes to the end of the queue, or is dropped.
LEMMA EnqueueInv ==
  ASSUME McInv, NEW a \in CtrlAddresses, memctrl_enqueue(a)
  PROVE  McInv'
<1> DEFINE q == mc.queue
           req == [addr |-> a, arrival_time |-> mc.total_served, id |-> mc.made + 1]
           new == IF Len(q) >= queue_capacity THEN q ELSE Append(q, req)
<1>1. /\ mc = [queue |-> q, bank_busy |-> mc.bank_busy, total_served |-> mc.total_served,
               made |-> mc.made, last |-> mc.last]
      /\ q \in Seq(Request) /\ mc.total_served \in Nat /\ mc.made \in Nat
      /\ InOrder(q, mc.total_served, mc.made)
      /\ OvertakenOnlyByHits
  BY DEF McInv
<1>2. mc' = [mc EXCEPT !.made = @ + 1, !.queue = new]
  <2>1. [mc EXCEPT !.made = @ + 1,
                   !.queue = IF Len(@) >= queue_capacity THEN @
                             ELSE Append(@, [addr |-> a, arrival_time |-> mc.total_served, id |-> mc.made + 1])]
        = [mc EXCEPT !.made = @ + 1, !.queue = new]
    BY <1>1
  <2> QED
    BY <2>1, Zenon DEF memctrl_enqueue
<1> HIDE DEF new
<1>3. mc' = [queue |-> new, bank_busy |-> mc.bank_busy, total_served |-> mc.total_served,
             made |-> mc.made + 1, last |-> mc.last]
  BY <1>1, <1>2
<1>4. new \in Seq(Request) /\ InOrder(new, mc.total_served, mc.made + 1)
  <2> DEFINE n == Len(q)
             t == mc.total_served
             k == mc.made
  <2>1. n \in Nat /\ t \in Nat /\ k \in Nat /\ req \in Request /\ q \in Seq(Request)
    BY <1>1 DEF Request
  <2>2. /\ \A i \in 1 .. n : q[i].arrival_time <= t /\ q[i].id <= k
        /\ \A i, j \in 1 .. n : i < j =>
              q[i].arrival_time <= q[j].arrival_time /\ q[i].id < q[j].id
    BY <1>1 DEF InOrder
  <2>3. \A i \in 1 .. n : q[i].arrival_time \in Nat /\ q[i].id \in Nat
    <3>1. \A i \in 1 .. n : q[i] \in Request
      BY <2>1
    <3> QED
      BY <3>1 DEF Request
  <2>4. CASE n >= queue_capacity
    <3>1. new = q
      BY <2>4 DEF new
    <3>2. \A i \in 1 .. n : q[i].arrival_time <= t /\ q[i].id <= k + 1
      BY <2>1, <2>2, <2>3
    <3>3. InOrder(q, t, k + 1)
      BY <2>2, <3>2 DEF InOrder
    <3> QED
      BY <2>1, <3>1, <3>3
  <2>5. CASE ~(n >= queue_capacity)
    <3>1. new = Append(q, req)
      BY <2>5 DEF new
    <3>2. req.arrival_time = t /\ req.id = k + 1
      OBVIOUS
    <3> HIDE DEF req, q, t, k
    <3>3. /\ new \in Seq(Request) /\ Len(new) = n + 1
          /\ \A i \in 1 .. n : new[i] = q[i]
          /\ new[n + 1] = req
      BY <2>1, <3>1, AppendProperties
    <3> HIDE DEF n
    <3>4. \A i \in 1 .. n + 1 : i \in 1 .. n \/ i = n + 1
      BY <2>1
    <3>5. \A i \in 1 .. n + 1 : new[i].arrival_time <= t /\ new[i].id <= k + 1
      BY <2>1, <2>2, <2>3, <3>2, <3>3, <3>4
    <3>6. \A i, j \in 1 .. n + 1 : i < j =>
            new[i].arrival_time <= new[j].arrival_time /\ new[i].id < new[j].id
      <4> SUFFICES ASSUME NEW i \in 1 .. n + 1, NEW j \in 1 .. n + 1, i < j
                   PROVE  new[i].arrival_time <= new[j].arrival_time /\ new[i].id < new[j].id
        OBVIOUS
      <4>1. i \in 1 .. n
        BY <2>1
      <4>2. CASE j \in 1 .. n
        BY <2>2, <3>3, <4>1, <4>2
      <4>3. CASE j = n + 1
        BY <2>1, <2>2, <2>3, <3>2, <3>3, <4>1, <4>3
      <4> QED
        BY <3>4, <4>2, <4>3
    <3>7. InOrder(new, t, k + 1)
      BY <3>3, <3>5, <3>6 DEF InOrder
    <3> QED
      BY <3>3, <3>7 DEF t, k
  <2> QED
    BY <2>4, <2>5
<1>5. OvertakenOnlyByHits'
  BY <1>1, <1>3 DEF OvertakenOnlyByHits
<1>6. /\ mc'.queue = new /\ mc'.total_served = mc.total_served /\ mc'.made = mc.made + 1
      /\ mc' = [queue |-> mc'.queue, bank_busy |-> mc'.bank_busy, total_served |-> mc'.total_served,
                made |-> mc'.made, last |-> mc'.last]
  BY <1>3
<1> QED
  BY <1>1, <1>4, <1>5, <1>6 DEF McInv

\* The request served is the first of those whose row is open, or the first of all.
LEMMA ScheduleInv ==
  ASSUME McInv, memctrl_schedule
  PROVE  McInv'
<1> DEFINE q == mc.queue
           open == {i \in DOMAIN q : mc.bank_busy[q[i].addr.bank] = q[i].addr.row}
           best == Earliest(IF open # {} THEN open ELSE DOMAIN q)
           req == q[best]
           last == [id |-> req.id, hit |-> open # {},
                    older |-> {q[i] : i \in {j \in DOMAIN q : q[j].id < req.id}},
                    addr |-> req.addr]
<1>1. /\ mc = [queue |-> q, bank_busy |-> mc.bank_busy, total_served |-> mc.total_served,
               made |-> mc.made, last |-> mc.last]
      /\ q \in Seq(Request) /\ mc.total_served \in Nat /\ mc.made \in Nat
      /\ InOrder(q, mc.total_served, mc.made)
  BY DEF McInv
<1>2. q # <<>> /\ DOMAIN q = 1 .. Len(q) /\ Len(q) \in Nat /\ 1 \in 1 .. Len(q)
  <2>1. q # <<>>
    BY DEF memctrl_schedule
  <2> QED
    BY <1>1, <2>1
<1>3. mc' = [mc EXCEPT !.queue = RemoveAt(@, best), !.total_served = @ + 1,
                       !.bank_busy[req.addr.bank] = req.addr.row, !.last = last]
  BY Zenon DEF memctrl_schedule
<1> HIDE DEF last
<1>4. \E B : mc' = [queue |-> RemoveAt(q, best), bank_busy |-> B,
                    total_served |-> mc.total_served + 1, made |-> mc.made, last |-> last]
  <2> HIDE DEF best, req
  <2> QED
    BY <1>1, <1>3
<1>5. /\ best \in 1 .. Len(q)
      /\ open # {} => best \in open /\ \A j \in open : best <= j
      /\ open = {} => \A j \in 1 .. Len(q) : best <= j
  <2>1. CASE open # {}
    <3>1. best = Earliest(open) /\ open \in SUBSET (1 .. Len(q))
      BY <1>2, <2>1
    <3> HIDE DEF best, open
    <3> QED
      BY <2>1, <3>1, EarliestIs
  <2>2. CASE open = {}
    <3> DEFINE all == 1 .. Len(q)
    <3>1. best = Earliest(all) /\ all # {} /\ all \in SUBSET (1 .. Len(q))
      BY <1>2, <2>2
    <3> HIDE DEF best, open
    <3>2. Earliest(all) \in all /\ \A j \in all : Earliest(all) <= j
      BY <3>1, EarliestIs
    <3> QED
      BY <2>2, <3>1, <3>2
  <2> QED
    BY <2>1, <2>2
<1> HIDE DEF best
<1>6. RemoveAt(q, best) \in Seq(Request) /\ InOrder(RemoveAt(q, best), mc.total_served + 1, mc.made)
  BY <1>1, <1>5, RemovedInOrder
<1>7. \A j \in 1 .. Len(q) : q[j].id < req.id => j < best
  <2>1. \A i, j \in 1 .. Len(q) : i < j => q[i].id < q[j].id
    BY <1>1 DEF InOrder
  <2>2. \A i \in 1 .. Len(q) : q[i].id \in Nat
    <3>1. \A i \in 1 .. Len(q) : q[i] \in Request
      BY <1>1
    <3> QED
      BY <3>1 DEF Request
  <2> DEFINE n == Len(q)
  <2>3. n \in Nat /\ best \in 1 .. n
    BY <1>2, <1>5
  <2> SUFFICES ASSUME NEW j \in 1 .. n, ~(j < best) PROVE ~(q[j].id < q[best].id)
    OBVIOUS
  <2>4. j = best \/ best < j
    <3> HIDE DEF n
    <3> QED
      BY <2>3
  <2> QED
    BY <2>1, <2>2, <2>3, <2>4
<1>8. last.older # {} => last.hit /\ \A r \in last.older : r.addr # last.addr
  <2> SUFFICES ASSUME NEW j \in 1 .. Len(q), q[j].id < req.id
               PROVE  open # {} /\ q[j].addr # req.addr
    BY <1>2 DEF last
  <2>1. j < best
    BY <1>7
  <2>2. open # {}
    <3>1. j \in Nat /\ best \in Nat
      BY <1>2, <1>5
    <3> QED
      BY <1>5, <2>1, <3>1
  <2>3. best \in open /\ j \notin open
    <3>1. j \in Nat /\ best \in Nat
      BY <1>2, <1>5
    <3> QED
      BY <1>5, <2>1, <2>2, <3>1
  <2> QED
    BY <1>2, <2>2, <2>3
<1>9. /\ mc'.queue = RemoveAt(q, best) /\ mc'.total_served = mc.total_served + 1
      /\ mc'.made = mc.made /\ mc'.last = last
      /\ mc' = [queue |-> mc'.queue, bank_busy |-> mc'.bank_busy, total_served |-> mc'.total_served,
                made |-> mc'.made, last |-> mc'.last]
  BY <1>4
<1>10. OvertakenOnlyByHits'
  BY <1>8, <1>9 DEF OvertakenOnlyByHits
<1>11. mc.total_served + 1 \in Nat
  BY <1>1
<1> QED
  BY <1>1, <1>6, <1>9, <1>10, <1>11 DEF McInv
--------------------------------------------------------------------------------
(* The two together. *)

CpuMemInv == MmuInv /\ McInv

\* The invariants of the two parts hold together in every state.
LEMMA CpuMemInvariant == CpuMemSpec => []CpuMemInv
<1>1. CpuMemInit => CpuMemInv
  BY MmuInit, McInit DEF CpuMemInit, CpuMemInv
<1>2. CpuMemInv /\ [CpuMemNext]_cpumem_vars => CpuMemInv'
  <2> SUFFICES ASSUME CpuMemInv, [CpuMemNext]_cpumem_vars PROVE CpuMemInv'
    OBVIOUS
  <2>1. MmuInv /\ McInv
    BY DEF CpuMemInv
  <2>2. ASSUME UNCHANGED <<mmu, held>> PROVE MmuInv'
    BY <2>1, <2>2 DEF MmuInv
  <2>3. ASSUME UNCHANGED mc PROVE McInv'
    BY <2>1, <2>3 DEF McInv, OvertakenOnlyByHits
  <2>4. CASE MmuNext /\ UNCHANGED mc
    BY <2>1, <2>3, <2>4, MmuNextInv DEF CpuMemInv
  <2>5. CASE CtrlNext /\ UNCHANGED <<mmu, held>>
    <3>1. (\E a \in CtrlAddresses : memctrl_enqueue(a)) \/ memctrl_schedule
      BY <2>5, Zenon DEF CtrlNext
    <3>2. McInv'
      BY <2>1, <3>1, EnqueueInv, ScheduleInv
    <3> QED
      BY <2>2, <2>5, <3>2 DEF CpuMemInv
  <2>6. CASE UNCHANGED cpumem_vars
    BY <2>2, <2>3, <2>6 DEF cpumem_vars, CpuMemInv
  <2> QED
    BY <2>4, <2>5, <2>6 DEF CpuMemNext
<1> QED
  BY <1>1, <1>2, PTL DEF CpuMemSpec

\* The TLB answers frames its pages were mapped to since the last flush, with one entry
\* for a page; and the controller serves a request ahead of an older one only because its
\* row is open, never ahead of an older one for the same bank and row.
THEOREM MemorySystemCorrect == CpuMemSpec => []MemorySystemSound
<1>1. CpuMemInv => MemorySystemSound
  BY DEF CpuMemInv, MmuInv, McInv, Follows, MemorySystemSound, TlbFollowsTable
<1> QED
  BY <1>1, CpuMemInvariant, PTL

\* Under LRU and FIFO the pages of global entries stay in the TLB through translations,
\* flushes and insertions, as long as there is an entry that is not global.
THEOREM GlobalsRemain == CpuMemSpec => GlobalsStay
<1>1. CpuMemInv /\ [CpuMemNext]_cpumem_vars =>
        [LET Globals(m) == {m.tlb[i].vpn : i \in {j \in Slots : m.tlb[j].valid /\ m.tlb[j].global_page}}
         IN  (mmu.policy # "RANDOM" /\ Cardinality(Globals(mmu)) < TLB_ENTRIES)
                => Globals(mmu) \subseteq Globals(mmu')]_mmu
  <2> SUFFICES ASSUME CpuMemInv, [CpuMemNext]_cpumem_vars, mmu' # mmu,
                      mmu.policy # "RANDOM", Cardinality(GlobalsOf(mmu)) < TLB_ENTRIES
               PROVE  GlobalsOf(mmu) \subseteq GlobalsOf(mmu')
    BY DEF GlobalsOf
  <2>1. MmuNext
    BY DEF CpuMemNext, cpumem_vars
  <2> QED
    BY <2>1, GlobalsKept DEF CpuMemInv
<1> QED
  BY <1>1, CpuMemInvariant, PTL DEF CpuMemSpec, GlobalsStay
--------------------------------------------------------------------------------
(* The out-of-order core: the processor record and its parts. *)
Value       == 0 .. MaxIssued
BusyStation == [busy : {TRUE}, j : OperandType, k : OperandType, dest : Entries, n : Number,
                op : {"ALU", "LW", "SW"}]
BusyEntry   == [busy : {TRUE}, ready : BOOLEAN, rd : Registers, is_store : BOOLEAN,
                value : Value, n : Number]
RegStatus   == [rob_num : Entries \cup {NoRob}, ready : BOOLEAN]
Bus         == [valid : BOOLEAN, tag : Entries, value : Value]
Processor   ==
    [rs : [Stations -> {FreeStation} \cup BusyStation], reg_status : [Registers -> RegStatus],
     rob : [Entries -> {FreeEntry} \cup BusyEntry],
     rob_head : Entries, rob_tail : Entries, rob_count : 0 .. MAX_ROB,
     cdb : Bus, registers : [Registers -> Value], memory : Value]
History     == [j : Value, k : Value, store : Value, is_store : BOOLEAN]

\* The entry holds an instruction without a result.
Unfinished(p, k) == p.rob[k].busy /\ ~p.rob[k].ready

\* The ring holds the youngest of len instructions in program order.
Ring(p, len) ==
    /\ p.rob_count <= len
    /\ p.rob_tail = Entry(p, p.rob_count)
    /\ \A k \in Entries : p.rob[k].busy <=> \E m \in 0 .. p.rob_count - 1 : k = Entry(p, m)
    /\ \A m \in 0 .. p.rob_count - 1 : p.rob[Entry(p, m)].n = len - p.rob_count + m + 1

\* An operand that waits does so for an unfinished instruction older than n.
WaitsRight(p, o, n) == o.wait => Unfinished(p, o.v) /\ p.rob[o.v].n < n

\* A station in use works for an unfinished entry, each for its own.
Stationed(p) ==
    /\ \A i \in Stations : p.rs[i].busy =>
          /\ Unfinished(p, p.rs[i].dest) /\ p.rob[p.rs[i].dest].n = p.rs[i].n
          /\ WaitsRight(p, p.rs[i].j, p.rs[i].n) /\ WaitsRight(p, p.rs[i].k, p.rs[i].n)
    /\ \A i, l \in Stations : p.rs[i].busy /\ p.rs[l].busy /\ p.rs[i].dest = p.rs[l].dest => i = l

\* The result on the bus is that of an unfinished entry no station works for any more.
OnBus(p) ==
    p.cdb.valid =>
        /\ Unfinished(p, p.cdb.tag) /\ p.rob[p.cdb.tag].n = p.cdb.value
        /\ \A i \in Stations : p.rs[i].busy => p.rs[i].dest # p.cdb.tag

\* A register that is not ready waits for an unfinished entry that will write it; a
\* finished entry holds its result.
RenamedRight(p) ==
    /\ p.reg_status[0] = [rob_num |-> NoRob, ready |-> TRUE]
    /\ \A r \in Registers : ~p.reg_status[r].ready =>
          /\ p.reg_status[r].rob_num \in Entries
          /\ Unfinished(p, p.reg_status[r].rob_num) /\ p.rob[p.reg_status[r].rob_num].rd = r
    /\ \A k \in Entries : p.rob[k].busy /\ p.rob[k].ready => p.rob[k].value = p.rob[k].n

Core(p, len) ==
    p \in Processor /\ Ring(p, len) /\ Stationed(p) /\ OnBus(p) /\ RenamedRight(p)

(* The flow of data, while nothing has gone wrong. *)

\* The operand has, or will get, the value of instruction m.
Gets(p, o, m) == IF o.wait THEN p.rob[o.v].n = m ELSE o.v = m

\* Entries that write a register are its last writers exactly if it is renamed to them;
\* a ready register holds the value of its last writer.
Flow(p, iss, w) ==
    /\ \A k \in Entries : p.rob[k].busy /\ p.rob[k].rd # 0 => ~p.rob[k].is_store
    /\ \A r \in Registers \ {0}, k \in Entries :
          p.rob[k].busy /\ p.rob[k].rd = r /\ p.reg_status[r].rob_num = k => p.rob[k].n = w[r]
    /\ \A r \in Registers : p.reg_status[r].ready => p.registers[r] = w[r]
    /\ \A i \in Stations : p.rs[i].busy =>
          /\ Gets(p, p.rs[i].j, iss[p.rs[i].n].j)
          /\ Gets(p, p.rs[i].k, iss[p.rs[i].n].k)

Writers(p, r) == {k \in Entries : p.rob[k].busy /\ p.rob[k].rd = r}

\* The last writer of a register is in the ring, youngest of those that write it, or
\* none is and the register holds its value.
Settles(p, w) ==
    /\ \A k \in Entries : p.rob[k].busy /\ p.rob[k].rd # 0 => ~p.rob[k].is_store
    /\ \A r \in Registers \ {0} :
          /\ \A k \in Writers(p, r) : p.rob[k].n <= w[r]
          /\ Writers(p, r) = {} => p.registers[r] = w[r]
          /\ Writers(p, r) # {} => \E k \in Writers(p, r) : p.rob[k].n = w[r]

(* The order of execution, while no result is lost. *)

InStation(p, n) == \E i \in Stations : p.rs[i].busy /\ p.rs[i].n = n

\* The last store among the first n instructions.
LastStore(iss, n) == Max({0} \cup {m \in 1 .. n : iss[m].is_store})

\* Instructions execute in program order: those before x, whose last store is in memory.
ExecutedUpTo(p, iss, x) ==
    /\ x \in 0 .. Len(iss)
    /\ \A n \in 1 .. Len(iss) : InStation(p, n) <=> n > x
    /\ p.memory = LastStore(iss, x)

ExecutedInOrder(p, iss, lds) ==
    /\ \A k \in Entries : Unfinished(p, k) =>
          \/ \E i \in Stations : p.rs[i].busy /\ p.rs[i].dest = k
          \/ p.cdb.valid /\ p.cdb.tag = k
    /\ \E x \in 0 .. Len(iss) : ExecutedUpTo(p, iss, x)
    /\ \A l \in lds : l[1] \in 1 .. Len(iss) /\ l[2] = iss[l[1]].store

\* The histories: the stores known, and the stations agree with them.
Recorded(p, iss, w) ==
    /\ iss \in Seq(History) /\ Len(iss) <= MaxIssued
    /\ w \in [Registers -> Value] /\ \A r \in Registers : w[r] <= Len(iss)
    /\ w[0] = 0 /\ p.registers[0] = 0
    /\ \A n \in 1 .. Len(iss) : iss[n].store = LastStore(iss, n - 1)
    /\ \A i \in Stations : p.rs[i].busy =>
          /\ p.rs[i].n \in 1 .. Len(iss)
          /\ p.rs[i].op = "SW" <=> iss[p.rs[i].n].is_store

OooInv(p, iss, w, lds, F) ==
    /\ Core(p, Len(iss))
    /\ Recorded(p, iss, w)
    /\ F = {} => Flow(p, iss, w)
    /\ F \subseteq {"stale"} => Settles(p, w)
    /\ "lost" \notin F => ExecutedInOrder(p, iss, lds)
--------------------------------------------------------------------------------
\* Max of a bounded set of naturals is in the set, and no element is greater.
LEMMA MaxIs ==
  ASSUME NEW N \in Nat, NEW S \in SUBSET (0 .. N), S # {}
  PROVE  Max(S) \in S /\ \A n \in S : n <= Max(S)
<1> DEFINE T == {N - n : n \in S}
<1>1. T \in SUBSET Nat /\ T # {}
  <2>1. \A n \in S : n \in 0 .. N
    OBVIOUS
  <2>2. \A n \in S : N - n \in Nat
    BY <2>1
  <2> QED
    BY <2>2
<1>2. PICK m \in T : \A n \in T : m <= n
  BY <1>1, LeastElement
<1>3. PICK x \in S : m = N - x
  OBVIOUS
<1>4. \A n \in S : x >= n
  <2> TAKE n \in S
  <2>1. N - n \in T /\ n \in 0 .. N /\ x \in 0 .. N
    OBVIOUS
  <2>2. m <= N - n
    BY <1>2, <2>1
  <2> QED
    BY <1>3, <2>1, <2>2
<1>5. \E y \in S : \A n \in S : y >= n
  BY <1>4
<1>6. Max(S) \in S /\ \A n \in S : Max(S) >= n
  BY <1>5 DEF Max
<1> QED
  BY <1>6

\* The remainder of what is less than twice the divisor.
LEMMA RemainderIs ==
  ASSUME NEW n \in Nat \ {0}, NEW x \in 0 .. 2 * n - 1
  PROVE  x % n = IF x < n THEN x ELSE x - n
OBVIOUS

\* The place of the m-th entry from the head, without the remainder.
LEMMA EntryIs ==
  ASSUME NEW p, p.rob_head \in Entries, NEW m \in 0 .. MAX_ROB
  PROVE  /\ Entry(p, m) \in Entries
         /\ Entry(p, m) = IF p.rob_head + m < MAX_ROB THEN p.rob_head + m
                          ELSE p.rob_head + m - MAX_ROB
<1>1. /\ MAX_ROB \in Nat \ {0} /\ p.rob_head \in 0 .. MAX_ROB - 1
      /\ p.rob_head + m \in 0 .. 2 * MAX_ROB - 1
  BY OooAssumption DEF Entries
<1> DEFINE x == p.rob_head + m
<1>2. x % MAX_ROB = IF x < MAX_ROB THEN x ELSE x - MAX_ROB
  <2> HIDE DEF x
  <2> QED
    BY <1>1, RemainderIs DEF x
<1>3. Entry(p, m) = IF x < MAX_ROB THEN x ELSE x - MAX_ROB
  BY <1>2 DEF Entry
<1> QED
  BY <1>1, <1>3 DEF Entries

\* Different distances below the size are different places.
LEMMA EntriesApart ==
  ASSUME NEW p, p.rob_head \in Entries, NEW m \in 0 .. MAX_ROB - 1, NEW l \in 0 .. MAX_ROB - 1,
         Entry(p, m) = Entry(p, l)
  PROVE  m = l
<1>1. MAX_ROB \in Nat \ {0} /\ p.rob_head \in 0 .. MAX_ROB - 1
  BY OooAssumption DEF Entries
<1> QED
  BY <1>1, EntryIs

\* With the head moved by c, the places are those c further on.
LEMMA EntryShifted ==
  ASSUME NEW p, NEW g, p.rob_head \in Entries, NEW c \in 0 .. MAX_ROB,
         g.rob_head = (p.rob_head + c) % MAX_ROB, NEW m \in 0 .. MAX_ROB - c
  PROVE  g.rob_head \in Entries /\ Entry(g, m) = Entry(p, c + m)
<1>1. MAX_ROB \in Nat \ {0} /\ p.rob_head \in 0 .. MAX_ROB - 1
  BY OooAssumption DEF Entries
<1>2. g.rob_head = Entry(p, c)
  BY DEF Entry
<1>3. g.rob_head \in Entries /\ c + m \in 0 .. MAX_ROB
  BY <1>1, <1>2, EntryIs
<1>4. /\ g.rob_head = IF p.rob_head + c < MAX_ROB THEN p.rob_head + c
                      ELSE p.rob_head + c - MAX_ROB
      /\ Entry(p, c + m) = IF p.rob_head + (c + m) < MAX_ROB THEN p.rob_head + (c + m)
                           ELSE p.rob_head + (c + m) - MAX_ROB
  BY <1>2, <1>3, EntryIs
<1>5. Entry(g, m) = IF g.rob_head + m < MAX_ROB THEN g.rob_head + m
                    ELSE g.rob_head + m - MAX_ROB
  BY <1>1, <1>3, EntryIs
<1> QED
  BY <1>1, <1>3, <1>4, <1>5

\* The tail moves as the count does.
LEMMA TailMoves ==
  ASSUME NEW p, p.rob_head \in Entries, NEW c \in 0 .. MAX_ROB - 1
  PROVE  (Entry(p, c) + 1) % MAX_ROB = Entry(p, c + 1)
<1>1. MAX_ROB \in Nat \ {0} /\ p.rob_head \in 0 .. MAX_ROB - 1 /\ c + 1 \in 0 .. MAX_ROB
  BY OooAssumption DEF Entries
<1>2. /\ Entry(p, c) \in 0 .. MAX_ROB - 1
      /\ Entry(p, c) = IF p.rob_head + c < MAX_ROB THEN p.rob_head + c
                       ELSE p.rob_head + c - MAX_ROB
      /\ Entry(p, c + 1) = IF p.rob_head + (c + 1) < MAX_ROB THEN p.rob_head + (c + 1)
                           ELSE p.rob_head + (c + 1) - MAX_ROB
  BY <1>1, EntryIs DEF Entries
<1> DEFINE x == Entry(p, c) + 1
<1>3. x \in 0 .. 2 * MAX_ROB - 1
  BY <1>1, <1>2
<1>4. x % MAX_ROB = IF x < MAX_ROB THEN x ELSE x - MAX_ROB
  <2> HIDE DEF x
  <2> QED
    BY <1>1, <1>3, RemainderIs
<1> QED
  BY <1>1, <1>2, <1>4
--------------------------------------------------------------------------------
(* The types, field by field. *)

\* The fields of a processor.
LEMMA ProcessorFields ==
  ASSUME NEW p \in Processor
  PROVE  /\ p.rs \in [Stations -> {FreeStation} \cup BusyStation]
         /\ p.reg_status \in [Registers -> RegStatus]
         /\ p.rob \in [Entries -> {FreeEntry} \cup BusyEntry]
         /\ p.rob_head \in Entries /\ p.rob_tail \in Entries /\ p.rob_count \in 0 .. MAX_ROB
         /\ p.cdb \in Bus /\ p.registers \in [Registers -> Value] /\ p.memory \in Value
  BY DEF Processor

\* A station in use has all its fields.
LEMMA StationFields ==
  ASSUME NEW x \in {FreeStation} \cup BusyStation
  PROVE  /\ x.busy \in BOOLEAN
         /\ ~x.busy => x = FreeStation
         /\ x.busy => /\ x \in BusyStation /\ x.j \in OperandType /\ x.k \in OperandType
                      /\ x.dest \in Entries /\ x.n \in Number /\ x.op \in {"ALU", "LW", "SW"}
<1>1. CASE x = FreeStation
  <2>1. x.busy = FALSE
    BY <1>1 DEF FreeStation
  <2> QED
    BY <1>1, <2>1
<1>2. CASE x \in BusyStation
  <2>1. x.busy = TRUE
    BY <1>2 DEF BusyStation
  <2>2. x.j \in OperandType /\ x.k \in OperandType
        /\ x.dest \in Entries /\ x.n \in Number /\ x.op \in {"ALU", "LW", "SW"}
    BY <1>2 DEF BusyStation
  <2> QED
    BY <1>2, <2>1, <2>2
<1> QED
  BY <1>1, <1>2

\* An entry in use has all its fields.
LEMMA EntryFields ==
  ASSUME NEW x \in {FreeEntry} \cup BusyEntry
  PROVE  /\ x.busy \in BOOLEAN
         /\ ~x.busy => x = FreeEntry
         /\ x.busy => /\ x \in BusyEntry /\ x.ready \in BOOLEAN /\ x.rd \in Registers
                      /\ x.is_store \in BOOLEAN /\ x.value \in Value /\ x.n \in Number
<1>1. CASE x = FreeEntry
  <2>1. x.busy = FALSE
    BY <1>1 DEF FreeEntry
  <2> QED
    BY <1>1, <2>1
<1>2. CASE x \in BusyEntry
  <2>1. x.busy = TRUE
    BY <1>2 DEF BusyEntry
  <2>2. /\ x.ready \in BOOLEAN /\ x.rd \in Registers
        /\ x.is_store \in BOOLEAN /\ x.value \in Value /\ x.n \in Number
    BY <1>2 DEF BusyEntry
  <2> QED
    BY <1>2, <2>1, <2>2
<1> QED
  BY <1>1, <1>2

\* An operand is an entry to wait for or a value.
LEMMA OperandFields ==
  ASSUME NEW o \in OperandType
  PROVE  o.wait \in BOOLEAN /\ (o.wait => o.v \in Entries) /\ (~o.wait => o.v \in Value)
<1>1. CASE o \in [wait : {TRUE}, v : Entries]
  <2>1. o.wait = TRUE /\ o.v \in Entries
    BY <1>1
  <2> QED
    BY <2>1
<1>2. CASE o \in [wait : {FALSE}, v : 0 .. MaxIssued]
  <2>1. o.wait = FALSE /\ o.v \in Value
    BY <1>2 DEF Value
  <2> QED
    BY <2>1
<1> QED
  BY <1>1, <1>2 DEF OperandType

\* The number of an instruction in the ring tells its entry.
LEMMA RingNumbers ==
  ASSUME NEW p \in Processor, NEW len \in Nat, Ring(p, len)
  PROVE  /\ \A k \in Entries : p.rob[k].busy => p.rob[k].n \in len - p.rob_count + 1 .. len
         /\ \A k, l \in Entries : p.rob[k].busy /\ p.rob[l].busy /\ p.rob[k].n = p.rob[l].n => k = l
         /\ \A n \in len - p.rob_count + 1 .. len :
               \E k \in Entries : p.rob[k].busy /\ p.rob[k].n = n
<1>1. p.rob_head \in Entries /\ p.rob_count \in 0 .. MAX_ROB /\ MAX_ROB \in Nat
  BY ProcessorFields, OooAssumption
<1> DEFINE c == p.rob_count
<1>2. \A k \in Entries : p.rob[k].busy =>
          \E m \in 0 .. c - 1 : k = Entry(p, m) /\ p.rob[k].n = len - c + m + 1
  BY DEF Ring
<1>3. \A m \in 0 .. c - 1 : /\ Entry(p, m) \in Entries /\ p.rob[Entry(p, m)].busy
                            /\ p.rob[Entry(p, m)].n = len - c + m + 1
  <2> TAKE m \in 0 .. c - 1
  <2>1. Entry(p, m) \in Entries
    BY <1>1, EntryIs
  <2> QED
    BY <2>1 DEF Ring
<1> HIDE DEF c
<1>4. c \in 0 .. MAX_ROB
  BY <1>1 DEF c
<1>5. \A k \in Entries : p.rob[k].busy => p.rob[k].n \in len - c + 1 .. len
  <2> TAKE k \in Entries
  <2> HAVE p.rob[k].busy
  <2>1. PICK m \in 0 .. c - 1 : p.rob[k].n = len - c + m + 1
    BY <1>2
  <2> QED
    BY <1>1, <1>4, <2>1
<1>6. \A k, l \in Entries : p.rob[k].busy /\ p.rob[l].busy /\ p.rob[k].n = p.rob[l].n => k = l
  <2> TAKE k, l \in Entries
  <2> HAVE p.rob[k].busy /\ p.rob[l].busy /\ p.rob[k].n = p.rob[l].n
  <2>1. PICK m \in 0 .. c - 1 : k = Entry(p, m) /\ p.rob[k].n = len - c + m + 1
    BY <1>2
  <2>2. PICK i \in 0 .. c - 1 : l = Entry(p, i) /\ p.rob[l].n = len - c + i + 1
    BY <1>2
  <2>3. m = i
    BY <1>1, <1>4, <2>1, <2>2
  <2> QED
    BY <2>1, <2>2, <2>3
<1>7. \A n \in len - c + 1 .. len : \E k \in Entries : p.rob[k].busy /\ p.rob[k].n = n
  <2> TAKE n \in len - c + 1 .. len
  <2> DEFINE m == n - (len - c + 1)
  <2>1. m \in 0 .. c - 1 /\ len - c + m + 1 = n
    BY <1>1, <1>4
  <2> HIDE DEF m
  <2> QED
    BY <1>3, <2>1
<1> QED
  BY <1>5, <1>6, <1>7 DEF c
--------------------------------------------------------------------------------
(* What each call makes of a processor, field by field. *)

\* The parts ooo_write_result rewrites.
RobWritten(p) ==
    [p.rob EXCEPT ![p.cdb.tag] = [p.rob[p.cdb.tag] EXCEPT !.value = p.cdb.value, !.ready = TRUE]]
StatusWritten(p) ==
    [r \in Registers |-> IF r \in Listeners(p)
                         THEN [p.reg_status[r] EXCEPT !.ready = TRUE] ELSE p.reg_status[r]]
RegistersWritten(p) ==
    [r \in Registers |-> IF r \in Listeners(p) THEN p.cdb.value ELSE p.registers[r]]
StationsWritten(p) ==
    [i \in Stations |-> IF p.rs[i].busy THEN Forwarded(p, p.rs[i]) ELSE p.rs[i]]

\* ooo_write_result with a result on the bus, its updates by name.
LEMMA WriteIs ==
  ASSUME NEW p \in Processor, p.cdb.valid
  PROVE  WriteResult(p) = [p EXCEPT !.rob = RobWritten(p), !.reg_status = StatusWritten(p),
                                    !.registers = RegistersWritten(p), !.rs = StationsWritten(p),
                                    !.cdb = [p.cdb EXCEPT !.valid = FALSE]]
  BY DEF WriteResult, RobWritten, StatusWritten, RegistersWritten, StationsWritten, Processor

\* The stations left when the ready ones have completed, and the bus they leave.
StationsExecuted(p) == [i \in Stations |-> IF i \in Ready(p) THEN FreeStation ELSE p.rs[i]]
LastReady(p)        == p.rs[Max(Ready(p))]

\* ooo_execute with a station ready, its updates by name.
LEMMA ExecuteIs ==
  ASSUME NEW p \in Processor, Ready(p) # {}
  PROVE  Execute(p) = [p EXCEPT !.cdb = [valid |-> TRUE, tag |-> LastReady(p).dest,
                                         value |-> LastReady(p).n],
                                !.memory = StoreBefore(p, MAX_RS), !.rs = StationsExecuted(p)]
  BY DEF Execute, StationsExecuted, LastReady, Processor

\* The parts ooo_commit rewrites.
RegistersCommitted(p) ==
    [r \in Registers |-> IF Retiring(p, r) = {} THEN p.registers[r]
                         ELSE p.rob[Entry(p, Max(Retiring(p, r)))].value]
RobCommitted(p) ==
    [k \in Entries |-> IF \E l \in 0 .. Commits(p) - 1 : k = Entry(p, l) THEN FreeEntry
                       ELSE p.rob[k]]

\* ooo_commit, its updates by name.
LEMMA CommitIs ==
  ASSUME NEW p \in Processor
  PROVE  Commit(p) = [p EXCEPT !.registers = RegistersCommitted(p), !.rob = RobCommitted(p),
                               !.rob_head = (p.rob_head + Commits(p)) % MAX_ROB,
                               !.rob_count = p.rob_count - Commits(p)]
  BY DEF Commit, RegistersCommitted, RobCommitted, Processor

\* The station and the entry ooo_issue fills.
FirstFree(p)          == Min({i \in Stations : ~p.rs[i].busy})
StationIssued(p, inst, n) ==
    [busy |-> TRUE, j |-> Operand(p, inst.rs1), k |-> Operand(p, inst.rs2),
     dest |-> p.rob_tail, n |-> n,
     op |-> IF inst.is_store THEN "SW" ELSE IF inst.is_load THEN "LW" ELSE "ALU"]
EntryIssued(inst, n) ==
    [busy |-> TRUE, ready |-> FALSE, rd |-> inst.rd, is_store |-> inst.is_store,
     value |-> 0, n |-> n]

\* ooo_issue, its updates by name.
LEMMA IssueIs ==
  ASSUME NEW p \in Processor, NEW inst, NEW n
  PROVE  Issue(p, inst, n) =
            [p EXCEPT !.rs = [p.rs EXCEPT ![FirstFree(p)] = StationIssued(p, inst, n)],
                      !.rob = [p.rob EXCEPT ![p.rob_tail] = EntryIssued(inst, n)],
                      !.reg_status = Renamed(p, inst.rd),
                      !.rob_tail = (p.rob_tail + 1) % MAX_ROB,
                      !.rob_count = p.rob_count + 1]
  BY DEF Issue, FirstFree, StationIssued, EntryIssued, Processor
--------------------------------------------------------------------------------
(* ooo_write_result. *)

\* What a forwarded operand becomes.
LEMMA ReceivedIs ==
  ASSUME NEW p \in Processor, NEW o \in OperandType
  PROVE  /\ Received(p, o) \in OperandType
         /\ o.wait /\ o.v = p.cdb.tag => ~Received(p, o).wait /\ Received(p, o).v = p.cdb.value
         /\ ~(o.wait /\ o.v = p.cdb.tag) => Received(p, o) = o
<1>1. p.cdb.value \in Value
  BY ProcessorFields DEF Bus
<1>2. CASE o.wait /\ o.v = p.cdb.tag
  <2>1. Received(p, o) = [wait |-> FALSE, v |-> p.cdb.value]
    BY <1>2 DEF Received
  <2>2. Received(p, o) \in OperandType
    BY <1>1, <2>1 DEF OperandType, Value
  <2>3. Received(p, o).wait = FALSE /\ Received(p, o).v = p.cdb.value
    BY <2>1
  <2> QED
    BY <1>2, <2>2, <2>3
<1>3. CASE ~(o.wait /\ o.v = p.cdb.tag)
  BY <1>3 DEF Received
<1> QED
  BY <1>2, <1>3

\* A forwarded station keeps its instruction.
LEMMA ForwardedIs ==
  ASSUME NEW p \in Processor, NEW x \in BusyStation
  PROVE  /\ Forwarded(p, x) \in BusyStation
         /\ Forwarded(p, x).busy /\ Forwarded(p, x).dest = x.dest /\ Forwarded(p, x).n = x.n
         /\ Forwarded(p, x).op = x.op
         /\ Forwarded(p, x).j = Received(p, x.j) /\ Forwarded(p, x).k = Received(p, x.k)
<1>1. x.j \in OperandType /\ x.k \in OperandType /\ x.busy = TRUE
  BY DEF BusyStation
<1>2. Received(p, x.j) \in OperandType /\ Received(p, x.k) \in OperandType
  BY <1>1, ReceivedIs
<1> DEFINE a == Received(p, x.j)
           b == Received(p, x.k)
<1>3. Forwarded(p, x) = [x EXCEPT !.j = a, !.k = b]
  BY DEF Forwarded
<1> HIDE DEF a, b
<1>4. /\ [x EXCEPT !.j = a, !.k = b] \in BusyStation
      /\ [x EXCEPT !.j = a, !.k = b].busy = x.busy
      /\ [x EXCEPT !.j = a, !.k = b].dest = x.dest /\ [x EXCEPT !.j = a, !.k = b].n = x.n
      /\ [x EXCEPT !.j = a, !.k = b].op = x.op
      /\ [x EXCEPT !.j = a, !.k = b].j = a /\ [x EXCEPT !.j = a, !.k = b].k = b
  BY <1>2 DEF BusyStation, a, b
<1> QED
  BY <1>1, <1>3, <1>4 DEF a, b

\* The fields of a processor whose result has been written.
LEMMA WriteFields ==
  ASSUME NEW p \in Processor, p.cdb.valid
  PROVE  /\ WriteResult(p).rob = RobWritten(p) /\ WriteResult(p).reg_status = StatusWritten(p)
         /\ WriteResult(p).registers = RegistersWritten(p) /\ WriteResult(p).rs = StationsWritten(p)
         /\ WriteResult(p).cdb = [p.cdb EXCEPT !.valid = FALSE]
         /\ WriteResult(p).rob_head = p.rob_head /\ WriteResult(p).rob_tail = p.rob_tail
         /\ WriteResult(p).rob_count = p.rob_count /\ WriteResult(p).memory = p.memory
<1> DEFINE a == RobWritten(p)
           b == StatusWritten(p)
           c == RegistersWritten(p)
           d == StationsWritten(p)
           e == [p.cdb EXCEPT !.valid = FALSE]
           g == [p EXCEPT !.rob = a, !.reg_status = b, !.registers = c, !.rs = d, !.cdb = e]
<1> HIDE DEF a, b, c, d, e
<1>1. /\ g.rob = a /\ g.reg_status = b /\ g.registers = c /\ g.rs = d /\ g.cdb = e
      /\ g.rob_head = p.rob_head /\ g.rob_tail = p.rob_tail
      /\ g.rob_count = p.rob_count /\ g.memory = p.memory
  BY DEF Processor
<1>2. WriteResult(p) = g
  BY WriteIs DEF a, b, c, d, e
<1> HIDE DEF g
<1> QED
  BY <1>1, <1>2 DEF a, b, c, d, e

\* The entry the result is for has it, and the others are as they were.
LEMMA RobWrittenIs ==
  ASSUME NEW p \in Processor, p.rob[p.cdb.tag].busy
  PROVE  /\ RobWritten(p) \in [Entries -> {FreeEntry} \cup BusyEntry]
         /\ p.cdb.tag \in Entries
         /\ RobWritten(p)[p.cdb.tag].ready /\ RobWritten(p)[p.cdb.tag].value = p.cdb.value
         /\ \A k \in Entries \ {p.cdb.tag} : RobWritten(p)[k] = p.rob[k]
         /\ \A k \in Entries : /\ RobWritten(p)[k].busy = p.rob[k].busy
                               /\ RobWritten(p)[k].n = p.rob[k].n /\ RobWritten(p)[k].rd = p.rob[k].rd
                               /\ RobWritten(p)[k].is_store = p.rob[k].is_store
<1>1. /\ p.cdb.tag \in Entries /\ p.cdb.value \in Value
      /\ p.rob \in [Entries -> {FreeEntry} \cup BusyEntry]
  BY ProcessorFields DEF Bus
<1> DEFINE t == p.cdb.tag
           x == p.rob[t]
           y == [x EXCEPT !.value = p.cdb.value, !.ready = TRUE]
<1>2. x \in BusyEntry
  BY <1>1, EntryFields
<1>3. /\ y \in BusyEntry /\ y.ready = TRUE /\ y.value = p.cdb.value /\ y.busy = x.busy
      /\ y.n = x.n /\ y.rd = x.rd /\ y.is_store = x.is_store
  <2> HIDE DEF x
  <2> QED
    BY <1>1, <1>2 DEF BusyEntry
<1>4. RobWritten(p) = [p.rob EXCEPT ![t] = y]
  BY DEF RobWritten
<1> HIDE DEF y
<1>5. RobWritten(p)[t] = y /\ \A k \in Entries \ {t} : RobWritten(p)[k] = p.rob[k]
  BY <1>1, <1>4
<1>6. RobWritten(p) \in [Entries -> {FreeEntry} \cup BusyEntry]
  BY <1>1, <1>3, <1>4
<1> QED
  BY <1>1, <1>3, <1>5, <1>6

\* ooo_write_result keeps the types.
LEMMA WriteTyped ==
  ASSUME NEW p \in Processor, p.cdb.valid, p.rob[p.cdb.tag].busy
  PROVE  WriteResult(p) \in Processor
<1> DEFINE g == WriteResult(p)
<1>1. /\ p.rs \in [Stations -> {FreeStation} \cup BusyStation]
      /\ p.reg_status \in [Registers -> RegStatus] /\ p.registers \in [Registers -> Value]
      /\ p.cdb \in Bus
  BY ProcessorFields
<1>2. g.rob \in [Entries -> {FreeEntry} \cup BusyEntry]
  BY RobWrittenIs, WriteFields
<1>3. g.reg_status \in [Registers -> RegStatus]
  <2>1. \A s \in RegStatus : [s EXCEPT !.ready = TRUE] \in RegStatus
    BY DEF RegStatus
  <2>2. StatusWritten(p) \in [Registers -> RegStatus]
    BY <1>1, <2>1 DEF StatusWritten
  <2> QED
    BY <2>2, WriteFields
<1>4. g.registers \in [Registers -> Value]
  <2>1. p.cdb.value \in Value
    BY <1>1 DEF Bus
  <2>2. RegistersWritten(p) \in [Registers -> Value]
    BY <1>1, <2>1 DEF RegistersWritten
  <2> QED
    BY <2>2, WriteFields
<1>5. g.rs \in [Stations -> {FreeStation} \cup BusyStation]
  <2>1. \A i \in Stations : p.rs[i].busy => Forwarded(p, p.rs[i]) \in BusyStation
    BY <1>1, StationFields, ForwardedIs
  <2>2. StationsWritten(p) \in [Stations -> {FreeStation} \cup BusyStation]
    BY <1>1, <2>1 DEF StationsWritten
  <2> QED
    BY <2>2, WriteFields
<1>6. g.cdb \in Bus
  BY <1>1, WriteFields DEF Bus
<1>7. [p EXCEPT !.rob = g.rob, !.reg_status = g.reg_status, !.registers = g.registers,
                !.rs = g.rs, !.cdb = g.cdb] \in Processor
  <2> HIDE DEF g
  <2> QED
    BY <1>2, <1>3, <1>4, <1>5, <1>6 DEF Processor
<1>8. WriteResult(p) = [p EXCEPT !.rob = g.rob, !.reg_status = g.reg_status,
                                 !.registers = g.registers, !.rs = g.rs, !.cdb = g.cdb]
  BY WriteIs, WriteFields
<1> QED
  BY <1>7, <1>8

\* What ooo_write_result does to the stations and to the registers, one by one.
LEMMA WriteEffect ==
  ASSUME NEW p \in Processor, p.cdb.valid
  PROVE  /\ \A i \in Stations :
               /\ WriteResult(p).rs[i].busy = p.rs[i].busy
               /\ p.rs[i].busy =>
                     /\ WriteResult(p).rs[i].dest = p.rs[i].dest /\ WriteResult(p).rs[i].n = p.rs[i].n
                     /\ WriteResult(p).rs[i].op = p.rs[i].op
                     /\ WriteResult(p).rs[i].j = Received(p, p.rs[i].j)
                     /\ WriteResult(p).rs[i].k = Received(p, p.rs[i].k)
         /\ \A r \in Registers :
               IF p.reg_status[r].rob_num = p.cdb.tag
               THEN /\ WriteResult(p).reg_status[r].rob_num = p.cdb.tag
                    /\ WriteResult(p).reg_status[r].ready
                    /\ WriteResult(p).registers[r] = p.cdb.value
               ELSE /\ WriteResult(p).reg_status[r] = p.reg_status[r]
                    /\ WriteResult(p).registers[r] = p.registers[r]
<1>1. /\ p.rs \in [Stations -> {FreeStation} \cup BusyStation]
      /\ p.reg_status \in [Registers -> RegStatus]
  BY ProcessorFields
<1>2. ASSUME NEW i \in Stations
      PROVE  /\ WriteResult(p).rs[i].busy = p.rs[i].busy
             /\ p.rs[i].busy =>
                   /\ WriteResult(p).rs[i].dest = p.rs[i].dest /\ WriteResult(p).rs[i].n = p.rs[i].n
                   /\ WriteResult(p).rs[i].op = p.rs[i].op
                   /\ WriteResult(p).rs[i].j = Received(p, p.rs[i].j)
                   /\ WriteResult(p).rs[i].k = Received(p, p.rs[i].k)
  <2>1. WriteResult(p).rs[i] = IF p.rs[i].busy THEN Forwarded(p, p.rs[i]) ELSE p.rs[i]
    BY WriteFields DEF StationsWritten
  <2>2. p.rs[i].busy \in BOOLEAN /\ (p.rs[i].busy => p.rs[i] \in BusyStation)
    BY <1>1, StationFields
  <2>3. p.rs[i].busy => Forwarded(p, p.rs[i]).busy = TRUE
    <3> HAVE p.rs[i].busy
    <3>1. p.rs[i].busy = TRUE /\ p.rs[i] \in BusyStation
      BY <2>2
    <3> DEFINE x == p.rs[i]
    <3>2. x.busy = TRUE /\ x \in BusyStation
      BY <3>1
    <3> HIDE DEF x
    <3>3. Forwarded(p, x) \in BusyStation
      BY <3>2, ForwardedIs
    <3>4. Forwarded(p, x).busy = TRUE
      BY <3>3 DEF BusyStation
    <3> QED
      BY <3>4 DEF x
  <2> QED
    BY <2>1, <2>2, <2>3, ForwardedIs
<1>3. ASSUME NEW r \in Registers
      PROVE  IF p.reg_status[r].rob_num = p.cdb.tag
             THEN /\ WriteResult(p).reg_status[r].rob_num = p.cdb.tag
                  /\ WriteResult(p).reg_status[r].ready
                  /\ WriteResult(p).registers[r] = p.cdb.value
             ELSE /\ WriteResult(p).reg_status[r] = p.reg_status[r]
                  /\ WriteResult(p).registers[r] = p.registers[r]
  <2>1. r \in Listeners(p) <=> p.reg_status[r].rob_num = p.cdb.tag
    BY DEF Listeners
  <2>2. /\ WriteResult(p).reg_status[r] = IF r \in Listeners(p)
                         THEN [p.reg_status[r] EXCEPT !.ready = TRUE] ELSE p.reg_status[r]
        /\ WriteResult(p).registers[r] = IF r \in Listeners(p) THEN p.cdb.value ELSE p.registers[r]
    BY WriteFields DEF StatusWritten, RegistersWritten
  <2>3. \A s \in RegStatus : /\ [s EXCEPT !.ready = TRUE].rob_num = s.rob_num
                             /\ [s EXCEPT !.ready = TRUE].ready
    BY DEF RegStatus
  <2>4. p.reg_status[r] \in RegStatus
    BY <1>1
  <2> QED
    BY <2>1, <2>2, <2>3, <2>4
<1> QED
  BY <1>2, <1>3

\* Entries other than the one written stay finished or unfinished.
LEMMA WriteUnfinished ==
  ASSUME NEW p \in Processor, p.cdb.valid, p.rob[p.cdb.tag].busy, NEW k \in Entries
  PROVE  Unfinished(WriteResult(p), k) <=> Unfinished(p, k) /\ k # p.cdb.tag
<1>1. WriteResult(p).rob = RobWritten(p)
  BY WriteFields
<1> QED
  BY <1>1, RobWrittenIs DEF Unfinished

\* ooo_write_result keeps the ring, the stations and the renaming right.
LEMMA WriteCore ==
  ASSUME NEW p, NEW len \in Nat, Core(p, len)
  PROVE  Core(WriteResult(p), len)
<1>0. p \in Processor /\ Ring(p, len) /\ Stationed(p) /\ OnBus(p) /\ RenamedRight(p)
  BY DEF Core
<1>1. CASE ~p.cdb.valid
  BY <1>1 DEF WriteResult
<1>2. CASE p.cdb.valid
  <2> DEFINE g == WriteResult(p)
             t == p.cdb.tag
  <2>1. Unfinished(p, t) /\ p.rob[t].n = p.cdb.value /\ p.rob[t].busy
    BY <1>0, <1>2 DEF OnBus, Unfinished
  <2>2. /\ g.rob = RobWritten(p) /\ g.rob_head = p.rob_head /\ g.rob_tail = p.rob_tail
        /\ g.rob_count = p.rob_count
    BY <1>0, <1>2, WriteFields
  <2>3. /\ t \in Entries /\ g.rob[t].ready /\ g.rob[t].value = p.cdb.value
        /\ \A k \in Entries \ {t} : g.rob[k] = p.rob[k]
        /\ \A k \in Entries : /\ g.rob[k].busy = p.rob[k].busy /\ g.rob[k].n = p.rob[k].n
                              /\ g.rob[k].rd = p.rob[k].rd
    BY <1>0, <2>1, <2>2, RobWrittenIs
  <2>4. \A k \in Entries : Unfinished(g, k) <=> Unfinished(p, k) /\ k # t
    BY <1>0, <1>2, <2>1, WriteUnfinished
  <2>5. Ring(g, len)
    <3>1. \A m : Entry(g, m) = Entry(p, m)
      BY <2>2 DEF Entry
    <3>2. \A m \in 0 .. p.rob_count - 1 : Entry(p, m) \in Entries
      <4>1. p.rob_head \in Entries /\ p.rob_count \in 0 .. MAX_ROB /\ MAX_ROB \in Nat
        BY <1>0, ProcessorFields, OooAssumption
      <4> QED
        BY <4>1, EntryIs
    <3> HIDE DEF g
    <3> QED
      BY <1>0, <2>2, <2>3, <3>1, <3>2 DEF Ring
  <2>6. \A i \in Stations :
           /\ g.rs[i].busy = p.rs[i].busy
           /\ p.rs[i].busy => /\ g.rs[i].dest = p.rs[i].dest /\ g.rs[i].n = p.rs[i].n
                              /\ g.rs[i].j = Received(p, p.rs[i].j) /\ g.rs[i].k = Received(p, p.rs[i].k)
    BY <1>0, <1>2, WriteEffect
  <2>7. \A i \in Stations : p.rs[i].busy => /\ p.rs[i].dest \in Entries /\ p.rs[i].dest # t
                                            /\ p.rs[i].j \in OperandType /\ p.rs[i].k \in OperandType
    BY <1>0, <1>2, ProcessorFields, StationFields DEF OnBus
  <2>8. \A o \in OperandType : \A n : WaitsRight(p, o, n) => WaitsRight(g, Received(p, o), n)
    <3> TAKE o \in OperandType
    <3> TAKE n
    <3> HAVE WaitsRight(p, o, n)
    <3>1. CASE o.wait /\ o.v = t
      <4>1. ~Received(p, o).wait
        BY <1>0, <3>1, ReceivedIs
      <4> QED
        BY <4>1 DEF WaitsRight
    <3>2. CASE ~(o.wait /\ o.v = t)
      <4>1. Received(p, o) = o /\ (o.wait => o.v \in Entries)
        BY <1>0, <3>2, ReceivedIs, OperandFields
      <4> HIDE DEF g, t
      <4> QED
        BY <2>3, <2>4, <3>2, <4>1 DEF WaitsRight
    <3> QED
      BY <3>1, <3>2
  <2>9. Stationed(g)
    <3> HIDE DEF g, t
    <3>1. \A i \in Stations : g.rs[i].busy =>
             /\ Unfinished(g, g.rs[i].dest) /\ g.rob[g.rs[i].dest].n = g.rs[i].n
             /\ WaitsRight(g, g.rs[i].j, g.rs[i].n) /\ WaitsRight(g, g.rs[i].k, g.rs[i].n)
      BY <1>0, <2>3, <2>4, <2>6, <2>7, <2>8 DEF Stationed
    <3>2. \A i, l \in Stations : g.rs[i].busy /\ g.rs[l].busy /\ g.rs[i].dest = g.rs[l].dest => i = l
      BY <1>0, <2>6 DEF Stationed
    <3> QED
      BY <3>1, <3>2 DEF Stationed
  <2>10. OnBus(g)
    <3>1. g.cdb = [p.cdb EXCEPT !.valid = FALSE] /\ p.cdb \in Bus
      BY <1>0, <1>2, WriteFields, ProcessorFields
    <3>2. [p.cdb EXCEPT !.valid = FALSE].valid = FALSE
      BY <3>1 DEF Bus
    <3> QED
      BY <3>1, <3>2 DEF OnBus
  <2>11. RenamedRight(g)
    <3>1. \A r \in Registers :
             IF p.reg_status[r].rob_num = t THEN g.reg_status[r].ready
             ELSE g.reg_status[r] = p.reg_status[r]
      BY <1>0, <1>2, WriteEffect
    <3>2. p.reg_status[0].rob_num = NoRob /\ 0 \in Registers /\ NoRob \notin Entries
      BY <1>0, OooAssumption DEF RenamedRight, Registers, Entries, NoRob
    <3> HIDE DEF g, t
    <3>3. g.reg_status[0] = [rob_num |-> NoRob, ready |-> TRUE]
      BY <1>0, <2>3, <3>1, <3>2 DEF RenamedRight
    <3>4. \A r \in Registers : ~g.reg_status[r].ready =>
             /\ g.reg_status[r].rob_num \in Entries
             /\ Unfinished(g, g.reg_status[r].rob_num) /\ g.rob[g.reg_status[r].rob_num].rd = r
      BY <1>0, <2>3, <2>4, <3>1 DEF RenamedRight
    <3>5. \A k \in Entries : g.rob[k].busy /\ g.rob[k].ready => g.rob[k].value = g.rob[k].n
      BY <1>0, <2>1, <2>3 DEF RenamedRight, t
    <3> QED
      BY <3>3, <3>4, <3>5 DEF RenamedRight
  <2>12. g \in Processor
    BY <1>0, <1>2, <2>1, WriteTyped
  <2> QED
    BY <2>5, <2>9, <2>10, <2>11, <2>12 DEF Core
<1> QED
  BY <1>1, <1>2
--------------------------------------------------------------------------------
(* ooo_execute. *)

\* The last of some ready stations is one of them.
LEMMA LastOf ==
  ASSUME NEW S \in SUBSET Stations, S # {}
  PROVE  Max(S) \in S /\ \A i \in S : i <= Max(S)
<1>1. MAX_RS - 1 \in Nat /\ S \in SUBSET (0 .. MAX_RS - 1)
  BY OooAssumption DEF Stations
<1> QED
  BY <1>1, MaxIs

\* The store a load in a station reads is a number.
LEMMA StoreBeforeTyped ==
  ASSUME NEW p \in Processor, NEW i
  PROVE  StoreBefore(p, i) \in Value
<1> DEFINE stores == {k \in Ready(p) : k < i /\ p.rs[k].op = "SW"}
<1>1. StoreBefore(p, i) = IF stores = {} THEN p.memory ELSE p.rs[Max(stores)].n
  BY DEF StoreBefore
<1>2. stores \in SUBSET Stations /\ \A k \in stores : p.rs[k].busy
  BY DEF Ready
<1> HIDE DEF stores
<1>3. p.memory \in Value /\ p.rs \in [Stations -> {FreeStation} \cup BusyStation]
  BY ProcessorFields
<1>4. CASE stores = {}
  BY <1>1, <1>3, <1>4
<1>5. CASE stores # {}
  <2>1. Max(stores) \in Stations /\ p.rs[Max(stores)].busy
    BY <1>2, <1>5, LastOf
  <2>2. p.rs[Max(stores)].n \in Number
    BY <1>3, <2>1, StationFields
  <2> QED
    BY <1>1, <1>5, <2>2, OooAssumption DEF Number, Value
<1> QED
  BY <1>4, <1>5

\* The fields of a processor whose ready stations have completed.
LEMMA ExecuteFields ==
  ASSUME NEW p \in Processor, Ready(p) # {}
  PROVE  /\ Execute(p).cdb = [valid |-> TRUE, tag |-> LastReady(p).dest, value |-> LastReady(p).n]
         /\ Execute(p).memory = StoreBefore(p, MAX_RS) /\ Execute(p).rs = StationsExecuted(p)
         /\ Execute(p).rob = p.rob /\ Execute(p).reg_status = p.reg_status
         /\ Execute(p).registers = p.registers /\ Execute(p).rob_head = p.rob_head
         /\ Execute(p).rob_tail = p.rob_tail /\ Execute(p).rob_count = p.rob_count
<1> DEFINE a == [valid |-> TRUE, tag |-> LastReady(p).dest, value |-> LastReady(p).n]
           b == StoreBefore(p, MAX_RS)
           c == StationsExecuted(p)
           g == [p EXCEPT !.cdb = a, !.memory = b, !.rs = c]
<1> HIDE DEF a, b, c
<1>1. /\ g.cdb = a /\ g.memory = b /\ g.rs = c /\ g.rob = p.rob /\ g.reg_status = p.reg_status
      /\ g.registers = p.registers /\ g.rob_head = p.rob_head /\ g.rob_tail = p.rob_tail
      /\ g.rob_count = p.rob_count
  BY DEF Processor
<1>2. Execute(p) = g
  BY ExecuteIs DEF a, b, c
<1> HIDE DEF g
<1> QED
  BY <1>1, <1>2 DEF a, b, c

\* The last station to complete leaves its result on the bus; those that are ready are free.
LEMMA ExecuteEffect ==
  ASSUME NEW p \in Processor, Ready(p) # {}
  PROVE  /\ Max(Ready(p)) \in Ready(p) /\ Max(Ready(p)) \in Stations
         /\ LastReady(p) = p.rs[Max(Ready(p))] /\ LastReady(p) \in BusyStation
         /\ Execute(p).cdb.valid /\ Execute(p).cdb.tag = LastReady(p).dest
         /\ Execute(p).cdb.value = LastReady(p).n
         /\ \A i \in Stations : /\ i \in Ready(p) => ~Execute(p).rs[i].busy
                                /\ i \notin Ready(p) => Execute(p).rs[i] = p.rs[i]
<1>1. Max(Ready(p)) \in Ready(p) /\ Max(Ready(p)) \in Stations /\ p.rs[Max(Ready(p))].busy
  <2>1. Ready(p) \in SUBSET Stations
    BY DEF Ready
  <2>2. Max(Ready(p)) \in Ready(p)
    BY <2>1, LastOf
  <2> QED
    BY <2>1, <2>2 DEF Ready
<1>2. LastReady(p) = p.rs[Max(Ready(p))] /\ LastReady(p) \in BusyStation
  BY <1>1, ProcessorFields, StationFields DEF LastReady
<1>3. Execute(p).cdb.valid /\ Execute(p).cdb.tag = LastReady(p).dest
      /\ Execute(p).cdb.value = LastReady(p).n
  <2> DEFINE x == LastReady(p).dest
             y == LastReady(p).n
             c == Execute(p).cdb
  <2>1. c = [valid |-> TRUE, tag |-> x, value |-> y]
    BY ExecuteFields
  <2> HIDE DEF x, y, c
  <2>2. c.valid = TRUE /\ c.tag = x /\ c.value = y
    BY <2>1
  <2> QED
    BY <2>2 DEF x, y, c
<1>4. \A i \in Stations : /\ i \in Ready(p) => ~Execute(p).rs[i].busy
                          /\ i \notin Ready(p) => Execute(p).rs[i] = p.rs[i]
  <2>1. ~FreeStation.busy
    BY DEF FreeStation
  <2> QED
    BY <2>1, ExecuteFields DEF StationsExecuted
<1> QED
  BY <1>1, <1>2, <1>3, <1>4

\* ooo_execute keeps the types.
LEMMA ExecuteTyped ==
  ASSUME NEW p \in Processor, Ready(p) # {}
  PROVE  Execute(p) \in Processor
<1> DEFINE a == [valid |-> TRUE, tag |-> LastReady(p).dest, value |-> LastReady(p).n]
           b == StoreBefore(p, MAX_RS)
           c == StationsExecuted(p)
<1>1. a \in Bus
  <2>1. LastReady(p).dest \in Entries /\ LastReady(p).n \in Number
    BY ExecuteEffect DEF BusyStation
  <2>2. LastReady(p).n \in Value
    BY <2>1, OooAssumption DEF Number, Value
  <2> QED
    BY <2>1, <2>2 DEF Bus
<1>2. b \in Value
  BY StoreBeforeTyped
<1>3. c \in [Stations -> {FreeStation} \cup BusyStation]
  BY ProcessorFields DEF StationsExecuted
<1>4. Execute(p) = [p EXCEPT !.cdb = a, !.memory = b, !.rs = c]
  BY ExecuteIs
<1> HIDE DEF a, b, c
<1>5. [p EXCEPT !.cdb = a, !.memory = b, !.rs = c] \in Processor
  BY <1>1, <1>2, <1>3 DEF Processor
<1> QED
  BY <1>4, <1>5

\* ooo_execute keeps the ring, the stations and the renaming right.
LEMMA ExecuteCore ==
  ASSUME NEW p, NEW len \in Nat, Core(p, len)
  PROVE  Core(Execute(p), len)
<1>0. p \in Processor /\ Ring(p, len) /\ Stationed(p) /\ OnBus(p) /\ RenamedRight(p)
  BY DEF Core
<1>1. CASE Ready(p) = {}
  <2>1. Execute(p) = p
    BY <1>1 DEF Execute
  <2> QED
    BY <2>1
<1>2. CASE Ready(p) # {}
  <2> DEFINE g == Execute(p)
             e == Max(Ready(p))
  <2>1. /\ g.rob = p.rob /\ g.reg_status = p.reg_status
        /\ g.rob_head = p.rob_head /\ g.rob_tail = p.rob_tail /\ g.rob_count = p.rob_count
    BY <1>0, <1>2, ExecuteFields
  <2>2. /\ e \in Ready(p) /\ e \in Stations /\ p.rs[e].busy
        /\ g.cdb.valid /\ g.cdb.tag = p.rs[e].dest /\ g.cdb.value = p.rs[e].n
        /\ \A i \in Stations : /\ i \in Ready(p) => ~g.rs[i].busy
                               /\ i \notin Ready(p) => g.rs[i] = p.rs[i]
    BY <1>0, <1>2, ExecuteEffect DEF Ready
  <2>3. g \in Processor
    BY <1>0, <1>2, ExecuteTyped
  <2> HIDE DEF g, e
  <2>4. \A m : Entry(g, m) = Entry(p, m)
    BY <2>1 DEF Entry
  <2>5. \A k : Unfinished(g, k) <=> Unfinished(p, k)
    BY <2>1 DEF Unfinished
  <2>6. Ring(g, len)
    BY <1>0, <2>1, <2>4 DEF Ring
  <2>7. Stationed(g)
    <3>1. \A o, n : WaitsRight(g, o, n) <=> WaitsRight(p, o, n)
      BY <2>1, <2>5 DEF WaitsRight
    <3>2. \A i \in Stations : g.rs[i].busy => p.rs[i].busy /\ g.rs[i] = p.rs[i]
      BY <2>2
    <3> QED
      BY <1>0, <2>1, <2>5, <3>1, <3>2 DEF Stationed
  <2>8. OnBus(g)
    <3>1. Unfinished(p, p.rs[e].dest) /\ p.rob[p.rs[e].dest].n = p.rs[e].n
      BY <1>0, <2>2 DEF Stationed
    <3>2. \A i \in Stations : g.rs[i].busy => g.rs[i].dest # p.rs[e].dest
      BY <1>0, <2>2 DEF Stationed
    <3> QED
      BY <2>1, <2>2, <2>5, <3>1, <3>2 DEF OnBus
  <2>9. RenamedRight(g)
    BY <1>0, <2>1, <2>5 DEF RenamedRight
  <2> QED
    BY <2>3, <2>6, <2>7, <2>8, <2>9 DEF Core, g
<1> QED
  BY <1>1, <1>2
--------------------------------------------------------------------------------
(* ooo_commit. *)

\* As many entries as ooo_commit retires are finished.
LEMMA CommitsIs ==
  ASSUME NEW p \in Processor
  PROVE  /\ Commits(p) \in 0 .. p.rob_count
         /\ \A l \in 0 .. Commits(p) - 1 :
               Entry(p, l) \in Entries /\ p.rob[Entry(p, l)].busy /\ p.rob[Entry(p, l)].ready
<1> DEFINE S == {m \in 0 .. p.rob_count :
                   \A l \in 0 .. m - 1 : p.rob[Entry(p, l)].busy /\ p.rob[Entry(p, l)].ready}
<1>1. p.rob_head \in Entries /\ p.rob_count \in 0 .. MAX_ROB /\ MAX_ROB \in Nat
  BY ProcessorFields, OooAssumption
<1>2. 0 \in S /\ S \in SUBSET (0 .. p.rob_count)
  BY <1>1
<1>3. Commits(p) = Max(S)
  BY DEF Commits
<1>4. Max(S) \in S
  <2> HIDE DEF S
  <2>1. p.rob_count \in Nat /\ S # {}
    BY <1>1, <1>2
  <2> QED
    BY <1>2, <2>1, MaxIs
<1>5. /\ Commits(p) \in 0 .. p.rob_count
      /\ \A l \in 0 .. Commits(p) - 1 : p.rob[Entry(p, l)].busy /\ p.rob[Entry(p, l)].ready
  BY <1>3, <1>4
<1>6. \A l \in 0 .. Commits(p) - 1 : Entry(p, l) \in Entries
  BY <1>1, <1>5, EntryIs
<1> QED
  BY <1>5, <1>6

\* The fields of a processor after ooo_commit.
LEMMA CommitFields ==
  ASSUME NEW p \in Processor
  PROVE  /\ Commit(p).registers = RegistersCommitted(p) /\ Commit(p).rob = RobCommitted(p)
         /\ Commit(p).rob_head = (p.rob_head + Commits(p)) % MAX_ROB
         /\ Commit(p).rob_count = p.rob_count - Commits(p)
         /\ Commit(p).rs = p.rs /\ Commit(p).reg_status = p.reg_status /\ Commit(p).cdb = p.cdb
         /\ Commit(p).memory = p.memory /\ Commit(p).rob_tail = p.rob_tail
<1> DEFINE a == RegistersCommitted(p)
           b == RobCommitted(p)
           c == (p.rob_head + Commits(p)) % MAX_ROB
           d == p.rob_count - Commits(p)
           g == [p EXCEPT !.registers = a, !.rob = b, !.rob_head = c, !.rob_count = d]
<1> HIDE DEF a, b, c, d
<1>1. /\ g.registers = a /\ g.rob = b /\ g.rob_head = c /\ g.rob_count = d
      /\ g.rs = p.rs /\ g.reg_status = p.reg_status /\ g.cdb = p.cdb
      /\ g.memory = p.memory /\ g.rob_tail = p.rob_tail
  BY DEF Processor
<1>2. Commit(p) = g
  BY CommitIs DEF a, b, c, d
<1> HIDE DEF g
<1> QED
  BY <1>1, <1>2 DEF a, b, c, d

\* An entry is retired, finished as it was, or stays as it is.
LEMMA CommitEntries ==
  ASSUME NEW p \in Processor, NEW k \in Entries
  PROVE  IF \E l \in 0 .. Commits(p) - 1 : k = Entry(p, l)
         THEN ~Commit(p).rob[k].busy /\ p.rob[k].busy /\ p.rob[k].ready
         ELSE Commit(p).rob[k] = p.rob[k]
<1>1. Commit(p).rob[k] = IF \E l \in 0 .. Commits(p) - 1 : k = Entry(p, l) THEN FreeEntry
                         ELSE p.rob[k]
  BY CommitFields DEF RobCommitted
<1>2. ~FreeEntry.busy
  BY DEF FreeEntry
<1> QED
  BY <1>1, <1>2, CommitsIs

\* The last of the retired entries that write a register is finished.
LEMMA RetiringIs ==
  ASSUME NEW p \in Processor, NEW r \in Registers, Retiring(p, r) # {}
  PROVE  /\ Max(Retiring(p, r)) \in Retiring(p, r) /\ r # 0
         /\ \A l \in Retiring(p, r) : l <= Max(Retiring(p, r))
         /\ Max(Retiring(p, r)) \in 0 .. Commits(p) - 1
         /\ Entry(p, Max(Retiring(p, r))) \in Entries
         /\ p.rob[Entry(p, Max(Retiring(p, r)))].busy /\ p.rob[Entry(p, Max(Retiring(p, r)))].ready
         /\ p.rob[Entry(p, Max(Retiring(p, r)))].rd = r
         /\ ~p.rob[Entry(p, Max(Retiring(p, r)))].is_store
<1> DEFINE S == Retiring(p, r)
           m == Max(S)
<1>1. S \in SUBSET (0 .. Commits(p) - 1) /\ r # 0
      /\ \A l \in S : p.rob[Entry(p, l)].rd = r /\ ~p.rob[Entry(p, l)].is_store
  BY DEF Retiring
<1>2. Commits(p) \in Nat
  BY CommitsIs, ProcessorFields, OooAssumption
<1> HIDE DEF S
<1>3. m \in S /\ \A l \in S : l <= m
  <2>1. S # {}
    BY DEF S
  <2>2. S \in SUBSET (0 .. Commits(p))
    BY <1>1, <1>2
  <2> QED
    BY <1>2, <2>1, <2>2, MaxIs
<1> HIDE DEF m
<1>4. m \in 0 .. Commits(p) - 1 /\ p.rob[Entry(p, m)].rd = r /\ ~p.rob[Entry(p, m)].is_store
  BY <1>1, <1>3
<1>5. Entry(p, m) \in Entries /\ p.rob[Entry(p, m)].busy /\ p.rob[Entry(p, m)].ready
  BY <1>4, CommitsIs
<1> QED
  BY <1>1, <1>3, <1>4, <1>5 DEF m, S

\* What ooo_commit does to the registers.
LEMMA CommitRegisters ==
  ASSUME NEW p \in Processor, NEW r \in Registers
  PROVE  Commit(p).registers[r] = IF Retiring(p, r) = {} THEN p.registers[r]
                                  ELSE p.rob[Entry(p, Max(Retiring(p, r)))].value
  BY CommitFields DEF RegistersCommitted

\* ooo_commit keeps the types.
LEMMA CommitTyped ==
  ASSUME NEW p \in Processor
  PROVE  Commit(p) \in Processor
<1> DEFINE a == RegistersCommitted(p)
           b == RobCommitted(p)
           c == (p.rob_head + Commits(p)) % MAX_ROB
           d == p.rob_count - Commits(p)
<1>1. a \in [Registers -> Value]
  <2>1. p.registers \in [Registers -> Value] /\ p.rob \in [Entries -> {FreeEntry} \cup BusyEntry]
    BY ProcessorFields
  <2>2. \A r \in Registers : Retiring(p, r) # {} =>
           p.rob[Entry(p, Max(Retiring(p, r)))].value \in Value
    BY <2>1, RetiringIs, EntryFields
  <2> QED
    BY <2>1, <2>2 DEF RegistersCommitted
<1>2. b \in [Entries -> {FreeEntry} \cup BusyEntry]
  <2>1. p.rob \in [Entries -> {FreeEntry} \cup BusyEntry]
    BY ProcessorFields
  <2> QED
    BY <2>1 DEF RobCommitted
<1>3. c \in Entries /\ d \in 0 .. MAX_ROB
  <2>1. p.rob_head \in Entries /\ p.rob_count \in 0 .. MAX_ROB /\ MAX_ROB \in Nat
    BY ProcessorFields, OooAssumption
  <2>2. Commits(p) \in 0 .. p.rob_count
    BY CommitsIs
  <2>3. Commits(p) \in 0 .. MAX_ROB /\ d \in 0 .. MAX_ROB
    BY <2>1, <2>2
  <2>4. c = Entry(p, Commits(p))
    BY DEF Entry
  <2> QED
    BY <2>1, <2>3, <2>4, EntryIs
<1>4. Commit(p) = [p EXCEPT !.registers = a, !.rob = b, !.rob_head = c, !.rob_count = d]
  BY CommitIs
<1> HIDE DEF a, b, c, d
<1>5. [p EXCEPT !.registers = a, !.rob = b, !.rob_head = c, !.rob_count = d] \in Processor
  BY <1>1, <1>2, <1>3 DEF Processor
<1> QED
  BY <1>4, <1>5

\* ooo_commit keeps the ring, the stations and the renaming right.
LEMMA CommitCore ==
  ASSUME NEW p, NEW len \in Nat, Core(p, len)
  PROVE  Core(Commit(p), len)
<1>0. p \in Processor /\ Ring(p, len) /\ Stationed(p) /\ OnBus(p) /\ RenamedRight(p)
  BY DEF Core
<1> DEFINE g == Commit(p)
           c == Commits(p)
<1>1. /\ g.rs = p.rs /\ g.reg_status = p.reg_status /\ g.cdb = p.cdb /\ g.rob_tail = p.rob_tail
      /\ g.rob_head = (p.rob_head + c) % MAX_ROB /\ g.rob_count = p.rob_count - c
  BY <1>0, CommitFields
<1>2. g \in Processor
  BY <1>0, CommitTyped
<1>3. /\ c \in 0 .. p.rob_count /\ p.rob_count \in 0 .. MAX_ROB /\ MAX_ROB \in Nat
      /\ p.rob_head \in Entries
  BY <1>0, CommitsIs, ProcessorFields, OooAssumption
<1>4. \A k \in Entries : IF \E l \in 0 .. c - 1 : k = Entry(p, l)
                         THEN ~g.rob[k].busy /\ p.rob[k].busy /\ p.rob[k].ready
                         ELSE g.rob[k] = p.rob[k]
  BY <1>0, CommitEntries
<1> HIDE DEF g, c
<1>5. \A k \in Entries : Unfinished(p, k) => Unfinished(g, k) /\ g.rob[k] = p.rob[k]
  BY <1>4 DEF Unfinished
<1>6. Ring(g, len)
  <2>1. c \in 0 .. MAX_ROB
    BY <1>3
  <2>2. \A m \in 0 .. MAX_ROB - c : Entry(g, m) = Entry(p, c + m)
    BY <1>1, <1>3, <2>1, EntryShifted
  <2>3. g.rob_count \in 0 .. MAX_ROB - c /\ c + g.rob_count = p.rob_count
    BY <1>1, <1>3
  <2>4. g.rob_tail = Entry(g, g.rob_count) /\ g.rob_count <= len
    <3>1. Entry(g, g.rob_count) = Entry(p, p.rob_count)
      BY <2>2, <2>3
    <3> QED
      BY <1>0, <1>1, <1>3, <3>1 DEF Ring
  <2>5. \A m \in 0 .. g.rob_count - 1 :
           /\ Entry(g, m) = Entry(p, c + m) /\ c + m \in c .. p.rob_count - 1
           /\ Entry(g, m) \in Entries
    BY <1>3, <2>2, <2>3, EntryIs
  <2>6. \A m \in 0 .. g.rob_count - 1 : g.rob[Entry(g, m)] = p.rob[Entry(g, m)]
    <3> TAKE m \in 0 .. g.rob_count - 1
    <3>1. \A l \in 0 .. c - 1 : Entry(p, c + m) # Entry(p, l)
      <4> TAKE l \in 0 .. c - 1
      <4>1. l \in 0 .. MAX_ROB - 1 /\ c + m \in 0 .. MAX_ROB - 1 /\ l # c + m
        BY <1>3, <2>5
      <4> QED
        BY <1>3, <4>1, EntriesApart
    <3> QED
      BY <1>4, <2>5, <3>1
  <2>7. \A m \in 0 .. g.rob_count - 1 : /\ g.rob[Entry(g, m)].busy
                                        /\ g.rob[Entry(g, m)].n = len - g.rob_count + m + 1
    <3> TAKE m \in 0 .. g.rob_count - 1
    <3>1. c + m \in 0 .. p.rob_count - 1
      BY <1>3, <2>5
    <3>2. p.rob[Entry(p, c + m)].busy /\ p.rob[Entry(p, c + m)].n = len - p.rob_count + (c + m) + 1
      BY <1>0, <2>5, <3>1 DEF Ring
    <3>3. len - p.rob_count + (c + m) + 1 = len - g.rob_count + m + 1
      BY <1>3, <2>3
    <3> QED
      BY <2>5, <2>6, <3>2, <3>3
  <2>8. \A k \in Entries : g.rob[k].busy => \E m \in 0 .. g.rob_count - 1 : k = Entry(g, m)
    <3> TAKE k \in Entries
    <3> HAVE g.rob[k].busy
    <3>1. g.rob[k] = p.rob[k] /\ ~\E l \in 0 .. c - 1 : k = Entry(p, l)
      BY <1>4
    <3>2. PICK i \in 0 .. p.rob_count - 1 : k = Entry(p, i)
      BY <1>0, <3>1 DEF Ring
    <3>3. i - c \in 0 .. g.rob_count - 1 /\ c + (i - c) = i
      BY <1>3, <2>3, <3>1, <3>2
    <3> QED
      BY <2>5, <3>2, <3>3
  <2> QED
    BY <2>4, <2>7, <2>8 DEF Ring
<1>7. Stationed(g)
  <2>1. p.rs \in [Stations -> {FreeStation} \cup BusyStation]
    BY <1>0, ProcessorFields
  <2>2. \A o \in OperandType : \A n : WaitsRight(p, o, n) => WaitsRight(g, o, n)
    BY <1>5, OperandFields DEF WaitsRight
  <2>3. \A i \in Stations : p.rs[i].busy =>
           p.rs[i].dest \in Entries /\ p.rs[i].j \in OperandType /\ p.rs[i].k \in OperandType
    BY <2>1, StationFields
  <2> QED
    BY <1>0, <1>1, <1>5, <2>2, <2>3 DEF Stationed
<1>8. OnBus(g)
  <2>1. p.cdb.tag \in Entries
    BY <1>0, ProcessorFields DEF Bus
  <2> QED
    BY <1>0, <1>1, <1>5, <2>1 DEF OnBus
<1>9. RenamedRight(g)
  <2>1. \A k \in Entries : g.rob[k].busy /\ g.rob[k].ready => g.rob[k].value = g.rob[k].n
    BY <1>0, <1>4 DEF RenamedRight
  <2> QED
    BY <1>0, <1>1, <1>5, <2>1 DEF RenamedRight
<1> QED
  BY <1>2, <1>6, <1>7, <1>8, <1>9 DEF Core, g
--------------------------------------------------------------------------------
(* ooo_issue. *)

\* The first free station is one.
LEMMA FirstFreeIs ==
  ASSUME NEW p, CanIssue(p)
  PROVE  FirstFree(p) \in Stations /\ ~p.rs[FirstFree(p)].busy
<1> DEFINE T == {i \in Stations : ~p.rs[i].busy}
<1>1. T \in SUBSET Nat /\ T # {}
  BY OooAssumption DEF CanIssue, Stations
<1>2. PICK m \in T : \A i \in T : m <= i
  <2> HIDE DEF T
  <2> QED
    BY <1>1, LeastElement
<1>3. Min(T) \in T
  BY <1>2 DEF Min
<1> QED
  BY <1>3 DEF FirstFree

\* The fields of a processor after ooo_issue.
LEMMA IssueFields ==
  ASSUME NEW p \in Processor, NEW inst \in Instructions, NEW n \in Number
  PROVE  /\ Issue(p, inst, n).rs = [p.rs EXCEPT ![FirstFree(p)] = StationIssued(p, inst, n)]
         /\ Issue(p, inst, n).rob = [p.rob EXCEPT ![p.rob_tail] = EntryIssued(inst, n)]
         /\ Issue(p, inst, n).reg_status = Renamed(p, inst.rd)
         /\ Issue(p, inst, n).rob_tail = (p.rob_tail + 1) % MAX_ROB
         /\ Issue(p, inst, n).rob_count = p.rob_count + 1
         /\ Issue(p, inst, n).rob_head = p.rob_head /\ Issue(p, inst, n).cdb = p.cdb
         /\ Issue(p, inst, n).registers = p.registers /\ Issue(p, inst, n).memory = p.memory
<1> DEFINE a == [p.rs EXCEPT ![FirstFree(p)] = StationIssued(p, inst, n)]
           b == [p.rob EXCEPT ![p.rob_tail] = EntryIssued(inst, n)]
           c == Renamed(p, inst.rd)
           d == (p.rob_tail + 1) % MAX_ROB
           e == p.rob_count + 1
           g == [p EXCEPT !.rs = a, !.rob = b, !.reg_status = c, !.rob_tail = d, !.rob_count = e]
<1> HIDE DEF a, b, c, d, e
<1>1. /\ g.rs = a /\ g.rob = b /\ g.reg_status = c /\ g.rob_tail = d /\ g.rob_count = e
      /\ g.rob_head = p.rob_head /\ g.cdb = p.cdb
      /\ g.registers = p.registers /\ g.memory = p.memory
  BY DEF Processor
<1>2. Issue(p, inst, n) = g
  BY IssueIs DEF a, b, c, d, e
<1> HIDE DEF g
<1> QED
  BY <1>1, <1>2 DEF a, b, c, d, e

\* The operand of a register: its value, or the entry that will write it.
LEMMA OperandIs ==
  ASSUME NEW p \in Processor, NEW r \in Registers, RenamedRight(p)
  PROVE  /\ Operand(p, r) \in OperandType
         /\ Operand(p, r).wait <=> ~p.reg_status[r].ready
         /\ Operand(p, r).v = IF p.reg_status[r].ready THEN p.registers[r] ELSE p.reg_status[r].rob_num
<1>1. p.reg_status[0].ready /\ (~p.reg_status[r].ready => p.reg_status[r].rob_num \in Entries)
  BY DEF RenamedRight
<1>2. p.registers[r] \in Value /\ p.reg_status[r].ready \in BOOLEAN
  BY ProcessorFields DEF RegStatus
<1>3. CASE p.reg_status[r].ready
  <2>1. Operand(p, r) = [wait |-> FALSE, v |-> p.registers[r]]
    BY <1>3 DEF Operand
  <2>2. Operand(p, r) \in OperandType /\ Operand(p, r).wait = FALSE /\ Operand(p, r).v = p.registers[r]
    BY <1>2, <2>1 DEF OperandType, Value
  <2> QED
    BY <1>3, <2>2
<1>4. CASE ~p.reg_status[r].ready
  <2>1. Operand(p, r) = [wait |-> TRUE, v |-> p.reg_status[r].rob_num]
    BY <1>1, <1>4 DEF Operand
  <2>2. /\ Operand(p, r) \in OperandType /\ Operand(p, r).wait = TRUE
        /\ Operand(p, r).v = p.reg_status[r].rob_num
    BY <1>1, <1>4, <2>1 DEF OperandType
  <2> QED
    BY <1>4, <2>2
<1> QED
  BY <1>3, <1>4

\* The fields of the station and of the entry that ooo_issue fills.
LEMMA IssuedIs ==
  ASSUME NEW p \in Processor, NEW inst \in Instructions, NEW n \in Number, RenamedRight(p)
  PROVE  /\ inst.rd \in Registers /\ inst.rs1 \in Registers /\ inst.rs2 \in Registers
         /\ inst.is_store \in BOOLEAN
         /\ StationIssued(p, inst, n) \in BusyStation
         /\ StationIssued(p, inst, n).busy /\ StationIssued(p, inst, n).n = n
         /\ StationIssued(p, inst, n).dest = p.rob_tail
         /\ StationIssued(p, inst, n).j = Operand(p, inst.rs1)
         /\ StationIssued(p, inst, n).k = Operand(p, inst.rs2)
         /\ StationIssued(p, inst, n).op = "SW" <=> inst.is_store
         /\ EntryIssued(inst, n) \in BusyEntry
         /\ EntryIssued(inst, n).busy /\ ~EntryIssued(inst, n).ready
         /\ EntryIssued(inst, n).rd = inst.rd /\ EntryIssued(inst, n).n = n
         /\ EntryIssued(inst, n).is_store = inst.is_store
<1>1. /\ inst.rd \in Registers /\ inst.rs1 \in Registers /\ inst.rs2 \in Registers
      /\ inst.is_store \in BOOLEAN
  BY OooAssumption
<1> DEFINE a == Operand(p, inst.rs1)
           b == Operand(p, inst.rs2)
           o == IF inst.is_store THEN "SW" ELSE IF inst.is_load THEN "LW" ELSE "ALU"
           x == [busy |-> TRUE, j |-> a, k |-> b, dest |-> p.rob_tail, n |-> n, op |-> o]
           y == [busy |-> TRUE, ready |-> FALSE, rd |-> inst.rd, is_store |-> inst.is_store,
                 value |-> 0, n |-> n]
<1>2. /\ a \in OperandType /\ b \in OperandType /\ p.rob_tail \in Entries /\ 0 \in Value
      /\ o \in {"ALU", "LW", "SW"} /\ (o = "SW" <=> inst.is_store)
  BY <1>1, OperandIs, ProcessorFields, OooAssumption DEF Value
<1>3. StationIssued(p, inst, n) = x /\ EntryIssued(inst, n) = y
  BY DEF StationIssued, EntryIssued
<1> HIDE DEF a, b, o
<1>4. /\ x \in BusyStation /\ x.busy = TRUE /\ x.n = n /\ x.dest = p.rob_tail /\ x.j = a /\ x.k = b
      /\ x.op = o
  BY <1>2 DEF BusyStation
<1>5. /\ y \in BusyEntry /\ y.busy = TRUE /\ y.ready = FALSE /\ y.rd = inst.rd /\ y.n = n
      /\ y.is_store = inst.is_store
  BY <1>1, <1>2 DEF BusyEntry
<1> HIDE DEF x, y
<1>6. x.busy /\ y.busy /\ ~y.ready
  BY <1>4, <1>5
<1> QED
  BY <1>1, <1>2, <1>3, <1>4, <1>5, <1>6 DEF a, b

\* What ooo_issue does to the stations, the entries and the registers, one by one.
LEMMA IssueEffect ==
  ASSUME NEW p \in Processor, NEW inst \in Instructions, NEW n \in Number,
         RenamedRight(p), CanIssue(p)
  PROVE  /\ FirstFree(p) \in Stations /\ ~p.rs[FirstFree(p)].busy /\ p.rob_tail \in Entries
         /\ Issue(p, inst, n).rs[FirstFree(p)] = StationIssued(p, inst, n)
         /\ \A i \in Stations \ {FirstFree(p)} : Issue(p, inst, n).rs[i] = p.rs[i]
         /\ Issue(p, inst, n).rob[p.rob_tail] = EntryIssued(inst, n)
         /\ \A k \in Entries \ {p.rob_tail} : Issue(p, inst, n).rob[k] = p.rob[k]
         /\ \A r \in Registers :
               IF r # 0 /\ r = inst.rd
               THEN /\ Issue(p, inst, n).reg_status[r].rob_num = p.rob_tail
                    /\ ~Issue(p, inst, n).reg_status[r].ready
               ELSE Issue(p, inst, n).reg_status[r] = p.reg_status[r]
<1>1. /\ p.rs \in [Stations -> {FreeStation} \cup BusyStation] /\ p.rob_tail \in Entries
      /\ p.rob \in [Entries -> {FreeEntry} \cup BusyEntry] /\ p.reg_status \in [Registers -> RegStatus]
  BY ProcessorFields
<1>2. FirstFree(p) \in Stations /\ ~p.rs[FirstFree(p)].busy
  BY FirstFreeIs
<1> DEFINE x == StationIssued(p, inst, n)
           y == EntryIssued(inst, n)
           f == FirstFree(p)
           g == Issue(p, inst, n)
<1>3. /\ g.rs = [p.rs EXCEPT ![f] = x] /\ g.rob = [p.rob EXCEPT ![p.rob_tail] = y]
      /\ g.reg_status = Renamed(p, inst.rd)
  BY IssueFields, Zenon
<1>4. \A r \in Registers :
         IF r # 0 /\ r = inst.rd
         THEN /\ g.reg_status[r].rob_num = p.rob_tail /\ ~g.reg_status[r].ready
         ELSE g.reg_status[r] = p.reg_status[r]
  <2> DEFINE z == [rob_num |-> p.rob_tail, ready |-> FALSE]
  <2>1. z.rob_num = p.rob_tail /\ ~z.ready
    OBVIOUS
  <2>2. g.reg_status = IF inst.rd = 0 THEN p.reg_status ELSE [p.reg_status EXCEPT ![inst.rd] = z]
    BY <1>3 DEF Renamed
  <2> HIDE DEF z, g
  <2> QED
    BY <1>1, <2>1, <2>2
<1> HIDE DEF x, y, f, g
<1>5. /\ g.rs[f] = x /\ \A i \in Stations \ {f} : g.rs[i] = p.rs[i]
      /\ g.rob[p.rob_tail] = y /\ \A k \in Entries \ {p.rob_tail} : g.rob[k] = p.rob[k]
  BY <1>1, <1>2, <1>3 DEF f
<1> QED
  BY <1>1, <1>2, <1>4, <1>5 DEF x, y, f, g

\* ooo_issue keeps the types.
LEMMA IssueTyped ==
  ASSUME NEW p \in Processor, NEW inst \in Instructions, NEW n \in Number,
         RenamedRight(p), CanIssue(p)
  PROVE  Issue(p, inst, n) \in Processor
<1> DEFINE a == [p.rs EXCEPT ![FirstFree(p)] = StationIssued(p, inst, n)]
           b == [p.rob EXCEPT ![p.rob_tail] = EntryIssued(inst, n)]
           c == Renamed(p, inst.rd)
           d == (p.rob_tail + 1) % MAX_ROB
           e == p.rob_count + 1
<1>1. /\ p.rs \in [Stations -> {FreeStation} \cup BusyStation] /\ p.rob_tail \in Entries
      /\ p.rob \in [Entries -> {FreeEntry} \cup BusyEntry] /\ p.reg_status \in [Registers -> RegStatus]
      /\ p.rob_count \in 0 .. MAX_ROB /\ MAX_ROB \in Nat \ {0}
  BY ProcessorFields, OooAssumption
<1>2. a \in [Stations -> {FreeStation} \cup BusyStation]
  BY <1>1, FirstFreeIs, IssuedIs
<1>3. b \in [Entries -> {FreeEntry} \cup BusyEntry]
  BY <1>1, IssuedIs
<1>4. c \in [Registers -> RegStatus]
  <2>1. [rob_num |-> p.rob_tail, ready |-> FALSE] \in RegStatus
    BY <1>1 DEF RegStatus
  <2> QED
    BY <1>1, <2>1 DEF Renamed
<1>5. d \in Entries /\ e \in 0 .. MAX_ROB
  <2>1. d \in 0 .. MAX_ROB - 1
    <3> DEFINE x == p.rob_tail + 1
    <3>1. x \in 0 .. 2 * MAX_ROB - 1 /\ x \in Nat /\ x <= MAX_ROB
      BY <1>1 DEF Entries
    <3>2. x % MAX_ROB = IF x < MAX_ROB THEN x ELSE x - MAX_ROB
      <4> HIDE DEF x
      <4> QED
        BY <1>1, <3>1, RemainderIs
    <3> QED
      BY <1>1, <3>1, <3>2
  <2> QED
    BY <1>1, <2>1 DEF Entries, CanIssue
<1>6. Issue(p, inst, n) = [p EXCEPT !.rs = a, !.rob = b, !.reg_status = c, !.rob_tail = d, !.rob_count = e]
  BY IssueIs
<1> HIDE DEF a, b, c, d, e
<1>7. [p EXCEPT !.rs = a, !.rob = b, !.reg_status = c, !.rob_tail = d, !.rob_count = e] \in Processor
  BY <1>2, <1>3, <1>4, <1>5 DEF Processor
<1> QED
  BY <1>6, <1>7

\* The entry behind the last is free.
LEMMA TailFree ==
  ASSUME NEW p \in Processor, NEW len \in Nat, Ring(p, len), p.rob_count < MAX_ROB
  PROVE  ~p.rob[p.rob_tail].busy
<1>1. p.rob_head \in Entries /\ p.rob_count \in 0 .. MAX_ROB - 1 /\ MAX_ROB \in Nat
      /\ p.rob_tail \in Entries
  BY ProcessorFields, OooAssumption
<1>2. \A m \in 0 .. p.rob_count - 1 : p.rob_tail # Entry(p, m)
  <2> TAKE m \in 0 .. p.rob_count - 1
  <2>1. m \in 0 .. MAX_ROB - 1 /\ m # p.rob_count
    BY <1>1
  <2> QED
    BY <1>1, <2>1, EntriesApart DEF Ring
<1> QED
  BY <1>1, <1>2 DEF Ring

\* ooo_issue keeps the ring, the stations and the renaming right.
LEMMA IssueCore ==
  ASSUME NEW p, NEW len \in Nat, Core(p, len), NEW inst \in Instructions, CanIssue(p),
         len < MaxIssued
  PROVE  Core(Issue(p, inst, len + 1), len + 1)
<1>0. p \in Processor /\ Ring(p, len) /\ Stationed(p) /\ OnBus(p) /\ RenamedRight(p)
  BY DEF Core
<1>1. len + 1 \in Number /\ p.rob_count \in 0 .. MAX_ROB - 1 /\ MAX_ROB \in Nat /\ p.rob_head \in Entries
  BY <1>0, ProcessorFields, OooAssumption DEF Number, CanIssue
<1> DEFINE g == Issue(p, inst, len + 1)
           f == FirstFree(p)
           t == p.rob_tail
           n == len + 1
           rd == inst.rd
<1>2. /\ f \in Stations /\ ~p.rs[f].busy /\ t \in Entries
      /\ \A i \in Stations \ {f} : g.rs[i] = p.rs[i]
      /\ \A k \in Entries \ {t} : g.rob[k] = p.rob[k]
      /\ \A r \in Registers :
            IF r # 0 /\ r = rd
            THEN g.reg_status[r].rob_num = t /\ ~g.reg_status[r].ready
            ELSE g.reg_status[r] = p.reg_status[r]
  BY <1>0, <1>1, IssueEffect
<1>3. /\ rd \in Registers /\ inst.rs1 \in Registers /\ inst.rs2 \in Registers
      /\ g.rs[f].busy /\ g.rs[f].n = n /\ g.rs[f].dest = t
      /\ g.rs[f].j = Operand(p, inst.rs1) /\ g.rs[f].k = Operand(p, inst.rs2)
      /\ g.rob[t].busy /\ ~g.rob[t].ready /\ g.rob[t].rd = rd /\ g.rob[t].n = n
  BY <1>0, <1>1, IssueEffect, IssuedIs
<1>4. /\ g.rob_tail = (p.rob_tail + 1) % MAX_ROB /\ g.rob_count = p.rob_count + 1
      /\ g.rob_head = p.rob_head /\ g.cdb = p.cdb
  BY <1>0, <1>1, IssueFields, Zenon
<1>5. g \in Processor
  BY <1>0, <1>1, IssueTyped
<1>6. ~p.rob[t].busy
  BY <1>0, <1>1, TailFree DEF CanIssue
<1> HIDE DEF g, f, t, n, rd
<1>7. \A k \in Entries : Unfinished(p, k) => Unfinished(g, k) /\ k # t /\ g.rob[k] = p.rob[k]
  BY <1>2, <1>6 DEF Unfinished
<1>8. Unfinished(g, t)
  BY <1>3 DEF Unfinished
<1>9. Ring(g, len + 1)
  <2>1. \A m : Entry(g, m) = Entry(p, m)
    BY <1>4 DEF Entry
  <2>2. t = Entry(p, p.rob_count) /\ p.rob_count <= len
    BY <1>0 DEF Ring, t
  <2>3. g.rob_tail = Entry(g, g.rob_count)
    BY <1>1, <1>4, <2>1, <2>2, TailMoves DEF t
  <2>4. \A m \in 0 .. p.rob_count - 1 : Entry(p, m) \in Entries /\ Entry(p, m) # t
    <3> TAKE m \in 0 .. p.rob_count - 1
    <3>1. Entry(p, m) \in Entries
      BY <1>1, EntryIs
    <3>2. p.rob[Entry(p, m)].busy
      BY <1>0, <3>1 DEF Ring
    <3> QED
      BY <1>6, <3>1, <3>2
  <2>5. \A m \in 0 .. g.rob_count - 1 : m = p.rob_count \/ m \in 0 .. p.rob_count - 1
    BY <1>1, <1>4
  <2>6. \A m \in 0 .. g.rob_count - 1 :
           g.rob[Entry(g, m)].n = (len + 1) - g.rob_count + m + 1 /\ g.rob[Entry(g, m)].busy
    <3> TAKE m \in 0 .. g.rob_count - 1
    <3>1. CASE m = p.rob_count
      BY <1>1, <1>3, <1>4, <2>1, <2>2, <3>1 DEF n
    <3>2. CASE m \in 0 .. p.rob_count - 1
      <4>1. g.rob[Entry(g, m)] = p.rob[Entry(p, m)] /\ p.rob[Entry(p, m)].busy
        BY <1>0, <1>2, <2>1, <2>4, <3>2 DEF Ring
      <4>2. p.rob[Entry(p, m)].n = len - p.rob_count + m + 1
        BY <1>0, <3>2 DEF Ring
      <4>3. len - p.rob_count + m + 1 = (len + 1) - g.rob_count + m + 1
        BY <1>1, <1>4
      <4> QED
        BY <4>1, <4>2, <4>3
    <3> QED
      BY <2>5, <3>1, <3>2
  <2>7. \A k \in Entries : g.rob[k].busy => \E m \in 0 .. g.rob_count - 1 : k = Entry(g, m)
    <3> TAKE k \in Entries
    <3> HAVE g.rob[k].busy
    <3>1. CASE k = t
      <4>1. p.rob_count \in 0 .. g.rob_count - 1
        BY <1>1, <1>4
      <4> QED
        BY <2>1, <2>2, <3>1, <4>1
    <3>2. CASE k # t
      <4>1. PICK m \in 0 .. p.rob_count - 1 : k = Entry(p, m)
        BY <1>0, <1>2, <3>2 DEF Ring
      <4>2. m \in 0 .. g.rob_count - 1
        BY <1>1, <1>4
      <4> QED
        BY <2>1, <4>1, <4>2
    <3> QED
      BY <3>1, <3>2
  <2>8. g.rob_count <= len + 1
    BY <1>1, <1>4, <2>2
  <2>9. \A k \in Entries : g.rob[k].busy <=> \E m \in 0 .. g.rob_count - 1 : k = Entry(g, m)
    BY <2>6, <2>7
  <2>10. \A m \in 0 .. g.rob_count - 1 : g.rob[Entry(g, m)].n = (len + 1) - g.rob_count + m + 1
    BY <2>6
  <2> QED
    BY <2>3, <2>8, <2>9, <2>10, Zenon DEF Ring
<1>10. Stationed(g)
  <2>1. \A o \in OperandType : \A l : WaitsRight(p, o, l) => WaitsRight(g, o, l)
    BY <1>7, OperandFields DEF WaitsRight
  <2>2. \A i \in Stations : p.rs[i].busy =>
           p.rs[i].dest \in Entries /\ p.rs[i].j \in OperandType /\ p.rs[i].k \in OperandType
    BY <1>0, ProcessorFields, StationFields
  <2>3. \A i \in Stations : p.rs[i].busy => p.rs[i].dest # t
    BY <1>0, <1>6 DEF Stationed, Unfinished
  <2>4. \A r \in Registers : WaitsRight(g, Operand(p, r), n)
    <3> TAKE r \in Registers
    <3>1. Operand(p, r).wait => /\ Operand(p, r).v \in Entries /\ Unfinished(p, Operand(p, r).v)
      BY <1>0, OperandIs DEF RenamedRight
    <3> SUFFICES ASSUME Operand(p, r).wait
                 PROVE  Unfinished(g, Operand(p, r).v) /\ g.rob[Operand(p, r).v].n < n
      BY DEF WaitsRight
    <3> DEFINE k == Operand(p, r).v
    <3>2. k \in Entries /\ Unfinished(p, k)
      BY <3>1
    <3> HIDE DEF k
    <3>3. p.rob[k].n \in len - p.rob_count + 1 .. len
      BY <1>0, <3>2, RingNumbers DEF Unfinished
    <3>4. p.rob[k].n < n
      BY <1>1, <3>3 DEF n
    <3>5. Unfinished(g, k) /\ g.rob[k].n < n
      BY <1>7, <3>2, <3>4
    <3> QED
      BY <3>5 DEF k
  <2>5. \A i \in Stations : g.rs[i].busy =>
           /\ Unfinished(g, g.rs[i].dest) /\ g.rob[g.rs[i].dest].n = g.rs[i].n
           /\ WaitsRight(g, g.rs[i].j, g.rs[i].n) /\ WaitsRight(g, g.rs[i].k, g.rs[i].n)
    <3> TAKE i \in Stations
    <3> HAVE g.rs[i].busy
    <3>1. CASE i = f
      BY <1>3, <1>8, <2>4, <3>1
    <3>2. CASE i # f
      <4>1. g.rs[i] = p.rs[i] /\ p.rs[i].busy
        BY <1>2, <3>2
      <4> QED
        BY <1>0, <1>7, <2>1, <2>2, <4>1 DEF Stationed
    <3> QED
      BY <3>1, <3>2
  <2>6. \A i, l \in Stations : g.rs[i].busy /\ g.rs[l].busy /\ g.rs[i].dest = g.rs[l].dest => i = l
    BY <1>0, <1>2, <1>3, <2>3 DEF Stationed
  <2> QED
    BY <2>5, <2>6 DEF Stationed
<1>11. OnBus(g)
  <2>1. p.cdb.tag \in Entries
    BY <1>0, ProcessorFields DEF Bus
  <2>2. \A i \in Stations : g.rs[i].busy => i = f \/ (p.rs[i].busy /\ g.rs[i] = p.rs[i])
    BY <1>2
  <2> QED
    BY <1>0, <1>3, <1>4, <1>7, <2>1, <2>2 DEF OnBus
<1>12. RenamedRight(g)
  <2>1. 0 \in Registers
    BY OooAssumption DEF Registers
  <2>2. g.reg_status[0] = [rob_num |-> NoRob, ready |-> TRUE]
    BY <1>0, <1>2, <2>1 DEF RenamedRight
  <2>3. \A r \in Registers : ~g.reg_status[r].ready =>
           /\ g.reg_status[r].rob_num \in Entries
           /\ Unfinished(g, g.reg_status[r].rob_num) /\ g.rob[g.reg_status[r].rob_num].rd = r
    <3> TAKE r \in Registers
    <3> HAVE ~g.reg_status[r].ready
    <3>1. CASE r # 0 /\ r = rd
      BY <1>2, <1>3, <1>8, <3>1
    <3>2. CASE ~(r # 0 /\ r = rd)
      <4>1. g.reg_status[r] = p.reg_status[r]
        BY <1>2, <3>2
      <4> QED
        BY <1>0, <1>7, <4>1 DEF RenamedRight
    <3> QED
      BY <3>1, <3>2
  <2>4. \A k \in Entries : g.rob[k].busy /\ g.rob[k].ready => g.rob[k].value = g.rob[k].n
    BY <1>0, <1>2, <1>3 DEF RenamedRight
  <2> QED
    BY <2>2, <2>3, <2>4 DEF RenamedRight
<1> QED
  BY <1>5, <1>9, <1>10, <1>11, <1>12 DEF Core, g
--------------------------------------------------------------------------------
(* The histories, the flow of data and the order of execution: ooo_write_result. *)

\* The last store before n is one of the first n instructions.
LEMMA LastStoreIs ==
  ASSUME NEW iss, NEW n \in Nat
  PROVE  /\ LastStore(iss, n) \in 0 .. n
         /\ iss[n + 1].is_store => LastStore(iss, n + 1) = n + 1
         /\ ~iss[n + 1].is_store => LastStore(iss, n + 1) = LastStore(iss, n)
<1> DEFINE S(m) == {0} \cup {i \in 1 .. m : iss[i].is_store}
<1>1. \A m : LastStore(iss, m) = Max(S(m))
  BY DEF LastStore
<1>2. LastStore(iss, n) \in 0 .. n
  <2>1. S(n) \in SUBSET (0 .. n) /\ S(n) # {}
    OBVIOUS
  <2>2. Max(S(n)) \in S(n)
    <3> HIDE DEF S
    <3> QED
      BY <2>1, MaxIs
  <2> QED
    BY <1>1, <2>1, <2>2
<1>3. ASSUME iss[n + 1].is_store
      PROVE  LastStore(iss, n + 1) = n + 1
  <2>1. S(n + 1) \in SUBSET (0 .. n + 1) /\ S(n + 1) # {} /\ n + 1 \in S(n + 1) /\ n + 1 \in Nat
    BY <1>3
  <2>2. Max(S(n + 1)) \in S(n + 1) /\ \A m \in S(n + 1) : m <= Max(S(n + 1))
    <3> HIDE DEF S
    <3> QED
      BY <2>1, MaxIs
  <2>3. n + 1 <= Max(S(n + 1)) /\ Max(S(n + 1)) \in 0 .. n + 1
    <3> HIDE DEF S
    <3> QED
      BY <2>1, <2>2
  <2> HIDE DEF S
  <2> QED
    BY <1>1, <2>3
<1>4. ASSUME ~iss[n + 1].is_store
      PROVE  LastStore(iss, n + 1) = LastStore(iss, n)
  <2>1. S(n + 1) = S(n)
    <3>1. \A m : m \in 1 .. n + 1 <=> m \in 1 .. n \/ m = n + 1
      OBVIOUS
    <3> QED
      BY <1>4, <3>1
  <2> HIDE DEF S
  <2> QED
    BY <1>1, <2>1
<1> QED
  BY <1>2, <1>3, <1>4

\* It depends on those instructions only.
LEMMA LastStoreSame ==
  ASSUME NEW iss, NEW next, NEW n \in Nat, \A m \in 1 .. n : next[m] = iss[m]
  PROVE  LastStore(next, n) = LastStore(iss, n)
<1>1. {m \in 1 .. n : next[m].is_store} = {m \in 1 .. n : iss[m].is_store}
  OBVIOUS
<1> QED
  BY <1>1 DEF LastStore

\* ooo_write_result keeps the histories right.
LEMMA WriteRecorded ==
  ASSUME NEW p, NEW iss, NEW w, Core(p, Len(iss)), Recorded(p, iss, w)
  PROVE  Recorded(WriteResult(p), iss, w)
<1>0. p \in Processor /\ RenamedRight(p)
  BY DEF Core
<1>1. CASE ~p.cdb.valid
  BY <1>1 DEF WriteResult
<1>2. CASE p.cdb.valid
  <2> DEFINE g == WriteResult(p)
  <2>1. \A i \in Stations : /\ g.rs[i].busy = p.rs[i].busy
                            /\ p.rs[i].busy => g.rs[i].n = p.rs[i].n /\ g.rs[i].op = p.rs[i].op
    BY <1>0, <1>2, WriteEffect
  <2>2. g.registers[0] = p.registers[0]
    <3>1. p.cdb.tag \in Entries
      BY <1>0, ProcessorFields DEF Bus
    <3>2. 0 \in Registers /\ p.reg_status[0].rob_num # p.cdb.tag
      BY <1>0, <3>1, OooAssumption DEF RenamedRight, Registers, Entries, NoRob
    <3> QED
      BY <1>0, <1>2, <3>2, WriteEffect
  <2> HIDE DEF g
  <2>3. Recorded(g, iss, w)
    BY <2>1, <2>2 DEF Recorded
  <2> QED
    BY <2>3 DEF g
<1> QED
  BY <1>1, <1>2

\* A result goes to the registers that are renamed to its entry, and no other.
LEMMA WriteNotAliased ==
  ASSUME NEW p, p.cdb.valid, Aliases(p) = {}
  PROVE  \A r \in Registers : p.reg_status[r].rob_num = p.cdb.tag => p.rob[p.cdb.tag].rd = r
  BY DEF Aliases, Listeners

\* ooo_write_result brings each value where program order wants it.
LEMMA WriteFlow ==
  ASSUME NEW p, NEW iss, NEW w, Core(p, Len(iss)), Flow(p, iss, w), Aliases(p) = {}
  PROVE  Flow(WriteResult(p), iss, w)
<1>0. p \in Processor /\ Stationed(p) /\ OnBus(p) /\ RenamedRight(p)
  BY DEF Core
<1>1. CASE ~p.cdb.valid
  BY <1>1 DEF WriteResult
<1>2. CASE p.cdb.valid
  <2> DEFINE g == WriteResult(p)
             t == p.cdb.tag
  <2>1. t \in Entries /\ p.rob[t].busy /\ p.rob[t].n = p.cdb.value
    BY <1>0, <1>2, ProcessorFields DEF OnBus, Unfinished, Bus
  <2>2. \A k \in Entries : /\ g.rob[k].busy = p.rob[k].busy /\ g.rob[k].n = p.rob[k].n
                           /\ g.rob[k].rd = p.rob[k].rd /\ g.rob[k].is_store = p.rob[k].is_store
    <3>1. g.rob = RobWritten(p)
      BY <1>0, <1>2, WriteFields
    <3> QED
      BY <1>0, <2>1, <3>1, RobWrittenIs
  <2>3. \A r \in Registers :
           /\ g.reg_status[r].rob_num = p.reg_status[r].rob_num
           /\ IF p.reg_status[r].rob_num = t THEN g.registers[r] = p.cdb.value
              ELSE g.registers[r] = p.registers[r] /\ g.reg_status[r] = p.reg_status[r]
    BY <1>0, <1>2, WriteEffect
  <2>4. \A i \in Stations :
           /\ g.rs[i].busy = p.rs[i].busy
           /\ p.rs[i].busy => /\ g.rs[i].n = p.rs[i].n /\ g.rs[i].j = Received(p, p.rs[i].j)
                              /\ g.rs[i].k = Received(p, p.rs[i].k)
    BY <1>0, <1>2, WriteEffect
  <2>5. \A i \in Stations : p.rs[i].busy => p.rs[i].j \in OperandType /\ p.rs[i].k \in OperandType
    BY <1>0, ProcessorFields, StationFields
  <2>6. \A r \in Registers : p.reg_status[r].rob_num = t => r # 0 /\ p.rob[t].rd = r
    <3>1. p.reg_status[0].rob_num # t
      BY <1>0, <2>1, OooAssumption DEF RenamedRight, Entries, NoRob
    <3> QED
      BY <1>2, <3>1, WriteNotAliased
  <2>7. \A o \in OperandType : \A m : Gets(p, o, m) => Gets(g, Received(p, o), m)
    <3> TAKE o \in OperandType
    <3> TAKE m
    <3> HAVE Gets(p, o, m)
    <3>1. CASE o.wait /\ o.v = t
      <4>1. ~Received(p, o).wait /\ Received(p, o).v = p.cdb.value
        BY <1>0, <3>1, ReceivedIs
      <4> QED
        BY <2>1, <3>1, <4>1 DEF Gets
    <3>2. CASE ~(o.wait /\ o.v = t)
      <4>1. Received(p, o) = o /\ (o.wait => o.v \in Entries)
        BY <1>0, <3>2, ReceivedIs, OperandFields
      <4> HIDE DEF g
      <4> QED
        BY <2>2, <4>1 DEF Gets
    <3> QED
      BY <3>1, <3>2
  <2> HIDE DEF g, t
  <2>8. \A k \in Entries : g.rob[k].busy /\ g.rob[k].rd # 0 => ~g.rob[k].is_store
    BY <2>2 DEF Flow
  <2>9. \A r \in Registers \ {0}, k \in Entries :
           g.rob[k].busy /\ g.rob[k].rd = r /\ g.reg_status[r].rob_num = k => g.rob[k].n = w[r]
    BY <2>2, <2>3 DEF Flow
  <2>10. \A r \in Registers : g.reg_status[r].ready => g.registers[r] = w[r]
    BY <2>1, <2>3, <2>6 DEF Flow
  <2>11. \A i \in Stations : g.rs[i].busy =>
            /\ Gets(g, g.rs[i].j, iss[g.rs[i].n].j)
            /\ Gets(g, g.rs[i].k, iss[g.rs[i].n].k)
    BY <2>4, <2>5, <2>7 DEF Flow
  <2>12. Flow(g, iss, w)
    BY <2>8, <2>9, <2>10, <2>11 DEF Flow
  <2> QED
    BY <2>12 DEF g
<1> QED
  BY <1>1, <1>2

\* ooo_write_result leaves the writers of each register as they are.
LEMMA WriteSettles ==
  ASSUME NEW p, NEW len \in Nat, NEW w, Core(p, len), Settles(p, w), Aliases(p) = {}
  PROVE  Settles(WriteResult(p), w)
<1>0. p \in Processor /\ OnBus(p)
  BY DEF Core
<1>1. CASE ~p.cdb.valid
  BY <1>1 DEF WriteResult
<1>2. CASE p.cdb.valid
  <2> DEFINE g == WriteResult(p)
             t == p.cdb.tag
  <2>1. t \in Entries /\ p.rob[t].busy
    BY <1>0, <1>2, ProcessorFields DEF OnBus, Unfinished, Bus
  <2>2. \A k \in Entries : /\ g.rob[k].busy = p.rob[k].busy /\ g.rob[k].n = p.rob[k].n
                           /\ g.rob[k].rd = p.rob[k].rd /\ g.rob[k].is_store = p.rob[k].is_store
    <3>1. g.rob = RobWritten(p)
      BY <1>0, <1>2, WriteFields
    <3> QED
      BY <1>0, <2>1, <3>1, RobWrittenIs
  <2>3. \A r \in Registers : p.reg_status[r].rob_num # t => g.registers[r] = p.registers[r]
    BY <1>0, <1>2, WriteEffect
  <2>4. \A r \in Registers : p.reg_status[r].rob_num = t => t \in Writers(p, r)
    BY <1>2, <2>1, WriteNotAliased DEF Writers
  <2> HIDE DEF g, t
  <2>5. \A r : Writers(g, r) = Writers(p, r)
    BY <2>2 DEF Writers
  <2>6. \A r, k : k \in Writers(p, r) => k \in Entries
    BY DEF Writers
  <2>7. Settles(g, w)
    BY <2>2, <2>3, <2>4, <2>5, <2>6 DEF Settles
  <2> QED
    BY <2>7 DEF g
<1> QED
  BY <1>1, <1>2

\* ooo_write_result leaves the order of execution as it is.
LEMMA WriteInOrder ==
  ASSUME NEW p, NEW iss, NEW lds, Core(p, Len(iss)), ExecutedInOrder(p, iss, lds)
  PROVE  ExecutedInOrder(WriteResult(p), iss, lds)
<1>0. p \in Processor /\ OnBus(p)
  BY DEF Core
<1>1. CASE ~p.cdb.valid
  BY <1>1 DEF WriteResult
<1>2. CASE p.cdb.valid
  <2> DEFINE g == WriteResult(p)
  <2>1. p.rob[p.cdb.tag].busy
    BY <1>0, <1>2 DEF OnBus, Unfinished
  <2>2. \A k \in Entries : Unfinished(g, k) => Unfinished(p, k) /\ k # p.cdb.tag
    BY <1>0, <1>2, <2>1, WriteUnfinished
  <2>3. \A i \in Stations : /\ g.rs[i].busy = p.rs[i].busy
                            /\ p.rs[i].busy => g.rs[i].n = p.rs[i].n /\ g.rs[i].dest = p.rs[i].dest
    BY <1>0, <1>2, WriteEffect
  <2>4. g.memory = p.memory
    BY <1>0, <1>2, WriteFields
  <2> HIDE DEF g
  <2>5. \A n : InStation(g, n) <=> InStation(p, n)
    BY <2>3 DEF InStation
  <2>6. \A x : ExecutedUpTo(p, iss, x) => ExecutedUpTo(g, iss, x)
    BY <2>4, <2>5 DEF ExecutedUpTo
  <2>7. \A k \in Entries : Unfinished(g, k) => \E i \in Stations : g.rs[i].busy /\ g.rs[i].dest = k
    BY <2>2, <2>3 DEF ExecutedInOrder
  <2>8. ExecutedInOrder(g, iss, lds)
    BY <2>6, <2>7 DEF ExecutedInOrder
  <2> QED
    BY <2>8 DEF g
<1> QED
  BY <1>1, <1>2
--------------------------------------------------------------------------------
(* The histories, the flow of data and the order of execution: ooo_execute. *)

\* What is left of the stations and the registers.
LEMMA ExecuteLeaves ==
  ASSUME NEW p \in Processor
  PROVE  /\ Execute(p).rob = p.rob /\ Execute(p).reg_status = p.reg_status
         /\ Execute(p).registers = p.registers
         /\ \A i \in Stations : Execute(p).rs[i].busy => p.rs[i].busy /\ Execute(p).rs[i] = p.rs[i]
<1>1. CASE Ready(p) = {}
  <2>1. Execute(p) = p
    BY <1>1 DEF Execute
  <2> QED
    BY <2>1
<1>2. CASE Ready(p) # {}
  <2>1. \A i \in Stations : Execute(p).rs[i].busy => Execute(p).rs[i] = p.rs[i]
    BY <1>2, ExecuteEffect
  <2> QED
    BY <1>2, <2>1, ExecuteFields
<1> QED
  BY <1>1, <1>2

\* ooo_execute keeps the histories right.
LEMMA ExecuteRecorded ==
  ASSUME NEW p, NEW iss, NEW w, Core(p, Len(iss)), Recorded(p, iss, w)
  PROVE  Recorded(Execute(p), iss, w)
<1> DEFINE g == Execute(p)
<1>1. /\ g.registers = p.registers
      /\ \A i \in Stations : g.rs[i].busy => p.rs[i].busy /\ g.rs[i] = p.rs[i]
  BY ExecuteLeaves DEF Core
<1> HIDE DEF g
<1>2. Recorded(g, iss, w)
  BY <1>1 DEF Recorded
<1> QED
  BY <1>2 DEF g

\* ooo_execute moves no value.
LEMMA ExecuteFlow ==
  ASSUME NEW p, NEW iss, NEW w, Core(p, Len(iss)), Flow(p, iss, w)
  PROVE  Flow(Execute(p), iss, w)
<1> DEFINE g == Execute(p)
<1>1. /\ g.registers = p.registers /\ g.rob = p.rob /\ g.reg_status = p.reg_status
      /\ \A i \in Stations : g.rs[i].busy => p.rs[i].busy /\ g.rs[i] = p.rs[i]
  BY ExecuteLeaves DEF Core
<1> HIDE DEF g
<1>2. \A o, m : Gets(p, o, m) <=> Gets(g, o, m)
  BY <1>1 DEF Gets
<1>3. Flow(g, iss, w)
  BY <1>1, <1>2 DEF Flow
<1> QED
  BY <1>3 DEF g

\* ooo_execute leaves the writers of each register as they are.
LEMMA ExecuteSettles ==
  ASSUME NEW p \in Processor, NEW w, Settles(p, w)
  PROVE  Settles(Execute(p), w)
<1> DEFINE g == Execute(p)
<1>1. g.registers = p.registers /\ g.rob = p.rob
  BY ExecuteLeaves
<1> HIDE DEF g
<1>2. \A r : Writers(g, r) = Writers(p, r)
  BY <1>1 DEF Writers
<1>3. Settles(g, w)
  BY <1>1, <1>2 DEF Settles
<1> QED
  BY <1>3 DEF g

\* The stations that complete are the ready ones; nothing is lost if they are few.
LEMMA CompletingIs ==
  ASSUME NEW p \in Processor, Loses(p) = {}
  PROVE  /\ Completing(p) = Ready(p)
         /\ Ready(p) # {} => ~p.cdb.valid
         /\ \A i, l \in Ready(p) : i = l
<1>1. Completing(p) = Ready(p)
  <2>1. CASE Ready(p) = {}
    <3>1. Execute(p) = p
      BY <2>1 DEF Execute
    <3> QED
      BY <2>1, <3>1 DEF Completing
  <2>2. CASE Ready(p) # {}
    <3>1. \A i \in Stations : /\ i \in Ready(p) => ~Execute(p).rs[i].busy
                              /\ i \notin Ready(p) => Execute(p).rs[i] = p.rs[i]
      BY <2>2, ExecuteEffect
    <3> QED
      BY <3>1 DEF Completing, Ready
  <2> QED
    BY <2>1, <2>2
<1>2. Ready(p) # {} => ~p.cdb.valid /\ ~(Cardinality(Ready(p)) > 1)
  BY <1>1 DEF Loses
<1>3. IsFiniteSet(Ready(p)) /\ Cardinality(Ready(p)) \in Nat
  <2>1. Ready(p) \in SUBSET (0 .. MAX_RS - 1) /\ 0 \in Int /\ MAX_RS - 1 \in Int
    BY OooAssumption DEF Ready, Stations
  <2>2. IsFiniteSet(0 .. MAX_RS - 1)
    BY <2>1, FS_Interval
  <2> QED
    BY <2>1, <2>2, FS_Subset, FS_CardinalityType
<1>4. \A i, l \in Ready(p) : i = l
  <2> SUFFICES ASSUME NEW i \in Ready(p), NEW l \in Ready(p), i # l
               PROVE  FALSE
    OBVIOUS
  <2>1. Cardinality(Ready(p)) <= 1
    BY <1>2, <1>3
  <2>2. {i, l} \in SUBSET Ready(p)
    OBVIOUS
  <2>3. Cardinality({i, l}) = 2
    <3>1. Cardinality({i}) = 1 /\ IsFiniteSet({i}) /\ l \notin {i} /\ {i} \cup {l} = {i, l}
      BY FS_Singleton
    <3>2. Cardinality({i} \cup {l}) = Cardinality({i}) + 1
      BY <3>1, FS_AddElement, Zenon
    <3> QED
      BY <3>1, <3>2
  <2>4. Cardinality({i, l}) <= Cardinality(Ready(p))
    BY <1>3, <2>2, FS_Subset
  <2> QED
    BY <1>3, <2>1, <2>3, <2>4
<1> QED
  BY <1>1, <1>2, <1>4

\* Without loss the one instruction that can execute is the oldest that has not.
LEMMA OldestExecutes ==
  ASSUME NEW p, NEW iss, NEW x, Core(p, Len(iss)), Len(iss) \in Nat,
         \A i \in Stations : p.rs[i].busy => p.rs[i].n \in 1 .. Len(iss),
         \A k \in Entries : Unfinished(p, k) => \E i \in Stations : p.rs[i].busy /\ p.rs[i].dest = k,
         ExecutedUpTo(p, iss, x), NEW e \in Ready(p), \A i \in Ready(p) : i = e
  PROVE  p.rs[e].n = x + 1 /\ x + 1 \in 1 .. Len(iss)
<1>0. p \in Processor /\ Stationed(p)
  BY DEF Core
<1>1. e \in Stations /\ p.rs[e].busy /\ p.rs[e].n \in 1 .. Len(iss)
  BY DEF Ready
<1>2. x \in 0 .. Len(iss) /\ \A n \in 1 .. Len(iss) : InStation(p, n) <=> n > x
  BY DEF ExecutedUpTo
<1>3. p.rs[e].n > x
  BY <1>1, <1>2 DEF InStation
<1>4. x + 1 \in 1 .. Len(iss) /\ x + 1 > x
  BY <1>1, <1>2, <1>3
<1>5. InStation(p, x + 1)
  BY <1>2, <1>4
<1>6. PICK i \in Stations : p.rs[i].busy /\ p.rs[i].n = x + 1
  BY <1>5 DEF InStation
<1>7. i \in Ready(p)
  <2> SUFFICES ASSUME i \notin Ready(p) PROVE FALSE
    OBVIOUS
  <2>1. PICK o \in {p.rs[i].j, p.rs[i].k} : o.wait
    BY <1>6 DEF Ready
  <2>2. Unfinished(p, o.v) /\ p.rob[o.v].n < x + 1
    BY <1>0, <1>6, <2>1 DEF Stationed, WaitsRight
  <2>3. o.v \in Entries
    BY <1>0, <1>6, <2>1, ProcessorFields, StationFields, OperandFields
  <2>4. PICK l \in Stations : p.rs[l].busy /\ p.rs[l].dest = o.v
    BY <2>2, <2>3
  <2>5. p.rs[l].n = p.rob[o.v].n /\ p.rs[l].n \in 1 .. Len(iss)
    BY <1>0, <2>4 DEF Stationed
  <2>6. p.rs[l].n > x
    BY <1>2, <2>4, <2>5 DEF InStation
  <2> QED
    BY <1>2, <2>2, <2>5, <2>6
<1> QED
  BY <1>4, <1>6, <1>7

\* What the ready station alone reads and leaves in memory.
LEMMA MemoryAfter ==
  ASSUME NEW p \in Processor, NEW e \in Ready(p), \A i \in Ready(p) : i = e
  PROVE  /\ StoreBefore(p, e) = p.memory
         /\ StoreBefore(p, MAX_RS) = IF p.rs[e].op = "SW" THEN p.rs[e].n ELSE p.memory
<1>1. e \in 0 .. MAX_RS - 1 /\ MAX_RS \in Nat
  BY OooAssumption DEF Ready, Stations
<1> DEFINE S(i) == {k \in Ready(p) : k < i /\ p.rs[k].op = "SW"}
<1>2. \A i : StoreBefore(p, i) = IF S(i) = {} THEN p.memory ELSE p.rs[Max(S(i))].n
  BY DEF StoreBefore
<1>3. S(e) = {}
  <2> SUFFICES ASSUME NEW k \in S(e) PROVE FALSE
    OBVIOUS
  <2>1. k = e /\ k < e
    OBVIOUS
  <2> QED
    BY <1>1, <2>1
<1>4. S(MAX_RS) = IF p.rs[e].op = "SW" THEN {e} ELSE {}
  <2>1. e < MAX_RS
    BY <1>1
  <2> QED
    BY <2>1
<1>5. Max({e}) = e
  <2>1. {e} \in SUBSET Stations /\ {e} # {}
    BY <1>1 DEF Stations
  <2>2. Max({e}) \in {e}
    BY <2>1, LastOf
  <2> QED
    BY <2>2
<1> HIDE DEF S
<1>6. StoreBefore(p, e) = p.memory
  BY <1>2, <1>3
<1>7. StoreBefore(p, MAX_RS) = IF p.rs[e].op = "SW" THEN p.rs[e].n ELSE p.memory
  <2>1. CASE p.rs[e].op = "SW"
    <3>1. S(MAX_RS) = {e} /\ S(MAX_RS) # {}
      BY <1>4, <2>1
    <3> QED
      BY <1>2, <1>5, <2>1, <3>1
  <2>2. CASE p.rs[e].op # "SW"
    BY <1>2, <1>4, <2>2
  <2> QED
    BY <2>1, <2>2
<1> QED
  BY <1>6, <1>7

\* While no result is lost ooo_execute executes the instructions in program order.
LEMMA ExecuteInOrder ==
  ASSUME NEW p, NEW iss, NEW w, NEW lds, Core(p, Len(iss)), Recorded(p, iss, w),
         ExecutedInOrder(p, iss, lds), Loses(p) = {}
  PROVE  ExecutedInOrder(Execute(p), iss, lds \cup Loads(p))
<1>0. p \in Processor /\ Stationed(p) /\ Ring(p, Len(iss)) /\ Len(iss) \in Nat
  BY DEF Core, Recorded
<1> DEFINE g == Execute(p)
<1>1. CASE Ready(p) = {}
  <2>1. Execute(p) = p
    BY <1>1 DEF Execute
  <2>2. Loads(p) = {}
    BY <1>0, <1>1, CompletingIs DEF Loads
  <2>3. lds \cup Loads(p) = lds
    BY <2>2
  <2> QED
    BY <2>1, <2>3
<1>2. CASE Ready(p) # {}
  <2>1. PICK e : e \in Ready(p)
    BY <1>2
  <2>2. /\ Completing(p) = Ready(p) /\ ~p.cdb.valid /\ \A i \in Ready(p) : i = e
        /\ e \in Stations /\ p.rs[e].busy
    BY <1>0, <1>2, <2>1, CompletingIs DEF Ready
  <2>3. \A k \in Entries : Unfinished(p, k) => \E i \in Stations : p.rs[i].busy /\ p.rs[i].dest = k
    BY <2>2 DEF ExecutedInOrder
  <2>4. PICK x \in 0 .. Len(iss) : ExecutedUpTo(p, iss, x)
    BY DEF ExecutedInOrder
  <2>5. \A i \in Stations : p.rs[i].busy => /\ p.rs[i].n \in 1 .. Len(iss)
                                            /\ p.rs[i].op = "SW" <=> iss[p.rs[i].n].is_store
    BY DEF Recorded
  <2>6. p.rs[e].n = x + 1 /\ x + 1 \in 1 .. Len(iss)
    BY <1>0, <2>1, <2>2, <2>3, <2>4, <2>5, OldestExecutes
  <2>7. /\ g.rob = p.rob /\ g.memory = StoreBefore(p, MAX_RS)
        /\ g.cdb.valid /\ g.cdb.tag = p.rs[e].dest
        /\ \A i \in Stations : /\ i = e => ~g.rs[i].busy
                               /\ i # e => g.rs[i] = p.rs[i]
    <3>1. Max(Ready(p)) = e
      BY <1>0, <1>2, <2>2, ExecuteEffect
    <3> QED
      BY <1>0, <1>2, <2>1, <2>2, <3>1, ExecuteEffect, ExecuteFields
  <2>8. \A i \in Stations : p.rs[i].busy /\ p.rs[i].n = p.rs[e].n => i = e
    <3> TAKE i \in Stations
    <3> HAVE p.rs[i].busy /\ p.rs[i].n = p.rs[e].n
    <3>1. p.rs[i].dest \in Entries /\ p.rs[e].dest \in Entries
      BY <1>0, <2>2, ProcessorFields, StationFields
    <3>2. /\ p.rob[p.rs[i].dest].busy /\ p.rob[p.rs[e].dest].busy
          /\ p.rob[p.rs[i].dest].n = p.rob[p.rs[e].dest].n
      BY <1>0, <2>2 DEF Stationed, Unfinished
    <3>3. p.rs[i].dest = p.rs[e].dest
      BY <1>0, <3>1, <3>2, RingNumbers
    <3> QED
      BY <1>0, <2>2, <3>3 DEF Stationed
  <2>9. \A k \in Entries : Unfinished(g, k) =>
           \/ \E i \in Stations : g.rs[i].busy /\ g.rs[i].dest = k
           \/ g.cdb.valid /\ g.cdb.tag = k
    <3> HIDE DEF g
    <3> QED
      BY <2>3, <2>7 DEF Unfinished
  <2>10. ExecutedUpTo(g, iss, x + 1)
    <3>1. \A n \in 1 .. Len(iss) : InStation(g, n) <=> InStation(p, n) /\ n # x + 1
      <4> HIDE DEF g
      <4> QED
        BY <2>2, <2>6, <2>7, <2>8 DEF InStation
    <3>2. \A n \in 1 .. Len(iss) : InStation(g, n) <=> n > x + 1
      <4> HIDE DEF g
      <4> TAKE n \in 1 .. Len(iss)
      <4>1. InStation(p, n) <=> n > x
        BY <2>4 DEF ExecutedUpTo
      <4>2. n > x + 1 <=> n > x /\ n # x + 1
        BY <1>0, <2>4
      <4> QED
        BY <3>1, <4>1, <4>2
    <3>3. g.memory = LastStore(iss, x + 1)
      <4>1. g.memory = IF p.rs[e].op = "SW" THEN x + 1 ELSE p.memory
        BY <1>0, <2>1, <2>2, <2>6, <2>7, MemoryAfter
      <4>2. p.rs[e].op = "SW" <=> iss[x + 1].is_store
        BY <2>2, <2>5, <2>6
      <4>3. p.memory = LastStore(iss, x) /\ x \in Nat
        BY <2>4 DEF ExecutedUpTo
      <4> HIDE DEF g
      <4> QED
        BY <4>1, <4>2, <4>3, LastStoreIs
    <3>4. x + 1 \in 0 .. Len(iss)
      BY <1>0, <2>4, <2>6
    <3> QED
      BY <3>2, <3>3, <3>4 DEF ExecutedUpTo
  <2>11. \A l \in lds \cup Loads(p) : l[1] \in 1 .. Len(iss) /\ l[2] = iss[l[1]].store
    <3> TAKE l \in lds \cup Loads(p)
    <3>1. CASE l \in lds
      BY <3>1 DEF ExecutedInOrder
    <3>2. CASE l \in Loads(p)
      <4>1. l = <<p.rs[e].n, StoreBefore(p, e)>>
        BY <2>2, <3>2 DEF Loads
      <4>2. StoreBefore(p, e) = p.memory
        BY <1>0, <2>1, <2>2, MemoryAfter
      <4>3. p.memory = LastStore(iss, x)
        BY <2>4 DEF ExecutedUpTo
      <4>4. iss[x + 1].store = LastStore(iss, x)
        <5>1. iss[x + 1].store = LastStore(iss, (x + 1) - 1) /\ (x + 1) - 1 = x
          BY <2>4, <2>6 DEF Recorded
        <5> QED
          BY <5>1
      <4>5. l[1] = x + 1 /\ l[2] = LastStore(iss, x)
        BY <2>6, <4>1, <4>2, <4>3
      <4> QED
        BY <2>6, <4>4, <4>5
    <3> QED
      BY <3>1, <3>2
  <2>12. x + 1 \in 0 .. Len(iss)
    BY <1>0, <2>4, <2>6
  <2> HIDE DEF g
  <2>13. ExecutedInOrder(g, iss, lds \cup Loads(p))
    BY <2>9, <2>10, <2>11, <2>12 DEF ExecutedInOrder
  <2> QED
    BY <2>13 DEF g
<1> QED
  BY <1>1, <1>2
--------------------------------------------------------------------------------
(* The histories, the flow of data and the order of execution: ooo_commit. *)

\* What ooo_commit leaves as it is.
LEMMA CommitLeaves ==
  ASSUME NEW p, NEW len \in Nat, Core(p, len)
  PROVE  /\ Commit(p).rs = p.rs /\ Commit(p).reg_status = p.reg_status /\ Commit(p).cdb = p.cdb
         /\ Commit(p).memory = p.memory
         /\ \A k \in Entries : Commit(p).rob[k].busy => p.rob[k].busy /\ Commit(p).rob[k] = p.rob[k]
         /\ \A k \in Entries : Unfinished(p, k) => Commit(p).rob[k] = p.rob[k]
         /\ \A k \in Entries : Unfinished(Commit(p), k) => Unfinished(p, k)
<1> DEFINE g == Commit(p)
<1>1. p \in Processor
  BY DEF Core
<1>2. g.rs = p.rs /\ g.reg_status = p.reg_status /\ g.cdb = p.cdb /\ g.memory = p.memory
  BY <1>1, CommitFields
<1>3. \A k \in Entries : \/ ~g.rob[k].busy /\ p.rob[k].busy /\ p.rob[k].ready
                         \/ g.rob[k] = p.rob[k]
  BY <1>1, CommitEntries
<1> HIDE DEF g
<1> QED
  BY <1>2, <1>3 DEF Unfinished, g

\* ooo_commit keeps the histories right.
LEMMA CommitRecorded ==
  ASSUME NEW p, NEW iss, NEW w, Core(p, Len(iss)), Recorded(p, iss, w)
  PROVE  Recorded(Commit(p), iss, w)
<1> DEFINE g == Commit(p)
<1>1. g.rs = p.rs
  BY CommitFields DEF Core
<1>2. g.registers[0] = p.registers[0]
  <2>1. 0 \in Registers /\ Retiring(p, 0) = {}
    BY OooAssumption DEF Registers, Retiring
  <2>2. p \in Processor
    BY DEF Core
  <2> QED
    BY <2>1, <2>2, CommitRegisters
<1> HIDE DEF g
<1>3. Recorded(g, iss, w)
  BY <1>1, <1>2 DEF Recorded
<1> QED
  BY <1>3 DEF g

\* A register that is ready and is written by a commit was renamed to the entry.
LEMMA CommitNotStale ==
  ASSUME NEW p, Undoes(p) = {}, NEW r \in Registers, Retiring(p, r) # {}, p.reg_status[r].ready
  PROVE  p.reg_status[r].rob_num = Entry(p, Max(Retiring(p, r)))
  BY DEF Undoes

\* ooo_commit writes no ready register with anything but its value.
LEMMA CommitFlow ==
  ASSUME NEW p, NEW iss, NEW w, Core(p, Len(iss)), Recorded(p, iss, w), Flow(p, iss, w),
         Undoes(p) = {}
  PROVE  Flow(Commit(p), iss, w)
<1>0. p \in Processor /\ Stationed(p) /\ RenamedRight(p) /\ Len(iss) \in Nat
  BY DEF Core, Recorded
<1> DEFINE g == Commit(p)
<1>1. /\ g.rs = p.rs /\ g.reg_status = p.reg_status
      /\ \A k \in Entries : g.rob[k].busy => p.rob[k].busy /\ g.rob[k] = p.rob[k]
      /\ \A k \in Entries : Unfinished(p, k) => g.rob[k] = p.rob[k]
  BY <1>0, CommitLeaves
<1>2. \A k \in Entries : g.rob[k].busy /\ g.rob[k].rd # 0 => ~g.rob[k].is_store
  BY <1>1 DEF Flow
<1>3. \A r \in Registers \ {0}, k \in Entries :
         g.rob[k].busy /\ g.rob[k].rd = r /\ g.reg_status[r].rob_num = k => g.rob[k].n = w[r]
  <2> HIDE DEF g
  <2> QED
    BY <1>1 DEF Flow
<1>4. \A r \in Registers : g.reg_status[r].ready => g.registers[r] = w[r]
  <2> TAKE r \in Registers
  <2> HAVE g.reg_status[r].ready
  <2>1. p.reg_status[r].ready
    BY <1>1
  <2>2. CASE Retiring(p, r) = {}
    BY <1>0, <2>1, <2>2, CommitRegisters DEF Flow
  <2>3. CASE Retiring(p, r) # {}
    <3> DEFINE k == Entry(p, Max(Retiring(p, r)))
    <3>1. p.reg_status[r].rob_num = k
      BY <2>1, <2>3, CommitNotStale
    <3>2. k \in Entries /\ p.rob[k].busy /\ p.rob[k].ready /\ p.rob[k].rd = r /\ r # 0
      BY <1>0, <2>3, RetiringIs
    <3>3. g.registers[r] = p.rob[k].value
      BY <1>0, <2>3, CommitRegisters
    <3> HIDE DEF k, g
    <3>4. p.rob[k].value = p.rob[k].n
      BY <1>0, <3>2 DEF RenamedRight
    <3>5. p.rob[k].n = w[r]
      BY <3>1, <3>2 DEF Flow
    <3> QED
      BY <3>3, <3>4, <3>5
  <2> QED
    BY <2>2, <2>3
<1>5. \A i \in Stations : g.rs[i].busy =>
         /\ Gets(g, g.rs[i].j, iss[g.rs[i].n].j)
         /\ Gets(g, g.rs[i].k, iss[g.rs[i].n].k)
  <2>1. \A i \in Stations : p.rs[i].busy => p.rs[i].j \in OperandType /\ p.rs[i].k \in OperandType
    BY <1>0, ProcessorFields, StationFields
  <2>2. \A o \in OperandType : \A n, m : WaitsRight(p, o, n) /\ Gets(p, o, m) => Gets(g, o, m)
    <3> HIDE DEF g
    <3> QED
      BY <1>1, OperandFields DEF WaitsRight, Gets
  <2>3. \A i \in Stations : p.rs[i].busy =>
           /\ WaitsRight(p, p.rs[i].j, p.rs[i].n) /\ WaitsRight(p, p.rs[i].k, p.rs[i].n)
           /\ Gets(p, p.rs[i].j, iss[p.rs[i].n].j)
           /\ Gets(p, p.rs[i].k, iss[p.rs[i].n].k)
    BY <1>0 DEF Stationed, Flow
  <2> HIDE DEF g
  <2> QED
    BY <1>1, <2>1, <2>2, <2>3
<1> HIDE DEF g
<1>6. Flow(g, iss, w)
  BY <1>2, <1>3, <1>4, <1>5 DEF Flow
<1> QED
  BY <1>6 DEF g

\* Of two entries in the ring the younger is the further from the head.
LEMMA YoungerFurther ==
  ASSUME NEW p \in Processor, NEW len \in Nat, Ring(p, len),
         NEW l \in 0 .. p.rob_count - 1, NEW m \in 0 .. p.rob_count - 1
  PROVE  l <= m <=> p.rob[Entry(p, l)].n <= p.rob[Entry(p, m)].n
<1>1. p.rob_count \in Nat
  BY ProcessorFields, OooAssumption
<1>2. /\ p.rob[Entry(p, l)].n = len - p.rob_count + l + 1
      /\ p.rob[Entry(p, m)].n = len - p.rob_count + m + 1
  BY DEF Ring
<1> QED
  BY <1>1, <1>2

\* A register whose last writer is retired gets its value; no other entry writes it.
LEMMA CommitSettles ==
  ASSUME NEW p, NEW len \in Nat, NEW w, Core(p, len), Settles(p, w)
  PROVE  Settles(Commit(p), w)
<1>0. p \in Processor /\ Ring(p, len) /\ RenamedRight(p)
  BY DEF Core
<1> DEFINE g == Commit(p)
           c == Commits(p)
<1>1. \A k \in Entries : g.rob[k].busy => p.rob[k].busy /\ g.rob[k] = p.rob[k]
  BY CommitLeaves
<1>2. \A k \in Entries : IF \E l \in 0 .. c - 1 : k = Entry(p, l)
                         THEN ~g.rob[k].busy /\ p.rob[k].busy /\ p.rob[k].ready
                         ELSE g.rob[k] = p.rob[k]
  BY <1>0, CommitEntries
<1>3. \A r \in Registers :
         g.registers[r] = IF Retiring(p, r) = {} THEN p.registers[r]
                          ELSE p.rob[Entry(p, Max(Retiring(p, r)))].value
  BY <1>0, CommitRegisters
<1>4. c \in 0 .. p.rob_count /\ p.rob_count \in Nat
  BY <1>0, CommitsIs, ProcessorFields, OooAssumption
<1>5. \A r \in Registers : \A l : l \in Retiring(p, r) <=>
         l \in 0 .. c - 1 /\ r # 0 /\ p.rob[Entry(p, l)].rd = r /\ ~p.rob[Entry(p, l)].is_store
  BY DEF Retiring
<1>6. \A l \in 0 .. c - 1 : Entry(p, l) \in Entries /\ p.rob[Entry(p, l)].busy /\ p.rob[Entry(p, l)].ready
  BY <1>0, CommitsIs
<1> HIDE DEF g, c
<1>7. \A k \in Entries : g.rob[k].busy /\ g.rob[k].rd # 0 => ~g.rob[k].is_store
  BY <1>1 DEF Settles
<1>8. ASSUME NEW r \in Registers \ {0}
      PROVE  /\ \A k \in Writers(g, r) : g.rob[k].n <= w[r]
             /\ Writers(g, r) = {} => g.registers[r] = w[r]
             /\ Writers(g, r) # {} => \E k \in Writers(g, r) : g.rob[k].n = w[r]
  <2>1. \A k \in Writers(g, r) : k \in Writers(p, r) /\ g.rob[k] = p.rob[k]
    BY <1>1 DEF Writers
  <2>2. \A k \in Writers(g, r) : g.rob[k].n <= w[r]
    BY <2>1 DEF Settles
  <2>3. \A k \in Writers(p, r) : \/ k \in Writers(g, r)
                                 \/ \E l \in 0 .. c - 1 : k = Entry(p, l) /\ l \in Retiring(p, r)
    <3> TAKE k \in Writers(p, r)
    <3>1. k \in Entries /\ p.rob[k].busy /\ p.rob[k].rd = r /\ ~p.rob[k].is_store
      BY DEF Writers, Settles
    <3> QED
      BY <1>2, <1>5, <3>1 DEF Writers
  <2>4. \A k \in Writers(g, r) : ~\E l \in 0 .. c - 1 : k = Entry(p, l)
    BY <1>2 DEF Writers
  <2>5. ASSUME Writers(g, r) = {}
        PROVE  g.registers[r] = w[r]
    <3>1. CASE Writers(p, r) = {}
      <4>1. Retiring(p, r) = {}
        BY <1>5, <1>6, <3>1 DEF Writers
      <4> QED
        BY <1>3, <3>1, <4>1 DEF Settles
    <3>2. CASE Writers(p, r) # {}
      <4>1. PICK k \in Writers(p, r) : p.rob[k].n = w[r]
        BY <3>2 DEF Settles
      <4>2. PICK l \in 0 .. c - 1 : k = Entry(p, l) /\ l \in Retiring(p, r)
        BY <2>3, <2>5
      <4> DEFINE m == Max(Retiring(p, r))
                 e == Entry(p, m)
      <4>3. /\ Retiring(p, r) # {} /\ m \in 0 .. c - 1 /\ l <= m
            /\ e \in Entries /\ p.rob[e].busy /\ p.rob[e].ready /\ p.rob[e].rd = r
        BY <1>0, <4>2, RetiringIs DEF c
      <4>4. g.registers[r] = p.rob[e].value
        BY <1>3, <4>3
      <4> HIDE DEF m
      <4>5. l \in 0 .. p.rob_count - 1 /\ m \in 0 .. p.rob_count - 1
        BY <1>4, <4>2, <4>3
      <4>6. w[r] <= p.rob[e].n
        BY <1>0, <4>1, <4>2, <4>3, <4>5, YoungerFurther
      <4> HIDE DEF e
      <4>7. p.rob[e].n <= w[r] /\ p.rob[e].value = p.rob[e].n
        BY <1>0, <4>3 DEF Settles, Writers, RenamedRight
      <4>8. p.rob[e].n \in Int /\ w[r] \in Int
        <5>1. p.rob[e].n \in Number /\ p.rob[k].n \in Number
          BY <1>0, <4>1, <4>3, ProcessorFields, EntryFields DEF Writers
        <5> QED
          BY <4>1, <5>1, OooAssumption DEF Number
      <4> QED
        BY <4>4, <4>6, <4>7, <4>8
    <3> QED
      BY <3>1, <3>2
  <2>6. ASSUME NEW e \in Writers(g, r)
        PROVE  \E k \in Writers(g, r) : g.rob[k].n = w[r]
    <3>1. e \in Writers(p, r) /\ e \in Entries /\ p.rob[e].busy
      BY <2>1 DEF Writers
    <3>2. PICK k \in Writers(p, r) : p.rob[k].n = w[r]
      BY <3>1 DEF Settles
    <3>3. CASE k \in Writers(g, r)
      BY <2>1, <3>2, <3>3
    <3>4. CASE k \notin Writers(g, r)
      <4>1. PICK l \in 0 .. c - 1 : k = Entry(p, l)
        BY <2>3, <3>4
      <4>2. PICK m \in 0 .. p.rob_count - 1 : e = Entry(p, m)
        BY <1>0, <3>1 DEF Ring
      <4>3. l \in 0 .. p.rob_count - 1 /\ ~(m <= l)
        BY <1>4, <2>4, <4>1, <4>2
      <4>4. ~(p.rob[e].n <= p.rob[k].n)
        BY <1>0, <4>1, <4>2, <4>3, YoungerFurther
      <4>5. p.rob[e].n <= w[r]
        BY <3>1 DEF Settles
      <4> QED
        BY <3>2, <4>4, <4>5
    <3> QED
      BY <3>3, <3>4
  <2> QED
    BY <2>2, <2>5, <2>6
<1>9. Settles(g, w)
  BY <1>7, <1>8 DEF Settles
<1> QED
  BY <1>9 DEF g

\* ooo_commit leaves the order of execution as it is.
LEMMA CommitInOrder ==
  ASSUME NEW p, NEW iss, NEW lds, Core(p, Len(iss)), Len(iss) \in Nat, ExecutedInOrder(p, iss, lds)
  PROVE  ExecutedInOrder(Commit(p), iss, lds)
<1> DEFINE g == Commit(p)
<1>1. /\ g.rs = p.rs /\ g.cdb = p.cdb /\ g.memory = p.memory
      /\ \A k \in Entries : Unfinished(g, k) => Unfinished(p, k)
  BY CommitLeaves
<1> HIDE DEF g
<1>2. \A n : InStation(g, n) <=> InStation(p, n)
  BY <1>1 DEF InStation
<1>3. \A x : ExecutedUpTo(p, iss, x) => ExecutedUpTo(g, iss, x)
  BY <1>1, <1>2 DEF ExecutedUpTo
<1>4. ExecutedInOrder(g, iss, lds)
  BY <1>1, <1>3 DEF ExecutedInOrder
<1> QED
  BY <1>4 DEF g
--------------------------------------------------------------------------------
(* The histories, the flow of data and the order of execution: ooo_issue. *)

\* The histories after an instruction has been issued.
IssuedAfter(iss, w, inst) ==
    Append(iss, [j |-> w[inst.rs1], k |-> w[inst.rs2],
                 store |-> Max({0} \cup {n \in 1 .. Len(iss) : iss[n].is_store}),
                 is_store |-> inst.is_store])
WriterAfter(iss, w, inst) ==
    IF inst.rd # 0 /\ ~inst.is_store
    THEN [w EXCEPT ![inst.rd] = Len(IssuedAfter(iss, w, inst))] ELSE w

\* The history is one longer; what was recorded stays.
LEMMA IssuedAfterIs ==
  ASSUME NEW p, NEW iss, NEW w, Recorded(p, iss, w), NEW inst \in Instructions
  PROVE  /\ IssuedAfter(iss, w, inst) \in Seq(History)
         /\ Len(IssuedAfter(iss, w, inst)) = Len(iss) + 1
         /\ \A n \in 1 .. Len(iss) : IssuedAfter(iss, w, inst)[n] = iss[n]
         /\ IssuedAfter(iss, w, inst)[Len(iss) + 1].j = w[inst.rs1]
         /\ IssuedAfter(iss, w, inst)[Len(iss) + 1].k = w[inst.rs2]
         /\ IssuedAfter(iss, w, inst)[Len(iss) + 1].store = LastStore(iss, Len(iss))
         /\ IssuedAfter(iss, w, inst)[Len(iss) + 1].is_store = inst.is_store
<1> DEFINE s == LastStore(iss, Len(iss))
           x == [j |-> w[inst.rs1], k |-> w[inst.rs2], store |-> s, is_store |-> inst.is_store]
<1>1. /\ iss \in Seq(History) /\ Len(iss) \in Nat /\ Len(iss) <= MaxIssued
      /\ w \in [Registers -> Value]
  BY DEF Recorded
<1>2. s \in Value
  <2>1. s \in 0 .. Len(iss)
    BY <1>1, LastStoreIs
  <2> QED
    BY <1>1, <2>1, OooAssumption DEF Value
<1>3. IssuedAfter(iss, w, inst) = Append(iss, x)
  BY DEF IssuedAfter, LastStore
<1> HIDE DEF s
<1>4. x \in History
  <2>1. inst.rs1 \in Registers /\ inst.rs2 \in Registers /\ inst.is_store \in BOOLEAN
    BY OooAssumption
  <2> QED
    BY <1>1, <1>2, <2>1 DEF History
<1>5. x.j = w[inst.rs1] /\ x.k = w[inst.rs2] /\ x.store = s /\ x.is_store = inst.is_store
  OBVIOUS
<1> HIDE DEF x
<1>6. /\ Append(iss, x) \in Seq(History) /\ Len(Append(iss, x)) = Len(iss) + 1
      /\ \A n \in 1 .. Len(iss) : Append(iss, x)[n] = iss[n]
      /\ Append(iss, x)[Len(iss) + 1] = x
  BY <1>1, <1>4
<1> QED
  BY <1>3, <1>5, <1>6 DEF s

\* The last writer of the destination is the new instruction, unless it writes none.
LEMMA WriterAfterIs ==
  ASSUME NEW p, NEW iss, NEW w, Recorded(p, iss, w), NEW inst \in Instructions
  PROVE  \A r \in Registers :
            WriterAfter(iss, w, inst)[r] =
                IF r # 0 /\ r = inst.rd /\ ~inst.is_store THEN Len(iss) + 1 ELSE w[r]
<1>1. Len(IssuedAfter(iss, w, inst)) = Len(iss) + 1 /\ w \in [Registers -> Value]
  BY IssuedAfterIs DEF Recorded
<1> QED
  BY <1>1 DEF WriterAfter

\* ooo_issue keeps the histories right.
LEMMA IssueRecorded ==
  ASSUME NEW p, NEW iss, NEW w, Core(p, Len(iss)), Recorded(p, iss, w),
         NEW inst \in Instructions, CanIssue(p), Len(iss) < MaxIssued
  PROVE  Recorded(Issue(p, inst, Len(iss) + 1), IssuedAfter(iss, w, inst), WriterAfter(iss, w, inst))
<1>0. /\ p \in Processor /\ RenamedRight(p) /\ Len(iss) \in Nat /\ MaxIssued \in Nat
      /\ Len(iss) + 1 \in Number
  BY OooAssumption DEF Core, Recorded, Number
<1> DEFINE g == Issue(p, inst, Len(iss) + 1)
           h == IssuedAfter(iss, w, inst)
           v == WriterAfter(iss, w, inst)
           f == FirstFree(p)
           len == Len(iss)
<1>1. /\ g.registers = p.registers
      /\ g.rs[f].n = len + 1 /\ (g.rs[f].op = "SW" <=> inst.is_store)
      /\ \A i \in Stations \ {f} : g.rs[i] = p.rs[i]
  <2>1. g.registers = p.registers
    BY <1>0, IssueFields
  <2> QED
    BY <1>0, <2>1, IssueEffect, IssuedIs
<1>2. /\ h \in Seq(History) /\ Len(h) = len + 1 /\ \A n \in 1 .. len : h[n] = iss[n]
      /\ h[len + 1].store = LastStore(iss, len) /\ h[len + 1].is_store = inst.is_store
  BY IssuedAfterIs
<1>3. \A r \in Registers : v[r] = IF r # 0 /\ r = inst.rd /\ ~inst.is_store THEN len + 1 ELSE w[r]
  BY WriterAfterIs
<1>4. v \in [Registers -> Value]
  <2>1. w \in [Registers -> Value] /\ Len(IssuedAfter(iss, w, inst)) \in Value
    BY <1>0, <1>2 DEF Recorded, Value
  <2> QED
    BY <2>1 DEF WriterAfter
<1> HIDE DEF g, h, v, f, len
<1>5. len \in Nat /\ len < MaxIssued /\ 0 \in Registers
  BY <1>0, OooAssumption DEF len, Registers
<1>6. \A r \in Registers : v[r] <= len + 1
  <2> TAKE r \in Registers
  <2>1. w[r] <= len /\ w[r] \in Nat
    BY OooAssumption DEF Recorded, len, Value
  <2> QED
    BY <1>3, <1>5, <2>1
<1>7. v[0] = 0 /\ g.registers[0] = 0
  BY <1>1, <1>3, <1>5 DEF Recorded
<1>8. \A n \in 1 .. len + 1 : h[n].store = LastStore(h, n - 1)
  <2> TAKE n \in 1 .. len + 1
  <2>1. n - 1 \in Nat /\ \A m \in 1 .. n - 1 : m \in 1 .. len
    BY <1>5
  <2>2. LastStore(h, n - 1) = LastStore(iss, n - 1)
    BY <1>2, <2>1, LastStoreSame
  <2>3. CASE n \in 1 .. len
    BY <1>2, <2>2, <2>3 DEF Recorded, len
  <2>4. CASE n = len + 1
    <3>1. n - 1 = len
      BY <1>5, <2>4
    <3> QED
      BY <1>2, <2>2, <2>4, <3>1
  <2> QED
    BY <1>5, <2>3, <2>4
<1>9. \A i \in Stations : g.rs[i].busy => /\ g.rs[i].n \in 1 .. len + 1
                                          /\ g.rs[i].op = "SW" <=> h[g.rs[i].n].is_store
  <2> TAKE i \in Stations
  <2> HAVE g.rs[i].busy
  <2>1. CASE i = f
    BY <1>1, <1>2, <1>5, <2>1
  <2>2. CASE i # f
    <3>1. g.rs[i] = p.rs[i] /\ p.rs[i].busy
      BY <1>1, <2>2
    <3>2. p.rs[i].n \in 1 .. len /\ (p.rs[i].op = "SW" <=> iss[p.rs[i].n].is_store)
      BY <3>1 DEF Recorded, len
    <3>3. p.rs[i].n \in 1 .. len + 1
      BY <1>5, <3>2
    <3> QED
      BY <1>2, <3>1, <3>2, <3>3
  <2> QED
    BY <2>1, <2>2
<1>10. Len(h) <= MaxIssued
  BY <1>0, <1>2, <1>5
<1>11. Recorded(g, h, v)
  BY <1>2, <1>4, <1>6, <1>7, <1>8, <1>9, <1>10 DEF Recorded
<1> QED
  BY <1>11 DEF g, h, v

\* An instruction gets the operands that program order gives it.
LEMMA IssueFlow ==
  ASSUME NEW p, NEW iss, NEW w, Core(p, Len(iss)), Recorded(p, iss, w), Flow(p, iss, w),
         NEW inst \in Instructions, CanIssue(p), Len(iss) < MaxIssued, ~(inst.is_store /\ inst.rd # 0)
  PROVE  Flow(Issue(p, inst, Len(iss) + 1), IssuedAfter(iss, w, inst), WriterAfter(iss, w, inst))
<1>0. /\ p \in Processor /\ RenamedRight(p) /\ Stationed(p) /\ Ring(p, Len(iss))
      /\ Len(iss) \in Nat /\ Len(iss) + 1 \in Number
  BY OooAssumption DEF Core, Recorded, Number
<1> DEFINE g == Issue(p, inst, Len(iss) + 1)
           h == IssuedAfter(iss, w, inst)
           v == WriterAfter(iss, w, inst)
           f == FirstFree(p)
           t == p.rob_tail
           len == Len(iss)
           rd == inst.rd
<1>1. /\ f \in Stations /\ t \in Entries
      /\ \A i \in Stations \ {f} : g.rs[i] = p.rs[i]
      /\ \A k \in Entries \ {t} : g.rob[k] = p.rob[k]
      /\ \A r \in Registers :
            IF r # 0 /\ r = rd
            THEN g.reg_status[r].rob_num = t /\ ~g.reg_status[r].ready
            ELSE g.reg_status[r] = p.reg_status[r]
  BY <1>0, IssueEffect
<1>2. /\ rd \in Registers /\ inst.rs1 \in Registers /\ inst.rs2 \in Registers
      /\ g.rs[f].n = len + 1 /\ g.rs[f].j = Operand(p, inst.rs1) /\ g.rs[f].k = Operand(p, inst.rs2)
      /\ g.rob[t].rd = rd /\ g.rob[t].n = len + 1 /\ g.rob[t].is_store = inst.is_store
  BY <1>0, IssueEffect, IssuedIs
<1>3. g.registers = p.registers
  BY <1>0, IssueFields
<1>4. /\ \A n \in 1 .. len : h[n] = iss[n]
      /\ h[len + 1].j = w[inst.rs1] /\ h[len + 1].k = w[inst.rs2]
  BY IssuedAfterIs
<1>5. \A r \in Registers : v[r] = IF r # 0 /\ r = rd /\ ~inst.is_store THEN len + 1 ELSE w[r]
  BY WriterAfterIs
<1>6. ~p.rob[t].busy
  BY <1>0, TailFree DEF CanIssue
<1>7. 0 \in Registers /\ p.reg_status[0].ready
  BY <1>0, OooAssumption DEF Registers, RenamedRight
<1>8. \A i \in Stations : p.rs[i].busy => p.rs[i].n \in 1 .. len
  BY DEF Recorded
<1>9. \A r \in Registers : /\ Operand(p, r) \in OperandType
                           /\ Operand(p, r).wait <=> ~p.reg_status[r].ready
                           /\ Operand(p, r).v = IF p.reg_status[r].ready THEN p.registers[r]
                                                ELSE p.reg_status[r].rob_num
  BY <1>0, OperandIs
<1>10. \A i \in Stations : p.rs[i].busy => p.rs[i].j \in OperandType /\ p.rs[i].k \in OperandType
  BY <1>0, ProcessorFields, StationFields
<1> HIDE DEF g, h, v, f, t, len, rd
<1>11. \A k \in Entries : Unfinished(p, k) => k # t /\ g.rob[k] = p.rob[k]
  BY <1>1, <1>6 DEF Unfinished
<1>12. \A o \in OperandType : \A n, m : WaitsRight(p, o, n) /\ Gets(p, o, m) => Gets(g, o, m)
  BY <1>11, OperandFields DEF WaitsRight, Gets
<1>13. \A k \in Entries : g.rob[k].busy /\ g.rob[k].rd # 0 => ~g.rob[k].is_store
  <2> TAKE k \in Entries
  <2> HAVE g.rob[k].busy /\ g.rob[k].rd # 0
  <2>1. CASE k = t
    BY <1>2, <2>1 DEF rd
  <2>2. CASE k # t
    BY <1>1, <2>2 DEF Flow
  <2> QED
    BY <2>1, <2>2
<1>14. \A r \in Registers \ {0}, k \in Entries :
          g.rob[k].busy /\ g.rob[k].rd = r /\ g.reg_status[r].rob_num = k => g.rob[k].n = v[r]
  <2> TAKE r \in Registers \ {0}, k \in Entries
  <2> HAVE g.rob[k].busy /\ g.rob[k].rd = r /\ g.reg_status[r].rob_num = k
  <2>1. CASE k = t
    <3>1. r = rd /\ ~inst.is_store
      BY <1>2, <2>1 DEF rd
    <3> QED
      BY <1>2, <1>5, <2>1, <3>1
  <2>2. CASE k # t
    <3>1. r # rd /\ g.reg_status[r] = p.reg_status[r] /\ g.rob[k] = p.rob[k]
      BY <1>1, <2>2
    <3>2. p.rob[k].n = w[r]
      BY <3>1 DEF Flow
    <3> QED
      BY <1>5, <3>1, <3>2
  <2> QED
    BY <2>1, <2>2
<1>15. \A r \in Registers : g.reg_status[r].ready => g.registers[r] = v[r]
  <2> TAKE r \in Registers
  <2> HAVE g.reg_status[r].ready
  <2>1. ~(r # 0 /\ r = rd) /\ p.reg_status[r].ready
    BY <1>1
  <2>2. p.registers[r] = w[r]
    BY <2>1 DEF Flow
  <2> QED
    BY <1>3, <1>5, <2>1, <2>2
<1>16. \A r \in Registers : Gets(g, Operand(p, r), w[r])
  <2> TAKE r \in Registers
  <2>1. CASE p.reg_status[r].ready
    <3>1. ~Operand(p, r).wait /\ Operand(p, r).v = p.registers[r] /\ p.registers[r] = w[r]
      BY <1>9, <2>1 DEF Flow
    <3> QED
      BY <3>1 DEF Gets
  <2>2. CASE ~p.reg_status[r].ready
    <3> DEFINE k == p.reg_status[r].rob_num
    <3>1. /\ k \in Entries /\ Unfinished(p, k) /\ p.rob[k].rd = r /\ r # 0
          /\ Operand(p, r).wait /\ Operand(p, r).v = k
      BY <1>0, <1>7, <1>9, <2>2 DEF RenamedRight
    <3>2. p.rob[k].n = w[r]
      BY <3>1 DEF Flow, Unfinished
    <3>3. g.rob[k].n = w[r]
      BY <1>11, <3>1, <3>2
    <3> QED
      BY <3>1, <3>3 DEF Gets
  <2> QED
    BY <2>1, <2>2
<1>17. \A i \in Stations : g.rs[i].busy =>
          /\ Gets(g, g.rs[i].j, h[g.rs[i].n].j)
          /\ Gets(g, g.rs[i].k, h[g.rs[i].n].k)
  <2> TAKE i \in Stations
  <2> HAVE g.rs[i].busy
  <2>1. CASE i = f
    BY <1>2, <1>4, <1>16, <2>1
  <2>2. CASE i # f
    <3>1. g.rs[i] = p.rs[i] /\ p.rs[i].busy /\ h[p.rs[i].n] = iss[p.rs[i].n]
      BY <1>1, <1>4, <1>8, <2>2
    <3>2. /\ WaitsRight(p, p.rs[i].j, p.rs[i].n) /\ WaitsRight(p, p.rs[i].k, p.rs[i].n)
          /\ Gets(p, p.rs[i].j, iss[p.rs[i].n].j) /\ Gets(p, p.rs[i].k, iss[p.rs[i].n].k)
      BY <1>0, <3>1 DEF Stationed, Flow
    <3> QED
      BY <1>10, <1>12, <3>1, <3>2
  <2> QED
    BY <2>1, <2>2
<1>18. Flow(g, h, v)
  BY <1>13, <1>14, <1>15, <1>17 DEF Flow
<1> QED
  BY <1>18 DEF g, h, v

\* The instruction issued becomes the last writer of its destination.
LEMMA IssueSettles ==
  ASSUME NEW p, NEW iss, NEW w, Core(p, Len(iss)), Recorded(p, iss, w), Settles(p, w),
         NEW inst \in Instructions, CanIssue(p), Len(iss) < MaxIssued, ~(inst.is_store /\ inst.rd # 0)
  PROVE  Settles(Issue(p, inst, Len(iss) + 1), WriterAfter(iss, w, inst))
<1>0. /\ p \in Processor /\ RenamedRight(p) /\ Ring(p, Len(iss)) /\ Len(iss) \in Nat
      /\ Len(iss) + 1 \in Number
  BY OooAssumption DEF Core, Recorded, Number
<1> DEFINE g == Issue(p, inst, Len(iss) + 1)
           v == WriterAfter(iss, w, inst)
           t == p.rob_tail
           len == Len(iss)
           rd == inst.rd
<1>1. /\ t \in Entries /\ \A k \in Entries \ {t} : g.rob[k] = p.rob[k]
      /\ g.rob[t].busy /\ g.rob[t].rd = rd /\ g.rob[t].n = len + 1 /\ g.rob[t].is_store = inst.is_store
  BY <1>0, IssueEffect, IssuedIs
<1>2. g.registers = p.registers
  BY <1>0, IssueFields
<1>3. \A r \in Registers : v[r] = IF r # 0 /\ r = rd /\ ~inst.is_store THEN len + 1 ELSE w[r]
  BY WriterAfterIs
<1>4. ~p.rob[t].busy
  BY <1>0, TailFree DEF CanIssue
<1>5. \A r \in Registers : w[r] <= len /\ w[r] \in Nat
  BY OooAssumption DEF Recorded, Value
<1> HIDE DEF g, v, t, len, rd
<1>6. \A r : /\ r = rd => Writers(g, r) = Writers(p, r) \cup {t}
             /\ r # rd => Writers(g, r) = Writers(p, r)
  BY <1>1, <1>4 DEF Writers
<1>7. \A r : \A k \in Writers(p, r) : k \in Entries /\ k # t /\ g.rob[k] = p.rob[k]
  BY <1>1, <1>4 DEF Writers
<1>8. \A k \in Entries : g.rob[k].busy /\ g.rob[k].rd # 0 => ~g.rob[k].is_store
  <2> TAKE k \in Entries
  <2> HAVE g.rob[k].busy /\ g.rob[k].rd # 0
  <2>1. CASE k = t
    BY <1>1, <2>1 DEF rd
  <2>2. CASE k # t
    BY <1>1, <2>2 DEF Settles
  <2> QED
    BY <2>1, <2>2
<1>9. ASSUME NEW r \in Registers \ {0}
      PROVE  /\ \A k \in Writers(g, r) : g.rob[k].n <= v[r]
             /\ Writers(g, r) = {} => g.registers[r] = v[r]
             /\ Writers(g, r) # {} => \E k \in Writers(g, r) : g.rob[k].n = v[r]
  <2>1. CASE r = rd
    <3>1. v[r] = len + 1 /\ t \in Writers(g, r)
      BY <1>3, <1>6, <2>1 DEF rd
    <3>2. \A k \in Writers(g, r) : g.rob[k].n <= v[r]
      <4> TAKE k \in Writers(g, r)
      <4>1. CASE k = t
        BY <1>0, <1>1, <3>1, <4>1 DEF len
      <4>2. CASE k # t
        <5>1. k \in Writers(p, r)
          BY <1>6, <2>1, <4>2
        <5>2. k \in Entries /\ p.rob[k].busy /\ g.rob[k] = p.rob[k]
          BY <1>7, <5>1 DEF Writers
        <5>3. p.rob[k].n <= w[r] /\ w[r] <= len /\ w[r] \in Nat /\ p.rob[k].n \in Number
          BY <1>0, <1>5, <5>1, <5>2, ProcessorFields, EntryFields DEF Settles
        <5> QED
          BY <1>0, <3>1, <5>2, <5>3, OooAssumption DEF Number, len
      <4> QED
        BY <4>1, <4>2
    <3> QED
      BY <1>1, <3>1, <3>2
  <2>2. CASE r # rd
    BY <1>2, <1>3, <1>6, <1>7, <2>2 DEF Settles
  <2> QED
    BY <2>1, <2>2
<1>10. Settles(g, v)
  BY <1>8, <1>9 DEF Settles
<1> QED
  BY <1>10 DEF g, v

\* The instruction issued is the youngest that has not executed.
LEMMA IssueInOrder ==
  ASSUME NEW p, NEW iss, NEW w, NEW lds, Core(p, Len(iss)), Recorded(p, iss, w),
         ExecutedInOrder(p, iss, lds),
         NEW inst \in Instructions, CanIssue(p), Len(iss) < MaxIssued
  PROVE  ExecutedInOrder(Issue(p, inst, Len(iss) + 1), IssuedAfter(iss, w, inst), lds)
<1>0. /\ p \in Processor /\ RenamedRight(p) /\ Ring(p, Len(iss)) /\ Len(iss) \in Nat
      /\ Len(iss) + 1 \in Number
  BY OooAssumption DEF Core, Recorded, Number
<1> DEFINE g == Issue(p, inst, Len(iss) + 1)
           h == IssuedAfter(iss, w, inst)
           f == FirstFree(p)
           t == p.rob_tail
           len == Len(iss)
<1>1. /\ f \in Stations /\ ~p.rs[f].busy /\ t \in Entries
      /\ \A i \in Stations \ {f} : g.rs[i] = p.rs[i]
      /\ \A k \in Entries \ {t} : g.rob[k] = p.rob[k]
  BY <1>0, IssueEffect
<1>2. g.rs[f].busy /\ g.rs[f].n = len + 1 /\ g.rs[f].dest = t
  BY <1>0, IssueEffect, IssuedIs
<1>3. g.cdb = p.cdb /\ g.memory = p.memory
  BY <1>0, IssueFields
<1>4. Len(h) = len + 1 /\ \A n \in 1 .. len : h[n] = iss[n]
  BY IssuedAfterIs
<1>5. \A i \in Stations : p.rs[i].busy => p.rs[i].n \in 1 .. len
  BY DEF Recorded
<1>6. PICK x \in 0 .. len : ExecutedUpTo(p, iss, x)
  BY DEF ExecutedInOrder
<1>7. len \in Nat
  BY <1>0
<1>8. \A n \in 1 .. len : InStation(p, n) <=> n > x
  BY <1>6 DEF ExecutedUpTo
<1>9. p.memory = LastStore(iss, x)
  BY <1>6 DEF ExecutedUpTo
<1>10. \A l \in lds : l[1] \in 1 .. len /\ l[2] = iss[l[1]].store
  BY DEF ExecutedInOrder
<1>11. \A k \in Entries : Unfinished(p, k) =>
          \/ \E i \in Stations : p.rs[i].busy /\ p.rs[i].dest = k
          \/ p.cdb.valid /\ p.cdb.tag = k
  BY DEF ExecutedInOrder
<1> HIDE DEF g, h, f, t, len
<1>12. \A k \in Entries : Unfinished(g, k) =>
          \/ \E i \in Stations : g.rs[i].busy /\ g.rs[i].dest = k
          \/ g.cdb.valid /\ g.cdb.tag = k
  <2> TAKE k \in Entries
  <2> HAVE Unfinished(g, k)
  <2>1. CASE k = t
    BY <1>1, <1>2, <2>1
  <2>2. CASE k # t
    <3>1. Unfinished(p, k)
      BY <1>1, <2>2 DEF Unfinished
    <3> QED
      BY <1>1, <1>3, <1>11, <3>1
  <2> QED
    BY <2>1, <2>2
<1>13. ExecutedUpTo(g, h, x)
  <2>1. \A n \in 1 .. len + 1 : InStation(g, n) <=> n > x
    <3> TAKE n \in 1 .. len + 1
    <3>1. CASE n = len + 1
      BY <1>1, <1>2, <1>6, <1>7, <3>1 DEF InStation
    <3>2. CASE n # len + 1
      <4>1. n \in 1 .. len
        BY <1>7, <3>2
      <4>2. InStation(g, n) <=> InStation(p, n)
        BY <1>1, <1>2, <3>2 DEF InStation
      <4> QED
        BY <1>8, <4>1, <4>2
    <3> QED
      BY <3>1, <3>2
  <2>2. LastStore(h, x) = LastStore(iss, x)
    <3>1. x \in Nat /\ \A m \in 1 .. x : m \in 1 .. len
      BY <1>6, <1>7
    <3> QED
      BY <1>4, <3>1, LastStoreSame
  <2>3. x \in 0 .. len + 1
    BY <1>6, <1>7
  <2> QED
    BY <1>3, <1>4, <1>9, <2>1, <2>2, <2>3 DEF ExecutedUpTo
<1>14. \A l \in lds : l[1] \in 1 .. len + 1 /\ l[2] = h[l[1]].store
  BY <1>4, <1>7, <1>10
<1>15. x \in 0 .. len + 1
  BY <1>6, <1>7
<1>16. ExecutedInOrder(g, h, lds)
  BY <1>4, <1>12, <1>13, <1>14, <1>15 DEF ExecutedInOrder
<1> QED
  BY <1>16 DEF g, h
--------------------------------------------------------------------------------
(* Every call keeps the invariant. *)

\* ooo_write_result keeps the invariant.
LEMMA WriteKeeps ==
  ASSUME NEW p, NEW iss, NEW w, NEW lds, NEW F, OooInv(p, iss, w, lds, F)
  PROVE  OooInv(WriteResult(p), iss, w, lds, F \cup Aliases(p))
<1>1. Core(p, Len(iss)) /\ Recorded(p, iss, w) /\ Len(iss) \in Nat
  BY DEF OooInv, Recorded
<1>2. Core(WriteResult(p), Len(iss)) /\ Recorded(WriteResult(p), iss, w)
  BY <1>1, WriteCore, WriteRecorded
<1>3. F \cup Aliases(p) = {} => Flow(WriteResult(p), iss, w)
  <2> HAVE F \cup Aliases(p) = {}
  <2>1. F = {} /\ Aliases(p) = {}
    OBVIOUS
  <2>2. Flow(p, iss, w)
    BY <2>1 DEF OooInv
  <2> QED
    BY <1>1, <2>1, <2>2, WriteFlow
<1>4. F \cup Aliases(p) \subseteq {"stale"} => Settles(WriteResult(p), w)
  <2> HAVE F \cup Aliases(p) \subseteq {"stale"}
  <2>1. F \subseteq {"stale"} /\ Aliases(p) = {}
    BY DEF Aliases
  <2>2. Settles(p, w)
    BY <2>1 DEF OooInv
  <2> QED
    BY <1>1, <2>1, <2>2, WriteSettles
<1>5. "lost" \notin F \cup Aliases(p) => ExecutedInOrder(WriteResult(p), iss, lds)
  <2> HAVE "lost" \notin F \cup Aliases(p)
  <2>1. ExecutedInOrder(p, iss, lds)
    BY DEF OooInv
  <2> QED
    BY <1>1, <2>1, WriteInOrder
<1> QED
  BY <1>2, <1>3, <1>4, <1>5 DEF OooInv

\* ooo_execute keeps the invariant.
LEMMA ExecuteKeeps ==
  ASSUME NEW p, NEW iss, NEW w, NEW lds, NEW F, OooInv(p, iss, w, lds, F)
  PROVE  OooInv(Execute(p), iss, w, lds \cup Loads(p), F \cup Loses(p))
<1>1. Core(p, Len(iss)) /\ Recorded(p, iss, w) /\ Len(iss) \in Nat /\ p \in Processor
  BY DEF OooInv, Recorded, Core
<1>2. Core(Execute(p), Len(iss)) /\ Recorded(Execute(p), iss, w)
  BY <1>1, ExecuteCore, ExecuteRecorded
<1>3. F \cup Loses(p) = {} => Flow(Execute(p), iss, w)
  <2> HAVE F \cup Loses(p) = {}
  <2>1. F = {}
    OBVIOUS
  <2>2. Flow(p, iss, w)
    BY <2>1 DEF OooInv
  <2> QED
    BY <1>1, <2>2, ExecuteFlow
<1>4. F \cup Loses(p) \subseteq {"stale"} => Settles(Execute(p), w)
  <2> HAVE F \cup Loses(p) \subseteq {"stale"}
  <2>1. F \subseteq {"stale"}
    OBVIOUS
  <2>2. Settles(p, w)
    BY <2>1 DEF OooInv
  <2> QED
    BY <1>1, <2>2, ExecuteSettles
<1>5. "lost" \notin F \cup Loses(p) => ExecutedInOrder(Execute(p), iss, lds \cup Loads(p))
  <2> HAVE "lost" \notin F \cup Loses(p)
  <2>1. ExecutedInOrder(p, iss, lds) /\ Loses(p) = {}
    BY DEF OooInv, Loses
  <2> QED
    BY <1>1, <2>1, ExecuteInOrder
<1> QED
  BY <1>2, <1>3, <1>4, <1>5 DEF OooInv

\* ooo_commit keeps the invariant.
LEMMA CommitKeeps ==
  ASSUME NEW p, NEW iss, NEW w, NEW lds, NEW F, OooInv(p, iss, w, lds, F)
  PROVE  OooInv(Commit(p), iss, w, lds, F \cup Undoes(p))
<1>1. Core(p, Len(iss)) /\ Recorded(p, iss, w) /\ Len(iss) \in Nat
  BY DEF OooInv, Recorded
<1>2. Core(Commit(p), Len(iss)) /\ Recorded(Commit(p), iss, w)
  BY <1>1, CommitCore, CommitRecorded
<1>3. F \cup Undoes(p) = {} => Flow(Commit(p), iss, w)
  <2> HAVE F \cup Undoes(p) = {}
  <2>1. F = {} /\ Undoes(p) = {}
    OBVIOUS
  <2>2. Flow(p, iss, w)
    BY <2>1 DEF OooInv
  <2> QED
    BY <1>1, <2>1, <2>2, CommitFlow
<1>4. F \cup Undoes(p) \subseteq {"stale"} => Settles(Commit(p), w)
  <2> HAVE F \cup Undoes(p) \subseteq {"stale"}
  <2>1. F \subseteq {"stale"}
    OBVIOUS
  <2>2. Settles(p, w)
    BY <2>1 DEF OooInv
  <2> QED
    BY <1>1, <2>2, CommitSettles
<1>5. "lost" \notin F \cup Undoes(p) => ExecutedInOrder(Commit(p), iss, lds)
  <2> HAVE "lost" \notin F \cup Undoes(p)
  <2>1. ExecutedInOrder(p, iss, lds)
    BY DEF OooInv
  <2> QED
    BY <1>1, <2>1, CommitInOrder
<1> QED
  BY <1>2, <1>3, <1>4, <1>5 DEF OooInv

\* ooo_issue keeps the invariant.
LEMMA IssueKeeps ==
  ASSUME NEW p, NEW iss, NEW w, NEW lds, NEW F, OooInv(p, iss, w, lds, F),
         NEW inst \in Instructions, CanIssue(p), Len(iss) < MaxIssued
  PROVE  OooInv(Issue(p, inst, Len(iss) + 1), IssuedAfter(iss, w, inst), WriterAfter(iss, w, inst),
                lds, IF inst.is_store /\ inst.rd # 0 THEN F \cup {"store"} ELSE F)
<1> DEFINE g == Issue(p, inst, Len(iss) + 1)
           h == IssuedAfter(iss, w, inst)
           v == WriterAfter(iss, w, inst)
           G == IF inst.is_store /\ inst.rd # 0 THEN F \cup {"store"} ELSE F
<1>1. Core(p, Len(iss)) /\ Recorded(p, iss, w) /\ Len(iss) \in Nat
  BY DEF OooInv, Recorded
<1>2. Core(g, Len(h)) /\ Recorded(g, h, v)
  <2>1. Len(h) = Len(iss) + 1
    BY <1>1, IssuedAfterIs
  <2>2. Core(g, Len(iss) + 1)
    BY <1>1, IssueCore
  <2>3. Recorded(g, h, v)
    BY <1>1, IssueRecorded
  <2> HIDE DEF g, h
  <2> QED
    BY <2>1, <2>2, <2>3
<1>3. G = {} => Flow(g, h, v)
  <2> SUFFICES ASSUME G = {} PROVE Flow(g, h, v)
    OBVIOUS
  <2>1. F = {} /\ ~(inst.is_store /\ inst.rd # 0)
    OBVIOUS
  <2>2. Flow(p, iss, w)
    BY <2>1 DEF OooInv
  <2> QED
    BY <1>1, <2>1, <2>2, IssueFlow
<1>4. G \subseteq {"stale"} => Settles(g, v)
  <2> SUFFICES ASSUME G \subseteq {"stale"} PROVE Settles(g, v)
    OBVIOUS
  <2>1. F \subseteq {"stale"} /\ ~(inst.is_store /\ inst.rd # 0)
    OBVIOUS
  <2>2. Settles(p, w)
    BY <2>1 DEF OooInv
  <2> QED
    BY <1>1, <2>1, <2>2, IssueSettles
<1>5. "lost" \notin G => ExecutedInOrder(g, h, lds)
  <2> SUFFICES ASSUME "lost" \notin G PROVE ExecutedInOrder(g, h, lds)
    OBVIOUS
  <2>1. "lost" \notin F
    OBVIOUS
  <2>2. ExecutedInOrder(p, iss, lds)
    BY <2>1 DEF OooInv
  <2> QED
    BY <1>1, <2>2, IssueInOrder
<1> HIDE DEF g, h, v, G
<1>6. OooInv(g, h, v, lds, G)
  BY <1>2, <1>3, <1>4, <1>5 DEF OooInv
<1> QED
  BY <1>6 DEF g, h, v, G

\* The invariant holds when the core starts.
LEMMA OooInvInit ==
  OooInit => OooInv(cpu, issued, writer, loads, faults)
<1> SUFFICES ASSUME OooInit PROVE OooInv(cpu, issued, writer, loads, faults)
  OBVIOUS
<1>0. /\ MAX_RS \in Nat \ {0} /\ MAX_ROB \in Nat \ {0} /\ MAX_REGISTERS \in Nat \ {0}
      /\ MaxIssued \in Nat \ {0} /\ 0 \in Entries /\ 0 \in Registers /\ 0 \in Value
  BY OooAssumption DEF Entries, Registers, Value
<1> DEFINE rs     == [i \in Stations |-> FreeStation]
           status == [r \in Registers |-> [rob_num |-> NoRob, ready |-> TRUE]]
           rob    == [k \in Entries |-> FreeEntry]
           cdb    == [valid |-> FALSE, tag |-> 0, value |-> 0]
           regs   == [r \in Registers |-> 0]
<1>1. cpu = [rs |-> rs, reg_status |-> status, rob |-> rob, rob_head |-> 0, rob_tail |-> 0,
             rob_count |-> 0, cdb |-> cdb, registers |-> regs, memory |-> 0]
  BY DEF OooInit
<1>2. issued = <<>> /\ writer = regs /\ loads = {} /\ faults = {} /\ Len(issued) = 0
  BY DEF OooInit
<1>3. /\ rs \in [Stations -> {FreeStation} \cup BusyStation]
      /\ rob \in [Entries -> {FreeEntry} \cup BusyEntry]
      /\ regs \in [Registers -> Value]
  BY <1>0
<1>4. status \in [Registers -> RegStatus] /\ cdb \in Bus
  BY <1>0 DEF RegStatus, Bus
<1>5. /\ \A i \in Stations : ~rs[i].busy
      /\ \A k \in Entries : ~rob[k].busy
      /\ \A r \in Registers : status[r] = [rob_num |-> NoRob, ready |-> TRUE] /\ status[r].ready
      /\ \A r \in Registers : regs[r] = 0
      /\ ~cdb.valid
  BY DEF FreeStation, FreeEntry
<1> HIDE DEF rs, status, rob, cdb, regs
<1>6. cpu \in Processor
  BY <1>0, <1>1, <1>3, <1>4 DEF Processor
<1>7. /\ cpu.rs = rs /\ cpu.reg_status = status /\ cpu.rob = rob /\ cpu.rob_head = 0
      /\ cpu.rob_tail = 0 /\ cpu.rob_count = 0 /\ cpu.cdb = cdb /\ cpu.registers = regs
      /\ cpu.memory = 0
  BY <1>1
<1>8. Ring(cpu, Len(issued))
  <2>1. Entry(cpu, 0) = 0
    BY <1>0, <1>7, EntryIs
  <2>2. \A m : m \notin 0 .. 0 - 1
    OBVIOUS
  <2> QED
    BY <1>2, <1>5, <1>7, <2>1, <2>2 DEF Ring
<1>9. Stationed(cpu) /\ OnBus(cpu) /\ RenamedRight(cpu)
  BY <1>0, <1>5, <1>7 DEF Stationed, OnBus, RenamedRight
<1>10. Recorded(cpu, issued, writer)
  <2>1. issued \in Seq(History) /\ Len(issued) <= MaxIssued
    BY <1>0, <1>2
  <2>2. \A n \in 1 .. Len(issued) : FALSE
    BY <1>2
  <2>3. writer \in [Registers -> Value] /\ \A r \in Registers : writer[r] <= Len(issued)
    BY <1>2, <1>3, <1>5
  <2>4. writer[0] = 0 /\ cpu.registers[0] = 0
    BY <1>0, <1>2, <1>5, <1>7
  <2>5. \A i \in Stations : ~cpu.rs[i].busy
    BY <1>5, <1>7
  <2> QED
    BY <2>1, <2>2, <2>3, <2>4, <2>5 DEF Recorded
<1>11. Flow(cpu, issued, writer) /\ Settles(cpu, writer)
  <2>1. cpu.registers = writer
    BY <1>2, <1>7
  <2>2. \A i \in Stations : ~cpu.rs[i].busy
    BY <1>5, <1>7
  <2>3. \A k \in Entries : ~cpu.rob[k].busy
    BY <1>5, <1>7
  <2>4. \A r : Writers(cpu, r) = {}
    BY <2>3 DEF Writers
  <2> QED
    BY <2>1, <2>2, <2>3, <2>4 DEF Flow, Settles
<1>12. ExecutedInOrder(cpu, issued, loads)
  <2>1. \A n \in 1 .. Len(issued) : FALSE
    BY <1>2
  <2>2. LastStore(issued, 0) = 0
    BY LastStoreIs
  <2>3. ExecutedUpTo(cpu, issued, 0) /\ 0 \in 0 .. Len(issued)
    BY <1>2, <1>7, <2>1, <2>2 DEF ExecutedUpTo
  <2>4. \A k \in Entries : ~Unfinished(cpu, k)
    BY <1>5, <1>7 DEF Unfinished
  <2> QED
    BY <1>2, <2>3, <2>4 DEF ExecutedInOrder
<1> QED
  BY <1>6, <1>8, <1>9, <1>10, <1>11, <1>12 DEF OooInv, Core

\* Every step of the core keeps it.
LEMMA OooInvNext ==
  OooInv(cpu, issued, writer, loads, faults) /\ [OooNext]_ooo_vars
      => OooInv(cpu, issued, writer, loads, faults)'
<1> SUFFICES ASSUME OooInv(cpu, issued, writer, loads, faults), [OooNext]_ooo_vars
             PROVE  OooInv(cpu', issued', writer', loads', faults')
  OBVIOUS
<1>1. ASSUME NEW inst \in Instructions, ooo_issue(inst)
      PROVE  OooInv(cpu', issued', writer', loads', faults')
  <2>1. /\ cpu' = Issue(cpu, inst, Len(issued) + 1) /\ CanIssue(cpu) /\ Len(issued) < MaxIssued
        /\ issued' = IssuedAfter(issued, writer, inst) /\ loads' = loads
        /\ faults' = IF inst.is_store /\ inst.rd # 0 THEN faults \cup {"store"} ELSE faults
    BY <1>1 DEF ooo_issue, IssuedAfter
  <2>2. writer' = IF inst.rd # 0 /\ ~inst.is_store
                  THEN [writer EXCEPT ![inst.rd] = Len(issued')] ELSE writer
    BY <1>1 DEF ooo_issue
  <2>3. writer' = WriterAfter(issued, writer, inst)
    BY <2>1, <2>2 DEF WriterAfter
  <2> QED
    BY <2>1, <2>3, IssueKeeps
<1>2. CASE ooo_execute
  BY <1>2, ExecuteKeeps DEF ooo_execute
<1>3. CASE ooo_write_result
  BY <1>3, WriteKeeps DEF ooo_write_result
<1>4. CASE ooo_commit
  BY <1>4, CommitKeeps DEF ooo_commit
<1>5. CASE ooo_step
  <2> DEFINE g == WriteResult(cpu)
             h == Execute(g)
  <2>1. /\ cpu' = Commit(h) /\ issued' = issued /\ writer' = writer /\ loads' = loads \cup Loads(g)
        /\ faults' = faults \cup Aliases(cpu) \cup Loses(g) \cup Undoes(h)
    BY <1>5 DEF ooo_step
  <2>2. OooInv(g, issued, writer, loads, faults \cup Aliases(cpu))
    BY WriteKeeps
  <2> HIDE DEF g, h
  <2>3. OooInv(h, issued, writer, loads \cup Loads(g), (faults \cup Aliases(cpu)) \cup Loses(g))
    BY <2>2, ExecuteKeeps DEF h
  <2>4. OooInv(Commit(h), issued, writer, loads \cup Loads(g),
               ((faults \cup Aliases(cpu)) \cup Loses(g)) \cup Undoes(h))
    BY <2>3, CommitKeeps
  <2> QED
    BY <2>1, <2>4
<1>6. CASE UNCHANGED ooo_vars
  BY <1>6 DEF ooo_vars
<1> QED
  BY <1>1, <1>2, <1>3, <1>4, <1>5, <1>6 DEF OooNext
--------------------------------------------------------------------------------
(* The results. *)

\* The core has the types the model declares.
LEMMA CoreTyped ==
  ASSUME cpu \in Processor
  PROVE  OooTypeOK
<1>1. \A i \in Stations : cpu.rs[i] \in {FreeStation} \cup BusyStation
  BY ProcessorFields
<1>2. \A k \in Entries : cpu.rob[k] \in {FreeEntry} \cup BusyEntry
  BY ProcessorFields
<1>3. /\ cpu.reg_status \in [Registers -> RegStatus] /\ cpu.registers \in [Registers -> Value]
      /\ cpu.memory \in Value /\ cpu.cdb \in Bus
      /\ cpu.rob_head \in Entries /\ cpu.rob_tail \in Entries /\ cpu.rob_count \in 0 .. MAX_ROB
  BY ProcessorFields
<1> QED
  BY <1>1, <1>2, <1>3, Zenon DEF OooTypeOK, BusyStation, BusyEntry, RegStatus, Value, Bus

\* At most one station works for an entry.
LEMMA OneInFlight ==
  ASSUME Stationed(cpu), NEW k \in Entries
  PROVE  Cardinality(InFlight(k)) <= 1
<1>1. \A i, l \in InFlight(k) : i = l
  BY DEF InFlight, Stationed
<1>2. CASE InFlight(k) = {}
  <2>1. Cardinality(InFlight(k)) = 0
    BY <1>2, FS_EmptySet
  <2> QED
    BY <2>1
<1>3. CASE InFlight(k) # {}
  <2>1. PICK i : InFlight(k) = {i}
    BY <1>1, <1>3
  <2>2. Cardinality(InFlight(k)) = 1
    BY <2>1, FS_Singleton
  <2> QED
    BY <2>2
<1> QED
  BY <1>2, <1>3

\* The invariant says all that ResultsInProgramOrder does.
LEMMA OooInvGives ==
  OooInv(cpu, issued, writer, loads, faults) => ResultsInProgramOrder
<1> SUFFICES ASSUME OooInv(cpu, issued, writer, loads, faults) PROVE ResultsInProgramOrder
  OBVIOUS
<1>1. /\ cpu \in Processor /\ Ring(cpu, Len(issued)) /\ Stationed(cpu)
      /\ Recorded(cpu, issued, writer)
  BY DEF OooInv, Core
<1>2. OooTypeOK
  BY <1>1, CoreTyped
<1>3. WaitsForOlder
  <2>1. cpu.rob_tail = (cpu.rob_head + cpu.rob_count) % MAX_ROB
    BY <1>1 DEF Ring, Entry
  <2>2. \A k \in Entries :
           cpu.rob[k].busy <=> \E m \in 0 .. cpu.rob_count - 1 : k = Entry(cpu, m)
    BY <1>1 DEF Ring
  <2>3. \A m \in 0 .. cpu.rob_count - 1 :
           cpu.rob[Entry(cpu, m)].n = Len(issued) - cpu.rob_count + m + 1
    BY <1>1 DEF Ring
  <2>4. \A k \in Entries : Cardinality(InFlight(k)) <= 1
    BY <1>1, OneInFlight
  <2>5. ASSUME NEW i \in Stations, cpu.rs[i].busy
        PROVE  LET own == cpu.rob[cpu.rs[i].dest]
               IN  /\ own.busy /\ ~own.ready /\ own.n = cpu.rs[i].n
                   /\ \A o \in {cpu.rs[i].j, cpu.rs[i].k} : o.wait =>
                         cpu.rob[o.v].busy /\ ~cpu.rob[o.v].ready /\ cpu.rob[o.v].n < own.n
    BY <1>1, <2>5 DEF Stationed, Unfinished, WaitsRight
  <2> QED
    BY <2>1, <2>2, <2>3, <2>4, <2>5, Zenon DEF WaitsForOlder
<1>4. OperandsInProgramOrder
  <2>1. ASSUME faults = {}, NEW i \in Stations, cpu.rs[i].busy
        PROVE  LET need == issued[cpu.rs[i].n]
               IN  /\ \/ cpu.rs[i].j.wait /\ cpu.rob[cpu.rs[i].j.v].n = need.j
                      \/ ~cpu.rs[i].j.wait /\ cpu.rs[i].j.v = need.j
                   /\ \/ cpu.rs[i].k.wait /\ cpu.rob[cpu.rs[i].k.v].n = need.k
                      \/ ~cpu.rs[i].k.wait /\ cpu.rs[i].k.v = need.k
    <3>1. Flow(cpu, issued, writer)
      BY <2>1 DEF OooInv
    <3>2. /\ Gets(cpu, cpu.rs[i].j, issued[cpu.rs[i].n].j)
          /\ Gets(cpu, cpu.rs[i].k, issued[cpu.rs[i].n].k)
      BY <2>1, <3>1 DEF Flow
    <3> QED
      BY <3>2 DEF Gets
  <2> QED
    BY <2>1, Zenon DEF OperandsInProgramOrder
<1>5. LoadsInProgramOrder
  BY DEF OooInv, ExecutedInOrder, LoadsInProgramOrder
<1>6. RegistersSequential
  <2> SUFFICES ASSUME cpu.rob_count = 0, faults \subseteq {"stale"}
               PROVE  cpu.registers = writer
    BY DEF RegistersSequential
  <2>1. Settles(cpu, writer)
    BY DEF OooInv
  <2>2. \A k \in Entries : ~cpu.rob[k].busy
    <3>1. \A m : m \notin 0 .. cpu.rob_count - 1
      OBVIOUS
    <3> QED
      BY <1>1, <3>1 DEF Ring
  <2>3. \A r \in Registers : Writers(cpu, r) = {}
    BY <2>2 DEF Writers
  <2>4. \A r \in Registers : cpu.registers[r] = writer[r]
    <3> TAKE r \in Registers
    <3>1. CASE r = 0
      BY <1>1, <3>1 DEF Recorded
    <3>2. CASE r # 0
      BY <2>1, <2>3, <3>2 DEF Settles
    <3> QED
      BY <3>1, <3>2
  <2>5. cpu.registers \in [Registers -> Value] /\ writer \in [Registers -> Value]
    BY <1>1, ProcessorFields DEF Recorded
  <2> QED
    BY <2>4, <2>5
<1> QED
  BY <1>2, <1>3, <1>4, <1>5, <1>6 DEF ResultsInProgramOrder

\* Whatever the order of the stages, for every number of stations, entries and registers
\* and every program: no circle of waiting, and the operands, the words read and the final
\* registers are those of program order unless a fault named in faults occurred.
THEOREM OooCorrect ==
  OooSpec => []ResultsInProgramOrder
<1>1. OooInit => OooInv(cpu, issued, writer, loads, faults)
  BY OooInvInit
<1>2. OooInv(cpu, issued, writer, loads, faults) /\ [OooNext]_ooo_vars
         => OooInv(cpu, issued, writer, loads, faults)'
  BY OooInvNext
<1>3. OooInv(cpu, issued, writer, loads, faults) => ResultsInProgramOrder
  BY OooInvGives
<1> QED
  BY <1>1, <1>2, <1>3, PTL DEF OooSpec
--------------------------------------------------------------------------------
(* The snooping caches, one at a time: c is a cache, A what it was asked for and when. *)

Ways(c) == 0 .. c.geom.associativity - 1
Sets(c) == 0 .. c.geom.num_sets - 1

IsCache(c) ==
  /\ c = [geom |-> c.geom, replace_policy |-> c.replace_policy, write_policy |-> c.write_policy,
          clock |-> c.clock, writebacks |-> c.writebacks, lines |-> c.lines, plru_bits |-> c.plru_bits]
  /\ c.geom \in Geometries /\ c.replace_policy \in ReplacePolicy /\ c.write_policy \in WritePolicies
  /\ c.clock \in Nat
  /\ c.lines \in [Sets(c) -> [Ways(c) -> CacheLineOf]]
  /\ c.plru_bits \in [Sets(c) -> [0 .. c.geom.associativity - 2 -> {0, 1}]]

Holds(c, s, w, t) == c.lines[s][w].valid /\ c.lines[s][w].tag = t
IsHeld(c, r)      == \E w \in Ways(c) : Holds(c, r.line.set, w, r.line.tag)
Line(s, t)        == [set |-> s, tag |-> t]

\* A line is in one way, is stamped with a time that has been, and was asked for.
OneWay(c)   == \A s \in Sets(c) : \A v, w \in Ways(c) :
                 c.lines[s][v].valid /\ Holds(c, s, w, c.lines[s][v].tag) => v = w
Stamped(c)  == \A s \in Sets(c) : \A w \in Ways(c) : c.lines[s][w].valid => c.lines[s][w].access_order <= c.clock
Known(c, A) == \A s \in Sets(c) : \A w \in Ways(c) :
                 c.lines[s][w].valid => \E r \in A : r.line = Line(s, c.lines[s][w].tag)

\* The history: each line once, each moment once, all of them before now.
AskedBefore(c, A, left) ==
  /\ IsFiniteSet(A)
  /\ A \subseteq [line : [set : Sets(c), tag : Nat], left : Nat]
  /\ \A r \in A : left < r.left
  /\ \A r, q \in A : r.line = q.line \/ r.left = q.left => r = q

\* The order of the stamps is that of the history; what is not held is older than all that is.
Timed(c, A) ==
  \A s \in Sets(c) : \A v, w \in Ways(c) : \A r, q \in A :
     /\ c.lines[s][v].valid /\ c.lines[s][w].valid /\ v # w
     /\ r.line = Line(s, c.lines[s][v].tag) /\ q.line = Line(s, c.lines[s][w].tag)
     /\ c.lines[s][v].access_order <= c.lines[s][w].access_order
     => q.left < r.left

Older(c, A, r, w) == /\ c.lines[r.line.set][w].valid
                     /\ \A q \in A : q.line = Line(r.line.set, c.lines[r.line.set][w].tag) => q.left < r.left

Dropped(c, A) == \A r \in A : ~IsHeld(c, r) => \A w \in Ways(c) : Older(c, A, r, w)

\* The last of its set, the last but one at most; the way of the last is the one the root points away from.
Latest(A, r) == \A q \in A : q.line.set = r.line.set => r.left <= q.left
Second(A, r) == \A p, q \in {e \in A : e.line.set = r.line.set /\ e.left < r.left} : p = q
LatestHeld(c, A) == \A r \in A : Latest(A, r) => IsHeld(c, r)
SecondHeld(c, A) == \A r \in A : Second(A, r) => IsHeld(c, r)
Root(c, w)       == IF w < c.geom.associativity \div 2 THEN 1 ELSE 0
Pointed(c, A)    == \A r \in A : \A w \in Ways(c) :
                      Latest(A, r) /\ Holds(c, r.line.set, w, r.line.tag) => c.plru_bits[r.line.set][0] = Root(c, w)

Keeps(c, A) ==
  /\ c.replace_policy \in {"LRU", "FIFO"} => Timed(c, A) /\ Dropped(c, A)
  /\ c.replace_policy \in {"RANDOM", "PLRU"} => LatestHeld(c, A)
  /\ c.replace_policy = "PLRU" /\ c.geom.associativity > 1 => SecondHeld(c, A) /\ Pointed(c, A)

CacheInv(c, A, left) ==
  IsCache(c) /\ OneWay(c) /\ Stamped(c) /\ Known(c, A) /\ AskedBefore(c, A, left) /\ Keeps(c, A)

\* Of two copies of a line, if one is modified or exclusive the other is not usable.
Alone(c, d) ==
  \A s \in Sets(c) : \A v \in Ways(c), w \in Ways(d) :
     c.lines[s][v].valid /\ Holds(d, s, w, c.lines[s][v].tag) /\ c.lines[s][v].mesi_state \in {"M", "E"}
     => d.lines[s][w].mesi_state = "I"

\* A level without a cache.
NoCache(c) == c.geom = NoLevel /\ DOMAIN c.lines = {}

\* Every cache of a bus or of the hierarchy keeps what it promises; only level three may be missing.
Kept(kind, n, c, A, left) ==
  \/ CacheInv(c, A, left)
  \/ kind = "hierarchy" /\ n = "L3" /\ NoCache(c)
BusCoherent(cache) == \A m, n \in DOMAIN cache : cache[m].geom = cache[n].geom /\ (m # n => Alone(cache[m], cache[n]))

SnoopInv ==
  /\ sc = [kind |-> sc.kind, addrs |-> sc.addrs, left |-> sc.left, cache |-> sc.cache, recent |-> sc.recent]
  /\ sc.kind \in {"bus", "hierarchy"} /\ sc.left \in Nat /\ sc.addrs \subseteq Nat
  /\ DOMAIN sc.recent = DOMAIN sc.cache
  /\ sc.kind = "hierarchy" => DOMAIN sc.cache = Levels
  /\ \A n \in DOMAIN sc.cache : Kept(sc.kind, n, sc.cache[n], sc.recent[n], sc.left)
  /\ sc.kind = "bus" => BusCoherent(sc.cache)
--------------------------------------------------------------------------------
(* The tree of a PLRU set: the walk down is a recursive function, found by its rounds. *)

\* What holds of round 0 and of each round after one of which it holds, holds of all.
LEMMA RoundsKeep ==
  ASSUME NEW P, NEW n \in Nat, 0 \in P, \A k \in 1 .. n : k - 1 \in P => k \in P
  PROVE  \A k \in 0 .. n : k \in P
<1> DEFINE Bad == {k \in 0 .. n : k \notin P}
<1>1. SUFFICES ASSUME Bad # {} PROVE FALSE
  OBVIOUS
<1>2. PICK k \in Bad : \A j \in Bad : k <= j
  <2>1. Bad \in SUBSET Nat
    OBVIOUS
  <2> QED
    BY <1>1, <2>1, LeastElement
<1>3. k # 0 /\ k \in 1 .. n /\ k - 1 \in 0 .. n
  BY <1>2
<1> QED
  BY <1>2, <1>3

\* What n rounds of f lead to from a.
Rounds(a, f, n, rec) == rec = [i \in 0 .. n |-> IF i = 0 THEN a ELSE f[rec[i - 1]]]

\* A loop is well defined.
LEMMA RoundsExist ==
  ASSUME NEW S, NEW a \in S, NEW f \in [S -> S], NEW n \in Nat
  PROVE  \E rec \in [0 .. n -> S] : Rounds(a, f, n, rec)
<1> DEFINE P == {m \in 0 .. n : \E rec \in [0 .. m -> S] : Rounds(a, f, m, rec)}
<1>1. 0 \in P
  <2>1. Rounds(a, f, 0, [k \in 0 .. 0 |-> a])
    BY DEF Rounds
  <2>2. [k \in 0 .. 0 |-> a] \in [0 .. 0 -> S]
    OBVIOUS
  <2> QED
    BY <2>1, <2>2
<1>2. ASSUME NEW m \in 1 .. n, m - 1 \in P
      PROVE  m \in P
  <2>1. PICK rec \in [0 .. m - 1 -> S] : Rounds(a, f, m - 1, rec)
    BY <1>2
  <2> DEFINE longer == [k \in 0 .. m |-> IF k < m THEN rec[k] ELSE f[rec[m - 1]]]
  <2>2. longer \in [0 .. m -> S]
    OBVIOUS
  <2>3. ASSUME NEW k \in 0 .. m
        PROVE  longer[k] = IF k = 0 THEN a ELSE f[longer[k - 1]]
    <3>1. CASE k = 0
      BY <2>1, <3>1 DEF Rounds
    <3>2. CASE k # 0 /\ k < m
      <4>1. rec[k] = f[rec[k - 1]]
        BY <2>1, <3>2 DEF Rounds
      <4> QED
        BY <3>2, <4>1
    <3>3. CASE k = m /\ k # 0
      BY <3>3
    <3> QED
      BY <3>1, <3>2, <3>3
  <2>4. Rounds(a, f, m, longer)
    BY <2>2, <2>3 DEF Rounds
  <2> QED
    BY <2>2, <2>4
<1> HIDE DEF P
<1>3. \A m \in 0 .. n : m \in P
  BY <1>1, <1>2, RoundsKeep
<1> QED
  BY <1>3 DEF P

\* A way down the tree leads to one of the ways, on the side to which the root was left.
At(assoc, lo, hi) ==
  {p \in [rs : Nat, re : Nat, node : Nat] :
     /\ p.rs < p.re /\ p.re <= assoc
     /\ p.node = 0 => p.rs = 0 /\ p.re = assoc
     /\ p.node # 0 => lo <= p.rs /\ p.re <= hi}

\* One level down stays in the half that the root chose.
LEMMA DescendIs ==
  ASSUME NEW assoc \in Nat \ {0}, NEW lo \in Nat, NEW hi \in Nat, NEW p \in At(assoc, lo, hi), NEW goes,
         p.node = 0 => IF goes THEN lo = 0 /\ assoc \div 2 <= hi ELSE lo <= assoc \div 2 /\ hi = assoc,
         p.re - p.rs > 1
  PROVE  Descend(p, goes) \in At(assoc, lo, hi) /\ Descend(p, goes).node # 0
<1> DEFINE mid == (p.rs + p.re) \div 2
<1>1. mid \in Nat /\ p.rs < mid /\ mid < p.re
  BY DEF At
<1>2. p.node = 0 => mid = assoc \div 2
  BY DEF At
<1> HIDE DEF mid
<1>3. CASE goes
  <2>1. Descend(p, goes) = [rs |-> p.rs, re |-> mid, node |-> 2 * p.node + 1]
    BY <1>3 DEF Descend, mid
  <2>2. lo <= p.rs /\ mid <= hi /\ mid <= assoc
    BY <1>1, <1>2, <1>3 DEF At
  <2> QED
    BY <1>1, <2>1, <2>2 DEF At
<1>4. CASE ~goes
  <2>1. Descend(p, goes) = [rs |-> mid, re |-> p.re, node |-> 2 * p.node + 2]
    BY <1>4 DEF Descend, mid
  <2> QED
    BY <1>1, <1>2, <1>4, <2>1 DEF At
<1> QED
  BY <1>3, <1>4

\* The victim is one of the ways, on the side to which the root points.
LEMMA VictimWay ==
  ASSUME NEW assoc \in Nat \ {0}, NEW bits \in [0 .. assoc - 2 -> {0, 1}]
  PROVE  /\ plru_victim(bits, assoc) \in 0 .. assoc - 1
         /\ assoc > 1 => (plru_victim(bits, assoc) < assoc \div 2 <=> bits[0] = 0)
<1> DEFINE goes(p) == bits[p.node] = 0
           lo == IF bits[0] = 0 THEN 0 ELSE assoc \div 2
           hi == IF bits[0] = 0 THEN assoc \div 2 ELSE assoc
           S == At(assoc, lo, hi)
           Next(p) == IF p.re - p.rs <= 1 THEN p ELSE Descend(p, goes(p))
           f == [p \in S |-> Next(p)]
           a == [rs |-> 0, re |-> assoc, node |-> 0]
           Is(down) == down = [i \in 0 .. assoc |-> IF i = 0 THEN a ELSE Next(down[i - 1])]
           g == CHOOSE down : Is(down)
<1>1. lo \in Nat /\ hi \in Nat
  OBVIOUS
<1>2. \A p \in S : p.re - p.rs > 1 => Next(p) \in S /\ Next(p).node # 0
  <2> SUFFICES ASSUME NEW p \in S, p.re - p.rs > 1
               PROVE  Descend(p, goes(p)) \in S /\ Descend(p, goes(p)).node # 0
    BY DEF At
  <2>1. p.node = 0 => IF goes(p) THEN lo = 0 /\ hi = assoc \div 2 ELSE lo = assoc \div 2 /\ hi = assoc
    OBVIOUS
  <2> HIDE DEF goes, lo, hi
  <2> QED
    BY <1>1, <2>1, DescendIs
<1>3. \A p \in S : ~(p.re - p.rs > 1) => Next(p) = p
  BY DEF At
<1>4. a \in S
  BY DEF At
<1> HIDE DEF Next, a, lo, hi
<1>5. f \in [S -> S]
  BY <1>2, <1>3
<1>6. Is(g)
  <2>1. PICK rec \in [0 .. assoc -> S] : Rounds(a, f, assoc, rec)
    <3> HIDE DEF S, f
    <3> QED
      BY <1>4, <1>5, RoundsExist
  <2>2. Is(rec)
    <3>1. \A i \in 0 .. assoc : rec[i] = IF i = 0 THEN a ELSE f[rec[i - 1]]
      BY <2>1 DEF Rounds
    <3>2. \A i \in 0 .. assoc : i # 0 => rec[i - 1] \in S /\ f[rec[i - 1]] = Next(rec[i - 1])
      BY <2>1
    <3> HIDE DEF S, f
    <3> QED
      BY <2>1, <3>1, <3>2
  <2> QED
    BY <2>2
<1>7. plru_victim(bits, assoc) = g[assoc].rs
  BY DEF plru_victim, Next, a
<1> HIDE DEF g
<1>8. g[0] = a /\ \A i \in 1 .. assoc : g[i] = Next(g[i - 1])
  BY <1>6
<1> DEFINE P == {i \in 0 .. assoc : g[i] \in S /\ (i # 0 /\ assoc > 1 => g[i].node # 0)}
<1>9. 0 \in P
  BY <1>4, <1>8
<1>10. ASSUME NEW i \in 1 .. assoc, i - 1 \in P
       PROVE  i \in P
  <2>1. g[i - 1] \in S /\ g[i] = Next(g[i - 1])
    BY <1>8, <1>10
  <2>2. CASE g[i - 1].re - g[i - 1].rs > 1
    BY <1>2, <2>1, <2>2
  <2>3. CASE ~(g[i - 1].re - g[i - 1].rs > 1)
    <3>1. g[i] = g[i - 1]
      BY <1>3, <2>1, <2>3
    <3>2. i - 1 = 0 => assoc <= 1
      BY <1>8, <2>3 DEF a
    <3> QED
      BY <1>10, <2>1, <3>1, <3>2
  <2> QED
    BY <2>2, <2>3
<1> HIDE DEF P
<1>11. assoc \in P
  BY <1>9, <1>10, RoundsKeep
<1>12. g[assoc] \in S /\ (assoc > 1 => g[assoc].node # 0)
  BY <1>11 DEF P
<1>13. g[assoc].rs \in 0 .. assoc - 1
  BY <1>12 DEF At
<1>14. assoc > 1 => lo <= g[assoc].rs /\ g[assoc].rs < hi
  BY <1>1, <1>12 DEF At
<1>15. assoc > 1 => bits[0] \in {0, 1}
  OBVIOUS
<1> QED
  BY <1>7, <1>13, <1>14, <1>15 DEF lo, hi

\* The nodes are kept, and the root points away from the way.
LEMMA UpdatedBits ==
  ASSUME NEW assoc \in Nat \ {0}, NEW bits \in [0 .. assoc - 2 -> {0, 1}], NEW way
  PROVE  /\ plru_update(bits, way, assoc) \in [0 .. assoc - 2 -> {0, 1}]
         /\ assoc > 1 => plru_update(bits, way, assoc)[0] = IF way < assoc \div 2 THEN 1 ELSE 0
<1> DEFINE Bits == [0 .. assoc - 2 -> {0, 1}]
           root == IF way < assoc \div 2 THEN 1 ELSE 0
           left(p) == way < (p.at.rs + p.at.re) \div 2
           Next(p) == IF p.at.re - p.at.rs <= 1 THEN p
                      ELSE [at |-> Descend(p.at, left(p)),
                            bits |-> [p.bits EXCEPT ![p.at.node] = IF left(p) THEN 1 ELSE 0]]
           S == {p \in [at : At(assoc, 0, assoc), bits : Bits] : p.at.node # 0 /\ assoc > 1 => p.bits[0] = root}
           f == [p \in S |-> Next(p)]
           a == [at |-> [rs |-> 0, re |-> assoc, node |-> 0], bits |-> bits]
           Is(down) == down = [i \in 0 .. assoc |-> IF i = 0 THEN a ELSE Next(down[i - 1])]
           g == CHOOSE down : Is(down)
<1>2. \A p \in S : p.at.re - p.at.rs > 1 => Next(p) \in S /\ Next(p).at.node # 0
  <2> SUFFICES ASSUME NEW p \in S, p.at.re - p.at.rs > 1
               PROVE  Next(p) \in S /\ Next(p).at.node # 0
    OBVIOUS
  <2> DEFINE b == [p.bits EXCEPT ![p.at.node] = IF left(p) THEN 1 ELSE 0]
             d == Descend(p.at, left(p))
  <2>1. Next(p) = [at |-> d, bits |-> b]
    BY DEF At
  <2>2. b \in Bits
    OBVIOUS
  <2>3. assoc > 1 => b[0] = root
    BY DEF At
  <2>4. d \in At(assoc, 0, assoc) /\ d.node # 0
    <3>1. p.at \in At(assoc, 0, assoc) /\ assoc \div 2 <= assoc /\ 0 <= assoc \div 2
      OBVIOUS
    <3> HIDE DEF left
    <3> QED
      BY <3>1, DescendIs
  <2> HIDE DEF b, d, Next
  <2> QED
    BY <2>1, <2>2, <2>3, <2>4
<1>3. \A p \in S : ~(p.at.re - p.at.rs > 1) => Next(p) = p
  BY DEF At
<1>4. a \in S
  BY DEF At
<1> HIDE DEF Next, a, root
<1>5. f \in [S -> S]
  BY <1>2, <1>3
<1>6. Is(g)
  <2>1. PICK rec \in [0 .. assoc -> S] : Rounds(a, f, assoc, rec)
    <3> HIDE DEF S, f
    <3> QED
      BY <1>4, <1>5, RoundsExist
  <2>2. Is(rec)
    <3>1. \A i \in 0 .. assoc : rec[i] = IF i = 0 THEN a ELSE f[rec[i - 1]]
      BY <2>1 DEF Rounds
    <3>2. \A i \in 0 .. assoc : i # 0 => rec[i - 1] \in S /\ f[rec[i - 1]] = Next(rec[i - 1])
      BY <2>1
    <3> HIDE DEF S, f
    <3> QED
      BY <2>1, <3>1, <3>2
  <2> QED
    BY <2>2
<1>7. plru_update(bits, way, assoc) = g[assoc].bits
  BY DEF plru_update, Next, a
<1> HIDE DEF g
<1>8. g[0] = a /\ \A i \in 1 .. assoc : g[i] = Next(g[i - 1])
  BY <1>6
<1> DEFINE P == {i \in 0 .. assoc : g[i] \in S /\ (i # 0 /\ assoc > 1 => g[i].at.node # 0)}
<1>9. 0 \in P
  BY <1>4, <1>8
<1>10. ASSUME NEW i \in 1 .. assoc, i - 1 \in P
       PROVE  i \in P
  <2>1. g[i - 1] \in S /\ g[i] = Next(g[i - 1])
    BY <1>8, <1>10
  <2>2. CASE g[i - 1].at.re - g[i - 1].at.rs > 1
    BY <1>2, <2>1, <2>2
  <2>3. CASE ~(g[i - 1].at.re - g[i - 1].at.rs > 1)
    <3>1. g[i] = g[i - 1]
      BY <1>3, <2>1, <2>3
    <3>2. i - 1 = 0 => assoc <= 1
      BY <1>8, <2>3 DEF a
    <3> QED
      BY <1>10, <2>1, <3>1, <3>2
  <2> QED
    BY <2>2, <2>3
<1> HIDE DEF P
<1>11. assoc \in P
  BY <1>9, <1>10, RoundsKeep
<1>12. g[assoc] \in S /\ (assoc > 1 => g[assoc].at.node # 0)
  BY <1>11 DEF P
<1> QED
  BY <1>7, <1>12 DEF root

\* An address has a set of the cache and a tag.
LEMMA SplitIs ==
  ASSUME NEW c, IsCache(c), NEW addr \in Nat
  PROVE  /\ cache_addr_split(addr, c.geom).set \in Sets(c)
         /\ cache_addr_split(addr, c.geom).tag \in Nat
<1>1. c.geom.line_size \in Nat \ {0} /\ c.geom.num_sets \in Nat \ {0}
  BY DEF IsCache, Geometries
<1>2. \A n \in Nat \ {0} : addr \div n \in Nat
  OBVIOUS
<1>3. \A n \in Nat \ {0}, m \in Nat : m % n \in 0 .. n - 1
  OBVIOUS
<1>4. c.geom.line_size * c.geom.num_sets \in Nat \ {0}
  BY <1>1
<1> QED
  BY <1>1, <1>2, <1>3, <1>4 DEF cache_addr_split, Sets

\* A way that is not valid, or, in a full set, the oldest or one the root points to.
Victim(c, s, w) ==
  \/ ~c.lines[s][w].valid
  \/ /\ \A v \in Ways(c) : c.lines[s][v].valid
     /\ c.replace_policy \in {"LRU", "FIFO"} =>
          \A v \in Ways(c) : c.lines[s][w].access_order <= c.lines[s][v].access_order
     /\ c.replace_policy = "PLRU" /\ c.geom.associativity > 1 => c.plru_bits[s][0] # Root(c, w)

LEMMA VictimIs ==
  ASSUME NEW c, IsCache(c), NEW s \in Sets(c), NEW w \in find_victim(c, s)
  PROVE  w \in Ways(c) /\ Victim(c, s, w)
<1> DEFINE set  == c.lines[s]
           free == {v \in Ways(c) : ~set[v].valid}
           order(v) == set[v].access_order
<1>1. /\ c.geom.associativity \in Nat \ {0} /\ DOMAIN set = Ways(c) /\ Ways(c) \in SUBSET Nat
      /\ \A v \in Ways(c) : set[v] \in CacheLineOf /\ order(v) \in Nat
      /\ c.plru_bits[s] \in [0 .. c.geom.associativity - 2 -> {0, 1}]
  BY DEF IsCache, Ways, Geometries, CacheLineOf
<1>2. CASE free # {}
  <2>1. w = Min(free)
    BY <1>1, <1>2 DEF find_victim
  <2>2. free \in SUBSET Nat
    BY <1>1
  <2> HIDE DEF free
  <2>3. w \in free
    BY <1>2, <2>1, <2>2, MinIs
  <2> QED
    BY <2>3 DEF free, Victim
<1>3. CASE free = {}
  <2>1. \A v \in Ways(c) : set[v].valid
    BY <1>3
  <2>2. CASE c.replace_policy \in {"LRU", "FIFO"}
    <3> DEFINE First(v) == \A u \in Ways(c) : order(v) < order(u) \/ (order(v) = order(u) /\ v <= u)
    <3>1. \E v \in Ways(c) : First(v)
      <4> DEFINE orders == {order(v) : v \in Ways(c)}
      <4>1. orders # {} /\ orders \in SUBSET Nat
        BY <1>1 DEF Ways
      <4>2. PICK m \in orders : \A n \in orders : m <= n
        <5> HIDE DEF orders
        <5> QED
          BY <4>1, LeastElement
      <4> DEFINE least == {v \in Ways(c) : order(v) = m}
      <4>3. least # {} /\ least \in SUBSET Nat
        BY <1>1, <4>2
      <4>4. PICK v \in least : \A u \in least : v <= u
        <5> HIDE DEF least
        <5> QED
          BY <4>3, LeastElement
      <4>5. ASSUME NEW u \in Ways(c)
            PROVE  order(v) < order(u) \/ (order(v) = order(u) /\ v <= u)
        <5>1. order(v) = m /\ m <= order(u) /\ order(u) \in Nat /\ m \in Nat
          BY <1>1, <4>2, <4>4
        <5>2. order(u) = m => v <= u
          BY <4>4
        <5> QED
          BY <5>1, <5>2
      <4> QED
        BY <4>4, <4>5
    <3>2. w = CHOOSE v \in Ways(c) : First(v)
      BY <1>1, <1>3, <2>2 DEF find_victim
    <3> HIDE DEF First
    <3>3. w \in Ways(c) /\ First(w)
      BY <3>1, <3>2
    <3>4. \A v \in Ways(c) : order(w) <= order(v)
      BY <1>1, <3>3 DEF First
    <3> QED
      BY <2>1, <2>2, <3>3, <3>4 DEF Victim
  <2>3. CASE c.replace_policy = "RANDOM"
    BY <1>1, <1>3, <2>1, <2>3 DEF find_victim, Victim
  <2>4. CASE c.replace_policy = "PLRU"
    <3>1. w = plru_victim(c.plru_bits[s], c.geom.associativity)
      BY <1>1, <1>3, <2>4 DEF find_victim
    <3>2. w \in Ways(c) /\ (c.geom.associativity > 1 => (w < c.geom.associativity \div 2 <=> c.plru_bits[s][0] = 0))
      BY <1>1, <3>1, VictimWay DEF Ways
    <3>3. c.geom.associativity > 1 => c.plru_bits[s][0] # Root(c, w)
      BY <3>2 DEF Root
    <3> QED
      BY <2>1, <2>4, <3>2, <3>3 DEF Victim
  <2> QED
    BY <2>2, <2>3, <2>4 DEF IsCache, ReplacePolicy
<1> QED
  BY <1>2, <1>3

\* d is the cache after line t of set s was used in way w, which had it or is the victim.
Put(c, d, s, t, w) ==
  /\ IsCache(d) /\ d.geom = c.geom /\ d.replace_policy = c.replace_policy /\ d.clock = c.clock + 1
  /\ w \in Ways(c)
  /\ \/ Holds(c, s, w, t)
     \/ Victim(c, s, w) /\ \A v \in Ways(c) : ~Holds(c, s, v, t)
  /\ d.lines[s][w].valid /\ d.lines[s][w].tag = t /\ d.lines[s][w].access_order = d.clock
  /\ \A u \in Sets(c), v \in Ways(c) : u # s \/ v # w => d.lines[u][v] = c.lines[u][v]
  /\ \A u \in Sets(c) : u # s => d.plru_bits[u] = c.plru_bits[u]

Away(c, d, s, w) == d.replace_policy = "PLRU" /\ d.geom.associativity > 1 => d.plru_bits[s][0] = Root(c, w)

Ticked(c) == [c EXCEPT !.clock = @ + 1]

LEMMA TickedIs ==
  ASSUME NEW c, IsCache(c)
  PROVE  /\ IsCache(Ticked(c)) /\ Sets(Ticked(c)) = Sets(c) /\ Ways(Ticked(c)) = Ways(c)
         /\ Ticked(c).geom = c.geom /\ Ticked(c).lines = c.lines /\ Ticked(c).plru_bits = c.plru_bits
         /\ Ticked(c).replace_policy = c.replace_policy /\ Ticked(c).write_policy = c.write_policy
         /\ Ticked(c).clock = c.clock + 1
<1> DEFINE d == Ticked(c)
<1>1. /\ d = [geom |-> d.geom, replace_policy |-> d.replace_policy, write_policy |-> d.write_policy,
              clock |-> d.clock, writebacks |-> d.writebacks, lines |-> d.lines, plru_bits |-> d.plru_bits]
      /\ d.geom = c.geom /\ d.lines = c.lines /\ d.plru_bits = c.plru_bits /\ d.replace_policy = c.replace_policy
      /\ d.write_policy = c.write_policy /\ d.clock = c.clock + 1
  BY DEF Ticked, IsCache
<1>2. Sets(d) = Sets(c) /\ Ways(d) = Ways(c)
  BY <1>1 DEF Sets, Ways
<1> HIDE DEF d
<1>3. IsCache(d)
  BY <1>1, <1>2 DEF IsCache
<1> QED
  BY <1>1, <1>2, <1>3 DEF d
--------------------------------------------------------------------------------
(* What an access does to one cache. *)

\* A line written in a way, and the way used.
LEMMA PutIs ==
  ASSUME NEW c, IsCache(c), NEW s \in Sets(c), NEW t \in Nat, NEW w \in Ways(c), NEW line \in CacheLineOf,
         line.valid, line.tag = t, line.access_order = c.clock + 1,
         \/ Holds(c, s, w, t)
         \/ Victim(c, s, w) /\ \A v \in Ways(c) : ~Holds(c, s, v, t),
         NEW e,
         e = [geom |-> c.geom, replace_policy |-> c.replace_policy, write_policy |-> c.write_policy,
              clock |-> c.clock + 1, writebacks |-> e.writebacks,
              lines |-> [c.lines EXCEPT ![s] = [c.lines[s] EXCEPT ![w] = line]], plru_bits |-> c.plru_bits]
  PROVE  /\ Put(c, e, s, t, w) /\ e.plru_bits = c.plru_bits /\ e.lines[s][w] = line
         /\ Put(c, Used(e, s, w), s, t, w) /\ Away(c, Used(e, s, w), s, w) /\ Used(e, s, w).lines[s][w] = line
<1> DEFINE lines == [c.lines EXCEPT ![s] = [c.lines[s] EXCEPT ![w] = line]]
           assoc == c.geom.associativity
<1>1. /\ e.geom = c.geom /\ e.replace_policy = c.replace_policy /\ e.write_policy = c.write_policy
      /\ e.clock = c.clock + 1 /\ e.lines = lines /\ e.plru_bits = c.plru_bits
  OBVIOUS
<1>2. /\ c.lines \in [Sets(c) -> [Ways(c) -> CacheLineOf]] /\ assoc \in Nat \ {0} /\ c.clock \in Nat
      /\ c.plru_bits \in [Sets(c) -> [0 .. assoc - 2 -> {0, 1}]]
  BY DEF IsCache, Geometries
<1>3. lines \in [Sets(c) -> [Ways(c) -> CacheLineOf]] /\ lines[s][w] = line
  BY <1>2
<1>4. \A u \in Sets(c), v \in Ways(c) : u # s \/ v # w => lines[u][v] = c.lines[u][v]
  BY <1>2
<1> HIDE DEF lines
<1>5. ASSUME NEW d, NEW bits \in [Sets(c) -> [0 .. assoc - 2 -> {0, 1}]],
             d = [geom |-> c.geom, replace_policy |-> c.replace_policy, write_policy |-> c.write_policy,
                  clock |-> c.clock + 1, writebacks |-> d.writebacks, lines |-> lines, plru_bits |-> bits],
             \A u \in Sets(c) : u # s => bits[u] = c.plru_bits[u]
      PROVE  Put(c, d, s, t, w) /\ d.lines[s][w] = line
  <2>1. /\ d.geom = c.geom /\ d.replace_policy = c.replace_policy /\ d.write_policy = c.write_policy
        /\ d.clock = c.clock + 1 /\ d.lines = lines /\ d.plru_bits = bits
    BY <1>5
  <2>2. Sets(d) = Sets(c) /\ Ways(d) = Ways(c)
    BY <2>1 DEF Sets, Ways
  <2>3. d = [geom |-> d.geom, replace_policy |-> d.replace_policy, write_policy |-> d.write_policy,
             clock |-> d.clock, writebacks |-> d.writebacks, lines |-> d.lines, plru_bits |-> d.plru_bits]
    BY <1>5, <2>1
  <2>4. IsCache(d)
    <3>1. d.clock \in Nat
      BY <1>2, <2>1
    <3> QED
      BY <1>3, <2>1, <2>2, <2>3, <3>1 DEF IsCache
  <2> QED
    BY <1>3, <1>4, <1>5, <2>1, <2>4 DEF Put
<1>6. Put(c, e, s, t, w) /\ e.lines[s][w] = line
  <2>1. e = [geom |-> c.geom, replace_policy |-> c.replace_policy, write_policy |-> c.write_policy,
             clock |-> c.clock + 1, writebacks |-> e.writebacks, lines |-> lines, plru_bits |-> c.plru_bits]
    BY DEF lines
  <2> QED
    BY <1>2, <1>5, <2>1
<1>7. CASE c.replace_policy = "PLRU" /\ assoc > 1
  <2> DEFINE new == plru_update(c.plru_bits[s], w, assoc)
             bits == [c.plru_bits EXCEPT ![s] = new]
             d == [e EXCEPT !.plru_bits = bits]
  <2>1. Used(e, s, w) = d
    BY <1>1, <1>7 DEF Used
  <2>2. new \in [0 .. assoc - 2 -> {0, 1}] /\ new[0] = Root(c, w)
    BY <1>2, <1>7, UpdatedBits DEF Root
  <2> HIDE DEF new
  <2>3. bits \in [Sets(c) -> [0 .. assoc - 2 -> {0, 1}]] /\ (\A u \in Sets(c) : u # s => bits[u] = c.plru_bits[u])
        /\ bits[s] = new
    BY <1>2, <2>2
  <2>4. d = [geom |-> c.geom, replace_policy |-> c.replace_policy, write_policy |-> c.write_policy,
             clock |-> c.clock + 1, writebacks |-> d.writebacks, lines |-> lines, plru_bits |-> bits]
    BY DEF lines
  <2>5. d.plru_bits = bits
    BY <2>4
  <2> HIDE DEF d, bits
  <2>6. Put(c, d, s, t, w) /\ d.lines[s][w] = line
    BY <1>5, <2>3, <2>4
  <2>7. d.plru_bits[s][0] = Root(c, w)
    BY <2>2, <2>3, <2>5
  <2> QED
    BY <1>1, <1>6, <2>1, <2>6, <2>7 DEF Away
<1>8. CASE ~(c.replace_policy = "PLRU" /\ assoc > 1)
  <2>1. Used(e, s, w) = e
    BY <1>1, <1>8 DEF Used
  <2> QED
    BY <1>1, <1>6, <1>8, <2>1 DEF Away
<1> QED
  BY <1>7, <1>8

\* The ways that hold an address.
LEMMA LookupIs ==
  ASSUME NEW c, IsCache(c), OneWay(c), NEW addr \in Nat
  PROVE  LET s == cache_addr_split(addr, c.geom).set
             t == cache_addr_split(addr, c.geom).tag
         IN  /\ cache_lookup(c, addr) = {w \in Ways(c) : Holds(c, s, w, t)}
             /\ cache_lookup(c, addr) # {} =>
                  Min(cache_lookup(c, addr)) \in Ways(c) /\ cache_lookup(c, addr) = {Min(cache_lookup(c, addr))}
<1> DEFINE s == cache_addr_split(addr, c.geom).set
           t == cache_addr_split(addr, c.geom).tag
<1>1. s \in Sets(c) /\ t \in Nat
  BY SplitIs
<1>2. DOMAIN c.lines[s] = Ways(c)
  BY <1>1 DEF IsCache
<1>3. cache_lookup(c, addr) = {w \in Ways(c) : Holds(c, s, w, t)}
  BY <1>2 DEF cache_lookup, Holds
<1> HIDE DEF s, t
<1>4. \A v, w \in cache_lookup(c, addr) : v = w
  BY <1>1, <1>3 DEF OneWay, Holds
<1>5. cache_lookup(c, addr) \in SUBSET Nat
  BY <1>3 DEF Ways
<1>6. cache_lookup(c, addr) # {} => Min(cache_lookup(c, addr)) \in cache_lookup(c, addr)
  BY <1>5, MinIs
<1> QED
  BY <1>3, <1>4, <1>6 DEF s, t

\* A line that no way held is brought in.
LEMMA FilledIs ==
  ASSUME NEW c, IsCache(c), OneWay(c), NEW addr \in Nat, cache_lookup(c, addr) = {},
         NEW dirty \in BOOLEAN, NEW st \in MESIState,
         NEW d \in Filled(Ticked(c), cache_addr_split(addr, c.geom), dirty, st)
  PROVE  LET s == cache_addr_split(addr, c.geom).set
             t == cache_addr_split(addr, c.geom).tag
         IN  \E w \in Ways(c) : /\ Put(c, d, s, t, w) /\ Away(c, d, s, w) /\ ~Holds(c, s, w, t)
                                /\ d.lines[s][w].mesi_state = st
<1> DEFINE s == cache_addr_split(addr, c.geom).set
           t == cache_addr_split(addr, c.geom).tag
           line == [valid |-> TRUE, dirty |-> dirty, tag |-> t, access_order |-> Ticked(c).clock, mesi_state |-> st]
           Back(w) == IF Ticked(c).lines[s][w].valid /\ Ticked(c).lines[s][w].dirty
                      THEN Ticked(c).writebacks + 1 ELSE Ticked(c).writebacks
           After(w) == [Ticked(c) EXCEPT !.lines[s][w] = line, !.writebacks = Back(w)]
<1>1. PICK w \in find_victim(Ticked(c), s) : d = Used(After(w), s, w)
  BY DEF Filled
<1>2. s \in Sets(c) /\ t \in Nat
  BY SplitIs
<1>3. \A v \in Ways(c) : ~Holds(c, s, v, t)
  BY LookupIs
<1>4. w \in Ways(c) /\ Victim(c, s, w)
  <2>1. w \in Ways(Ticked(c)) /\ Victim(Ticked(c), s, w)
    <3>1. IsCache(Ticked(c)) /\ s \in Sets(Ticked(c))
      BY <1>2, TickedIs
    <3> HIDE DEF s
    <3> QED
      BY <1>1, <3>1, VictimIs
  <2> HIDE DEF s
  <2> QED
    BY <2>1, TickedIs DEF Victim, Root
<1>5. line \in CacheLineOf /\ line.valid /\ line.tag = t /\ line.access_order = c.clock + 1 /\ line.mesi_state = st
  <2>1. Ticked(c).clock = c.clock + 1 /\ c.clock \in Nat
    BY TickedIs DEF IsCache
  <2> HIDE DEF t
  <2> QED
    BY <1>2, <2>1 DEF CacheLineOf
<1>6. After(w) = [geom |-> c.geom, replace_policy |-> c.replace_policy, write_policy |-> c.write_policy,
                  clock |-> c.clock + 1, writebacks |-> After(w).writebacks,
                  lines |-> [c.lines EXCEPT ![s] = [c.lines[s] EXCEPT ![w] = line]], plru_bits |-> c.plru_bits]
  <2> DEFINE n == Back(w)
  <2>1. After(w) = [Ticked(c) EXCEPT !.lines[s][w] = line, !.writebacks = n]
    OBVIOUS
  <2> HIDE DEF s, n, line, After
  <2>2. c = [geom |-> c.geom, replace_policy |-> c.replace_policy, write_policy |-> c.write_policy,
             clock |-> c.clock, writebacks |-> c.writebacks, lines |-> c.lines, plru_bits |-> c.plru_bits]
    BY DEF IsCache
  <2>3. Ticked(c) = [geom |-> c.geom, replace_policy |-> c.replace_policy, write_policy |-> c.write_policy,
             clock |-> c.clock + 1, writebacks |-> c.writebacks, lines |-> c.lines, plru_bits |-> c.plru_bits]
    BY <2>2 DEF Ticked
  <2> DEFINE tick == Ticked(c)
             lines == [c.lines EXCEPT ![s] = [c.lines[s] EXCEPT ![w] = line]]
  <2>4. [tick EXCEPT !.lines[s][w] = line, !.writebacks = n] = [tick EXCEPT !.lines = lines, !.writebacks = n]
    <3>1. tick.lines = c.lines
      BY TickedIs
    <3> HIDE DEF tick
    <3> QED
      BY <3>1
  <2> HIDE DEF lines
  <2>5. After(w) = [geom |-> c.geom, replace_policy |-> c.replace_policy, write_policy |-> c.write_policy,
                    clock |-> c.clock + 1, writebacks |-> n, lines |-> lines, plru_bits |-> c.plru_bits]
    <3>1. After(w) = [tick EXCEPT !.lines = lines, !.writebacks = n]
      BY <2>1, <2>4
    <3>2. tick = [geom |-> c.geom, replace_policy |-> c.replace_policy, write_policy |-> c.write_policy,
                  clock |-> c.clock + 1, writebacks |-> c.writebacks, lines |-> c.lines, plru_bits |-> c.plru_bits]
      BY <2>3
    <3> HIDE DEF tick
    <3> QED
      BY <3>1, <3>2
  <2> QED
    BY <2>5 DEF lines
<1> HIDE DEF s, t, line, After
<1>7. /\ Put(c, Used(After(w), s, w), s, t, w) /\ Away(c, Used(After(w), s, w), s, w)
      /\ Used(After(w), s, w).lines[s][w] = line
  BY <1>2, <1>3, <1>4, <1>5, <1>6, PutIs
<1> QED
  BY <1>1, <1>3, <1>4, <1>5, <1>7 DEF s, t

\* The cache with a line written in way w, at the next moment.
Written(c, s, w, line, n) ==
  [geom |-> c.geom, replace_policy |-> c.replace_policy, write_policy |-> c.write_policy,
   clock |-> c.clock + 1, writebacks |-> n,
   lines |-> [c.lines EXCEPT ![s] = [c.lines[s] EXCEPT ![w] = line]], plru_bits |-> c.plru_bits]

\* The line as it is after a hit that reads.
LEMMA RenewedIs ==
  ASSUME NEW old \in CacheLineOf, old.valid, NEW n \in Nat
  PROVE  LET new == [old EXCEPT !.access_order = n]
         IN  /\ new \in CacheLineOf /\ new.valid /\ new.tag = old.tag /\ new.access_order = n
             /\ new.mesi_state = old.mesi_state
BY DEF CacheLineOf

\* A hit is found in the one way that holds the line.
LEMMA HitWay ==
  ASSUME NEW c, IsCache(c), OneWay(c), NEW addr \in Nat, cache_lookup(c, addr) # {}
  PROVE  LET s == cache_addr_split(addr, c.geom).set
             t == cache_addr_split(addr, c.geom).tag
             w == Min(cache_lookup(c, addr))
         IN  /\ s \in Sets(c) /\ t \in Nat /\ w \in Ways(c) /\ Holds(c, s, w, t)
             /\ c.lines[s][w] \in CacheLineOf /\ c.lines[s][w].valid
<1> DEFINE s == cache_addr_split(addr, c.geom).set
           t == cache_addr_split(addr, c.geom).tag
           w == Min(cache_lookup(c, addr))
<1>1. s \in Sets(c) /\ t \in Nat
  BY SplitIs
<1>2. w \in Ways(c) /\ w \in {v \in Ways(c) : Holds(c, s, v, t)}
  <2> HIDE DEF w
  <2> QED
    BY LookupIs DEF w
<1> HIDE DEF s, t, w
<1>3. Holds(c, s, w, t) /\ c.lines[s][w] \in CacheLineOf /\ c.lines[s][w].valid
  BY <1>1, <1>2 DEF IsCache, Holds
<1> QED
  BY <1>1, <1>2, <1>3 DEF s, t, w

\* Fields assigned one after the other.
LEMMA WrittenIs ==
  ASSUME NEW c, IsCache(c), NEW s, NEW w, NEW new
  PROVE  [Ticked(c) EXCEPT !.lines = [c.lines EXCEPT ![s] = [c.lines[s] EXCEPT ![w] = new]]]
           = Written(c, s, w, new, c.writebacks)
<1> DEFINE lines == [c.lines EXCEPT ![s] = [c.lines[s] EXCEPT ![w] = new]]
<1>1. Ticked(c) = [geom |-> c.geom, replace_policy |-> c.replace_policy, write_policy |-> c.write_policy,
                   clock |-> c.clock + 1, writebacks |-> c.writebacks, lines |-> c.lines, plru_bits |-> c.plru_bits]
  BY DEF Ticked, IsCache
<1> HIDE DEF lines
<1>2. [Ticked(c) EXCEPT !.lines = lines]
        = [geom |-> c.geom, replace_policy |-> c.replace_policy, write_policy |-> c.write_policy,
           clock |-> c.clock + 1, writebacks |-> c.writebacks, lines |-> lines, plru_bits |-> c.plru_bits]
  BY <1>1
<1> QED
  BY <1>2 DEF lines, Written

\* What a read leaves: the line used, in the state it had or exclusive.
LEMMA CacheReadIs ==
  ASSUME NEW c, IsCache(c), OneWay(c), NEW addr \in Nat, NEW d \in cache_read(c, addr)
  PROVE  LET s == cache_addr_split(addr, c.geom).set
             t == cache_addr_split(addr, c.geom).tag
         IN  \E w \in Ways(c) :
               /\ Put(c, d, s, t, w) /\ Away(c, d, s, w)
               /\ d.lines[s][w].mesi_state = IF Holds(c, s, w, t) THEN c.lines[s][w].mesi_state ELSE "E"
<1> DEFINE s == cache_addr_split(addr, c.geom).set
           t == cache_addr_split(addr, c.geom).tag
<1>1. /\ Ticked(c).geom = c.geom /\ Ticked(c).lines = c.lines /\ cache_lookup(Ticked(c), addr) = cache_lookup(c, addr)
      /\ Ticked(c).clock = c.clock + 1 /\ Ticked(c).plru_bits = c.plru_bits
  BY TickedIs DEF cache_lookup
<1>2. CASE cache_lookup(c, addr) = {}
  <2>1. d \in Filled(Ticked(c), cache_addr_split(addr, c.geom), FALSE, "E")
    BY <1>1, <1>2 DEF cache_read, Ticked
  <2>2. "E" \in MESIState /\ FALSE \in BOOLEAN
    BY DEF MESIState
  <2>3. \E w \in Ways(c) : /\ Put(c, d, s, t, w) /\ Away(c, d, s, w) /\ ~Holds(c, s, w, t)
                           /\ d.lines[s][w].mesi_state = "E"
    BY <1>2, <2>1, <2>2, FilledIs
  <2> QED
    BY <2>3
<1>3. CASE cache_lookup(c, addr) # {}
  <2> DEFINE w   == Min(cache_lookup(c, addr))
             old == c.lines[s][w]
             tick == Ticked(c)
             e   == [tick EXCEPT !.lines[s][w].access_order = tick.clock]
  <2>1. d = Used(e, s, w)
    BY <1>1, <1>3 DEF cache_read, Ticked
  <2>2. s \in Sets(c) /\ t \in Nat /\ w \in Ways(c) /\ Holds(c, s, w, t) /\ old \in CacheLineOf /\ old.valid
    BY <1>3, HitWay
  <2>3. tick.lines = c.lines /\ tick.clock = c.clock + 1 /\ c.clock \in Nat
    BY <1>1 DEF IsCache
  <2> HIDE DEF s, t, w
  <2> DEFINE new == [old EXCEPT !.access_order = c.clock + 1]
  <2>4. e = Written(c, s, w, new, c.writebacks)
    <3>1. e = [tick EXCEPT !.lines = [c.lines EXCEPT ![s] = [c.lines[s] EXCEPT ![w] = new]]]
      <4> HIDE DEF tick
      <4> QED
        BY <2>3
    <3> HIDE DEF new, e, old
    <3> QED
      BY <3>1, WrittenIs
  <2>5. /\ new \in CacheLineOf /\ new.valid /\ new.tag = t /\ new.access_order = c.clock + 1
        /\ new.mesi_state = old.mesi_state
    <3>1. old.tag = t /\ c.clock + 1 \in Nat
      BY <2>2, <2>3 DEF Holds
    <3> HIDE DEF old
    <3> QED
      BY <2>2, <3>1, RenewedIs
  <2>6. Put(c, Used(e, s, w), s, t, w) /\ Away(c, Used(e, s, w), s, w)
        /\ Used(e, s, w).lines[s][w].mesi_state = old.mesi_state
    <3> HIDE DEF e, new, old
    <3>1. /\ Put(c, Used(e, s, w), s, t, w) /\ Away(c, Used(e, s, w), s, w)
          /\ Used(e, s, w).lines[s][w] = new
      BY <2>2, <2>4, <2>5, PutIs DEF Written
    <3> QED
      BY <2>5, <3>1
  <2> HIDE DEF e
  <2>7. /\ Put(c, d, s, t, w) /\ Away(c, d, s, w)
        /\ d.lines[s][w].mesi_state = IF Holds(c, s, w, t) THEN c.lines[s][w].mesi_state ELSE "E"
    BY <2>1, <2>2, <2>6
  <2> QED
    BY <2>2, <2>7 DEF s, t
<1> QED
  BY <1>2, <1>3

\* What a write leaves: nothing but the time, or the line used, modified.
LEMMA CacheWriteIs ==
  ASSUME NEW c, IsCache(c), OneWay(c), NEW addr \in Nat, NEW d \in cache_write(c, addr)
  PROVE  LET s == cache_addr_split(addr, c.geom).set
             t == cache_addr_split(addr, c.geom).tag
         IN  \/ cache_lookup(c, addr) = {} /\ c.write_policy = "THROUGH_NO_ALLOC" /\ d = Ticked(c)
             \/ /\ ~(cache_lookup(c, addr) = {} /\ c.write_policy = "THROUGH_NO_ALLOC")
                /\ \E w \in Ways(c) :
                     /\ Put(c, d, s, t, w) /\ d.lines[s][w].mesi_state = "M"
                     /\ IF cache_lookup(c, addr) = {} THEN Away(c, d, s, w)
                        ELSE Holds(c, s, w, t) /\ d.plru_bits = c.plru_bits
<1> DEFINE s == cache_addr_split(addr, c.geom).set
           t == cache_addr_split(addr, c.geom).tag
           back == c.write_policy = "BACK_ALLOC"
<1>1. /\ Ticked(c).geom = c.geom /\ Ticked(c).lines = c.lines /\ cache_lookup(Ticked(c), addr) = cache_lookup(c, addr)
      /\ Ticked(c).clock = c.clock + 1 /\ Ticked(c).plru_bits = c.plru_bits /\ Ticked(c).write_policy = c.write_policy
  BY TickedIs DEF cache_lookup
<1>2. CASE cache_lookup(c, addr) = {} /\ c.write_policy = "THROUGH_NO_ALLOC"
  BY <1>1, <1>2 DEF cache_write, Ticked
<1>3. CASE cache_lookup(c, addr) = {} /\ c.write_policy # "THROUGH_NO_ALLOC"
  <2>1. d \in Filled(Ticked(c), cache_addr_split(addr, c.geom), back, "M")
    BY <1>1, <1>3 DEF cache_write, Ticked
  <2>2. "M" \in MESIState /\ back \in BOOLEAN
    BY DEF MESIState
  <2>3. \E w \in Ways(c) : /\ Put(c, d, s, t, w) /\ Away(c, d, s, w) /\ ~Holds(c, s, w, t)
                           /\ d.lines[s][w].mesi_state = "M"
    <3> HIDE DEF back
    <3> QED
      BY <1>3, <2>1, <2>2, FilledIs
  <2> QED
    BY <1>3, <2>3
<1>4. CASE cache_lookup(c, addr) # {}
  <2> DEFINE w   == Min(cache_lookup(c, addr))
             old == c.lines[s][w]
             now == old.dirty \/ back
             tick == Ticked(c)
             e   == [tick EXCEPT !.lines[s][w] =
                       [old EXCEPT !.access_order = tick.clock, !.mesi_state = "M", !.dirty = now]]
  <2>1. d = e
    BY <1>1, <1>4 DEF cache_write, Ticked
  <2>2. s \in Sets(c) /\ t \in Nat /\ w \in Ways(c) /\ Holds(c, s, w, t) /\ old \in CacheLineOf /\ old.valid
    BY <1>4, HitWay
  <2>3. tick.lines = c.lines /\ tick.clock = c.clock + 1 /\ c.clock \in Nat
    BY <1>1 DEF IsCache
  <2>4. now \in BOOLEAN /\ "M" \in MESIState
    BY DEF MESIState
  <2> HIDE DEF s, t, w
  <2> DEFINE new == [old EXCEPT !.access_order = c.clock + 1, !.mesi_state = "M", !.dirty = now]
  <2>5. e = Written(c, s, w, new, c.writebacks)
    <3>1. e = [tick EXCEPT !.lines = [c.lines EXCEPT ![s] = [c.lines[s] EXCEPT ![w] = new]]]
      <4> HIDE DEF tick, old, now
      <4> QED
        BY <2>3
    <3> HIDE DEF new, e, old, now
    <3> QED
      BY <3>1, WrittenIs
  <2>7. /\ new \in CacheLineOf /\ new.valid /\ new.tag = t /\ new.access_order = c.clock + 1
        /\ new.mesi_state = "M"
    <3>1. old.tag = t /\ c.clock + 1 \in Nat
      BY <2>2, <2>3 DEF Holds
    <3> DEFINE n == c.clock + 1
    <3> HIDE DEF old, now, n
    <3> QED
      BY <2>2, <2>4, <3>1 DEF CacheLineOf, MESIState, n
  <2>6. Put(c, e, s, t, w) /\ e.plru_bits = c.plru_bits /\ e.lines[s][w].mesi_state = "M"
    <3> HIDE DEF e, new, now, old
    <3>0. e = [geom |-> c.geom, replace_policy |-> c.replace_policy, write_policy |-> c.write_policy,
               clock |-> c.clock + 1, writebacks |-> e.writebacks,
               lines |-> [c.lines EXCEPT ![s] = [c.lines[s] EXCEPT ![w] = new]], plru_bits |-> c.plru_bits]
      BY <2>5 DEF Written
    <3>1. Put(c, e, s, t, w) /\ e.plru_bits = c.plru_bits /\ e.lines[s][w] = new
      BY <2>2, <2>7, <3>0, PutIs
    <3> QED
      BY <2>7, <3>1
  <2> HIDE DEF e
  <2> QED
    BY <1>4, <2>1, <2>2, <2>6 DEF s, t
<1> QED
  BY <1>2, <1>3, <1>4
--------------------------------------------------------------------------------
(* One cache keeps what it promises. *)

\* What a cache was asked for, after line t of set s when left accesses were to come.
Asked(A, s, t, left) == {r \in A : r.line # Line(s, t)} \cup {[line |-> Line(s, t), left |-> left]}

LEMMA AskedIs ==
  ASSUME NEW c, NEW A, NEW left \in Nat \ {0}, AskedBefore(c, A, left),
         NEW d, d.geom = c.geom, NEW s \in Sets(c), NEW t \in Nat
  PROVE  /\ AskedBefore(d, Asked(A, s, t, left), left - 1)
         /\ \A r \in Asked(A, s, t, left) :
              \/ r \in A /\ r.line # Line(s, t) /\ left < r.left
              \/ r.line = Line(s, t) /\ r.left = left
         /\ \E r \in Asked(A, s, t, left) : r.line = Line(s, t) /\ r.left = left
         /\ \A r \in A : r.line # Line(s, t) => r \in Asked(A, s, t, left)
<1> DEFINE new == [line |-> Line(s, t), left |-> left]
           B   == Asked(A, s, t, left)
<1>1. new \in [line : [set : Sets(c), tag : Nat], left : Nat] /\ new.line = Line(s, t) /\ new.left = left
  BY DEF Line
<1>2. Sets(d) = Sets(c)
  BY DEF Sets
<1>3. B = {r \in A : r.line # Line(s, t)} \cup {new}
  BY DEF Asked
<1> HIDE DEF new, B
<1>4. IsFiniteSet(B)
  <2>1. IsFiniteSet({r \in A : r.line # Line(s, t)})
    BY FS_Subset DEF AskedBefore
  <2> QED
    BY <1>3, <2>1, FS_AddElement
<1>5. \A r \in B : \/ r \in A /\ r.line # Line(s, t) /\ left < r.left
                   \/ r = new
  BY <1>3 DEF AskedBefore
<1>6. B \subseteq [line : [set : Sets(c), tag : Nat], left : Nat]
  BY <1>1, <1>5 DEF AskedBefore
<1>7. \A r \in B : left - 1 < r.left
  BY <1>1, <1>5, <1>6
<1>8. \A r, q \in B : r.line = q.line \/ r.left = q.left => r = q
  <2> TAKE r, q \in B
  <2>1. CASE r \in A /\ q \in A
    BY <2>1 DEF AskedBefore
  <2>2. CASE r = new \/ q = new
    BY <1>1, <1>5, <1>6, <2>2
  <2> QED
    BY <1>5, <2>1, <2>2
<1>9. AskedBefore(d, B, left - 1)
  BY <1>2, <1>4, <1>6, <1>7, <1>8 DEF AskedBefore
<1> QED
  BY <1>1, <1>3, <1>5, <1>9 DEF B

\* Only this way has another line than it had.
Elsewhere(c, d, s, w) ==
  \A u \in Sets(c), v \in Ways(c) : d.lines[u][v] # c.lines[u][v] => u = s /\ v = w

\* The lines of a set stay apart, stamped and asked for.
LEMMA PutKeepsLines ==
  ASSUME NEW c, NEW A, NEW left \in Nat \ {0}, CacheInv(c, A, left),
         NEW d, NEW s \in Sets(c), NEW t \in Nat, NEW w \in Ways(c), Put(c, d, s, t, w)
  PROVE  /\ Sets(d) = Sets(c) /\ Ways(d) = Ways(c) /\ OneWay(d) /\ Stamped(d)
         /\ Holds(d, s, w, t)
         /\ Elsewhere(c, d, s, w)
         /\ Known(d, Asked(A, s, t, left))
         /\ Holds(c, s, w, t) => Known(d, A)
<1>1. Sets(d) = Sets(c) /\ Ways(d) = Ways(c)
  BY DEF Put, Sets, Ways
<1>2. Holds(d, s, w, t) /\ d.lines[s][w].valid /\ d.lines[s][w].tag = t
  BY DEF Put, Holds
<1>3. \A u \in Sets(c), v \in Ways(c) : d.lines[u][v] # c.lines[u][v] => u = s /\ v = w
  BY DEF Put
<1>4. \A v \in Ways(c) : Holds(d, s, v, t) => v = w
  <2> TAKE v \in Ways(c)
  <2>1. CASE Holds(c, s, w, t)
    BY <1>3, <2>1 DEF CacheInv, OneWay, Holds
  <2>2. CASE \A x \in Ways(c) : ~Holds(c, s, x, t)
    BY <1>3, <2>2 DEF Holds
  <2> QED
    BY <2>1, <2>2 DEF Put
<1>5. OneWay(d)
  <2> SUFFICES ASSUME NEW u \in Sets(c), NEW v \in Ways(c), NEW x \in Ways(c),
                      d.lines[u][v].valid, Holds(d, u, x, d.lines[u][v].tag)
               PROVE  v = x
    BY <1>1 DEF OneWay
  <2>1. CASE u = s /\ (v = w \/ x = w)
    BY <1>2, <1>4, <2>1 DEF Holds
  <2>2. CASE ~(u = s /\ (v = w \/ x = w))
    <3>1. d.lines[u][v] = c.lines[u][v] /\ d.lines[u][x] = c.lines[u][x]
      BY <1>3, <2>2
    <3> QED
      BY <3>1 DEF CacheInv, OneWay, Holds
  <2> QED
    BY <2>1, <2>2
<1>6. Stamped(d)
  <2> SUFFICES ASSUME NEW u \in Sets(c), NEW v \in Ways(c), d.lines[u][v].valid
               PROVE  d.lines[u][v].access_order <= d.clock
    BY <1>1 DEF Stamped
  <2>1. d.clock = c.clock + 1 /\ c.clock \in Nat /\ d.lines[s][w].access_order = d.clock
    BY DEF Put, CacheInv, IsCache
  <2>2. CASE d.lines[u][v] = c.lines[u][v]
    <3>1. c.lines[u][v] \in CacheLineOf
      BY DEF CacheInv, IsCache
    <3>2. c.lines[u][v].access_order \in Nat
      BY <3>1 DEF CacheLineOf
    <3>3. c.lines[u][v].access_order <= c.clock
      BY <2>2 DEF CacheInv, Stamped
    <3> QED
      BY <2>1, <2>2, <3>2, <3>3
  <2>3. CASE u = s /\ v = w
    BY <2>1, <2>3
  <2> QED
    BY <1>3, <2>2, <2>3
<1>7. AskedBefore(c, A, left) /\ d.geom = c.geom
  BY DEF CacheInv, Put
<1>8. Known(d, Asked(A, s, t, left))
  <2> SUFFICES ASSUME NEW u \in Sets(c), NEW v \in Ways(c), d.lines[u][v].valid
               PROVE  \E r \in Asked(A, s, t, left) : r.line = Line(u, d.lines[u][v].tag)
    BY <1>1 DEF Known
  <2>1. CASE Line(u, d.lines[u][v].tag) = Line(s, t)
    BY <1>7, <2>1, AskedIs
  <2>2. CASE Line(u, d.lines[u][v].tag) # Line(s, t)
    <3>1. d.lines[u][v] = c.lines[u][v]
      BY <1>2, <1>3, <2>2
    <3>2. PICK r \in A : r.line = Line(u, d.lines[u][v].tag)
      BY <3>1 DEF CacheInv, Known
    <3> QED
      BY <1>7, <2>2, <3>2, AskedIs
  <2> QED
    BY <2>1, <2>2
<1>9. ASSUME Holds(c, s, w, t) PROVE Known(d, A)
  <2> SUFFICES ASSUME NEW u \in Sets(c), NEW v \in Ways(c), d.lines[u][v].valid
               PROVE  \E r \in A : r.line = Line(u, d.lines[u][v].tag)
    BY <1>1 DEF Known
  <2>1. c.lines[u][v].valid /\ c.lines[u][v].tag = d.lines[u][v].tag
    BY <1>2, <1>3, <1>9 DEF Holds
  <2> QED
    BY <2>1 DEF CacheInv, Known
<1> QED
  BY <1>1, <1>2, <1>3, <1>5, <1>6, <1>8, <1>9 DEF Elsewhere

\* LRU and FIFO: the line just used is the newest, and what it replaced was the oldest.
LEMMA PutKeepsOrder ==
  ASSUME NEW c, NEW A, NEW left \in Nat \ {0}, CacheInv(c, A, left), c.replace_policy \in {"LRU", "FIFO"},
         NEW d, NEW s \in Sets(c), NEW t \in Nat, NEW w \in Ways(c), Put(c, d, s, t, w)
  PROVE  Timed(d, Asked(A, s, t, left)) /\ Dropped(d, Asked(A, s, t, left))
<1> DEFINE B == Asked(A, s, t, left)
<1>a. /\ Sets(d) = Sets(c) /\ Ways(d) = Ways(c) /\ OneWay(d)
      /\ Holds(d, s, w, t) /\ Elsewhere(c, d, s, w)
  BY PutKeepsLines
<1>1. /\ Sets(d) = Sets(c) /\ Ways(d) = Ways(c) /\ OneWay(d)
      /\ Holds(d, s, w, t)
      /\ \A u \in Sets(c), v \in Ways(c) : d.lines[u][v] # c.lines[u][v] => u = s /\ v = w
  BY <1>a DEF Elsewhere
<1>0. \A v \in Ways(c) : Holds(d, s, v, t) => v = w
  BY <1>1 DEF OneWay, Holds
<1>2. d.lines[s][w].valid /\ d.lines[s][w].tag = t
  BY <1>1 DEF Holds
<1>3. AskedBefore(c, A, left) /\ d.geom = c.geom
  BY DEF CacheInv, Put
<1>4. /\ \A r \in B : \/ r \in A /\ r.line # Line(s, t) /\ left < r.left
                      \/ r.line = Line(s, t) /\ r.left = left
      /\ \A r \in A : r.left \in Nat /\ r.line.set \in Sets(c)
      /\ \A u, v, x, y : Line(u, v) = Line(x, y) <=> u = x /\ v = y
      /\ \A u, v : Line(u, v).set = u /\ Line(u, v).tag = v
  BY <1>3, AskedIs DEF AskedBefore, Line
<1> HIDE DEF B
<1>5. Timed(d, B)
  <2> SUFFICES ASSUME NEW u \in Sets(c), NEW v \in Ways(c), NEW x \in Ways(c), NEW r \in B, NEW q \in B,
                      d.lines[u][v].valid, d.lines[u][x].valid, v # x,
                      r.line = Line(u, d.lines[u][v].tag), q.line = Line(u, d.lines[u][x].tag),
                      d.lines[u][v].access_order <= d.lines[u][x].access_order
               PROVE  q.left < r.left
    BY <1>1 DEF Timed
  <2>1. CASE u = s /\ v = w
    <3>1. d.lines[u][x] = c.lines[u][x] /\ d.lines[u][v].access_order = c.clock + 1 /\ c.clock \in Nat
      BY <1>1, <2>1 DEF Put, CacheInv, IsCache
    <3>2. c.lines[u][x].access_order <= c.clock
      BY <3>1 DEF CacheInv, Stamped
    <3>3. c.lines[u][x] \in CacheLineOf
      BY DEF CacheInv, IsCache
    <3>4. c.lines[u][x].access_order \in Nat
      BY <3>3 DEF CacheLineOf
    <3> QED
      BY <3>1, <3>2, <3>4
  <2>2. CASE u = s /\ x = w
    <3>1. q.line = Line(s, t)
      BY <1>2, <2>2
    <3>2. d.lines[s][v].tag # t
      BY <1>0, <1>1, <2>2 DEF Holds
    <3> QED
      BY <1>4, <2>2, <3>1, <3>2
  <2>3. CASE ~(u = s /\ (v = w \/ x = w))
    <3>1. d.lines[u][v] = c.lines[u][v] /\ d.lines[u][x] = c.lines[u][x]
      BY <1>1, <2>3
    <3>2. r.line # Line(s, t) /\ q.line # Line(s, t)
      BY <1>0, <1>1, <1>4, <2>3 DEF Holds
    <3>3. r \in A /\ q \in A
      BY <1>4, <3>2
    <3> QED
      BY <3>1, <3>3 DEF CacheInv, Keeps, Timed
  <2> QED
    BY <2>1, <2>2, <2>3
<1>6. Dropped(d, B)
  <2> SUFFICES ASSUME NEW r \in B, ~IsHeld(d, r), NEW x \in Ways(c)
               PROVE  Older(d, B, r, x)
    BY <1>1 DEF Dropped
  <2>1. r \in A /\ r.line # Line(s, t) /\ left < r.left
    BY <1>1, <1>4 DEF IsHeld
  <2> DEFINE u == r.line.set
  <2>2. u \in Sets(c) /\ r.left \in Nat
    BY <1>4, <2>1
  <2>3. CASE u = s /\ x = w
    <3>1. \A q \in B : q.line = Line(s, t) => q.left = left
      BY <1>4
    <3> QED
      BY <1>2, <2>1, <2>3, <3>1 DEF Older
  <2>4. CASE ~(u = s /\ x = w)
    <3>1. d.lines[u][x] = c.lines[u][x]
      BY <1>1, <2>2, <2>4
    <3>2. Older(c, A, r, x)
      <4>1. CASE ~IsHeld(c, r)
        BY <2>1, <4>1 DEF CacheInv, Keeps, Dropped
      <4>2. CASE IsHeld(c, r)
        <5>1. PICK y \in Ways(c) : Holds(c, u, y, r.line.tag)
          BY <4>2 DEF IsHeld
        <5>2. ~Holds(d, u, y, r.line.tag)
          BY <1>1 DEF IsHeld
        <5>3. u = s /\ y = w
          BY <1>1, <2>2, <5>1, <5>2 DEF Holds
        <5>4. r.line = Line(u, r.line.tag)
          BY <1>3, <2>1 DEF AskedBefore, Line
        <5>5. ~Holds(c, s, w, t)
          BY <2>1, <5>1, <5>3, <5>4 DEF Holds
        <5>6. \A v \in Ways(c) : c.lines[s][v].valid /\ c.lines[s][w].access_order <= c.lines[s][v].access_order
          BY <5>1, <5>3, <5>5 DEF Put, Victim, Holds
        <5>7. x # w /\ r.line = Line(s, c.lines[s][w].tag)
          BY <2>4, <5>1, <5>3, <5>4 DEF Holds
        <5> QED
          BY <2>1, <5>3, <5>6, <5>7 DEF CacheInv, Keeps, Timed, Older
      <4> QED
        BY <4>1, <4>2
    <3>3. \A q \in B : q \in A \/ q.left < r.left
      BY <1>4, <2>1
    <3> QED
      BY <3>1, <3>2, <3>3 DEF Older
  <2> QED
    BY <2>3, <2>4
<1> QED
  BY <1>5, <1>6 DEF B

\* RANDOM and PLRU: the latest line of every set is held.
LEMMA PutKeepsLatest ==
  ASSUME NEW c, NEW A, NEW left \in Nat \ {0}, CacheInv(c, A, left), c.replace_policy \in {"RANDOM", "PLRU"},
         NEW d, NEW s \in Sets(c), NEW t \in Nat, NEW w \in Ways(c), Put(c, d, s, t, w)
  PROVE  LatestHeld(d, Asked(A, s, t, left))
<1> DEFINE B == Asked(A, s, t, left)
<1>1. /\ Sets(d) = Sets(c) /\ Ways(d) = Ways(c) /\ Holds(d, s, w, t)
      /\ \A u \in Sets(c), v \in Ways(c) : d.lines[u][v] # c.lines[u][v] => u = s /\ v = w
  BY PutKeepsLines DEF Elsewhere
<1>2. AskedBefore(c, A, left) /\ d.geom = c.geom
  BY DEF CacheInv, Put
<1>3. /\ \A r \in B : \/ r \in A /\ r.line # Line(s, t) /\ left < r.left
                      \/ r.line = Line(s, t) /\ r.left = left
      /\ \E r \in B : r.line = Line(s, t) /\ r.left = left
      /\ \A r \in A : r.line # Line(s, t) => r \in B
      /\ \A r \in A : r.left \in Nat /\ r.line.set \in Sets(c) /\ r.line = Line(r.line.set, r.line.tag)
      /\ Line(s, t).set = s /\ Line(s, t).tag = t
  BY <1>2, AskedIs DEF AskedBefore, Line
<1> HIDE DEF B
<1> SUFFICES ASSUME NEW r \in B, Latest(B, r)
             PROVE  IsHeld(d, r)
  BY DEF LatestHeld, B
<1>4. CASE r.line = Line(s, t)
  BY <1>1, <1>3, <1>4 DEF IsHeld
<1>5. CASE r.line # Line(s, t)
  <2>1. r \in A /\ left < r.left /\ r.line.set \in Sets(c)
    BY <1>3, <1>5
  <2>2. r.line.set # s
    BY <1>3, <2>1 DEF Latest
  <2>3. \A q \in A : q.line.set = r.line.set => q \in B
    BY <1>3, <2>2
  <2>4. IsHeld(c, r)
    BY <2>1, <2>3 DEF Latest, CacheInv, Keeps, LatestHeld
  <2> QED
    BY <1>1, <2>1, <2>2, <2>4 DEF IsHeld, Holds
<1> QED
  BY <1>4, <1>5

\* PLRU: the root points away from the latest, so that the next victim is not in its half.
LEMMA PutKeepsSecond ==
  ASSUME NEW c, NEW A, NEW left \in Nat \ {0}, CacheInv(c, A, left),
         c.replace_policy = "PLRU", c.geom.associativity > 1,
         NEW d, NEW s \in Sets(c), NEW t \in Nat, NEW w \in Ways(c), Put(c, d, s, t, w), Away(c, d, s, w)
  PROVE  SecondHeld(d, Asked(A, s, t, left)) /\ Pointed(d, Asked(A, s, t, left))
<1> DEFINE B == Asked(A, s, t, left)
<1>1. /\ Sets(d) = Sets(c) /\ Ways(d) = Ways(c) /\ OneWay(d)
      /\ Holds(d, s, w, t)
      /\ \A u \in Sets(c), v \in Ways(c) : d.lines[u][v] # c.lines[u][v] => u = s /\ v = w
  BY PutKeepsLines DEF Elsewhere
<1>0. \A v \in Ways(c) : Holds(d, s, v, t) => v = w
  BY <1>1 DEF OneWay, Holds
<1>2. AskedBefore(c, A, left) /\ d.geom = c.geom
  BY DEF CacheInv, Put
<1>3. /\ \A r \in B : \/ r \in A /\ r.line # Line(s, t) /\ left < r.left
                      \/ r.line = Line(s, t) /\ r.left = left
      /\ \E r \in B : r.line = Line(s, t) /\ r.left = left
      /\ \A r \in A : r.line # Line(s, t) => r \in B
      /\ \A r \in A : r.left \in Nat /\ r.line.set \in Sets(c) /\ r.line = Line(r.line.set, r.line.tag)
      /\ Line(s, t).set = s /\ Line(s, t).tag = t
      /\ \A r, q \in A : r.line = q.line \/ r.left = q.left => r = q
  BY <1>2, AskedIs DEF AskedBefore, Line
<1>4. LatestHeld(c, A) /\ SecondHeld(c, A) /\ Pointed(c, A)
  BY DEF CacheInv, Keeps
<1> HIDE DEF B
<1>5. \A r \in B : r.line.set # s => r \in A /\ \A q \in A : q.line.set = r.line.set => q \in B
  BY <1>3
<1>6. SecondHeld(d, B)
  <2> SUFFICES ASSUME NEW r \in B, Second(B, r)
               PROVE  IsHeld(d, r)
    BY DEF SecondHeld
  <2>1. CASE r.line = Line(s, t)
    BY <1>1, <1>3, <2>1 DEF IsHeld
  <2>2. CASE r.line.set # s
    <3>0. r \in A /\ \A q \in A : q.line.set = r.line.set => q \in B
      BY <1>5, <2>2
    <3>1. r \in A /\ Second(A, r)
      <4> SUFFICES ASSUME NEW p \in A, NEW q \in A, p.line.set = r.line.set, q.line.set = r.line.set,
                          p.left < r.left, q.left < r.left
                   PROVE  p = q
        BY <3>0 DEF Second
      <4>1. p \in B /\ q \in B
        BY <3>0
      <4> QED
        BY <4>1 DEF Second
    <3> QED
      BY <1>1, <1>3, <1>4, <2>2, <3>1 DEF SecondHeld, IsHeld, Holds
  <2>3. CASE r.line # Line(s, t) /\ r.line.set = s
    <3>1. r \in A /\ left < r.left
      BY <1>3, <2>3
    <3>2. \A p \in A : p.line.set = s /\ p.left < r.left => p.line = Line(s, t)
      <4> SUFFICES ASSUME NEW p \in A, p.line.set = s, p.left < r.left, p.line # Line(s, t)
                   PROVE  FALSE
        OBVIOUS
      <4>1. PICK new \in B : new.line = Line(s, t) /\ new.left = left
        BY <1>3
      <4>2. p \in B
        BY <1>3
      <4>3. p = new
        BY <1>3, <2>3, <3>1, <4>1, <4>2 DEF Second
      <4> QED
        BY <4>1, <4>3
    <3>3. Second(A, r)
      BY <1>3, <2>3, <3>2 DEF Second
    <3>4. PICK y \in Ways(c) : Holds(c, s, y, r.line.tag)
      BY <1>4, <2>3, <3>1, <3>3 DEF SecondHeld, IsHeld
    <3>5. CASE Holds(d, s, y, r.line.tag)
      BY <1>1, <2>3, <3>5 DEF IsHeld
    <3>6. CASE ~Holds(d, s, y, r.line.tag)
      <4>1. y = w
        BY <1>1, <3>4, <3>6 DEF Holds
      <4>2. r.line.tag # t
        BY <1>3, <2>3, <3>1
      <4>3. ~Holds(c, s, w, t)
        BY <3>4, <4>1, <4>2 DEF Holds
      <4>4. (\A v \in Ways(c) : ~Holds(c, s, v, t)) /\ c.plru_bits[s][0] # Root(c, w)
        BY <3>4, <4>1, <4>3 DEF Put, Victim, Holds
      <4>5. Latest(A, r)
        <5> SUFFICES ASSUME NEW p \in A, p.line.set = s, p.left < r.left
                     PROVE  FALSE
          BY <1>3, <2>3, <3>1 DEF Latest
        <5>1. p.line = Line(s, t)
          BY <3>2
        <5>2. \A q \in A : q.line.set = s /\ q.left < p.left => q = p
          BY <1>3, <3>1, <3>2, <5>1
        <5>3. Latest(A, p)
          BY <1>3, <5>2 DEF Latest
        <5>4. IsHeld(c, p)
          BY <1>4, <5>3 DEF LatestHeld
        <5> QED
          BY <1>3, <4>4, <5>1, <5>4 DEF IsHeld
      <4> QED
        BY <1>4, <2>3, <3>1, <3>4, <4>1, <4>4, <4>5 DEF Pointed
    <3> QED
      BY <3>5, <3>6
  <2> QED
    BY <2>1, <2>2, <2>3
<1>7. Pointed(d, B)
  <2> SUFFICES ASSUME NEW r \in B, NEW x \in Ways(c), Latest(B, r), Holds(d, r.line.set, x, r.line.tag)
               PROVE  d.plru_bits[r.line.set][0] = Root(c, x)
    BY <1>1, <1>2 DEF Pointed, Root
  <2>1. CASE r.line.set = s
    <3>1. r.line = Line(s, t)
      BY <1>3, <2>1 DEF Latest
    <3>2. x = w
      BY <1>0, <1>1, <1>3, <3>1
    <3> QED
      BY <1>2, <2>1, <3>2 DEF Away, Put
  <2>2. CASE r.line.set # s
    <3>1. r \in A /\ Latest(A, r) /\ r.line.set \in Sets(c)
      BY <1>3, <1>5, <2>2 DEF Latest
    <3>2. Holds(c, r.line.set, x, r.line.tag)
      BY <1>1, <2>2, <3>1 DEF Holds
    <3> QED
      BY <1>4, <2>2, <3>1, <3>2 DEF Pointed, Put
  <2> QED
    BY <2>1, <2>2
<1> QED
  BY <1>6, <1>7 DEF B

\* A line used and remembered.
LEMMA PutKeeps ==
  ASSUME NEW c, NEW A, NEW left \in Nat \ {0}, CacheInv(c, A, left),
         NEW d, NEW s \in Sets(c), NEW t \in Nat, NEW w \in Ways(c), Put(c, d, s, t, w), Away(c, d, s, w)
  PROVE  CacheInv(d, Asked(A, s, t, left), left - 1)
<1> DEFINE B == Asked(A, s, t, left)
<1>1. IsCache(d) /\ d.geom = c.geom /\ d.replace_policy = c.replace_policy /\ AskedBefore(c, A, left)
  BY DEF Put, CacheInv
<1>2. OneWay(d) /\ Stamped(d) /\ Known(d, B)
  BY PutKeepsLines
<1>3. AskedBefore(d, B, left - 1)
  BY <1>1, AskedIs
<1>4. c.replace_policy \in {"LRU", "FIFO"} => Timed(d, B) /\ Dropped(d, B)
  BY PutKeepsOrder
<1>5. c.replace_policy \in {"RANDOM", "PLRU"} => LatestHeld(d, B)
  BY PutKeepsLatest
<1>6. c.replace_policy = "PLRU" /\ c.geom.associativity > 1 => SecondHeld(d, B) /\ Pointed(d, B)
  BY PutKeepsSecond
<1> HIDE DEF B
<1>7. Keeps(d, B)
  BY <1>1, <1>4, <1>5, <1>6 DEF Keeps
<1> QED
  BY <1>1, <1>2, <1>3, <1>7 DEF CacheInv, B

\* d differs from c in the states of its lines at most.
Alike(c, d) ==
  /\ IsCache(d) /\ d.geom = c.geom /\ d.replace_policy = c.replace_policy /\ d.plru_bits = c.plru_bits
  /\ d.clock \in {c.clock, c.clock + 1}
  /\ \A s \in Sets(c), w \in Ways(c) : /\ d.lines[s][w].valid = c.lines[s][w].valid
                                       /\ d.lines[s][w].tag = c.lines[s][w].tag
                                       /\ d.lines[s][w].access_order = c.lines[s][w].access_order

\* Such a cache keeps what c kept, with as many accesses to come or fewer.
LEMMA AlikeKeeps ==
  ASSUME NEW c, NEW A, NEW left \in Nat, CacheInv(c, A, left),
         NEW d, Alike(c, d), NEW m \in Nat, m <= left
  PROVE  CacheInv(d, A, m)
<1>1. Sets(d) = Sets(c) /\ Ways(d) = Ways(c)
  BY DEF Alike, Sets, Ways
<1>2. \A s \in Sets(c), w \in Ways(c) : /\ d.lines[s][w].valid = c.lines[s][w].valid
                                        /\ d.lines[s][w].tag = c.lines[s][w].tag
                                        /\ d.lines[s][w].access_order = c.lines[s][w].access_order
  BY DEF Alike
<1>3. \A t : \A s \in Sets(c), w \in Ways(c) : Holds(d, s, w, t) <=> Holds(c, s, w, t)
  BY <1>2 DEF Holds
<1>4. OneWay(d)
  BY <1>1, <1>2, <1>3 DEF CacheInv, OneWay
<1>5. Stamped(d)
  <2> SUFFICES ASSUME NEW s \in Sets(c), NEW w \in Ways(c), c.lines[s][w].valid
               PROVE  c.lines[s][w].access_order <= d.clock
    BY <1>1, <1>2 DEF Stamped
  <2>1. c.lines[s][w] \in CacheLineOf /\ c.clock \in Nat
    BY DEF CacheInv, IsCache
  <2>2. c.lines[s][w].access_order \in Nat
    BY <2>1 DEF CacheLineOf
  <2>3. c.lines[s][w].access_order <= c.clock
    BY DEF CacheInv, Stamped
  <2> QED
    BY <2>1, <2>2, <2>3 DEF Alike
<1>6. Known(d, A)
  BY <1>1, <1>2 DEF CacheInv, Known
<1>7. AskedBefore(c, A, left)
  BY DEF CacheInv
<1>8. AskedBefore(d, A, m)
  <2>1. \A r \in A : r.left \in Nat /\ left < r.left
    BY <1>7 DEF AskedBefore
  <2>2. \A r \in A : m < r.left
    BY <2>1
  <2> QED
    BY <1>1, <1>7, <2>2 DEF AskedBefore
<1>9. \A r \in A : r.line.set \in Sets(c)
  BY <1>7 DEF AskedBefore
<1>10. \A r \in A : IsHeld(d, r) <=> IsHeld(c, r)
  BY <1>1, <1>3, <1>9 DEF IsHeld
<1>11. ASSUME Timed(c, A), Dropped(c, A) PROVE Timed(d, A) /\ Dropped(d, A)
  <2>1. Timed(d, A)
    BY <1>1, <1>2, <1>11 DEF Timed
  <2>2. \A r \in A, w \in Ways(c) : Older(c, A, r, w) => Older(d, A, r, w)
    BY <1>2, <1>9 DEF Older
  <2> QED
    BY <1>1, <1>10, <1>11, <2>1, <2>2 DEF Dropped
<1>12. LatestHeld(c, A) => LatestHeld(d, A)
  BY <1>10 DEF LatestHeld
<1>13. SecondHeld(c, A) => SecondHeld(d, A)
  BY <1>10 DEF SecondHeld
<1>14. ASSUME Pointed(c, A) PROVE Pointed(d, A)
  <2>1. d.plru_bits = c.plru_bits /\ d.geom = c.geom
    BY DEF Alike
  <2> QED
    BY <1>1, <1>3, <1>9, <1>14, <2>1 DEF Pointed, Root
<1>15. d.replace_policy = c.replace_policy /\ d.geom = c.geom /\ IsCache(d)
  BY DEF Alike
<1>16. Keeps(d, A)
  BY <1>11, <1>12, <1>13, <1>14, <1>15 DEF CacheInv, Keeps
<1> QED
  BY <1>4, <1>5, <1>6, <1>8, <1>15, <1>16 DEF CacheInv

\* A write hit under PLRU is not remembered: it moves no node of the tree.
LEMMA PutUnseenKeeps ==
  ASSUME NEW c, NEW A, NEW left \in Nat \ {0}, CacheInv(c, A, left), c.replace_policy = "PLRU",
         NEW d, NEW s \in Sets(c), NEW t \in Nat, NEW w \in Ways(c), Put(c, d, s, t, w),
         Holds(c, s, w, t), d.plru_bits = c.plru_bits
  PROVE  CacheInv(d, A, left - 1)
<1>1. Sets(d) = Sets(c) /\ Ways(d) = Ways(c) /\ OneWay(d) /\ Stamped(d) /\ Known(d, A)
  BY PutKeepsLines
<1>2. IsCache(d) /\ d.geom = c.geom /\ d.replace_policy = "PLRU" /\ AskedBefore(c, A, left)
  BY DEF Put, CacheInv
<1>3. \A x : \A u \in Sets(c), v \in Ways(c) : Holds(d, u, v, x) <=> Holds(c, u, v, x)
  BY DEF Put, Holds
<1>4. \A r \in A : r.line.set \in Sets(c) /\ r.left \in Nat /\ left < r.left
  BY <1>2 DEF AskedBefore
<1>5. \A r \in A : IsHeld(d, r) <=> IsHeld(c, r)
  BY <1>1, <1>3, <1>4 DEF IsHeld
<1>6. \A r \in A : left - 1 < r.left
  BY <1>4
<1>7. AskedBefore(d, A, left - 1)
  BY <1>1, <1>2, <1>6 DEF AskedBefore
<1>8. LatestHeld(d, A)
  BY <1>5 DEF CacheInv, Keeps, LatestHeld
<1>9. ASSUME c.geom.associativity > 1 PROVE SecondHeld(d, A) /\ Pointed(d, A)
  <2>1. SecondHeld(c, A) /\ Pointed(c, A)
    BY <1>9 DEF CacheInv, Keeps
  <2>2. SecondHeld(d, A)
    BY <1>5, <2>1 DEF SecondHeld
  <2>3. Pointed(d, A)
    BY <1>1, <1>2, <1>3, <1>4, <2>1 DEF Pointed, Root
  <2> QED
    BY <2>2, <2>3
<1>10. Keeps(d, A)
  BY <1>2, <1>8, <1>9 DEF Keeps
<1> QED
  BY <1>1, <1>2, <1>7, <1>10 DEF CacheInv
--------------------------------------------------------------------------------
(* The accesses of one cache, and its neighbours on the bus. *)

\* A read, and a write, of one cache.
LEMMA CacheReadKeeps ==
  ASSUME NEW c, NEW A, NEW left \in Nat \ {0}, CacheInv(c, A, left), NEW addr \in Nat, NEW d \in cache_read(c, addr)
  PROVE  LET a == cache_addr_split(addr, c.geom)
         IN  CacheInv(d, Asked(A, a.set, a.tag, left), left - 1)
<1>1. IsCache(c) /\ OneWay(c)
  BY DEF CacheInv
<1>2. cache_addr_split(addr, c.geom).set \in Sets(c) /\ cache_addr_split(addr, c.geom).tag \in Nat
  BY <1>1, SplitIs
<1>3. PICK w \in Ways(c) : /\ Put(c, d, cache_addr_split(addr, c.geom).set, cache_addr_split(addr, c.geom).tag, w)
                           /\ Away(c, d, cache_addr_split(addr, c.geom).set, w)
  BY <1>1, CacheReadIs
<1> QED
  BY <1>2, <1>3, PutKeeps

\* What a cache goes past, or does not see, is not remembered.
Unseen(c, addr) ==
  IF cache_lookup(c, addr) = {} THEN c.write_policy = "THROUGH_NO_ALLOC" ELSE c.replace_policy = "PLRU"

LEMMA CacheWriteKeeps ==
  ASSUME NEW c, NEW A, NEW left \in Nat \ {0}, CacheInv(c, A, left), NEW addr \in Nat, NEW d \in cache_write(c, addr)
  PROVE  LET a == cache_addr_split(addr, c.geom)
         IN  CacheInv(d, IF Unseen(c, addr) THEN A ELSE Asked(A, a.set, a.tag, left), left - 1)
<1> DEFINE s == cache_addr_split(addr, c.geom).set
           t == cache_addr_split(addr, c.geom).tag
<1>1. IsCache(c) /\ OneWay(c)
  BY DEF CacheInv
<1>2. s \in Sets(c) /\ t \in Nat
  BY <1>1, SplitIs
<1>3. \/ cache_lookup(c, addr) = {} /\ c.write_policy = "THROUGH_NO_ALLOC" /\ d = Ticked(c)
      \/ /\ ~(cache_lookup(c, addr) = {} /\ c.write_policy = "THROUGH_NO_ALLOC")
         /\ \E w \in Ways(c) :
              /\ Put(c, d, s, t, w)
              /\ IF cache_lookup(c, addr) = {} THEN Away(c, d, s, w)
                 ELSE Holds(c, s, w, t) /\ d.plru_bits = c.plru_bits
  BY <1>1, CacheWriteIs
<1> HIDE DEF s, t
<1>4. CASE cache_lookup(c, addr) = {} /\ c.write_policy = "THROUGH_NO_ALLOC" /\ d = Ticked(c)
  <2>1. Alike(c, d)
    BY <1>1, <1>4, TickedIs DEF Alike
  <2>2. left - 1 \in Nat /\ left - 1 <= left
    OBVIOUS
  <2>3. CacheInv(d, A, left - 1)
    BY <2>1, <2>2, AlikeKeeps
  <2> QED
    BY <1>4, <2>3 DEF Unseen
<1>5. CASE ~(cache_lookup(c, addr) = {} /\ c.write_policy = "THROUGH_NO_ALLOC")
  <2>1. PICK w \in Ways(c) : /\ Put(c, d, s, t, w)
                             /\ IF cache_lookup(c, addr) = {} THEN Away(c, d, s, w)
                                ELSE Holds(c, s, w, t) /\ d.plru_bits = c.plru_bits
    BY <1>3, <1>5
  <2>2. CASE cache_lookup(c, addr) = {}
    <3>1. CacheInv(d, Asked(A, s, t, left), left - 1)
      BY <1>2, <2>1, <2>2, PutKeeps
    <3> QED
      BY <1>5, <2>2, <3>1 DEF Unseen, s, t
  <2>3. CASE cache_lookup(c, addr) # {} /\ c.replace_policy = "PLRU"
    <3>1. CacheInv(d, A, left - 1)
      BY <1>2, <2>1, <2>3, PutUnseenKeeps
    <3> QED
      BY <2>3, <3>1 DEF Unseen
  <2>4. CASE cache_lookup(c, addr) # {} /\ c.replace_policy # "PLRU"
    <3>1. Away(c, d, s, w)
      BY <2>1, <2>4 DEF Away, Put
    <3>2. CacheInv(d, Asked(A, s, t, left), left - 1)
      BY <1>2, <2>1, <3>1, PutKeeps
    <3> QED
      BY <2>4, <3>2 DEF Unseen, s, t
  <2> QED
    BY <2>2, <2>3, <2>4
<1> QED
  BY <1>3, <1>4, <1>5

\* The valid lines of d are those of c, but for the line t of set s.
Other(c, d, s, t) ==
  \A u \in Sets(c), v \in Ways(c) :
     d.lines[u][v].valid /\ ~(u = s /\ d.lines[u][v].tag = t) => d.lines[u][v] = c.lines[u][v]

LEMMA PutOther ==
  ASSUME NEW c, NEW d, NEW s, NEW t, NEW w, Put(c, d, s, t, w)
  PROVE  Other(c, d, s, t)
BY DEF Put, Other

AloneAt(d1, d2, s, t) ==
  \A v \in Ways(d1), w \in Ways(d2) :
     Holds(d1, s, v, t) /\ Holds(d2, s, w, t) /\ d1.lines[s][v].mesi_state \in {"M", "E"}
     => d2.lines[s][w].mesi_state = "I"

\* Two caches stay coherent when they do for the line accessed.
LEMMA AloneKeeps ==
  ASSUME NEW c1, NEW c2, NEW d1, NEW d2, c1.geom = c2.geom, d1.geom = c1.geom, Alone(c1, c2),
         NEW s, NEW t, Other(c1, d1, s, t), Other(c2, d2, s, t),
         AloneAt(d1, d2, s, t), Ways(d2) = Ways(c2)
  PROVE  Alone(d1, d2)
<1>1. Sets(d1) = Sets(c1) /\ Ways(d1) = Ways(c1) /\ Sets(c2) = Sets(c1) /\ Ways(c2) = Ways(c1)
  BY DEF Sets, Ways
<1> SUFFICES ASSUME NEW u \in Sets(c1), NEW v \in Ways(c1), NEW w \in Ways(c2),
                    d1.lines[u][v].valid, Holds(d2, u, w, d1.lines[u][v].tag), d1.lines[u][v].mesi_state \in {"M", "E"}
             PROVE  d2.lines[u][w].mesi_state = "I"
  BY <1>1 DEF Alone
<1>2. CASE u = s /\ d1.lines[u][v].tag = t
  BY <1>1, <1>2 DEF AloneAt, Holds
<1>3. CASE ~(u = s /\ d1.lines[u][v].tag = t)
  <2>1. d1.lines[u][v] = c1.lines[u][v] /\ d2.lines[u][w] = c2.lines[u][w]
    BY <1>1, <1>3 DEF Other, Holds
  <2> QED
    BY <2>1 DEF Alone, Holds
<1> QED
  BY <1>2, <1>3

\* The state of an address is that of the way that holds it.
LEMMA StateIs ==
  ASSUME NEW c, IsCache(c), OneWay(c), NEW addr \in Nat
  PROVE  LET s == cache_addr_split(addr, c.geom).set
             t == cache_addr_split(addr, c.geom).tag
         IN  /\ \A w \in Ways(c) : Holds(c, s, w, t) => StateIn(c, addr) = c.lines[s][w].mesi_state
             /\ StateIn(c, addr) # "I" => \E w \in Ways(c) : Holds(c, s, w, t)
<1>1. cache_lookup(c, addr) # {} => Min(cache_lookup(c, addr)) \in Ways(c)
                                    /\ cache_lookup(c, addr) = {Min(cache_lookup(c, addr))}
  BY LookupIs
<1>2. cache_lookup(c, addr)
        = {w \in Ways(c) : Holds(c, cache_addr_split(addr, c.geom).set, w, cache_addr_split(addr, c.geom).tag)}
  BY LookupIs
<1> QED
  BY <1>1, <1>2 DEF StateIn

\* The count of the lines written back, and nothing else.
LEMMA CountedIs ==
  ASSUME NEW c, IsCache(c), NEW n
  PROVE  LET d == [c EXCEPT !.writebacks = n]
         IN  IsCache(d) /\ d.geom = c.geom /\ d.lines = c.lines /\ d.clock = c.clock
             /\ d.replace_policy = c.replace_policy /\ d.plru_bits = c.plru_bits
<1> DEFINE d == [c EXCEPT !.writebacks = n]
<1>1. /\ d = [geom |-> d.geom, replace_policy |-> d.replace_policy, write_policy |-> d.write_policy,
              clock |-> d.clock, writebacks |-> d.writebacks, lines |-> d.lines, plru_bits |-> d.plru_bits]
      /\ d.geom = c.geom /\ d.lines = c.lines /\ d.plru_bits = c.plru_bits /\ d.replace_policy = c.replace_policy
      /\ d.write_policy = c.write_policy /\ d.clock = c.clock
  BY DEF IsCache
<1>2. Sets(d) = Sets(c) /\ Ways(d) = Ways(c)
  BY <1>1 DEF Sets, Ways
<1> HIDE DEF d
<1>3. IsCache(d)
  BY <1>1, <1>2 DEF IsCache
<1> QED
  BY <1>1, <1>3 DEF d

\* A change of the state of one line, to one of these.
Marks(c, d, addr, states) ==
  LET s == cache_addr_split(addr, c.geom).set
      t == cache_addr_split(addr, c.geom).tag
  IN  Alike(c, d) /\ Other(c, d, s, t) /\ \A w \in Ways(c) : Holds(d, s, w, t) => d.lines[s][w].mesi_state \in states

LEMMA MarkIs ==
  ASSUME NEW c, IsCache(c), OneWay(c), NEW addr \in Nat, NEW st \in MESIState
  PROVE  Marks(c, cache_set_mesi(c, addr, st), addr, {st})
<1> DEFINE s == cache_addr_split(addr, c.geom).set
           t == cache_addr_split(addr, c.geom).tag
           d == cache_set_mesi(c, addr, st)
<1>1. CASE cache_lookup(c, addr) = {}
  <2>1. d = c
    BY <1>1 DEF cache_set_mesi
  <2>2. Alike(c, c)
    BY DEF Alike
  <2>3. \A w \in Ways(c) : ~Holds(c, s, w, t)
    BY <1>1, LookupIs
  <2>4. Other(c, c, s, t)
    BY DEF Other
  <2> QED
    BY <2>1, <2>2, <2>3, <2>4 DEF Marks
<1>2. CASE cache_lookup(c, addr) # {}
  <2> DEFINE w == Min(cache_lookup(c, addr))
             old == c.lines[s][w]
             new == [old EXCEPT !.mesi_state = st]
             lines == [c.lines EXCEPT ![s] = [c.lines[s] EXCEPT ![w] = new]]
  <2>1. d = [c EXCEPT !.lines[s][w].mesi_state = st]
    BY <1>2 DEF cache_set_mesi
  <2>2. s \in Sets(c) /\ t \in Nat /\ w \in Ways(c) /\ Holds(c, s, w, t) /\ old \in CacheLineOf /\ old.valid
    BY <1>2, HitWay
  <2>3. \A v \in Ways(c) : Holds(c, s, v, t) => v = w
    BY <1>2, LookupIs
  <2> HIDE DEF s, t, w
  <2>4. /\ new \in CacheLineOf /\ new.valid = old.valid /\ new.tag = old.tag /\ new.access_order = old.access_order
        /\ new.mesi_state = st
    <3> HIDE DEF old
    <3> QED
      BY <2>2 DEF CacheLineOf
  <2>5. d = [c EXCEPT !.lines = lines]
    BY <2>1
  <2> HIDE DEF new
  <2>6. /\ c.lines \in [Sets(c) -> [Ways(c) -> CacheLineOf]]
        /\ c = [geom |-> c.geom, replace_policy |-> c.replace_policy, write_policy |-> c.write_policy,
                clock |-> c.clock, writebacks |-> c.writebacks, lines |-> c.lines, plru_bits |-> c.plru_bits]
    BY DEF IsCache
  <2>7. /\ lines \in [Sets(c) -> [Ways(c) -> CacheLineOf]] /\ lines[s][w] = new
        /\ \A u \in Sets(c), v \in Ways(c) : u # s \/ v # w => lines[u][v] = c.lines[u][v]
    BY <2>2, <2>4, <2>6
  <2> HIDE DEF lines, d
  <2>8. /\ d = [geom |-> d.geom, replace_policy |-> d.replace_policy, write_policy |-> d.write_policy,
                clock |-> d.clock, writebacks |-> d.writebacks, lines |-> d.lines, plru_bits |-> d.plru_bits]
        /\ d.geom = c.geom /\ d.lines = lines /\ d.plru_bits = c.plru_bits /\ d.replace_policy = c.replace_policy
        /\ d.write_policy = c.write_policy /\ d.clock = c.clock
    BY <2>5, <2>6
  <2>9. Sets(d) = Sets(c) /\ Ways(d) = Ways(c)
    BY <2>8 DEF Sets, Ways
  <2>10. IsCache(d)
    BY <2>7, <2>8, <2>9 DEF IsCache
  <2>11. Alike(c, d)
    <3> SUFFICES ASSUME NEW u \in Sets(c), NEW v \in Ways(c)
                 PROVE  /\ lines[u][v].valid = c.lines[u][v].valid /\ lines[u][v].tag = c.lines[u][v].tag
                        /\ lines[u][v].access_order = c.lines[u][v].access_order
      BY <2>8, <2>10 DEF Alike
    <3>1. CASE u = s /\ v = w
      BY <2>4, <2>7, <3>1
    <3>2. CASE u # s \/ v # w
      BY <2>7, <3>2
    <3> QED
      BY <3>1, <3>2
  <2>12. Other(c, d, s, t)
    <3>1. new.tag = t
      BY <2>2, <2>4 DEF Holds
    <3> QED
      BY <2>7, <2>8, <3>1 DEF Other
  <2>13. \A v \in Ways(c) : Holds(d, s, v, t) => d.lines[s][v].mesi_state = st
    <3> TAKE v \in Ways(c)
    <3>1. CASE v = w
      BY <2>4, <2>7, <2>8, <3>1
    <3>2. CASE v # w
      BY <2>2, <2>3, <2>7, <2>8, <3>2 DEF Holds
    <3> QED
      BY <3>1, <3>2
  <2> QED
    BY <2>11, <2>12, <2>13 DEF Marks, s, t, d
<1> QED
  BY <1>1, <1>2

LEMMA CountedMarks ==
  ASSUME NEW c, NEW d, NEW addr, NEW states, Marks(c, d, addr, states), NEW n
  PROVE  Marks(c, [d EXCEPT !.writebacks = n], addr, states)
<1> DEFINE e == [d EXCEPT !.writebacks = n]
<1>1. Alike(c, d) /\ IsCache(d)
  BY DEF Marks, Alike
<1>2. IsCache(e) /\ e.geom = d.geom /\ e.lines = d.lines /\ e.clock = d.clock
      /\ e.replace_policy = d.replace_policy /\ e.plru_bits = d.plru_bits
  BY <1>1, CountedIs
<1> HIDE DEF e
<1>3. Alike(c, e)
  BY <1>1, <1>2 DEF Alike
<1> QED
  BY <1>2, <1>3 DEF Marks, Other, Holds, e

\* A cache that the snoop finds without a copy to change.
LEMMA UnmarkedIs ==
  ASSUME NEW c, IsCache(c), OneWay(c), NEW addr \in Nat, NEW states,
         MESIState \cap {StateIn(c, addr), "I"} \subseteq states
  PROVE  Marks(c, c, addr, states)
<1> DEFINE s == cache_addr_split(addr, c.geom).set
           t == cache_addr_split(addr, c.geom).tag
<1>1. Alike(c, c) /\ Other(c, c, s, t)
  BY DEF Alike, Other
<1>2. s \in Sets(c)
  BY SplitIs
<1>3. ASSUME NEW w \in Ways(c), Holds(c, s, w, t) PROVE c.lines[s][w].mesi_state \in states
  <2>1. c.lines[s][w] \in CacheLineOf
    BY <1>2 DEF IsCache
  <2>2. c.lines[s][w].mesi_state \in MESIState
    BY <2>1 DEF CacheLineOf
  <2>3. StateIn(c, addr) = c.lines[s][w].mesi_state
    BY <1>3, StateIs
  <2> QED
    BY <2>2, <2>3
<1> QED
  BY <1>1, <1>3 DEF Marks

\* The snoop of a read leaves no copy modified or exclusive.
LEMMA ReadSnoopIs ==
  ASSUME NEW caches, NEW core, NEW addr \in Nat, NEW i \in DOMAIN caches, i # core,
         IsCache(caches[i]), OneWay(caches[i])
  PROVE  Marks(caches[i], mesi_bus_read_snoop(caches, core, addr)[i], addr, {"S", "I"})
<1> DEFINE c == caches[i]
           d == cache_set_mesi(c, addr, "S")
           n == IF StateIn(c, addr) = "M" THEN d.writebacks + 1 ELSE d.writebacks
<1>1. CASE StateIn(c, addr) \notin {"M", "E"}
  <2>1. mesi_bus_read_snoop(caches, core, addr)[i] = c
    BY <1>1 DEF mesi_bus_read_snoop
  <2>2. MESIState \cap {StateIn(c, addr), "I"} \subseteq {"S", "I"}
    BY <1>1 DEF MESIState
  <2> HIDE DEF c
  <2> QED
    BY <2>1, <2>2, UnmarkedIs DEF c
<1>2. CASE StateIn(c, addr) \in {"M", "E"}
  <2>1. mesi_bus_read_snoop(caches, core, addr)[i] = [d EXCEPT !.writebacks = n]
    BY <1>2 DEF mesi_bus_read_snoop
  <2>2. Marks(c, d, addr, {"S"})
    BY MarkIs DEF MESIState
  <2> HIDE DEF c, d, n
  <2>3. Marks(c, [d EXCEPT !.writebacks = n], addr, {"S"})
    BY <2>2, CountedMarks
  <2>4. Marks(c, mesi_bus_read_snoop(caches, core, addr)[i], addr, {"S"})
    BY <2>1, <2>3
  <2> QED
    BY <2>4 DEF Marks, c
<1> QED
  BY <1>1, <1>2

\* The snoop of a write leaves no copy usable.
LEMMA WriteSnoopIs ==
  ASSUME NEW caches, NEW core, NEW addr \in Nat, NEW i \in DOMAIN caches, i # core,
         IsCache(caches[i]), OneWay(caches[i])
  PROVE  Marks(caches[i], mesi_bus_write_snoop(caches, core, addr)[i], addr, {"I"})
<1> DEFINE c == caches[i]
           d == cache_set_mesi(c, addr, "I")
           n == IF StateIn(c, addr) = "M" THEN d.writebacks + 1 ELSE d.writebacks
<1>1. CASE StateIn(c, addr) = "I"
  <2>1. mesi_bus_write_snoop(caches, core, addr)[i] = c
    BY <1>1 DEF mesi_bus_write_snoop
  <2>2. MESIState \cap {StateIn(c, addr), "I"} \subseteq {"I"}
    BY <1>1
  <2> HIDE DEF c
  <2> QED
    BY <2>1, <2>2, UnmarkedIs DEF c
<1>2. CASE StateIn(c, addr) # "I"
  <2>1. mesi_bus_write_snoop(caches, core, addr)[i] = [d EXCEPT !.writebacks = n]
    BY <1>2 DEF mesi_bus_write_snoop
  <2>2. Marks(c, d, addr, {"I"})
    BY MarkIs DEF MESIState
  <2> HIDE DEF c, d, n
  <2>3. Marks(c, [d EXCEPT !.writebacks = n], addr, {"I"})
    BY <2>2, CountedMarks
  <2> QED
    BY <2>1, <2>3 DEF c
<1> QED
  BY <1>1, <1>2

\* A marked cache keeps what it promises.
LEMMA MarksKeep ==
  ASSUME NEW c, NEW A, NEW left \in Nat, CacheInv(c, A, left), NEW d, NEW addr, NEW states, Marks(c, d, addr, states),
         NEW m \in Nat, m <= left
  PROVE  CacheInv(d, A, m) /\ d.geom = c.geom
BY AlikeKeeps DEF Marks, Alike

\* A cache made, or made again, holds nothing and was asked for nothing.
Empty(c) == IsCache(c) /\ \A s \in Sets(c), w \in Ways(c) : ~c.lines[s][w].valid

LEMMA EmptyKeeps ==
  ASSUME NEW c, Empty(c), NEW left \in Nat
  PROVE  CacheInv(c, {}, left)
<1>1. AskedBefore(c, {}, left)
  BY FS_EmptySet DEF AskedBefore
<1>2. Keeps(c, {})
  BY DEF Keeps, Timed, Dropped, LatestHeld, SecondHeld, Pointed
<1> QED
  BY <1>1, <1>2 DEF CacheInv, Empty, OneWay, Stamped, Known

LEMMA InitIs ==
  ASSUME NEW g \in Geometries, NEW rp \in ReplacePolicy, NEW wp \in WritePolicies
  PROVE  /\ Empty(cache_init(g, rp, wp)) /\ cache_init(g, rp, wp).geom = g
         /\ cache_init(g, rp, wp).replace_policy = rp /\ cache_init(g, rp, wp).write_policy = wp
<1> DEFINE c    == cache_init(g, rp, wp)
           none == [valid |-> FALSE, dirty |-> FALSE, tag |-> 0, access_order |-> 0, mesi_state |-> "I"]
<1>1. /\ c = [geom |-> g, replace_policy |-> rp, write_policy |-> wp, clock |-> 0, writebacks |-> 0,
              lines |-> c.lines, plru_bits |-> c.plru_bits]
      /\ c.geom = g /\ c.replace_policy = rp /\ c.write_policy = wp /\ c.clock = 0 /\ c.writebacks = 0
      /\ c.lines = [s \in 0 .. g.num_sets - 1 |-> [w \in 0 .. g.associativity - 1 |-> none]]
      /\ c.plru_bits = [s \in 0 .. g.num_sets - 1 |-> [n \in 0 .. g.associativity - 2 |-> 0]]
  BY DEF cache_init
<1>2. none \in CacheLineOf /\ ~none.valid
  BY DEF CacheLineOf, MESIState
<1> HIDE DEF c, none
<1>3. Sets(c) = 0 .. g.num_sets - 1 /\ Ways(c) = 0 .. g.associativity - 1
  BY <1>1 DEF Sets, Ways
<1>4. c.lines \in [Sets(c) -> [Ways(c) -> CacheLineOf]] /\ \A s \in Sets(c), w \in Ways(c) : ~c.lines[s][w].valid
  BY <1>1, <1>2, <1>3
<1>5. c.plru_bits \in [Sets(c) -> [0 .. c.geom.associativity - 2 -> {0, 1}]]
  BY <1>1, <1>3
<1>6. IsCache(c)
  BY <1>1, <1>4, <1>5 DEF IsCache
<1> QED
  BY <1>1, <1>4, <1>6 DEF Empty, c
--------------------------------------------------------------------------------
(* The steps. *)

LEMMA ResetIs ==
  ASSUME NEW c, IsCache(c)
  PROVE  Empty(cache_reset(c)) /\ cache_reset(c).geom = c.geom
<1> DEFINE i     == cache_init(c.geom, c.replace_policy, c.write_policy)
           Off(s, w) == [c.lines[s][w] EXCEPT !.valid = FALSE, !.dirty = FALSE, !.mesi_state = "I", !.access_order = 0]
           lines == [s \in DOMAIN c.lines |-> [w \in DOMAIN c.lines[s] |-> Off(s, w)]]
           d     == cache_reset(c)
<1>1. d = [i EXCEPT !.lines = lines]
  BY DEF cache_reset
<1>2. IsCache(i) /\ i.geom = c.geom
  BY InitIs DEF IsCache, Empty
<1>3. \A s \in Sets(c), w \in Ways(c) : Off(s, w) \in CacheLineOf /\ ~Off(s, w).valid
  <2> TAKE s \in Sets(c), w \in Ways(c)
  <2>1. c.lines[s][w] \in CacheLineOf
    BY DEF IsCache
  <2> QED
    BY <2>1 DEF CacheLineOf, MESIState
<1> HIDE DEF Off, i
<1>4. DOMAIN c.lines = Sets(c) /\ \A s \in Sets(c) : DOMAIN c.lines[s] = Ways(c)
  BY DEF IsCache
<1>5. lines \in [Sets(c) -> [Ways(c) -> CacheLineOf]] /\ \A s \in Sets(c), w \in Ways(c) : ~lines[s][w].valid
  BY <1>3, <1>4
<1>6. i = [geom |-> i.geom, replace_policy |-> i.replace_policy, write_policy |-> i.write_policy,
           clock |-> i.clock, writebacks |-> i.writebacks, lines |-> i.lines, plru_bits |-> i.plru_bits]
  BY <1>2 DEF IsCache
<1> HIDE DEF lines, d
<1>7. /\ d = [geom |-> d.geom, replace_policy |-> d.replace_policy, write_policy |-> d.write_policy,
              clock |-> d.clock, writebacks |-> d.writebacks, lines |-> d.lines, plru_bits |-> d.plru_bits]
      /\ d.geom = c.geom /\ d.lines = lines /\ d.plru_bits = i.plru_bits /\ d.replace_policy = i.replace_policy
      /\ d.write_policy = i.write_policy /\ d.clock = i.clock
  BY <1>1, <1>2, <1>6
<1>8. Sets(d) = Sets(c) /\ Ways(d) = Ways(c) /\ Sets(i) = Sets(c)
  BY <1>2, <1>7 DEF Sets, Ways
<1>9. IsCache(d)
  BY <1>2, <1>5, <1>7, <1>8 DEF IsCache
<1> QED
  BY <1>5, <1>7, <1>8, <1>9 DEF Empty, d

\* One access: the caches and their histories, with one access less to come.
LEMMA SnoopStep ==
  ASSUME SnoopInv, sc.left > 0, NEW cache, NEW recent,
         sc' = [sc EXCEPT !.cache = cache, !.recent = recent, !.left = @ - 1],
         DOMAIN cache = DOMAIN sc.cache, DOMAIN recent = DOMAIN sc.cache,
         \A n \in DOMAIN sc.cache : Kept(sc.kind, n, cache[n], recent[n], sc.left - 1),
         sc.kind = "bus" => BusCoherent(cache)
  PROVE  SnoopInv'
<1>1. /\ sc = [kind |-> sc.kind, addrs |-> sc.addrs, left |-> sc.left, cache |-> sc.cache, recent |-> sc.recent]
      /\ sc.kind \in {"bus", "hierarchy"} /\ sc.left \in Nat /\ sc.addrs \subseteq Nat
      /\ sc.kind = "hierarchy" => DOMAIN sc.cache = Levels
  BY DEF SnoopInv
<1>2. /\ sc' = [kind |-> sc'.kind, addrs |-> sc'.addrs, left |-> sc'.left, cache |-> sc'.cache, recent |-> sc'.recent]
      /\ sc'.kind = sc.kind /\ sc'.addrs = sc.addrs /\ sc'.left = sc.left - 1
      /\ sc'.cache = cache /\ sc'.recent = recent
  BY <1>1
<1>3. sc.left - 1 \in Nat
  BY <1>1
<1> QED
  BY <1>1, <1>2, <1>3 DEF SnoopInv

\* Every cache other than the one that accesses is marked by the snoop, and remembers what it did.
Snoops(cache, snooped, core, addr, states) ==
  /\ DOMAIN snooped = DOMAIN cache /\ states \cap {"M", "E"} = {}
  /\ \A i \in DOMAIN cache \ {core} : Marks(cache[i], snooped[i], addr, states)

Remembers(old, recent, core, B) ==
  DOMAIN recent = DOMAIN old /\ recent[core] = B /\ \A i \in DOMAIN old \ {core} : recent[i] = old[i]

\* The cache that accesses is alone with the line, or shares it.
Settled(snooped, own, core, addr, states) ==
  \/ states = {"I"}
  \/ \A i \in DOMAIN snooped \ {core} : StateIn(snooped[i], addr) = "I"
  \/ \A w \in Ways(own) : Holds(own, cache_addr_split(addr, own.geom).set, w, cache_addr_split(addr, own.geom).tag)
       => own.lines[cache_addr_split(addr, own.geom).set][w].mesi_state = "S"

LEMMA SnoopedKeep ==
  ASSUME NEW left \in Nat \ {0}, NEW cache, NEW recent, NEW snooped, NEW core, NEW addr, NEW states,
         \A i \in DOMAIN cache : CacheInv(cache[i], recent[i], left), Snoops(cache, snooped, core, addr, states)
  PROVE  \A i \in DOMAIN cache \ {core} : CacheInv(snooped[i], recent[i], left - 1) /\ snooped[i].geom = cache[i].geom
<1> TAKE i \in DOMAIN cache \ {core}
<1> DEFINE c == cache[i]
           d == snooped[i]
           A == recent[i]
<1>1. left - 1 \in Nat /\ left - 1 <= left /\ CacheInv(c, A, left) /\ Marks(c, d, addr, states)
  BY DEF Snoops
<1> HIDE DEF c, d, A
<1>2. CacheInv(d, A, left - 1) /\ d.geom = c.geom
  BY <1>1, MarksKeep
<1> QED
  BY <1>2 DEF c, d, A

\* An access on the bus.
LEMMA BusStep ==
  ASSUME SnoopInv, sc.kind = "bus", sc.left > 0, NEW core \in DOMAIN sc.cache, NEW addr \in Nat,
         NEW snooped, NEW states, Snoops(sc.cache, snooped, core, addr, states),
         NEW own, NEW B, CacheInv(own, B, sc.left - 1), own.geom = sc.cache[core].geom,
         Other(sc.cache[core], own, cache_addr_split(addr, sc.cache[core].geom).set,
                                    cache_addr_split(addr, sc.cache[core].geom).tag),
         Settled(snooped, own, core, addr, states),
         NEW recent, Remembers(sc.recent, recent, core, B),
         sc' = [sc EXCEPT !.cache = [snooped EXCEPT ![core] = own], !.recent = recent, !.left = @ - 1]
  PROVE  SnoopInv'
<1> DEFINE D     == DOMAIN sc.cache
           cache == [snooped EXCEPT ![core] = own]
           g     == sc.cache[core].geom
           s     == cache_addr_split(addr, g).set
           t     == cache_addr_split(addr, g).tag
<1>1. sc.left \in Nat /\ DOMAIN sc.recent = D /\ BusCoherent(sc.cache) /\ sc.left - 1 \in Nat /\ sc.left - 1 <= sc.left
  BY DEF SnoopInv
<1>2. \A i \in D : CacheInv(sc.cache[i], sc.recent[i], sc.left) /\ sc.cache[i].geom = g
  BY <1>1 DEF SnoopInv, Kept, BusCoherent
<1>3. DOMAIN cache = D /\ cache[core] = own /\ \A i \in D \ {core} : cache[i] = snooped[i]
  BY DEF Snoops
<1>4. DOMAIN recent = D /\ recent[core] = B /\ \A i \in D \ {core} : recent[i] = sc.recent[i]
  BY <1>1 DEF Remembers
<1> HIDE DEF cache
<1>5. \A i \in D \ {core} : CacheInv(cache[i], recent[i], sc.left - 1) /\ cache[i].geom = g
  <2>1. \A i \in DOMAIN sc.cache : CacheInv(sc.cache[i], sc.recent[i], sc.left)
    BY <1>2
  <2>2. sc.left \in Nat \ {0}
    BY <1>1
  <2>3. \A i \in DOMAIN sc.cache \ {core} :
          CacheInv(snooped[i], sc.recent[i], sc.left - 1) /\ snooped[i].geom = sc.cache[i].geom
    BY <2>1, <2>2, SnoopedKeep
  <2> QED
    BY <1>2, <1>3, <1>4, <2>3
<1>6. \A i \in D : CacheInv(cache[i], recent[i], sc.left - 1) /\ cache[i].geom = g
  BY <1>3, <1>4, <1>5
<1>7. \A i \in D : Other(sc.cache[i], cache[i], s, t)
  BY <1>2, <1>3 DEF Marks, Snoops
<1>8. \A i \in D : Sets(cache[i]) = Sets(own) /\ Ways(cache[i]) = Ways(own) /\ Sets(sc.cache[i]) = Sets(own)
                   /\ Ways(sc.cache[i]) = Ways(own)
  BY <1>2, <1>6 DEF Sets, Ways
<1>9. \A i \in D \ {core}, w \in Ways(own) : Holds(cache[i], s, w, t) => cache[i].lines[s][w].mesi_state \in states
  BY <1>2, <1>3, <1>8 DEF Marks, Snoops
<1>0. \/ states = {"I"}
      \/ \A i \in D \ {core} : StateIn(snooped[i], addr) = "I"
      \/ \A w \in Ways(own) : Holds(own, s, w, t) => own.lines[s][w].mesi_state = "S"
  BY DEF Settled, Snoops
<1> HIDE DEF D
<1>10. ASSUME NEW m \in D, NEW n \in D, m # n PROVE Alone(cache[m], cache[n])
  <2>1. ASSUME NEW v \in Ways(own), NEW w \in Ways(own), Holds(cache[m], s, v, t), Holds(cache[n], s, w, t),
               cache[m].lines[s][v].mesi_state \in {"M", "E"}
        PROVE  cache[n].lines[s][w].mesi_state = "I"
    <3>1. m = core
      BY <1>9, <2>1 DEF Snoops
    <3>2. n # core /\ cache[n].lines[s][w].mesi_state \in states
      BY <1>9, <1>10, <2>1, <3>1
    <3>3. CASE states = {"I"}
      BY <3>2, <3>3
    <3>4. CASE \A i \in D \ {core} : StateIn(snooped[i], addr) = "I"
      <4>1. IsCache(cache[n]) /\ OneWay(cache[n]) /\ cache[n].geom = g /\ cache[n] = snooped[n]
        BY <1>3, <1>6, <3>2 DEF CacheInv, D
      <4>2. StateIn(cache[n], addr) = "I"
        BY <3>2, <3>4, <4>1
      <4> DEFINE e == cache[n]
      <4>3. \A x \in Ways(e) : Holds(e, cache_addr_split(addr, e.geom).set, x, cache_addr_split(addr, e.geom).tag)
                                => StateIn(e, addr) = e.lines[cache_addr_split(addr, e.geom).set][x].mesi_state
        <5>1. IsCache(e) /\ OneWay(e)
          BY <4>1
        <5> HIDE DEF e
        <5> QED
          BY <5>1, StateIs
      <4>4. e.geom = g /\ Ways(e) = Ways(own)
        BY <1>8, <4>1
      <4> HIDE DEF e
      <4>5. \A x \in Ways(own) : Holds(e, s, x, t) => StateIn(e, addr) = e.lines[s][x].mesi_state
        BY <4>3, <4>4
      <4> QED
        BY <2>1, <4>2, <4>5 DEF e
    <3>5. CASE \A w2 \in Ways(own) : Holds(own, s, w2, t) => own.lines[s][w2].mesi_state = "S"
      BY <1>3, <2>1, <3>1, <3>5
    <3> QED
      BY <1>0, <3>3, <3>4, <3>5
  <2>2. Alone(sc.cache[m], sc.cache[n]) /\ sc.cache[m].geom = sc.cache[n].geom
    BY <1>1, <1>10 DEF BusCoherent, D
  <2>3. cache[m].geom = sc.cache[m].geom
    BY <1>2, <1>6 DEF D
  <2>4. Other(sc.cache[m], cache[m], s, t) /\ Other(sc.cache[n], cache[n], s, t)
    BY <1>7
  <2> DEFINE c1 == sc.cache[m]
             c2 == sc.cache[n]
             d1 == cache[m]
             d2 == cache[n]
  <2>5. /\ Alone(c1, c2) /\ c1.geom = c2.geom /\ d1.geom = c1.geom /\ Other(c1, d1, s, t) /\ Other(c2, d2, s, t)
        /\ Ways(c1) = Ways(own) /\ Ways(c2) = Ways(own) /\ Ways(d2) = Ways(own)
    BY <1>8, <2>2, <2>3, <2>4
  <2>6. AloneAt(d1, d2, s, t)
    BY <1>8, <2>1 DEF AloneAt
  <2> HIDE DEF c1, c2, d1, d2, s, t
  <2>7. Alone(d1, d2)
    BY <2>5, <2>6, AloneKeeps
  <2> QED
    BY <2>7 DEF d1, d2
<1>11. BusCoherent(cache)
  BY <1>3, <1>6, <1>10 DEF BusCoherent, D
<1>12. \A n \in DOMAIN sc.cache : Kept(sc.kind, n, cache[n], recent[n], sc.left - 1)
  BY <1>6 DEF Kept, D
<1>13. sc' = [sc EXCEPT !.cache = cache, !.recent = recent, !.left = @ - 1]
  BY DEF cache
<1> QED
  BY <1>3, <1>4, <1>11, <1>12, <1>13, SnoopStep DEF D

\* What is remembered of a line: by the cache that is asked for it, and by no other.
LEMMA RecentIs ==
  ASSUME NEW name \in DOMAIN sc.recent, NEW addr
  PROVE  LET a == cache_addr_split(addr, sc.cache[name].geom)
         IN  /\ DOMAIN Recent(name, addr) = DOMAIN sc.recent
             /\ Recent(name, addr)[name] = Asked(sc.recent[name], a.set, a.tag, sc.left)
             /\ \A i \in DOMAIN sc.recent \ {name} : Recent(name, addr)[i] = sc.recent[i]
<1> DEFINE line == cache_addr_split(addr, sc.cache[name].geom)
<1>1. line = Line(line.set, line.tag)
  BY DEF cache_addr_split, Line
<1>2. Recent(name, addr)
        = [sc.recent EXCEPT ![name] = {r \in @ : r.line # line} \cup {[line |-> line, left |-> sc.left]}]
  BY DEF Recent
<1> HIDE DEF line
<1>3. Asked(sc.recent[name], line.set, line.tag, sc.left)
        = {r \in sc.recent[name] : r.line # line} \cup {[line |-> line, left |-> sc.left]}
  BY <1>1 DEF Asked
<1> QED
  BY <1>2, <1>3 DEF line

LEMMA RememberedIs ==
  ASSUME NEW name \in DOMAIN sc.recent, NEW addr
  PROVE  LET a == cache_addr_split(addr, sc.cache[name].geom)
         IN  /\ DOMAIN Remembered(name, addr) = DOMAIN sc.recent
             /\ Remembered(name, addr)[name] = IF Unseen(sc.cache[name], addr) THEN sc.recent[name]
                                               ELSE Asked(sc.recent[name], a.set, a.tag, sc.left)
             /\ \A i \in DOMAIN sc.recent \ {name} : Remembered(name, addr)[i] = sc.recent[i]
<1>1. CASE Unseen(sc.cache[name], addr)
  <2>1. Remembered(name, addr) = sc.recent
    BY <1>1 DEF Remembered, Unseen
  <2> QED
    BY <1>1, <2>1
<1>2. CASE ~Unseen(sc.cache[name], addr)
  <2>1. Remembered(name, addr) = Recent(name, addr)
    BY <1>2 DEF Remembered, Unseen
  <2> QED
    BY <1>2, <2>1, RecentIs
<1> QED
  BY <1>1, <1>2

\* A write changes no other line than its own and the one it replaces.
LEMMA WriteOther ==
  ASSUME NEW c, IsCache(c), OneWay(c), NEW addr \in Nat, NEW d \in cache_write(c, addr)
  PROVE  /\ Other(c, d, cache_addr_split(addr, c.geom).set, cache_addr_split(addr, c.geom).tag)
         /\ d.geom = c.geom
<1>1. CASE d = Ticked(c)
  <2>1. d.lines = c.lines /\ d.geom = c.geom
    BY <1>1, TickedIs
  <2> QED
    BY <2>1 DEF Other
<1>2. CASE \E w \in Ways(c) : Put(c, d, cache_addr_split(addr, c.geom).set, cache_addr_split(addr, c.geom).tag, w)
  BY <1>2, PutOther DEF Put
<1> QED
  BY <1>1, <1>2, CacheWriteIs

\* BusWrite: the writer is alone with the line, every other copy being INVALID.
LEMMA BusWriteKeeps ==
  ASSUME SnoopInv, sc.kind = "bus", sc.left > 0, NEW core \in DOMAIN sc.cache, NEW addr \in sc.addrs,
         BusWrite(core, addr)
  PROVE  SnoopInv'
<1> DEFINE c       == sc.cache[core]
           snooped == mesi_bus_write_snoop(sc.cache, core, addr)
           recent  == Remembered(core, addr)
           A       == sc.recent[core]
           a       == cache_addr_split(addr, c.geom)
<1>1. PICK d \in cache_write(c, addr) :
        sc' = [sc EXCEPT !.cache = [snooped EXCEPT ![core] = d], !.left = @ - 1, !.recent = recent]
  BY DEF BusWrite
<1>2. /\ addr \in Nat /\ sc.left \in Nat \ {0} /\ core \in DOMAIN sc.recent /\ DOMAIN sc.recent = DOMAIN sc.cache
      /\ sc = [kind |-> sc.kind, addrs |-> sc.addrs, left |-> sc.left, cache |-> sc.cache, recent |-> sc.recent]
  BY DEF SnoopInv
<1>3. \A i \in DOMAIN sc.cache :
        CacheInv(sc.cache[i], sc.recent[i], sc.left) /\ IsCache(sc.cache[i]) /\ OneWay(sc.cache[i])
  BY DEF SnoopInv, Kept, CacheInv
<1>4. Snoops(sc.cache, snooped, core, addr, {"I"})
  <2>1. DOMAIN snooped = DOMAIN sc.cache
    BY DEF mesi_bus_write_snoop
  <2>2. \A i \in DOMAIN sc.cache \ {core} : Marks(sc.cache[i], snooped[i], addr, {"I"})
    BY <1>2, <1>3, WriteSnoopIs
  <2> QED
    BY <2>1, <2>2 DEF Snoops
<1>5. CacheInv(c, A, sc.left) /\ IsCache(c) /\ OneWay(c)
  BY <1>3
<1>6. Remembers(sc.recent, recent, core, recent[core])
  BY <1>2, RememberedIs DEF Remembers
<1>7. CacheInv(d, recent[core], sc.left - 1)
  <2>1. recent[core] = IF Unseen(c, addr) THEN A ELSE Asked(A, a.set, a.tag, sc.left)
    BY <1>2, RememberedIs
  <2> HIDE DEF c, A, recent
  <2>2. CacheInv(d, IF Unseen(c, addr) THEN A ELSE Asked(A, a.set, a.tag, sc.left), sc.left - 1)
    BY <1>2, <1>5, CacheWriteKeeps
  <2> QED
    BY <2>1, <2>2
<1>8. Other(c, d, a.set, a.tag) /\ d.geom = c.geom
  <2> HIDE DEF c
  <2> QED
    BY <1>2, <1>5, WriteOther
<1>9. Settled(snooped, d, core, addr, {"I"})
  BY DEF Settled
<1> DEFINE B == recent[core]
<1> HIDE DEF snooped, recent, B
<1>10. sc' = [sc EXCEPT !.cache = [snooped EXCEPT ![core] = d], !.recent = recent, !.left = @ - 1]
  BY <1>1, <1>2
<1>11. CacheInv(d, B, sc.left - 1) /\ Remembers(sc.recent, recent, core, B)
  BY <1>6, <1>7 DEF B
<1> QED
  BY <1>2, <1>4, <1>8, <1>9, <1>10, <1>11, BusStep

\* BusRead: the reader shares the line unless no other copy is usable.
LEMMA BusReadKeeps ==
  ASSUME SnoopInv, sc.kind = "bus", sc.left > 0, NEW core \in DOMAIN sc.cache, NEW addr \in sc.addrs,
         BusRead(core, addr)
  PROVE  SnoopInv'
<1> DEFINE c       == sc.cache[core]
           snooped == mesi_bus_read_snoop(sc.cache, core, addr)
           recent  == Recent(core, addr)
           A       == sc.recent[core]
           a       == cache_addr_split(addr, c.geom)
           shared  == \E i \in DOMAIN snooped \ {core} : StateIn(snooped[i], addr) # "I"
           Own(d)  == IF shared THEN cache_set_mesi(d, addr, "S")
                      ELSE IF StateIn(d, addr) = "I" THEN cache_set_mesi(d, addr, "E") ELSE d
<1>1. PICK d \in cache_read(c, addr) :
        sc' = [sc EXCEPT !.cache = [snooped EXCEPT ![core] = Own(d)], !.left = @ - 1, !.recent = recent]
  BY DEF BusRead
<1>2. /\ addr \in Nat /\ sc.left \in Nat \ {0} /\ core \in DOMAIN sc.recent /\ DOMAIN sc.recent = DOMAIN sc.cache
      /\ sc = [kind |-> sc.kind, addrs |-> sc.addrs, left |-> sc.left, cache |-> sc.cache, recent |-> sc.recent]
  BY DEF SnoopInv
<1>3. \A i \in DOMAIN sc.cache :
        CacheInv(sc.cache[i], sc.recent[i], sc.left) /\ IsCache(sc.cache[i]) /\ OneWay(sc.cache[i])
  BY DEF SnoopInv, Kept, CacheInv
<1>4. Snoops(sc.cache, snooped, core, addr, {"S", "I"})
  <2>1. DOMAIN snooped = DOMAIN sc.cache
    BY DEF mesi_bus_read_snoop
  <2>2. \A i \in DOMAIN sc.cache \ {core} : Marks(sc.cache[i], snooped[i], addr, {"S", "I"})
    BY <1>2, <1>3, ReadSnoopIs
  <2> QED
    BY <2>1, <2>2 DEF Snoops
<1>5. CacheInv(c, A, sc.left) /\ IsCache(c) /\ OneWay(c)
  BY <1>3
<1> DEFINE B   == Asked(A, a.set, a.tag, sc.left)
           own == Own(d)
<1>6. Remembers(sc.recent, recent, core, B)
  BY <1>2, RecentIs DEF Remembers
<1> HIDE DEF c, A, B, recent, snooped, shared
<1>7. CacheInv(d, B, sc.left - 1) /\ Other(c, d, a.set, a.tag) /\ d.geom = c.geom /\ IsCache(d) /\ OneWay(d)
  <2>1. CacheInv(d, B, sc.left - 1)
    BY <1>2, <1>5, CacheReadKeeps DEF B
  <2>2. \E w \in Ways(c) : Put(c, d, a.set, a.tag, w)
    BY <1>2, <1>5, CacheReadIs
  <2>3. Other(c, d, a.set, a.tag) /\ d.geom = c.geom
    BY <2>2, PutOther DEF Put
  <2> QED
    BY <2>1, <2>3 DEF CacheInv
<1>8. \A st \in {"S", "E"} : Marks(d, cache_set_mesi(d, addr, st), addr, {st})
  BY <1>2, <1>7, MarkIs DEF MESIState
<1>9. ASSUME NEW st \in {"S", "E"}, own = cache_set_mesi(d, addr, st)
      PROVE  /\ CacheInv(own, B, sc.left - 1) /\ own.geom = c.geom /\ Other(c, own, a.set, a.tag)
             /\ \A w \in Ways(own) : Holds(own, a.set, w, a.tag) => own.lines[a.set][w].mesi_state = st
  <2> HIDE DEF own, a
  <2>1. Marks(d, own, addr, {st})
    BY <1>8, <1>9
  <2>2. sc.left - 1 \in Nat /\ sc.left - 1 <= sc.left - 1
    BY <1>2
  <2> DEFINE m == sc.left - 1
  <2> HIDE DEF m
  <2>3. CacheInv(own, B, m) /\ own.geom = d.geom
    BY <1>7, <2>1, <2>2, MarksKeep DEF m
  <2>4. Other(d, own, a.set, a.tag)
        /\ \A w \in Ways(d) : Holds(own, a.set, w, a.tag) => own.lines[a.set][w].mesi_state = st
    BY <1>7, <2>1 DEF Marks, a
  <2>5. Other(c, own, a.set, a.tag)
    BY <1>7, <2>4 DEF Other, Sets, Ways
  <2> QED
    BY <1>7, <2>3, <2>4, <2>5 DEF Ways, m
<1>10. CacheInv(own, B, sc.left - 1) /\ own.geom = c.geom /\ Other(c, own, a.set, a.tag)
  <2>1. CASE shared
    BY <1>9, <2>1
  <2>2. CASE ~shared /\ StateIn(d, addr) = "I"
    BY <1>9, <2>2
  <2>3. CASE ~shared /\ StateIn(d, addr) # "I"
    BY <1>7, <2>3
  <2> QED
    BY <2>1, <2>2, <2>3
<1>11. Settled(snooped, own, core, addr, {"S", "I"})
  <2>1. CASE shared
    <3>1. own = cache_set_mesi(d, addr, "S")
      BY <2>1
    <3>2. \A w \in Ways(own) : Holds(own, a.set, w, a.tag) => own.lines[a.set][w].mesi_state = "S"
      BY <1>9, <3>1
    <3> QED
      BY <1>10, <3>2 DEF Settled
  <2>2. CASE ~shared
    BY <2>2 DEF Settled, shared
  <2> QED
    BY <2>1, <2>2
<1> HIDE DEF own, Own
<1>12. sc' = [sc EXCEPT !.cache = [snooped EXCEPT ![core] = own], !.recent = recent, !.left = @ - 1]
  BY <1>1, <1>2 DEF own
<1> QED
  BY <1>2, <1>4, <1>6, <1>10, <1>11, <1>12, BusStep DEF c

\* BusReset: a cache without lines is no danger to the others.
LEMMA BusResetKeeps ==
  ASSUME SnoopInv, sc.kind = "bus", sc.left > 0, NEW core \in DOMAIN sc.cache, BusReset(core)
  PROVE  SnoopInv'
<1> DEFINE D      == DOMAIN sc.cache
           cache  == [sc.cache EXCEPT ![core] = cache_reset(@)]
           recent == [sc.recent EXCEPT ![core] = {}]
<1>1. /\ sc.left \in Nat \ {0} /\ DOMAIN sc.recent = D /\ BusCoherent(sc.cache)
      /\ sc = [kind |-> sc.kind, addrs |-> sc.addrs, left |-> sc.left, cache |-> sc.cache, recent |-> sc.recent]
  BY DEF SnoopInv
<1>2. sc.left - 1 \in Nat /\ sc.left - 1 <= sc.left
  BY <1>1
<1>3. \A i \in D : CacheInv(sc.cache[i], sc.recent[i], sc.left) /\ IsCache(sc.cache[i])
  BY DEF SnoopInv, Kept, CacheInv
<1>4. sc' = [sc EXCEPT !.cache = cache, !.recent = recent, !.left = @ - 1]
  BY <1>1 DEF BusReset
<1>5. /\ DOMAIN cache = D /\ DOMAIN recent = D /\ recent[core] = {} /\ cache[core] = cache_reset(sc.cache[core])
      /\ \A i \in D \ {core} : cache[i] = sc.cache[i] /\ recent[i] = sc.recent[i]
  BY <1>1
<1> HIDE DEF cache, recent
<1>6. Empty(cache[core]) /\ cache[core].geom = sc.cache[core].geom
  BY <1>3, <1>5, ResetIs
<1>7. \A i \in D : Alike(sc.cache[i], sc.cache[i])
  BY <1>3 DEF Alike
<1>8. \A n \in D : CacheInv(cache[n], recent[n], sc.left - 1)
  <2> TAKE n \in D
  <2>1. CASE n = core
    BY <1>2, <1>5, <1>6, <2>1, EmptyKeeps
  <2>2. CASE n # core
    <3> DEFINE c == sc.cache[n]
               A == sc.recent[n]
               l == sc.left
               m == sc.left - 1
    <3>1. CacheInv(c, A, l) /\ Alike(c, c) /\ l \in Nat /\ m \in Nat /\ m <= l
      BY <1>1, <1>2, <1>3, <1>7
    <3> HIDE DEF c, A, l, m
    <3>2. CacheInv(c, A, m)
      BY <3>1, AlikeKeeps
    <3> QED
      BY <1>5, <2>2, <3>2 DEF c, A, m
  <2> QED
    BY <2>1, <2>2
<1>9. \A m, n \in D : cache[m].geom = cache[n].geom /\ (m # n => Alone(cache[m], cache[n]))
  <2> TAKE m, n \in D
  <2>1. \A i \in D : cache[i].geom = sc.cache[i].geom
    BY <1>5, <1>6
  <2>2. sc.cache[m].geom = sc.cache[n].geom /\ (m # n => Alone(sc.cache[m], sc.cache[n]))
    BY <1>1 DEF BusCoherent
  <2>3. cache[m].geom = cache[n].geom
    BY <2>1, <2>2
  <2>4. ASSUME m # n PROVE Alone(cache[m], cache[n])
    <3>1. CASE m = core \/ n = core
      <4>1. Sets(cache[m]) = Sets(cache[core]) /\ Ways(cache[m]) = Ways(cache[core])
            /\ Ways(cache[n]) = Ways(cache[core])
        BY <2>3, <3>1 DEF Sets, Ways
      <4> QED
        BY <1>6, <3>1, <4>1 DEF Alone, Empty, Holds
    <3>2. CASE m # core /\ n # core
      BY <1>5, <2>2, <2>4, <3>2
    <3> QED
      BY <3>1, <3>2
  <2> QED
    BY <2>3, <2>4
<1>10. BusCoherent(cache)
  BY <1>5, <1>9 DEF BusCoherent
<1>11. \A n \in DOMAIN sc.cache : Kept(sc.kind, n, cache[n], recent[n], sc.left - 1)
  BY <1>8 DEF Kept
<1> QED
  BY <1>4, <1>5, <1>10, <1>11, SnoopStep

\* A cache that is not accessed.
LEMMA StayKeeps ==
  ASSUME NEW kind, NEW n, NEW c, NEW A, NEW left \in Nat \ {0}, Kept(kind, n, c, A, left)
  PROVE  Kept(kind, n, c, A, left - 1)
<1>1. CASE CacheInv(c, A, left)
  <2>1. Alike(c, c)
    BY <1>1 DEF Alike, CacheInv
  <2>2. left - 1 \in Nat /\ left - 1 <= left
    OBVIOUS
  <2>3. CacheInv(c, A, left - 1)
    BY <1>1, <2>1, <2>2, AlikeKeeps
  <2> QED
    BY <2>3 DEF Kept
<1> QED
  BY <1>1 DEF Kept

\* Through the hierarchy two levels are accessed at most.
LEMMA LevelsStep ==
  ASSUME SnoopInv, sc.kind = "hierarchy", sc.left > 0, NEW cache, NEW recent, NEW touched \in SUBSET Levels,
         DOMAIN cache = DOMAIN sc.cache, DOMAIN recent = DOMAIN sc.recent,
         \A l \in Levels \ touched : cache[l] = sc.cache[l] /\ recent[l] = sc.recent[l],
         \A l \in touched : CacheInv(cache[l], recent[l], sc.left - 1),
         sc' = [sc EXCEPT !.cache = cache, !.recent = recent, !.left = @ - 1]
  PROVE  SnoopInv'
<1>1. sc.left \in Nat \ {0} /\ DOMAIN sc.cache = Levels /\ DOMAIN sc.recent = Levels
  BY DEF SnoopInv
<1>2. \A l \in Levels : Kept(sc.kind, l, sc.cache[l], sc.recent[l], sc.left)
  BY <1>1 DEF SnoopInv
<1>3. \A l \in Levels : Kept(sc.kind, l, sc.cache[l], sc.recent[l], sc.left - 1)
  BY <1>1, <1>2, StayKeeps
<1>4. \A l \in Levels : Kept(sc.kind, l, cache[l], recent[l], sc.left - 1)
  <2> TAKE l \in Levels
  <2>1. CASE l \in touched
    BY <2>1 DEF Kept
  <2>2. CASE l \notin touched
    BY <1>3, <2>2
  <2> QED
    BY <2>1, <2>2
<1> QED
  BY <1>1, <1>4, SnoopStep

\* cache_hierarchy_read: the levels above the one that has the line read it.
LEMMA HierarchyReadKeeps ==
  ASSUME SnoopInv, sc.kind = "hierarchy", sc.left > 0, NEW addr \in sc.addrs, NEW l1 \in {"L1I", "L1D"},
         cache_hierarchy_read(addr, l1)
  PROVE  SnoopInv'
<1> DEFINE fill == IF Hit(l1, addr) THEN {}
                   ELSE IF Hit("L2", addr) THEN {l1}
                   ELSE IF HasL3 /\ Hit("L3", addr) THEN {l1, "L2"} ELSE {}
           recent == [sc.recent EXCEPT ![l1] = IF l1 \in fill THEN Recent(l1, addr)[l1] ELSE @,
                                       !["L2"] = IF "L2" \in fill THEN Recent("L2", addr)["L2"] ELSE @]
           cache(upper, l2) == [sc.cache EXCEPT ![l1] = IF l1 \in fill THEN upper ELSE @,
                                                !["L2"] = IF "L2" \in fill THEN l2 ELSE @]
<1>1. PICK upper \in cache_read(sc.cache[l1], addr), l2 \in cache_read(sc.cache["L2"], addr) :
        sc' = [sc EXCEPT !.cache = cache(upper, l2), !.recent = recent, !.left = @ - 1]
  BY DEF cache_hierarchy_read
<1>2. /\ sc.left \in Nat \ {0} /\ DOMAIN sc.cache = Levels /\ DOMAIN sc.recent = Levels /\ addr \in Nat
      /\ fill \in SUBSET {l1, "L2"} /\ {l1, "L2"} \subseteq Levels /\ l1 # "L2"
  BY DEF SnoopInv, Levels
<1>3. \A l \in {l1, "L2"} : CacheInv(sc.cache[l], sc.recent[l], sc.left)
  <2>1. \A l \in {l1, "L2"} : Kept(sc.kind, l, sc.cache[l], sc.recent[l], sc.left) /\ l # "L3"
    BY <1>2 DEF SnoopInv
  <2> QED
    BY <2>1 DEF Kept
<1>4. \A d : \A l \in {l1, "L2"} : d \in cache_read(sc.cache[l], addr) => CacheInv(d, Recent(l, addr)[l], sc.left - 1)
  <2> SUFFICES ASSUME NEW l \in {l1, "L2"}, NEW d \in cache_read(sc.cache[l], addr)
               PROVE  CacheInv(d, Recent(l, addr)[l], sc.left - 1)
    OBVIOUS
  <2> DEFINE c == sc.cache[l]
             A == sc.recent[l]
             a == cache_addr_split(addr, c.geom)
  <2>1. Recent(l, addr)[l] = Asked(A, a.set, a.tag, sc.left)
    BY <1>2, RecentIs
  <2>2. CacheInv(c, A, sc.left)
    BY <1>3
  <2> HIDE DEF c, A
  <2>3. CacheInv(d, Asked(A, a.set, a.tag, sc.left), sc.left - 1)
    BY <1>2, <2>2, CacheReadKeeps DEF c
  <2> QED
    BY <2>1, <2>3
<1> HIDE DEF fill
<1> DEFINE all == cache(upper, l2)
<1>5. /\ DOMAIN all = DOMAIN sc.cache /\ DOMAIN recent = DOMAIN sc.recent
      /\ \A l \in Levels \ fill : all[l] = sc.cache[l] /\ recent[l] = sc.recent[l]
      /\ l1 \in fill => all[l1] = upper /\ recent[l1] = Recent(l1, addr)[l1]
      /\ "L2" \in fill => all["L2"] = l2 /\ recent["L2"] = Recent("L2", addr)["L2"]
  BY <1>2
<1>6. sc' = [sc EXCEPT !.cache = all, !.recent = recent, !.left = @ - 1]
  BY <1>1
<1> HIDE DEF all, recent, cache
<1>7. \A l \in fill : CacheInv(all[l], recent[l], sc.left - 1)
  BY <1>1, <1>2, <1>4, <1>5
<1>8. fill \in SUBSET Levels
  BY <1>2
<1> QED
  BY <1>5, <1>6, <1>7, <1>8, LevelsStep

\* cache_hierarchy_write: the data cache, and level two when it writes through.
LEMMA HierarchyWriteKeeps ==
  ASSUME SnoopInv, sc.kind = "hierarchy", sc.left > 0, NEW addr \in sc.addrs, cache_hierarchy_write(addr)
  PROVE  SnoopInv'
<1> DEFINE through == sc.cache["L1D"].write_policy # "BACK_ALLOC"
           touched == IF through THEN {"L1D", "L2"} ELSE {"L1D"}
           recent == [sc.recent EXCEPT !["L1D"] = Remembered("L1D", addr)["L1D"],
                                       !["L2"] = IF through THEN Remembered("L2", addr)["L2"] ELSE @]
           cache(l1, l2) == [sc.cache EXCEPT !["L1D"] = l1, !["L2"] = IF through THEN l2 ELSE @]
<1>1. PICK l1 \in cache_write(sc.cache["L1D"], addr), l2 \in cache_write(sc.cache["L2"], addr) :
        sc' = [sc EXCEPT !.cache = cache(l1, l2), !.recent = recent, !.left = @ - 1]
  BY DEF cache_hierarchy_write
<1>2. /\ sc.left \in Nat \ {0} /\ DOMAIN sc.cache = Levels /\ DOMAIN sc.recent = Levels /\ addr \in Nat
      /\ {"L1D", "L2"} \subseteq Levels
  BY DEF SnoopInv, Levels
<1>3. \A l \in {"L1D", "L2"} : CacheInv(sc.cache[l], sc.recent[l], sc.left)
  <2>1. \A l \in {"L1D", "L2"} : Kept(sc.kind, l, sc.cache[l], sc.recent[l], sc.left) /\ l # "L3"
    BY <1>2 DEF SnoopInv
  <2> QED
    BY <2>1 DEF Kept
<1>4. \A d : \A l \in {"L1D", "L2"} :
        d \in cache_write(sc.cache[l], addr) => CacheInv(d, Remembered(l, addr)[l], sc.left - 1)
  <2> SUFFICES ASSUME NEW l \in {"L1D", "L2"}, NEW d \in cache_write(sc.cache[l], addr)
               PROVE  CacheInv(d, Remembered(l, addr)[l], sc.left - 1)
    OBVIOUS
  <2> DEFINE c == sc.cache[l]
             A == sc.recent[l]
             a == cache_addr_split(addr, c.geom)
  <2>1. Remembered(l, addr)[l] = IF Unseen(c, addr) THEN A ELSE Asked(A, a.set, a.tag, sc.left)
    BY <1>2, RememberedIs
  <2>2. CacheInv(c, A, sc.left)
    BY <1>3
  <2> HIDE DEF c, A
  <2>3. CacheInv(d, IF Unseen(c, addr) THEN A ELSE Asked(A, a.set, a.tag, sc.left), sc.left - 1)
    BY <1>2, <2>2, CacheWriteKeeps DEF c
  <2> QED
    BY <2>1, <2>3
<1> DEFINE all == cache(l1, l2)
<1> HIDE DEF through
<1>5. /\ DOMAIN all = DOMAIN sc.cache /\ DOMAIN recent = DOMAIN sc.recent
      /\ \A l \in Levels \ touched : all[l] = sc.cache[l] /\ recent[l] = sc.recent[l]
      /\ all["L1D"] = l1 /\ recent["L1D"] = Remembered("L1D", addr)["L1D"]
      /\ "L2" \in touched => all["L2"] = l2 /\ recent["L2"] = Remembered("L2", addr)["L2"]
      /\ touched \in SUBSET {"L1D", "L2"}
  BY <1>2
<1>6. sc' = [sc EXCEPT !.cache = all, !.recent = recent, !.left = @ - 1]
  BY <1>1
<1> HIDE DEF all, recent, cache, touched
<1>7. \A l \in touched : CacheInv(all[l], recent[l], sc.left - 1)
  BY <1>1, <1>4, <1>5
<1>8. touched \in SUBSET Levels
  BY <1>2, <1>5
<1> QED
  BY <1>5, <1>6, <1>7, <1>8, LevelsStep

\* WarmL3: only when there is a level three.
LEMMA WarmKeeps ==
  ASSUME SnoopInv, sc.kind = "hierarchy", sc.left > 0, NEW addr \in sc.addrs, WarmL3(addr)
  PROVE  SnoopInv'
<1> DEFINE cache(c) == [sc.cache EXCEPT !["L3"] = c]
           recent == Recent("L3", addr)
           A == sc.recent["L3"]
           c == sc.cache["L3"]
           a == cache_addr_split(addr, c.geom)
<1>1. PICK d \in cache_read(c, addr) : sc' = [sc EXCEPT !.cache["L3"] = d, !.recent = recent, !.left = @ - 1]
  BY DEF WarmL3
<1>2. /\ sc.left \in Nat \ {0} /\ DOMAIN sc.cache = Levels /\ DOMAIN sc.recent = Levels
      /\ addr \in Nat /\ "L3" \in Levels
      /\ sc = [kind |-> sc.kind, addrs |-> sc.addrs, left |-> sc.left, cache |-> sc.cache, recent |-> sc.recent]
  BY DEF SnoopInv, Levels
<1>3. CacheInv(c, A, sc.left)
  <2>1. Kept(sc.kind, "L3", c, A, sc.left)
    BY <1>2 DEF SnoopInv
  <2>2. c.geom # NoLevel
    BY DEF WarmL3, HasL3
  <2> QED
    BY <2>1, <2>2 DEF Kept, NoCache
<1>4. /\ DOMAIN recent = DOMAIN sc.recent /\ recent["L3"] = Asked(A, a.set, a.tag, sc.left)
      /\ \A l \in Levels \ {"L3"} : recent[l] = sc.recent[l]
  BY <1>2, RecentIs
<1>5. CacheInv(d, Asked(A, a.set, a.tag, sc.left), sc.left - 1)
  <2> HIDE DEF c, A
  <2> QED
    BY <1>2, <1>3, CacheReadKeeps
<1> DEFINE all == cache(d)
<1> HIDE DEF recent
<1>6. sc' = [sc EXCEPT !.cache = all, !.recent = recent, !.left = @ - 1]
  BY <1>1, <1>2
<1>7. DOMAIN all = DOMAIN sc.cache /\ all["L3"] = d /\ \A l \in Levels \ {"L3"} : all[l] = sc.cache[l]
  BY <1>2
<1> HIDE DEF all, cache
<1>8. \A l \in {"L3"} : CacheInv(all[l], recent[l], sc.left - 1)
  BY <1>4, <1>5, <1>7
<1>9. {"L3"} \in SUBSET Levels
  BY <1>2
<1> QED
  BY <1>4, <1>6, <1>7, <1>8, <1>9, LevelsStep
--------------------------------------------------------------------------------
(* The theorem. *)

LEMMA EmptyOnBus ==
  ASSUME NEW cache, NEW g, \A n \in DOMAIN cache : Empty(cache[n]) /\ cache[n].geom = g
  PROVE  BusCoherent(cache)
<1>1. ASSUME NEW m \in DOMAIN cache, NEW n \in DOMAIN cache PROVE Alone(cache[m], cache[n])
  BY DEF Alone, Empty
<1> QED
  BY <1>1 DEF BusCoherent

LEMMA SnoopStarts ==
  SnoopInit => SnoopInv
<1>1. ASSUME NEW b \in Buses, sc = mesi_bus_init(b) PROVE SnoopInv
  <2> DEFINE c == cache_init(b.geom, b.replace, b.write)
  <2>1. /\ b.accesses \in Nat /\ b.addrs \subseteq Nat
        /\ b.geom \in Geometries /\ b.replace \in ReplacePolicy /\ b.write \in WritePolicies
    BY SnoopAssumption
  <2>2. /\ sc = [kind |-> sc.kind, addrs |-> sc.addrs, left |-> sc.left, cache |-> sc.cache, recent |-> sc.recent]
        /\ sc.kind = "bus" /\ sc.addrs = b.addrs /\ sc.left = b.accesses
        /\ sc.cache = [i \in b.cores |-> c] /\ sc.recent = [i \in b.cores |-> {}]
    BY <1>1 DEF mesi_bus_init
  <2>3. Empty(c) /\ c.geom = b.geom
    BY <2>1, InitIs
  <2> HIDE DEF c
  <2>4. DOMAIN sc.cache = b.cores /\ DOMAIN sc.recent = b.cores
        /\ \A n \in DOMAIN sc.cache : sc.cache[n] = c /\ sc.recent[n] = {}
    BY <2>2
  <2>5. CacheInv(c, {}, sc.left)
    BY <2>1, <2>2, <2>3, EmptyKeeps
  <2>6. \A n \in DOMAIN sc.cache : Kept(sc.kind, n, sc.cache[n], sc.recent[n], sc.left)
    BY <2>4, <2>5 DEF Kept
  <2>7. BusCoherent(sc.cache)
    BY <2>3, <2>4, EmptyOnBus
  <2> QED
    BY <2>1, <2>2, <2>4, <2>6, <2>7 DEF SnoopInv
<1>2. ASSUME NEW l1_wp \in WritePolicies, NEW l2_wp \in WritePolicies, sc = cache_hierarchy_init(l1_wp, l2_wp)
      PROVE  SnoopInv
  <2> DEFINE wp(l) == CASE l = "L1D" -> l1_wp [] l = "L2" -> l2_wp [] OTHER -> "BACK_ALLOC"
             c(l)  == cache_init(LevelGeometries[l], "LRU", wp(l))
  <2>1. /\ MaxLevelAccesses \in Nat /\ LevelAddresses \subseteq Nat
        /\ \A l \in Levels : LevelGeometries[l] \in Geometries \/ (l = "L3" /\ LevelGeometries[l] = NoLevel)
    BY SnoopAssumption
  <2>2. /\ sc = [kind |-> sc.kind, addrs |-> sc.addrs, left |-> sc.left, cache |-> sc.cache, recent |-> sc.recent]
        /\ sc.kind = "hierarchy" /\ sc.addrs = LevelAddresses /\ sc.left = MaxLevelAccesses
        /\ DOMAIN sc.cache = Levels /\ DOMAIN sc.recent = Levels
        /\ \A l \in Levels : sc.cache[l] = c(l) /\ sc.recent[l] = {}
    BY <1>2 DEF cache_hierarchy_init
  <2>3. ASSUME NEW l \in Levels PROVE Kept(sc.kind, l, sc.cache[l], sc.recent[l], sc.left)
    <3>1. wp(l) \in WritePolicies /\ "LRU" \in ReplacePolicy
      BY DEF WritePolicies, ReplacePolicy
    <3>2. CASE LevelGeometries[l] \in Geometries
      <4> HIDE DEF wp
      <4>1. Empty(c(l))
        BY <3>1, <3>2, InitIs
      <4>2. CacheInv(c(l), {}, sc.left)
        BY <2>1, <2>2, <4>1, EmptyKeeps
      <4> HIDE DEF c
      <4> QED
        BY <2>2, <4>2 DEF Kept
    <3>3. CASE l = "L3" /\ LevelGeometries[l] = NoLevel
      <4>1. c(l).geom = NoLevel /\ DOMAIN c(l).lines = 0 .. NoLevel.num_sets - 1
        BY <3>3 DEF cache_init
      <4>2. NoCache(c(l))
        BY <4>1 DEF NoCache, NoLevel
      <4> HIDE DEF c
      <4> QED
        BY <2>2, <3>3, <4>2 DEF Kept
    <3> QED
      BY <2>1, <3>2, <3>3
  <2> QED
    BY <2>1, <2>2, <2>3 DEF SnoopInv
<1> QED
  BY <1>1, <1>2 DEF SnoopInit

LEMMA SnoopKeeps ==
  SnoopInv /\ [SnoopNext]_sc => SnoopInv'
<1> SUFFICES ASSUME SnoopInv, [SnoopNext]_sc
             PROVE  SnoopInv'
  OBVIOUS
<1>1. CASE UNCHANGED sc
  BY <1>1 DEF SnoopInv
<1>2. CASE SnoopNext /\ sc.kind = "bus"
  <2>1. PICK core \in DOMAIN sc.cache :
          BusReset(core) \/ \E addr \in sc.addrs : BusRead(core, addr) \/ BusWrite(core, addr)
    BY <1>2 DEF SnoopNext
  <2>2. sc.left > 0
    BY <1>2 DEF SnoopNext
  <2> QED
    BY <1>2, <2>1, <2>2, BusResetKeeps, BusReadKeeps, BusWriteKeeps
<1>3. CASE SnoopNext /\ sc.kind = "hierarchy"
  <2>1. PICK addr \in sc.addrs : \/ cache_hierarchy_write(addr) \/ WarmL3(addr)
                                 \/ \E l1 \in {"L1I", "L1D"} : cache_hierarchy_read(addr, l1)
    BY <1>3 DEF SnoopNext
  <2>2. sc.left > 0
    BY <1>3 DEF SnoopNext
  <2> QED
    BY <1>3, <2>1, <2>2, HierarchyReadKeeps, HierarchyWriteKeeps, WarmKeeps
<1> QED
  BY <1>1, <1>2, <1>3 DEF SnoopNext

\* The lines newer than one that is not held fill the set.
LEMMA NewerFill ==
  ASSUME NEW c, NEW A, NEW left, CacheInv(c, A, left), NEW r \in A, ~IsHeld(c, r), Dropped(c, A),
         NEW newer, newer = {p \in A : p.line.set = r.line.set /\ p.left < r.left}
  PROVE  Cardinality(newer) >= c.geom.associativity
<1> DEFINE s == r.line.set
           Of(w) == CHOOSE q \in A : q.line = Line(s, c.lines[s][w].tag)
           f == [w \in Ways(c) |-> Of(w)]
<1>1. s \in Sets(c) /\ IsFiniteSet(A) /\ c.geom.associativity \in Nat \ {0}
  BY DEF CacheInv, AskedBefore, IsCache, Geometries
<1>2. \A w \in Ways(c) : c.lines[s][w].valid /\ Of(w) \in A /\ Of(w).line = Line(s, c.lines[s][w].tag)
  <2> TAKE w \in Ways(c)
  <2>1. c.lines[s][w].valid
    BY DEF Dropped, Older
  <2>2. \E q \in A : q.line = Line(s, c.lines[s][w].tag)
    BY <1>1, <2>1 DEF CacheInv, Known
  <2> QED
    BY <2>1, <2>2
<1> HIDE DEF Of
<1>3. \A w \in Ways(c) : Of(w) \in newer
  <2> TAKE w \in Ways(c)
  <2>1. Of(w).line.set = s
    <3>1. \A u, v : Line(u, v).set = u
      BY DEF Line
    <3> QED
      BY <1>2, <3>1
  <2>2. Of(w).left < r.left
    BY <1>2 DEF Dropped, Older
  <2> QED
    BY <1>2, <2>1, <2>2
<1>4. f \in [Ways(c) -> newer]
  BY <1>3
<1>5. ~ \E v, w \in Ways(c) : v # w /\ f[v] = f[w]
  <2> SUFFICES ASSUME NEW v \in Ways(c), NEW w \in Ways(c), f[v] = f[w]
               PROVE  v = w
    OBVIOUS
  <2>1. Line(s, c.lines[s][v].tag) = Line(s, c.lines[s][w].tag)
    BY <1>2
  <2>2. c.lines[s][v].tag = c.lines[s][w].tag
    BY <2>1 DEF Line
  <2> QED
    BY <1>1, <1>2, <2>2 DEF CacheInv, OneWay, Holds
<1>6. IsFiniteSet(newer)
  BY <1>1, FS_Subset
<1>7. IsFiniteSet(Ways(c)) /\ Cardinality(Ways(c)) = c.geom.associativity
  <2>1. 0 \in Int /\ c.geom.associativity - 1 \in Int /\ ~(0 > c.geom.associativity - 1)
    BY <1>1
  <2>2. IsFiniteSet(0 .. c.geom.associativity - 1)
        /\ Cardinality(0 .. c.geom.associativity - 1) = c.geom.associativity - 1 - 0 + 1
    BY <2>1, FS_Interval
  <2> QED
    BY <1>1, <2>2 DEF Ways
<1> HIDE DEF f
<1>8. ~(Cardinality(newer) < Cardinality(Ways(c)))
  BY <1>4, <1>5, <1>6, <1>7, FS_PigeonHole
<1>9. Cardinality(newer) \in Nat
  BY <1>6, FS_CardinalityType
<1> QED
  BY <1>1, <1>7, <1>8, <1>9

\* The lines last asked for, as many as the policy promises, are held.
LEMMA LastHeld ==
  ASSUME NEW c, NEW A, NEW left, CacheInv(c, A, left), NEW r \in A, NEW newer,
         newer = {p \in A : p.line.set = r.line.set /\ p.left < r.left},
         Cardinality(newer) < (IF c.replace_policy \in {"LRU", "FIFO"} THEN c.geom.associativity
                               ELSE IF c.replace_policy = "PLRU" THEN Min({2, c.geom.associativity}) ELSE 1)
  PROVE  IsHeld(c, r)
<1>1. /\ IsFiniteSet(A) /\ c.geom.associativity \in Nat \ {0} /\ c.replace_policy \in ReplacePolicy
      /\ \A p \in A : p.left \in Nat
  BY DEF CacheInv, AskedBefore, IsCache, Geometries
<1>2. IsFiniteSet(newer)
  BY <1>1, FS_Subset
<1>3. Cardinality(newer) \in Nat
  BY <1>2, FS_CardinalityType
<1>4. CASE c.replace_policy \in {"LRU", "FIFO"}
  <2>1. Dropped(c, A)
    BY <1>4 DEF CacheInv, Keeps
  <2>2. ~IsHeld(c, r) => Cardinality(newer) >= c.geom.associativity
    BY <2>1, NewerFill
  <2> QED
    BY <1>1, <1>3, <1>4, <2>2
<1>5. CASE c.replace_policy \in {"RANDOM", "PLRU"} /\ Cardinality(newer) = 0
  <2>1. newer = {}
    BY <1>2, <1>5, FS_EmptySet
  <2>2. Latest(A, r)
    BY <1>1, <2>1 DEF Latest
  <2> QED
    BY <1>5, <2>2 DEF CacheInv, Keeps, LatestHeld
<1>6. CASE c.replace_policy = "PLRU" /\ Cardinality(newer) # 0
  <2>1. {2, c.geom.associativity} \in SUBSET Nat /\ {2, c.geom.associativity} # {}
    BY <1>1
  <2>2. Min({2, c.geom.associativity}) \in {2, c.geom.associativity} /\ Min({2, c.geom.associativity}) <= 2
        /\ Min({2, c.geom.associativity}) <= c.geom.associativity
    BY <2>1, MinIs
  <2>3. Cardinality(newer) < Min({2, c.geom.associativity})
    BY <1>6
  <2>4. Cardinality(newer) = 1 /\ c.geom.associativity > 1
    BY <1>1, <1>3, <1>6, <2>2, <2>3
  <2>5. PICK x : newer = {x}
    BY <1>2, <2>4, FS_Singleton
  <2>6. Second(A, r)
    BY <2>5 DEF Second
  <2> QED
    BY <1>6, <2>4, <2>6 DEF CacheInv, Keeps, SecondHeld
<1>7. CASE c.replace_policy = "RANDOM"
  <2>1. Cardinality(newer) = 0
    BY <1>3, <1>7
  <2> QED
    BY <1>5, <1>7, <2>1
<1> QED
  BY <1>1, <1>4, <1>5, <1>6, <1>7 DEF ReplacePolicy

\* What the invariant says of every cache gives coherence and recency.
LEMMA SnoopSafe ==
  SnoopInv => SnoopSound
<1> SUFFICES ASSUME SnoopInv PROVE SnoopSound
  OBVIOUS
<1>1. OwnerAlone
  <2> SUFFICES ASSUME sc.kind = "bus", NEW addr \in sc.addrs, NEW i \in DOMAIN sc.cache,
                      StateIn(sc.cache[i], addr) \in {"M", "E"}, NEW j \in DOMAIN sc.cache \ {i}
               PROVE  StateIn(sc.cache[j], addr) = "I"
    BY DEF OwnerAlone
  <2> DEFINE c == sc.cache[i]
             d == sc.cache[j]
             s == cache_addr_split(addr, c.geom).set
             t == cache_addr_split(addr, c.geom).tag
  <2>1. /\ addr \in Nat /\ c.geom = d.geom /\ Alone(c, d)
        /\ IsCache(c) /\ OneWay(c) /\ IsCache(d) /\ OneWay(d)
    BY DEF SnoopInv, BusCoherent, Kept, CacheInv
  <2>2. StateIn(c, addr) \in {"M", "E"} /\ c = sc.cache[i] /\ d = sc.cache[j]
    OBVIOUS
  <2> HIDE DEF c, d
  <2>3. PICK v \in Ways(c) : Holds(c, s, v, t) /\ StateIn(c, addr) = c.lines[s][v].mesi_state
    BY <2>1, <2>2, StateIs
  <2>4. s \in Sets(c)
    BY <2>1, SplitIs
  <2>5. ASSUME StateIn(d, addr) # "I" PROVE FALSE
    <3>1. PICK w \in Ways(d) : /\ Holds(d, cache_addr_split(addr, d.geom).set, w, cache_addr_split(addr, d.geom).tag)
                               /\ StateIn(d, addr) = d.lines[cache_addr_split(addr, d.geom).set][w].mesi_state
      BY <2>1, <2>5, StateIs
    <3>2. Holds(d, s, w, t) /\ StateIn(d, addr) = d.lines[s][w].mesi_state
      BY <2>1, <3>1
    <3> HIDE DEF s, t
    <3>3. d.lines[s][w].mesi_state = "I"
      BY <2>1, <2>2, <2>3, <2>4, <3>2 DEF Alone, Holds
    <3> QED
      BY <2>5, <3>2, <3>3
  <2> QED
    BY <2>2, <2>5
<1>2. KeepsRecent
  <2> SUFFICES ASSUME NEW n \in DOMAIN sc.cache, NEW s \in DOMAIN sc.cache[n].lines
               PROVE  LET c == sc.cache[n]
                          many == IF c.replace_policy \in {"LRU", "FIFO"} THEN c.geom.associativity
                                  ELSE IF c.replace_policy = "PLRU" THEN Min({2, c.geom.associativity}) ELSE 1
                      IN  AskedLast(n, s, many)
                            \subseteq {c.lines[s][w].tag : w \in {v \in DOMAIN c.lines[s] : c.lines[s][v].valid}}
    BY DEF KeepsRecent
  <2> DEFINE c == sc.cache[n]
             A == sc.recent[n]
             many == IF c.replace_policy \in {"LRU", "FIFO"} THEN c.geom.associativity
                     ELSE IF c.replace_policy = "PLRU" THEN Min({2, c.geom.associativity}) ELSE 1
             asked == {r \in A : r.line.set = s}
             Newer(q) == {p \in asked : p.left < q.left}
  <2>1. Kept(sc.kind, n, c, A, sc.left)
    BY DEF SnoopInv
  <2>2. CacheInv(c, A, sc.left)
    BY <2>1 DEF Kept, NoCache
  <2>3. s \in Sets(c) /\ DOMAIN c.lines[s] = Ways(c)
    BY <2>2 DEF CacheInv, IsCache
  <2>4. AskedLast(n, s, many) = {r.line.tag : r \in {q \in asked : Cardinality(Newer(q)) < many}}
    BY DEF AskedLast
  <2> HIDE DEF c, A, many
  <2>5. ASSUME NEW r \in asked, Cardinality(Newer(r)) < many
        PROVE  r.line.tag \in {c.lines[s][w].tag : w \in {v \in Ways(c) : c.lines[s][v].valid}}
    <3>1. r \in A /\ r.line.set = s
      OBVIOUS
    <3> DEFINE newer == {p \in A : p.line.set = r.line.set /\ p.left < r.left}
    <3>2. Newer(r) = newer
      BY <3>1
    <3>3. Cardinality(newer) < many
      BY <2>5, <3>2
    <3> HIDE DEF newer
    <3>4. newer = {p \in A : p.line.set = r.line.set /\ p.left < r.left}
      BY DEF newer
    <3>5. IsHeld(c, r)
      BY <2>2, <3>1, <3>3, <3>4, LastHeld DEF many
    <3> QED
      BY <3>1, <3>5 DEF IsHeld, Holds
  <2> HIDE DEF asked, Newer
  <2>6. AskedLast(n, s, many) \subseteq {c.lines[s][w].tag : w \in {v \in DOMAIN c.lines[s] : c.lines[s][v].valid}}
    BY <2>3, <2>4, <2>5
  <2> QED
    BY <2>6 DEF c, many
<1> QED
  BY <1>1, <1>2 DEF SnoopSound

\* Coherence on the bus and recency in each cache, for every number of caches, every
\* geometry and policy, every address and any number of accesses: a line modified or exclusive
\* in one cache is usable in no other (mesi_bus_read_snoop, mesi_bus_write_snoop), and a set
\* holds the lines it was asked for last (find_victim, plru_update).
THEOREM SnoopCorrect ==
  SnoopSpec => []SnoopSound
<1>1. SnoopInit => SnoopInv
  BY SnoopStarts
<1>2. SnoopInv /\ [SnoopNext]_sc => SnoopInv'
  BY SnoopKeeps
<1>3. SnoopInv => SnoopSound
  BY SnoopSafe
<1> QED
  BY <1>1, <1>2, <1>3, PTL DEF SnoopSpec
================================================================================
