----------------------------- MODULE HardwareProofs -----------------------------
(***************************************************************************)
(* Theorems about the root of trust and the memory encryption engine of    *)
(* module TrustHardware, for every response of the SRAM, every number of   *)
(* slots, counters, regions and lines; about the queues of module          *)
(* StorageQueues, for every depth of a ring, number of queues, weight,     *)
(* burst and state of the blocks; and about registers, bus arbiters and    *)
(* TLB of module ClockedCircuits, for every number of bits, masters, slots *)
(* and entries.                                                            *)
(***************************************************************************)
EXTENDS TrustHardware, StorageQueues, ClockedCircuits, FiniteSetTheorems, SequenceTheorems, WellFoundedInduction,
        NaturalsInduction, TLAPS

--------------------------------------------------------------------------------
(* Enrolment. *)

\* The response kept has every bit the last enrolment found stable high, none it found
\* stable low, none that never was high; the mask covers it, and the key is that of it.
PufInv ==
  /\ seen.high \subseteq puf.raw /\ puf.raw \cap seen.low = {}
  /\ puf.raw \subseteq seen.ever /\ puf.raw \subseteq puf.mask
  /\ puf.enrolled => puf.golden = sha256(puf.raw)
  /\ DOMAIN puf = DOMAIN BlankPuf

\* No bit is stable both ways, since readings are numbers.
LEMMA StableOneWay ==
  ASSUME NEW counts \in [PufBits -> Nat]
  PROVE  /\ StableHigh(counts) \cap StableLow(counts) = {}
         /\ StableHigh(counts) \subseteq PufBits /\ StableLow(counts) \subseteq PufBits
  BY DEF StableHigh, StableLow

\* Enrolment from nothing gives the key of the bits that were stably high.
LEMMA FreshEnrolment ==
  ASSUME NEW counts \in [PufBits -> Nat]
  PROVE  Enrolled(BlankPuf, counts).golden = sha256(StableHigh(counts))
<1> DEFINE H == StableHigh(counts)
           L == StableLow(counts)
<1>1. H \cap L = {}
  BY StableOneWay
<1> HIDE DEF H, L
<1>2. ((({} \cup H) \ L) \cap ({} \cup H \cup L)) = H
  BY <1>1
<1>3. Enrolled(BlankPuf, counts).golden = sha256((({} \cup H) \ L) \cap ({} \cup H \cup L))
  BY DEF Enrolled, BlankPuf, H, L
<1> QED
  BY <1>2, <1>3 DEF H

\* Another enrolment keeps the bits, the mask and the key what they are.
LEMMA EnrolInv ==
  ASSUME PufInv, NEW counts \in [PufBits -> ReadingCounts], sram_puf_enroll(counts)
  PROVE  PufInv'
<1> DEFINE H == StableHigh(counts)
           L == StableLow(counts)
<1>1. H \cap L = {} /\ H \subseteq PufBits /\ L \subseteq PufBits
  BY StableOneWay, TrustAssumption
<1>2. seen'.high = H /\ seen'.low = L /\ seen'.ever = seen.ever \cup H
  BY DEF sram_puf_enroll
<1> HIDE DEF H, L
<1> DEFINE raw  == (puf.raw \cup H) \ L
           mask == puf.mask \cup H \cup L
<1>3. puf' = [puf EXCEPT !.enrolled = TRUE, !.raw = raw, !.mask = mask,
                         !.helper = bch_encode(raw), !.golden = sha256(raw \cap mask)]
  BY DEF sram_puf_enroll, Enrolled, H, L
<1>4. H \subseteq raw /\ raw \cap L = {} /\ raw \subseteq seen.ever \cup H /\ raw \subseteq mask
  BY <1>1 DEF PufInv
<1>5. raw \cap mask = raw
  BY <1>4
<1> HIDE DEF raw, mask
<1>6. /\ DOMAIN puf' = DOMAIN puf
      /\ puf'.raw = raw /\ puf'.mask = mask /\ puf'.golden = sha256(raw \cap mask)
  BY <1>3 DEF PufInv, BlankPuf
<1> QED
  BY <1>2, <1>4, <1>5, <1>6 DEF PufInv

\* Every step of the component keeps it.
LEMMA PufNextInv == PufInv /\ [TrustNext]_trust_vars => PufInv'
<1> SUFFICES ASSUME PufInv, [TrustNext]_trust_vars PROVE PufInv'
  OBVIOUS
<1>1. CASE UNCHANGED puf_vars
  BY <1>1 DEF PufInv, puf_vars
<1>2. ASSUME NEW counts \in [PufBits -> ReadingCounts], sram_puf_enroll(counts) PROVE PufInv'
  BY <1>2, EnrolInv
<1>3. ASSUME NEW noisy \in SUBSET PufBits, sram_puf_reconstruct(noisy) PROVE PufInv'
  <2>1. puf' = [puf EXCEPT !.reconstructed = fuzzy_extract(noisy, puf.helper)] /\ seen' = seen
    BY <1>3 DEF sram_puf_reconstruct
  <2> QED
    BY <2>1 DEF PufInv, BlankPuf
<1>4. HrotNext \/ MeeNext \/ ReplayNext => UNCHANGED puf_vars
  BY DEF HrotNext, hrot_init, hrot_provision_key, counter_increment, counter_lock, counter_verify,
         hrot_advance_lifecycle, hrot_lock_debug, MeeNext, mem_engine_init, mem_region_add,
         mem_encrypt_line, mem_bulk_encrypt, mem_decrypt_line, ReplayNext, mem_replay_protect,
         mem_counter_increment
<1> QED
  BY <1>1, <1>2, <1>3, <1>4 DEF TrustNext, PufNext, trust_vars
--------------------------------------------------------------------------------
(* The root of trust. *)

HrotRecord ==
  [slots : [KeySlots -> [occupied : BOOLEAN, key : {"zero"} \cup ProvisionedKeys, locked : BOOLEAN]],
   counters : [Counters -> [value : Nat, locked : BOOLEAN]],
   lifecycle : 0 .. 3, debug_locked : BOOLEAN,
   device_key : {sha256(bits) : bits \in SUBSET PufBits}]

PastRecord ==
  [keys : [KeySlots -> {"none"} \cup ProvisionedKeys],
   verified : [Counters -> Nat], lockedAt : [Counters -> Nat \cup {-1}],
   reached : 0 .. 3, readings : SUBSET [PufBits -> Nat]]

\* The history explains the state: locking is remembered with the value, what was
\* verified stays reached, the key is that of the boot.
HrotInv ==
  /\ hrot \in HrotRecord /\ past \in PastRecord
  /\ \A c \in Counters :
        /\ hrot.counters[c].locked <=> past.lockedAt[c] # -1
        /\ past.lockedAt[c] # -1 => hrot.counters[c].value = past.lockedAt[c]
        /\ hrot.counters[c].value >= past.verified[c]
  /\ \A s \in KeySlots : hrot_get_key(s) = past.keys[s]
  /\ hrot.lifecycle = past.reached
  /\ hrot.debug_locked => past.reached >= 2
  /\ \A counts \in past.readings : hrot.device_key = sha256(StableHigh(counts))

\* The history starts with nothing but the readings of the boot.
LEMMA PastStarts ==
  ASSUME NEW counts \in [PufBits -> Nat]
  PROVE  [NothingPast EXCEPT !.readings = {counts}] \in PastRecord
<1> DEFINE keys == [s \in KeySlots |-> "none"]
           verified == [c \in Counters |-> 0]
           lockedAt == [c \in Counters |-> -1]
           readings == {counts}
<1>1. /\ keys \in [KeySlots -> {"none"} \cup ProvisionedKeys]
      /\ verified \in [Counters -> Nat]
      /\ lockedAt \in [Counters -> Nat \cup {-1}]
      /\ readings \in SUBSET [PufBits -> Nat]
  OBVIOUS
<1>2. NothingPast = [keys |-> keys, verified |-> verified, lockedAt |-> lockedAt, reached |-> 1,
                     readings |-> {}]
  BY DEF NothingPast
<1>3. 1 \in 0 .. 3
  OBVIOUS
<1> HIDE DEF keys, verified, lockedAt, readings
<1>4. [NothingPast EXCEPT !.readings = readings]
        = [keys |-> keys, verified |-> verified, lockedAt |-> lockedAt, reached |-> 1,
           readings |-> readings]
  BY <1>2
<1>5. [NothingPast EXCEPT !.readings = readings] \in PastRecord
  BY <1>1, <1>3, <1>4, Zenon DEF PastRecord
<1> QED
  BY <1>5 DEF readings

\* A boot starts it, whatever the readings.
LEMMA BootedInv ==
  ASSUME NEW counts \in [PufBits -> Nat],
         hrot' = Booted(counts), past' = [NothingPast EXCEPT !.readings = {counts}]
  PROVE  HrotInv'
<1> DEFINE key == Enrolled(BlankPuf, counts).golden
<1>1. key = sha256(StableHigh(counts)) /\ StableHigh(counts) \in SUBSET PufBits
  BY FreshEnrolment, StableOneWay
<1>2. key \in {sha256(bits) : bits \in SUBSET PufBits}
  BY <1>1
<1>3. hrot' = [slots |-> [s \in KeySlots |-> EmptySlot],
               counters |-> [c \in Counters |-> [value |-> 0, locked |-> FALSE]],
               lifecycle |-> 1, debug_locked |-> FALSE, device_key |-> key]
  BY DEF Booted
<1> HIDE DEF key
<1>4. past' = [keys |-> [s \in KeySlots |-> "none"], verified |-> [c \in Counters |-> 0],
               lockedAt |-> [c \in Counters |-> -1], reached |-> 1, readings |-> {counts}]
  BY DEF NothingPast
<1>5. hrot' \in HrotRecord
  BY <1>2, <1>3 DEF HrotRecord, EmptySlot
<1>6. past' \in PastRecord
  BY PastStarts
<1>7. \A s \in KeySlots : (hrot_get_key(s))' = past'.keys[s]
  BY <1>3, <1>4 DEF hrot_get_key, EmptySlot
<1>8. \A c \in Counters :
        /\ hrot'.counters[c].locked <=> past'.lockedAt[c] # -1
        /\ past'.lockedAt[c] # -1 => hrot'.counters[c].value = past'.lockedAt[c]
        /\ hrot'.counters[c].value >= past'.verified[c]
  BY <1>3, <1>4
<1>9. \A n \in past'.readings : hrot'.device_key = sha256(StableHigh(n))
  BY <1>1, <1>3, <1>4
<1> QED
  BY <1>3, <1>4, <1>5, <1>6, <1>7, <1>8, <1>9 DEF HrotInv

\* A provisioned key is the one the slot then gives.
LEMMA ProvisionInv ==
  ASSUME HrotInv, NEW s \in KeySlots, NEW key \in ProvisionedKeys, hrot_provision_key(s, key)
  PROVE  HrotInv'
<1> DEFINE slot == [hrot.slots[s] EXCEPT !.key = key, !.occupied = TRUE]
<1>1. /\ hrot \in HrotRecord /\ past \in PastRecord
      /\ hrot' = [hrot EXCEPT !.slots[s].key = key, !.slots[s].occupied = TRUE]
      /\ past' = [past EXCEPT !.keys[s] = key]
  BY DEF HrotInv, hrot_provision_key
<1>2. slot \in [occupied : BOOLEAN, key : {"zero"} \cup ProvisionedKeys, locked : BOOLEAN]
      /\ slot.key = key /\ slot.occupied
  BY <1>1 DEF HrotRecord
<1>3. hrot' = [hrot EXCEPT !.slots = [hrot.slots EXCEPT ![s] = slot]]
  BY <1>1 DEF HrotRecord
<1> HIDE DEF slot
<1>4. hrot' \in HrotRecord
  BY <1>1, <1>2, <1>3 DEF HrotRecord
<1>5. past' \in PastRecord
  BY <1>1 DEF PastRecord
<1>6. /\ hrot'.counters = hrot.counters /\ hrot'.lifecycle = hrot.lifecycle
      /\ hrot'.debug_locked = hrot.debug_locked /\ hrot'.device_key = hrot.device_key
      /\ hrot'.slots = [hrot.slots EXCEPT ![s] = slot]
  BY <1>1, <1>3 DEF HrotRecord
<1>7. /\ past'.verified = past.verified /\ past'.lockedAt = past.lockedAt
      /\ past'.reached = past.reached /\ past'.readings = past.readings
      /\ past'.keys = [past.keys EXCEPT ![s] = key]
  BY <1>1 DEF PastRecord
<1>8. hrot.slots \in [KeySlots -> [occupied : BOOLEAN, key : {"zero"} \cup ProvisionedKeys, locked : BOOLEAN]]
      /\ past.keys \in [KeySlots -> {"none"} \cup ProvisionedKeys]
  BY <1>1 DEF HrotRecord, PastRecord
<1>9. \A r \in KeySlots : (hrot_get_key(r))' = past'.keys[r]
  <2>1. \A r \in KeySlots : r # s => hrot'.slots[r] = hrot.slots[r] /\ past'.keys[r] = past.keys[r]
    BY <1>6, <1>7, <1>8
  <2>2. hrot'.slots[s] = slot /\ past'.keys[s] = key
    BY <1>6, <1>7, <1>8
  <2> QED
    BY <1>2, <2>1, <2>2 DEF HrotInv, hrot_get_key
<1> QED
  BY <1>4, <1>5, <1>6, <1>7, <1>9 DEF HrotInv

\* A counter that is not locked counts up; nothing verified is undone.
LEMMA IncrementInv ==
  ASSUME HrotInv, NEW c \in Counters, counter_increment(c)
  PROVE  HrotInv'
<1> DEFINE counter == [hrot.counters[c] EXCEPT !.value = @ + 1]
<1>1. /\ hrot \in HrotRecord /\ past \in PastRecord /\ past' = past /\ ~hrot.counters[c].locked
      /\ hrot' = [hrot EXCEPT !.counters[c].value = Incremented(@)]
  BY DEF HrotInv, counter_increment
<1>2. counter \in [value : Nat, locked : BOOLEAN] /\ counter.value = hrot.counters[c].value + 1
      /\ counter.locked = hrot.counters[c].locked
  BY <1>1 DEF HrotRecord
<1>3. hrot' = [hrot EXCEPT !.counters = [hrot.counters EXCEPT ![c] = counter]]
  BY <1>1 DEF HrotRecord, Incremented
<1> HIDE DEF counter
<1>4. hrot' \in HrotRecord
  <2>1. [hrot.counters EXCEPT ![c] = counter] \in [Counters -> [value : Nat, locked : BOOLEAN]]
    BY <1>1, <1>2 DEF HrotRecord
  <2> QED
    BY <1>1, <1>3, <2>1 DEF HrotRecord
<1>5. /\ hrot'.slots = hrot.slots /\ hrot'.lifecycle = hrot.lifecycle
      /\ hrot'.debug_locked = hrot.debug_locked /\ hrot'.device_key = hrot.device_key
      /\ hrot'.counters = [hrot.counters EXCEPT ![c] = counter]
  BY <1>1, <1>3 DEF HrotRecord
<1>6. hrot.counters \in [Counters -> [value : Nat, locked : BOOLEAN]] /\ past.verified \in [Counters -> Nat]
  BY <1>1 DEF HrotRecord, PastRecord
<1>7. \A d \in Counters :
        /\ hrot'.counters[d].locked <=> past'.lockedAt[d] # -1
        /\ past'.lockedAt[d] # -1 => hrot'.counters[d].value = past'.lockedAt[d]
        /\ hrot'.counters[d].value >= past'.verified[d]
  <2>1. \A d \in Counters : d # c => hrot'.counters[d] = hrot.counters[d]
    BY <1>5, <1>6
  <2>2. hrot'.counters[c] = counter
    BY <1>5, <1>6
  <2>3. counter.value >= past.verified[c]
    BY <1>2, <1>6 DEF HrotInv
  <2> QED
    BY <1>1, <1>2, <2>1, <2>2, <2>3 DEF HrotInv
<1> QED
  BY <1>1, <1>4, <1>5, <1>7 DEF HrotInv, hrot_get_key

\* Locking remembers the value; a second one changes nothing.
LEMMA LockInv ==
  ASSUME HrotInv, NEW c \in Counters, counter_lock(c)
  PROVE  HrotInv'
<1> DEFINE counter == [hrot.counters[c] EXCEPT !.locked = TRUE]
           at      == IF past.lockedAt[c] = -1 THEN hrot.counters[c].value ELSE past.lockedAt[c]
<1>1. /\ hrot \in HrotRecord /\ past \in PastRecord
      /\ hrot' = [hrot EXCEPT !.counters[c].locked = TRUE]
      /\ past' = [past EXCEPT !.lockedAt[c] = IF @ = -1 THEN hrot.counters[c].value ELSE @]
  BY DEF HrotInv, counter_lock
<1>2. counter \in [value : Nat, locked : BOOLEAN] /\ counter.value = hrot.counters[c].value
      /\ counter.locked
  BY <1>1 DEF HrotRecord
<1>3. hrot' = [hrot EXCEPT !.counters = [hrot.counters EXCEPT ![c] = counter]]
  BY <1>1 DEF HrotRecord
<1>4. past' = [past EXCEPT !.lockedAt = [past.lockedAt EXCEPT ![c] = at]]
  BY <1>1 DEF PastRecord
<1>5. at \in Nat /\ at = hrot.counters[c].value
  BY <1>1 DEF HrotInv, HrotRecord, PastRecord
<1> HIDE DEF counter, at
<1>6. hrot' \in HrotRecord /\ past' \in PastRecord
  <2>1. [hrot.counters EXCEPT ![c] = counter] \in [Counters -> [value : Nat, locked : BOOLEAN]]
    BY <1>1, <1>2 DEF HrotRecord
  <2>2. [past.lockedAt EXCEPT ![c] = at] \in [Counters -> Nat \cup {-1}]
    BY <1>1, <1>5 DEF PastRecord
  <2>3. hrot' \in HrotRecord
    BY <1>1, <1>3, <2>1 DEF HrotRecord
  <2>4. past' \in PastRecord
    BY <1>1, <1>4, <2>2 DEF PastRecord
  <2> QED
    BY <2>3, <2>4
<1>7. /\ hrot'.slots = hrot.slots /\ hrot'.lifecycle = hrot.lifecycle
      /\ hrot'.debug_locked = hrot.debug_locked /\ hrot'.device_key = hrot.device_key
      /\ hrot'.counters = [hrot.counters EXCEPT ![c] = counter]
  BY <1>1, <1>3 DEF HrotRecord
<1>8. /\ past'.verified = past.verified /\ past'.keys = past.keys
      /\ past'.reached = past.reached /\ past'.readings = past.readings
      /\ past'.lockedAt = [past.lockedAt EXCEPT ![c] = at]
  BY <1>1, <1>4 DEF PastRecord
<1>9. \A d \in Counters :
        /\ hrot'.counters[d].locked <=> past'.lockedAt[d] # -1
        /\ past'.lockedAt[d] # -1 => hrot'.counters[d].value = past'.lockedAt[d]
        /\ hrot'.counters[d].value >= past'.verified[d]
  <2>1. \A d \in Counters : d # c => hrot'.counters[d] = hrot.counters[d] /\ past'.lockedAt[d] = past.lockedAt[d]
    BY <1>1, <1>7, <1>8 DEF HrotRecord, PastRecord
  <2>2. hrot'.counters[c] = counter /\ past'.lockedAt[c] = at
    BY <1>1, <1>7, <1>8 DEF HrotRecord, PastRecord
  <2>3. counter.value = at /\ at # -1 /\ counter.value >= past.verified[c]
    BY <1>2, <1>5 DEF HrotInv
  <2> QED
    BY <1>2, <1>8, <2>1, <2>2, <2>3 DEF HrotInv
<1> QED
  BY <1>6, <1>7, <1>8, <1>9 DEF HrotInv, hrot_get_key

\* A check that succeeds raises the verified minimum up to the value at most.
LEMMA VerifyInv ==
  ASSUME HrotInv, NEW c \in Counters, NEW min \in 1 .. COUNTER_MAX + 2, counter_verify(c, min)
  PROVE  HrotInv'
<1> DEFINE now == IF min > past.verified[c] THEN min ELSE past.verified[c]
<1>1. /\ hrot \in HrotRecord /\ past \in PastRecord /\ hrot' = hrot /\ hrot.counters[c].value >= min
      /\ past' = [past EXCEPT !.verified[c] = IF min > @ THEN min ELSE @]
  BY DEF HrotInv, counter_verify
<1>2. past' = [past EXCEPT !.verified = [past.verified EXCEPT ![c] = now]]
  BY <1>1 DEF PastRecord
<1>3. now \in Nat /\ now <= hrot.counters[c].value
  BY <1>1, TrustAssumption DEF HrotInv, HrotRecord, PastRecord
<1> HIDE DEF now
<1>4. past.verified \in [Counters -> Nat]
  BY <1>1 DEF PastRecord
<1>5. [past.verified EXCEPT ![c] = now] \in [Counters -> Nat]
  BY <1>3, <1>4
<1>6. past' \in PastRecord
  BY <1>1, <1>2, <1>5 DEF PastRecord
<1>7. /\ past'.lockedAt = past.lockedAt /\ past'.keys = past.keys
      /\ past'.reached = past.reached /\ past'.readings = past.readings
      /\ past'.verified = [past.verified EXCEPT ![c] = now]
  BY <1>1, <1>2 DEF PastRecord
<1>8. \A d \in Counters : hrot'.counters[d].value >= past'.verified[d]
  BY <1>1, <1>3, <1>4, <1>7 DEF HrotInv, HrotRecord
<1> QED
  BY <1>1, <1>6, <1>7, <1>8 DEF HrotInv, hrot_get_key

\* The life cycle goes forward, and the highest state is the one it is in.
LEMMA AdvanceInv ==
  ASSUME HrotInv, NEW state \in 0 .. 3, hrot_advance_lifecycle(state)
  PROVE  HrotInv'
<1>1. /\ hrot \in HrotRecord /\ past \in PastRecord /\ state >= hrot.lifecycle
      /\ hrot' = [hrot EXCEPT !.lifecycle = state]
      /\ past' = [past EXCEPT !.reached = IF state > @ THEN state ELSE @]
      /\ hrot.lifecycle = past.reached
  BY DEF HrotInv, hrot_advance_lifecycle
<1>2. past' = [past EXCEPT !.reached = state]
  BY <1>1 DEF PastRecord
<1>3. /\ hrot' \in HrotRecord /\ past' \in PastRecord
      /\ hrot'.counters = hrot.counters /\ hrot'.slots = hrot.slots /\ hrot'.lifecycle = state
      /\ hrot'.debug_locked = hrot.debug_locked /\ hrot'.device_key = hrot.device_key
      /\ past'.lockedAt = past.lockedAt /\ past'.keys = past.keys /\ past'.verified = past.verified
      /\ past'.reached = state /\ past'.readings = past.readings
  BY <1>1, <1>2 DEF HrotRecord, PastRecord
<1>4. hrot'.debug_locked => past'.reached >= 2
  BY <1>1, <1>3 DEF HrotInv, PastRecord
<1> QED
  BY <1>3, <1>4 DEF HrotInv, hrot_get_key

\* The debug port is locked in a secure state only.
LEMMA LockDebugInv ==
  ASSUME HrotInv, hrot_lock_debug
  PROVE  HrotInv'
<1>1. /\ hrot \in HrotRecord /\ past \in PastRecord /\ hrot.lifecycle >= 2
      /\ hrot' = [hrot EXCEPT !.debug_locked = TRUE] /\ past' = past
  BY DEF HrotInv, hrot_lock_debug
<1>2. /\ hrot' \in HrotRecord /\ hrot'.counters = hrot.counters /\ hrot'.slots = hrot.slots
      /\ hrot'.lifecycle = hrot.lifecycle /\ hrot'.device_key = hrot.device_key
  BY <1>1 DEF HrotRecord
<1> QED
  BY <1>1, <1>2 DEF HrotInv, hrot_get_key

\* Every step of the component keeps it.
LEMMA HrotNextInv == HrotInv /\ [TrustNext]_trust_vars => HrotInv'
<1> SUFFICES ASSUME HrotInv, [TrustNext]_trust_vars PROVE HrotInv'
  OBVIOUS
<1>1. UNCHANGED hrot_vars => HrotInv'
  BY DEF HrotInv, hrot_vars, hrot_get_key
<1>2. PufNext \/ MeeNext \/ ReplayNext => UNCHANGED hrot_vars
  BY DEF PufNext, sram_puf_enroll, sram_puf_reconstruct, MeeNext, mem_engine_init, mem_region_add,
         mem_encrypt_line, mem_bulk_encrypt, mem_decrypt_line, ReplayNext, mem_replay_protect,
         mem_counter_increment
<1>3. ASSUME HrotNext PROVE HrotInv'
  <2>1. ASSUME NEW counts \in [PufBits -> ReadingCounts], hrot_init(counts) PROVE HrotInv'
    <3>1. counts \in [PufBits -> Nat]
      BY TrustAssumption
    <3> QED
      BY <2>1, <3>1, BootedInv DEF hrot_init
  <2>2. ASSUME NEW s \in KeySlots, NEW key \in ProvisionedKeys, hrot_provision_key(s, key)
        PROVE  HrotInv'
    BY <2>2, ProvisionInv
  <2>3. ASSUME NEW c \in Counters, counter_increment(c) \/ counter_lock(c) PROVE HrotInv'
    BY <2>3, IncrementInv, LockInv
  <2>4. ASSUME NEW c \in Counters, NEW min \in 1 .. COUNTER_MAX + 2, counter_verify(c, min)
        PROVE  HrotInv'
    BY <2>4, VerifyInv
  <2>5. ASSUME NEW state \in 0 .. 3, hrot_advance_lifecycle(state) PROVE HrotInv'
    BY <2>5, AdvanceInv
  <2>6. ASSUME hrot_lock_debug PROVE HrotInv'
    BY <2>6, LockDebugInv
  <2> QED
    BY <1>3, <2>1, <2>2, <2>3, <2>4, <2>5, <2>6 DEF HrotNext
<1> QED
  BY <1>1, <1>2, <1>3 DEF TrustNext, trust_vars
--------------------------------------------------------------------------------
(* The memory encryption engine. *)

\* A region's key is that of its number and base; an encrypted line has the key and the
\* counter block of what it was encrypted for, and after a bulk transfer no tag.
MeeInv ==
  /\ DOMAIN mee = {"regions", "line", "out", "failures"}
  /\ mee.regions \in Seq([base : Nat, key : [label : Nat, info : Nat]])
  /\ \A i \in DOMAIN mee.regions : mee.regions[i].key = RegionKey(i - 1, mee.regions[i].base)
  /\ mee.line.is_encrypted =>
        /\ mee.line.tag \in BOOLEAN
        /\ sealed.region \in Nat /\ sealed.base \in Nat
        /\ mee.line.key = RegionKey(sealed.region, sealed.base)
        /\ mee.line.iv = LineIv(sealed.region, sealed.address)
        /\ mee.line.plain = sealed.data
  /\ LinesOpenWhereSealed

\* What is there to open a line with: the key and the counter block of its region.
LEMMA RegionIs ==
  ASSUME MeeInv, NEW id \in 0 .. MAX_REGIONS - 1, id < Len(mee.regions)
  PROVE  id \in Nat /\ Region(id).base \in Nat /\ Region(id).key = RegionKey(id, Region(id).base)
<1>1. mee.regions \in Seq([base : Nat, key : [label : Nat, info : Nat]])
  BY DEF MeeInv
<1>2. id \in Nat /\ id + 1 \in DOMAIN mee.regions /\ (id + 1) - 1 = id
  BY <1>1, TrustAssumption
<1>3. Region(id).base \in Nat
  <2> DEFINE R == [base : Nat, key : [label : Nat, info : Nat]]
  <2>1. mee.regions \in Seq(R)
    BY <1>1
  <2>2. \A r \in R : r.base \in Nat
    OBVIOUS
  <2> HIDE DEF R
  <2>3. mee.regions[id + 1] \in R
    BY <1>2, <2>1
  <2> QED
    BY <2>2, <2>3 DEF Region
<1> QED
  BY <1>2, <1>3 DEF Region, MeeInv

\* An engine set up again forgets the regions and leaves the line in memory alone.
LEMMA EngineInitInv == MeeInv /\ mem_engine_init => MeeInv'
<1> SUFFICES ASSUME MeeInv, mem_engine_init PROVE MeeInv'
  OBVIOUS
<1>1. mee' = [mee EXCEPT !.regions = <<>>, !.failures = 0, !.out = NoOut] /\ sealed' = sealed
  BY DEF mem_engine_init
<1>2. /\ DOMAIN mee' = {"regions", "line", "out", "failures"}
      /\ mee'.regions = <<>> /\ mee'.line = mee.line /\ mee'.out = NoOut
  BY <1>1 DEF MeeInv
<1>3. ~mee'.out.asked
  BY <1>2 DEF NoOut
<1>4. LinesOpenWhereSealed'
  BY <1>3 DEF LinesOpenWhereSealed
<1>5. mee'.regions \in Seq([base : Nat, key : [label : Nat, info : Nat]]) /\ DOMAIN mee'.regions = {}
  BY <1>2
<1> QED
  BY <1>1, <1>2, <1>4, <1>5 DEF MeeInv

\* A new region gets the key of its number and base.
LEMMA AddRegionInv ==
  ASSUME MeeInv, NEW base \in Nat, NEW size \in Nat, mem_region_add(base, size)
  PROVE  MeeInv'
<1> DEFINE R   == [base : Nat, key : [label : Nat, info : Nat]]
           n   == Len(mee.regions)
           new == [base |-> base, key |-> RegionKey(n, base)]
<1>1. mee.regions \in Seq(R) /\ n \in Nat
  BY DEF MeeInv
<1>2. mee' = [mee EXCEPT !.out = NoOut, !.regions = Append(mee.regions, new)] /\ sealed' = sealed
  BY DEF mem_region_add
<1>3. RegionKey(n, base) \in [label : Nat, info : Nat]
  BY <1>1 DEF RegionKey
<1>4. new \in R /\ new.base = base /\ new.key = RegionKey(n, base)
  BY <1>3
<1> HIDE DEF new, R
<1>5. /\ DOMAIN mee' = {"regions", "line", "out", "failures"}
      /\ mee'.regions = Append(mee.regions, new) /\ mee'.line = mee.line /\ mee'.out = NoOut
  BY <1>2 DEF MeeInv
<1>6. mee'.regions \in Seq(R)
  BY <1>1, <1>4, <1>5
<1>7. \A i \in DOMAIN mee'.regions : mee'.regions[i].key = RegionKey(i - 1, mee'.regions[i].base)
  <2> SUFFICES ASSUME NEW i \in DOMAIN mee'.regions
               PROVE  mee'.regions[i].key = RegionKey(i - 1, mee'.regions[i].base)
    OBVIOUS
  <2>1. i \in 1 .. n + 1
    BY <1>1, <1>5
  <2>2. CASE i = n + 1
    <3>1. mee'.regions[i] = new /\ i - 1 = n
      BY <1>1, <1>5, <2>2
    <3> QED
      BY <1>4, <3>1
  <2>3. CASE i # n + 1
    <3>1. i \in DOMAIN mee.regions /\ mee'.regions[i] = mee.regions[i]
      BY <1>1, <1>5, <2>1, <2>3
    <3> QED
      BY <3>1 DEF MeeInv
  <2> QED
    BY <2>2, <2>3
<1>8. LinesOpenWhereSealed'
  BY <1>5 DEF LinesOpenWhereSealed, NoOut
<1> QED
  BY <1>2, <1>5, <1>6, <1>7, <1>8 DEF MeeInv, R

\* Encrypting a line seals it for the region and the address, with or without its tag.
LEMMA EncryptInv ==
  ASSUME MeeInv, NEW id \in 0 .. MAX_REGIONS - 1, NEW address \in LineAddresses, NEW data \in LineData,
         mem_encrypt_line(id, address, data) \/ mem_bulk_encrypt(id, address, data)
  PROVE  MeeInv'
<1> DEFINE Line(tag) == [is_encrypted |-> TRUE, key |-> Region(id).key, iv |-> LineIv(id, address),
                         tag |-> tag, plain |-> data]
           seal == [region |-> id, base |-> Region(id).base, address |-> address, data |-> data]
<1>1. id \in Nat /\ Region(id).base \in Nat /\ Region(id).key = RegionKey(id, Region(id).base)
  BY RegionIs DEF mem_encrypt_line, mem_bulk_encrypt
<1>2. PICK tag \in BOOLEAN : /\ mee' = [mee EXCEPT !.out = NoOut, !.line = Line(tag)]
                             /\ sealed' = seal
  BY DEF mem_encrypt_line, mem_bulk_encrypt
<1>3. /\ DOMAIN mee' = {"regions", "line", "out", "failures"}
      /\ mee'.regions = mee.regions /\ mee'.line = Line(tag) /\ mee'.out = NoOut
  BY <1>2 DEF MeeInv
<1>4. LinesOpenWhereSealed'
  BY <1>3 DEF LinesOpenWhereSealed, NoOut
<1>5. mee'.line.tag = tag /\ mee'.line.key = Region(id).key /\ mee'.line.iv = LineIv(id, address)
      /\ mee'.line.plain = data
  BY <1>3
<1>6. sealed'.region = id /\ sealed'.base = Region(id).base /\ sealed'.address = address
      /\ sealed'.data = data
  BY <1>2
<1> HIDE DEF Line, seal
<1> QED
  BY <1>1, <1>3, <1>4, <1>5, <1>6 DEF MeeInv

\* Decrypting opens a line where it was encrypted for only, and with its tag there.
LEMMA DecryptInv ==
  ASSUME MeeInv, NEW id \in 0 .. MAX_REGIONS - 1, NEW address \in LineAddresses,
         mem_decrypt_line(id, address)
  PROVE  MeeInv'
<1> DEFINE line == mee.line
           ok   == ~line.is_encrypted \/ Opens(line, Region(id).key, id, address)
           out  == [asked |-> TRUE, ok |-> ok, data |-> IF ok THEN line.plain ELSE Zeros,
                    region |-> id, base |-> Region(id).base, address |-> address]
<1>1. id \in Nat /\ Region(id).base \in Nat /\ Region(id).key = RegionKey(id, Region(id).base)
  BY RegionIs DEF mem_decrypt_line
<1>2. PICK failures : mee' = [mee EXCEPT !.out = out, !.failures = failures] /\ sealed' = sealed
  BY DEF mem_decrypt_line
<1>3. out.ok = ok /\ out.data = (IF ok THEN line.plain ELSE Zeros) /\ out.region = id
      /\ out.base = Region(id).base /\ out.address = address
  OBVIOUS
<1> HIDE DEF out
<1>4. /\ DOMAIN mee' = {"regions", "line", "out", "failures"}
      /\ mee'.regions = mee.regions /\ mee'.line = mee.line /\ mee'.out = out
  BY <1>2 DEF MeeInv
<1>5. LinesOpenWhereSealed'
  <2> DEFINE here == sealed.region = id /\ sealed.base = Region(id).base /\ sealed.address = address
  <2>1. line.is_encrypted => (ok <=> line.tag /\ here)
    <3> SUFFICES ASSUME line.is_encrypted
                 PROVE  Opens(line, Region(id).key, id, address) <=> line.tag /\ here
      OBVIOUS
    <3>1. /\ sealed.region \in Nat /\ sealed.base \in Nat
          /\ line.key = RegionKey(sealed.region, sealed.base)
          /\ line.iv = LineIv(sealed.region, sealed.address)
      BY DEF MeeInv
    <3>2. RegionKey(sealed.region, sealed.base) = RegionKey(id, Region(id).base)
            <=> sealed.region = id /\ sealed.base = Region(id).base
      BY DEF RegionKey
    <3>3. sealed.region = id =>
            (LineIv(sealed.region, sealed.address) = LineIv(id, address) <=> sealed.address = address)
      BY DEF LineIv
    <3> HIDE DEF line
    <3> QED
      BY <1>1, <3>1, <3>2, <3>3, Zenon DEF Opens
  <2>2. line.is_encrypted => line.plain = sealed.data
    BY DEF MeeInv
  <2>3. mee'.out.ok = ok /\ mee'.line = line /\ sealed' = sealed
        /\ (SealedHere' <=> here)
    BY <1>2, <1>3, <1>4 DEF SealedHere
  <2>4. line.is_encrypted => mee'.out.data = IF ok THEN sealed.data ELSE Zeros
    BY <1>3, <1>4, <2>2
  <2> HIDE DEF ok, here, line
  <2> QED
    BY <2>1, <2>3, <2>4, Zenon DEF LinesOpenWhereSealed
<1> HIDE DEF line
<1> QED
  BY <1>2, <1>4, <1>5, Zenon DEF MeeInv

\* Every step of the component keeps it.
LEMMA MeeNextInv == MeeInv /\ [TrustNext]_trust_vars => MeeInv'
<1> SUFFICES ASSUME MeeInv, [TrustNext]_trust_vars PROVE MeeInv'
  OBVIOUS
<1>1. UNCHANGED mee_vars => MeeInv'
  BY DEF MeeInv, mee_vars, LinesOpenWhereSealed, SealedHere
<1>2. PufNext \/ HrotNext \/ ReplayNext => UNCHANGED mee_vars
  BY DEF PufNext, sram_puf_enroll, sram_puf_reconstruct, HrotNext, hrot_init, hrot_provision_key,
         counter_increment, counter_lock, counter_verify, hrot_advance_lifecycle, hrot_lock_debug,
         ReplayNext, mem_replay_protect, mem_counter_increment
<1>3. ASSUME NEW shape \in RegionShapes, mem_region_add(shape[1], shape[2]) PROVE MeeInv'
  <2>1. shape[1] \in Nat /\ shape[2] \in Nat
    BY TrustAssumption
  <2> QED
    BY <1>3, <2>1, AddRegionInv
<1> QED
  BY <1>1, <1>2, <1>3, EngineInitInv, EncryptInv, DecryptInv DEF TrustNext, MeeNext, trust_vars
--------------------------------------------------------------------------------
(* The replay counters. *)

\* No counter is below a claim accepted for a line that uses it.
ReplayInv ==
  /\ replay \in [0 .. REPLAY_SLOTS - 1 -> Nat]
  /\ claimed \in [LineAddresses -> Nat]
  /\ ClaimsNeverGoBack

\* A line address has a counter.
LEMMA SlotOfLine == \A address \in LineAddresses : ReplaySlot(address) \in 0 .. REPLAY_SLOTS - 1
  BY TrustAssumption DEF ReplaySlot

\* A counter only grows, up to the claim or by one.
LEMMA ReplayStepInv ==
  ASSUME ReplayInv, NEW address \in LineAddresses, NEW n \in Nat,
         n >= replay[ReplaySlot(address)], replay' = [replay EXCEPT ![ReplaySlot(address)] = n],
         claimed' = claimed \/ claimed' = [claimed EXCEPT ![address] = n]
  PROVE  ReplayInv'
<1>1. \A a \in LineAddresses : replay'[ReplaySlot(a)] >= replay[ReplaySlot(a)]
                               /\ (a = address => replay'[ReplaySlot(a)] = n)
  BY SlotOfLine DEF ReplayInv
<1>2. replay' \in [0 .. REPLAY_SLOTS - 1 -> Nat] /\ claimed' \in [LineAddresses -> Nat]
  BY DEF ReplayInv
<1>3. \A a \in LineAddresses : claimed'[a] = claimed[a] \/ (a = address /\ claimed'[a] = n)
  BY DEF ReplayInv
<1>4. \A a \in LineAddresses : replay[ReplaySlot(a)] \in Nat /\ replay'[ReplaySlot(a)] \in Nat /\ claimed[a] \in Nat
  BY <1>2, SlotOfLine DEF ReplayInv
<1>5. \A a \in LineAddresses : replay'[ReplaySlot(a)] >= claimed'[a]
  BY <1>1, <1>3, <1>4 DEF ReplayInv, ClaimsNeverGoBack
<1>6. ClaimsNeverGoBack'
  BY <1>5 DEF ClaimsNeverGoBack, ReplaySlot
<1> QED
  BY <1>2, <1>6 DEF ReplayInv

\* Every step of the component keeps it.
LEMMA ReplayNextInv == ReplayInv /\ [TrustNext]_trust_vars => ReplayInv'
<1> SUFFICES ASSUME ReplayInv, [TrustNext]_trust_vars PROVE ReplayInv'
  OBVIOUS
<1>1. UNCHANGED replay_vars => ReplayInv'
  BY DEF ReplayInv, replay_vars, ClaimsNeverGoBack, ReplaySlot
<1>2. PufNext \/ HrotNext \/ MeeNext => UNCHANGED replay_vars
  BY DEF PufNext, sram_puf_enroll, sram_puf_reconstruct, HrotNext, hrot_init, hrot_provision_key,
         counter_increment, counter_lock, counter_verify, hrot_advance_lifecycle, hrot_lock_debug,
         MeeNext, mem_engine_init, mem_region_add, mem_encrypt_line, mem_bulk_encrypt, mem_decrypt_line
<1>3. ASSUME NEW address \in LineAddresses, NEW claim \in 0 .. MaxClaim, mem_replay_protect(address, claim)
      PROVE  ReplayInv'
  <2>1. claim \in Nat
    BY TrustAssumption
  <2> QED
    BY <1>3, <2>1, ReplayStepInv DEF mem_replay_protect
<1>4. ASSUME NEW address \in LineAddresses, mem_counter_increment(address)
      PROVE  ReplayInv'
  <2>1. replay[ReplaySlot(address)] \in Nat
    BY SlotOfLine DEF ReplayInv
  <2>2. /\ replay[ReplaySlot(address)] + 1 \in Nat
        /\ replay[ReplaySlot(address)] + 1 >= replay[ReplaySlot(address)]
    BY <2>1
  <2> QED
    BY <1>4, <2>2, ReplayStepInv DEF mem_counter_increment
<1> QED
  BY <1>1, <1>2, <1>3, <1>4 DEF TrustNext, ReplayNext, trust_vars
--------------------------------------------------------------------------------
TrustInv == PufInv /\ HrotInv /\ MeeInv /\ ReplayInv

\* The component starts with it: nothing enrolled, a root booted on a silent SRAM, no
\* region and counters at zero.
LEMMA TrustInitInv == TrustInit => TrustInv
<1> SUFFICES ASSUME TrustInit PROVE TrustInv
  OBVIOUS
<1>1. PufInv
  BY DEF TrustInit, PufInv, BlankPuf, NothingSeen
<1>2. HrotInv
  <2> DEFINE counts == [b \in PufBits |-> 0]
  <2>1. counts \in [PufBits -> Nat]
    OBVIOUS
  <2> HIDE DEF counts
  <2> DEFINE key == Enrolled(BlankPuf, counts).golden
  <2>2. key = sha256(StableHigh(counts)) /\ StableHigh(counts) \in SUBSET PufBits
    BY <2>1, FreshEnrolment, StableOneWay
  <2>3. key \in {sha256(bits) : bits \in SUBSET PufBits}
    BY <2>2
  <2>4. hrot = [slots |-> [s \in KeySlots |-> EmptySlot],
                counters |-> [c \in Counters |-> [value |-> 0, locked |-> FALSE]],
                lifecycle |-> 1, debug_locked |-> FALSE, device_key |-> key]
    BY DEF TrustInit, Booted, counts
  <2> HIDE DEF key
  <2>5. past = [keys |-> [s \in KeySlots |-> "none"], verified |-> [c \in Counters |-> 0],
                lockedAt |-> [c \in Counters |-> -1], reached |-> 1, readings |-> {counts}]
    BY DEF TrustInit, NothingPast, counts
  <2>6. hrot \in HrotRecord
    BY <2>3, <2>4 DEF HrotRecord, EmptySlot
  <2>7. past \in PastRecord
    BY <2>1, PastStarts DEF TrustInit, counts
  <2>8. \A c \in Counters :
          /\ hrot.counters[c].locked <=> past.lockedAt[c] # -1
          /\ past.lockedAt[c] # -1 => hrot.counters[c].value = past.lockedAt[c]
          /\ hrot.counters[c].value >= past.verified[c]
    BY <2>4, <2>5
  <2>9. \A s \in KeySlots : hrot_get_key(s) = past.keys[s]
    BY <2>4, <2>5 DEF hrot_get_key, EmptySlot
  <2>10. \A n \in past.readings : hrot.device_key = sha256(StableHigh(n))
    BY <2>2, <2>4, <2>5
  <2> QED
    BY <2>4, <2>5, <2>6, <2>7, <2>8, <2>9, <2>10 DEF HrotInv
<1>3. MeeInv
  <2>1. /\ DOMAIN mee = {"regions", "line", "out", "failures"}
        /\ mee.regions = <<>> /\ mee.line = NoLine /\ mee.out = NoOut
    BY DEF TrustInit
  <2>2. LinesOpenWhereSealed
    BY <2>1 DEF LinesOpenWhereSealed, NoOut
  <2> QED
    BY <2>1, <2>2 DEF MeeInv, NoLine
<1>4. ReplayInv
  <2>1. /\ replay = [i \in 0 .. REPLAY_SLOTS - 1 |-> 0]
        /\ claimed = [address \in LineAddresses |-> 0]
    BY DEF TrustInit
  <2>2. ClaimsNeverGoBack
    BY <2>1, SlotOfLine DEF ClaimsNeverGoBack
  <2> QED
    BY <2>1, <2>2 DEF ReplayInv
<1> QED
  BY <1>1, <1>2, <1>3, <1>4 DEF TrustInv

\* What the parts of the invariant say is what the component promises.
LEMMA TrustInvSuffices == TrustInv => TrustSound
<1> SUFFICES ASSUME TrustInv PROVE TrustSound
  OBVIOUS
<1>1. KeysOfStableBits
  <2>1. puf.enrolled => /\ puf.raw \in SUBSET seen.ever /\ puf.golden = sha256(puf.raw)
                        /\ seen.high \subseteq puf.raw /\ puf.raw \cap seen.low = {}
    BY DEF TrustInv, PufInv
  <2> QED
    BY <2>1 DEF TrustInv, HrotInv, KeysOfStableBits
<1>2. RootKeepsPromises
  <2>1. past \in PastRecord
    BY DEF TrustInv, HrotInv
  <2>2. \A c \in Counters : past.lockedAt[c] >= 0 => past.lockedAt[c] # -1
    BY <2>1 DEF PastRecord
  <2> QED
    BY <2>2 DEF TrustInv, HrotInv, RootKeepsPromises
<1> QED
  BY <1>1, <1>2 DEF TrustInv, MeeInv, ReplayInv, TrustSound

\* Between any calls, in any order, a key has the bits stable high in the last enrolment,
\* none stable low in it and none that never was stable high; what was verified or locked
\* stays, a line opens nowhere but where it was encrypted for, and there unless it went
\* through a bulk transfer, and no replay counter goes back (src/hrot_puf.c,
\* src/memory_crypto.c).
THEOREM TrustCorrect == TrustSpec => []TrustSound
<1>1. TrustInv /\ [TrustNext]_trust_vars => TrustInv'
  BY PufNextInv, HrotNextInv, MeeNextInv, ReplayNextInv DEF TrustInv
<1> QED
  BY <1>1, TrustInitInv, TrustInvSuffices, PTL DEF TrustSpec
--------------------------------------------------------------------------------
(* The rings of the NVMe controller. *)

\* Every non-empty set of naturals has a least element.
LEMMA LeastElement ==
  ASSUME NEW S \in SUBSET Nat, S # {}
  PROVE  \E m \in S : \A n \in S : m <= n
<1>1. PICK x \in S : \A y \in S : <<y, x>> \notin OpToRel(<, Nat)
  BY NatLessThanWellFounded, WFMin, Zenon
<1>2. \A y \in S : ~(y < x)
  BY <1>1 DEF OpToRel
<1> QED
  BY <1>2

\* Min of a set of naturals is in the set, and no element is less.
LEMMA MinIs ==
  ASSUME NEW S \in SUBSET Nat, S # {}
  PROVE  Min(S) \in S /\ \A n \in S : Min(S) <= n
BY LeastElement DEF Min

Entry == 0 .. NVME_QUEUE_DEPTH - 1
RingRecord == [entries : [Entry -> Nat], head : Entry, tail : Entry]

\* The entries between head and tail, oldest first.
Waiting(r) == [i \in 1 .. Held(r) |-> r.entries[(r.head + i - 1) % NVME_QUEUE_DEPTH]]

\* Counting on from a place of the ring, without the modulus.
LEMMA PlaceIs ==
  ASSUME NEW h \in Entry, NEW k \in Nat, k < NVME_QUEUE_DEPTH
  PROVE  (h + k) % NVME_QUEUE_DEPTH
            = IF h + k < NVME_QUEUE_DEPTH THEN h + k ELSE (h + k) - NVME_QUEUE_DEPTH
<1>1. NVME_QUEUE_DEPTH \in Nat \ {0} /\ h \in 0 .. NVME_QUEUE_DEPTH - 1
  BY StorageQueuesAssumption DEF Entry
<1> QED
  BY <1>1

\* The place after one.
LEMMA NextPlaceIs ==
  ASSUME NEW h \in Entry, NEW next, next = (h + 1) % NVME_QUEUE_DEPTH
  PROVE  /\ next \in Entry
         /\ next = IF h + 1 < NVME_QUEUE_DEPTH THEN h + 1 ELSE (h + 1) - NVME_QUEUE_DEPTH
<1>1. NVME_QUEUE_DEPTH \in Nat \ {0} /\ h \in 0 .. NVME_QUEUE_DEPTH - 1
  BY StorageQueuesAssumption DEF Entry
<1> QED
  BY <1>1 DEF Entry

\* How many entries a ring holds: less than its size, none only if head meets tail, and
\* so many places on from head is tail.
LEMMA HeldIs ==
  ASSUME NEW r \in RingRecord
  PROVE  /\ r.head \in Entry /\ r.tail \in Entry /\ r.entries \in [Entry -> Nat]
         /\ Held(r) \in Entry /\ (Held(r) = 0 <=> r.head = r.tail)
         /\ r.tail = (r.head + Held(r)) % NVME_QUEUE_DEPTH
<1>1. r.head \in Entry /\ r.tail \in Entry /\ r.entries \in [Entry -> Nat]
  BY DEF RingRecord
<1>2. NVME_QUEUE_DEPTH \in Nat \ {0} /\ r.head \in Int /\ r.tail \in Int
  BY <1>1, StorageQueuesAssumption DEF Entry
<1>3. Held(r) \in Entry /\ (Held(r) = 0 <=> r.head = r.tail)
  BY <1>1, <1>2 DEF Entry, Held
<1>4. r.tail = (r.head + Held(r)) % NVME_QUEUE_DEPTH
  <2> DEFINE n == Held(r)
             D == NVME_QUEUE_DEPTH
  <2>1. n \in Nat /\ n < D /\ r.head \in 0 .. D - 1 /\ r.tail \in 0 .. D - 1 /\ D \in Nat
    BY <1>1, <1>2, <1>3 DEF Entry
  <2>2. n = IF r.tail >= r.head THEN r.tail - r.head ELSE D - r.head + r.tail
    BY DEF Held
  <2> HIDE DEF n
  <2>3. (r.head + n) % D = IF r.head + n < D THEN r.head + n ELSE (r.head + n) - D
    BY <1>1, <2>1, PlaceIs
  <2>4. r.tail = (r.head + n) % D
    BY <2>1, <2>2, <2>3
  <2> QED
    BY <2>4 DEF n
<1> QED
  BY <1>1, <1>3, <1>4

\* The places of the entries waiting differ from each other and from tail.
LEMMA PlacesDiffer ==
  ASSUME NEW h \in Entry, NEW j \in Entry, NEW k \in Entry, j # k
  PROVE  (h + j) % NVME_QUEUE_DEPTH # (h + k) % NVME_QUEUE_DEPTH
<1>1. NVME_QUEUE_DEPTH \in Nat \ {0} /\ h \in Int /\ j \in Nat /\ k \in Nat /\ h >= 0
      /\ h < NVME_QUEUE_DEPTH /\ j < NVME_QUEUE_DEPTH /\ k < NVME_QUEUE_DEPTH
  BY StorageQueuesAssumption DEF Entry
<1> QED
  BY <1>1, PlaceIs

\* A place counted on from is a place.
LEMMA PlaceInRing ==
  ASSUME NEW h \in Nat, NEW k \in Nat
  PROVE  (h + k) % NVME_QUEUE_DEPTH \in Entry
  BY StorageQueuesAssumption DEF Entry

\* Putting a command into a ring that is not full appends it to what waits.
LEMMA RingPut ==
  ASSUME NEW r \in RingRecord, ~sq_is_full(r), NEW cmd \in Nat
  PROVE  /\ sq_enqueue(r, cmd) \in RingRecord
         /\ Waiting(sq_enqueue(r, cmd)) = Append(Waiting(r), cmd)
         /\ sq_enqueue(r, cmd).head = r.head
<1> DEFINE D    == NVME_QUEUE_DEPTH
           n    == Held(r)
           next == (r.tail + 1) % D
           new  == sq_enqueue(r, cmd)
<1>1. /\ D \in Nat \ {0} /\ r.head \in Entry /\ r.tail \in Entry /\ r.entries \in [Entry -> Nat]
      /\ n \in Entry /\ n < D - 1 /\ r.tail = (r.head + n) % D
  BY HeldIs, StorageQueuesAssumption DEF sq_is_full, Entry
<1>2. next \in Entry /\ next = IF r.tail + 1 < D THEN r.tail + 1 ELSE (r.tail + 1) - D
  BY <1>1, NextPlaceIs
<1>3. new = [entries |-> [r.entries EXCEPT ![r.tail] = cmd], head |-> r.head, tail |-> next]
  <2>1. r \in [entries : [Entry -> Nat], head : Entry, tail : Entry]
    BY DEF RingRecord
  <2>2. new = [r EXCEPT !.entries = [r.entries EXCEPT ![r.tail] = cmd], !.tail = next]
    BY <2>1 DEF sq_enqueue
  <2> HIDE DEF new, next
  <2> QED
    BY <2>1, <2>2
<1>4. [r.entries EXCEPT ![r.tail] = cmd] \in [Entry -> Nat]
  BY <1>1
<1> HIDE DEF new, next
<1>5. new \in RingRecord /\ new.head = r.head /\ new.tail = next
      /\ new.entries = [r.entries EXCEPT ![r.tail] = cmd]
  BY <1>1, <1>2, <1>3, <1>4 DEF RingRecord
<1>6. Held(new) = n + 1
  <2>1. r.head \in 0 .. D - 1 /\ r.tail \in 0 .. D - 1
    BY <1>1 DEF Entry
  <2>3. n = IF r.tail >= r.head THEN r.tail - r.head ELSE D - r.head + r.tail
    BY DEF Held
  <2> HIDE DEF n
  <2>4. Held(new) = IF next >= r.head THEN next - r.head ELSE D - r.head + next
    BY <1>5 DEF Held
  <2>5. n < D - 1 /\ D \in Nat \ {0}
    BY <1>1
  <2>6. next = IF r.tail + 1 < D THEN r.tail + 1 ELSE (r.tail + 1) - D
    BY <1>2
  <2> HIDE DEF D
  <2> QED
    BY <2>1, <2>3, <2>4, <2>5, <2>6
<1> HIDE DEF n, D
<1>7. Waiting(new) = [i \in 1 .. n + 1 |-> new.entries[(r.head + i - 1) % D]]
  BY <1>5, <1>6 DEF Waiting, D
<1>8. \A i \in 1 .. n : new.entries[(r.head + i - 1) % D] = r.entries[(r.head + i - 1) % D]
  <2> SUFFICES ASSUME NEW i \in 1 .. n
               PROVE  new.entries[(r.head + i - 1) % D] = r.entries[(r.head + i - 1) % D]
    OBVIOUS
  <2>1. i - 1 \in Entry /\ i - 1 # n /\ n \in Nat /\ i - 1 \in Nat /\ r.head \in Nat
        /\ r.head + i - 1 = r.head + (i - 1)
    BY <1>1 DEF Entry, D
  <2>2. (r.head + (i - 1)) % D # r.tail /\ (r.head + (i - 1)) % D \in Entry
    BY <1>1, <2>1, PlacesDiffer, PlaceInRing DEF D
  <2> QED
    BY <1>1, <1>5, <2>1, <2>2
<1>9. new.entries[(r.head + (n + 1) - 1) % D] = cmd
  <2>1. r.head + (n + 1) - 1 = r.head + n
    BY <1>1 DEF Entry, D
  <2> QED
    BY <1>1, <1>5, <2>1
<1>10. Waiting(r) = [i \in 1 .. n |-> r.entries[(r.head + i - 1) % D]] /\ n \in Nat
  BY <1>1 DEF Waiting, D, n, Entry
<1>11. Append(Waiting(r), cmd) = [i \in 1 .. n + 1 |-> IF i = n + 1 THEN cmd ELSE r.entries[(r.head + i - 1) % D]]
  BY <1>10
<1>12. \A i \in 1 .. n + 1 : new.entries[(r.head + i - 1) % D]
                                = IF i = n + 1 THEN cmd ELSE r.entries[(r.head + i - 1) % D]
  BY <1>8, <1>9, <1>10
<1>13. Waiting(new) = Append(Waiting(r), cmd)
  BY <1>7, <1>11, <1>12
<1> QED
  BY <1>5, <1>13 DEF new

\* Taking an entry off a ring that is not empty takes the oldest of what waits.
LEMMA RingTake ==
  ASSUME NEW r \in RingRecord, ~sq_is_empty(r),
         NEW next, next = (r.head + 1) % NVME_QUEUE_DEPTH
  PROVE  /\ [r EXCEPT !.head = next] \in RingRecord
         /\ Waiting([r EXCEPT !.head = next]) = Tail(Waiting(r))
         /\ [r EXCEPT !.head = next].tail = r.tail
<1> DEFINE D   == NVME_QUEUE_DEPTH
           n   == Held(r)
           new == [r EXCEPT !.head = next]
<1>1. /\ D \in Nat \ {0} /\ r.head \in Entry /\ r.tail \in Entry /\ r.entries \in [Entry -> Nat]
      /\ n \in Entry /\ n # 0
  BY HeldIs, StorageQueuesAssumption DEF sq_is_empty
<1>2. next \in Entry
  BY <1>1, NextPlaceIs
<1>3. new = [entries |-> r.entries, head |-> next, tail |-> r.tail]
  BY DEF RingRecord
<1> HIDE DEF new
<1>4. new \in RingRecord /\ new.head = next /\ new.tail = r.tail /\ new.entries = r.entries
  BY <1>1, <1>2, <1>3 DEF RingRecord
<1>5. next = IF r.head + 1 < D THEN r.head + 1 ELSE (r.head + 1) - D
  <2>1. r.head \in 0 .. D - 1
    BY <1>1 DEF Entry
  <2> QED
    BY <1>1, <2>1
<1>6. Held(new) = n - 1
  <2>1. r.head \in 0 .. D - 1 /\ r.tail \in 0 .. D - 1
    BY <1>1 DEF Entry
  <2>2. n = IF r.tail >= r.head THEN r.tail - r.head ELSE D - r.head + r.tail
    BY DEF Held
  <2> HIDE DEF n
  <2>3. Held(new) = IF r.tail >= next THEN r.tail - next ELSE D - next + r.tail
    BY <1>4 DEF Held
  <2>4. r.tail # r.head
    BY <1>1, <2>1, <2>2
  <2>5. D \in Nat /\ D >= 1
    BY <1>1
  <2> HIDE DEF D
  <2>6. CASE r.head + 1 < D
    <3>1. next = r.head + 1
      BY <1>5, <2>6
    <3>2. CASE r.tail >= r.head
      BY <2>1, <2>2, <2>3, <2>4, <2>5, <3>1, <3>2
    <3>3. CASE r.tail < r.head
      BY <2>1, <2>2, <2>3, <2>4, <2>5, <3>1, <3>3
    <3> QED
      BY <2>1, <3>2, <3>3
  <2>7. CASE ~(r.head + 1 < D)
    <3>1. next = 0 /\ r.head = D - 1
      BY <1>5, <2>1, <2>5, <2>7
    <3>2. r.tail < r.head
      BY <2>1, <2>4, <2>5, <3>1
    <3> QED
      BY <2>1, <2>2, <2>3, <2>5, <3>1, <3>2
  <2> QED
    BY <2>6, <2>7
<1> HIDE DEF n, D
<1>7. Waiting(new) = [i \in 1 .. n - 1 |-> r.entries[(next + i - 1) % D]]
  BY <1>4, <1>6 DEF Waiting, D
<1>8. Waiting(r) = [i \in 1 .. n |-> r.entries[(r.head + i - 1) % D]] /\ n \in Nat \ {0} /\ n < D
  BY <1>1 DEF Waiting, D, n, Entry
<1>9. Tail(Waiting(r)) = [i \in 1 .. n - 1 |-> r.entries[(r.head + (i + 1) - 1) % D]]
  BY <1>8
<1>10. \A i \in 1 .. n - 1 : (next + i - 1) % D = (r.head + (i + 1) - 1) % D
  <2> SUFFICES ASSUME NEW i \in 1 .. n - 1
               PROVE  (next + i - 1) % D = (r.head + (i + 1) - 1) % D
    OBVIOUS
  <2>1. /\ i - 1 \in Nat /\ i \in Nat /\ i - 1 < D /\ i < D /\ r.head \in 0 .. D - 1 /\ next \in 0 .. D - 1
        /\ next + i - 1 = next + (i - 1) /\ r.head + (i + 1) - 1 = r.head + i
    BY <1>1, <1>2, <1>8 DEF Entry, D
  <2>2. (next + (i - 1)) % D = IF next + (i - 1) < D THEN next + (i - 1) ELSE (next + (i - 1)) - D
    BY <1>1, <1>2, <2>1, PlaceIs DEF D
  <2>3. (r.head + i) % D = IF r.head + i < D THEN r.head + i ELSE (r.head + i) - D
    BY <1>1, <2>1, PlaceIs DEF D
  <2>4. (next + (i - 1)) % D = (r.head + i) % D
    BY <1>1, <1>5, <2>1, <2>2, <2>3
  <2> QED
    BY <2>1, <2>4
<1>11. Waiting(new) = Tail(Waiting(r))
  BY <1>7, <1>9, <1>10
<1> QED
  BY <1>4, <1>11 DEF new

NvRecord ==
  [sq : [Queues -> RingRecord], cq : [Queues -> RingRecord],
   sq_bell : [Queues -> Entry], cq_bell : [Queues -> Entry], made : Nat,
   sent : [Queues -> Seq(Nat)], posted : [Queues -> Seq(Nat)]]

\* The rings are rings, and show what is to be taken.
RingsInv ==
  /\ nv \in NvRecord
  /\ \A q \in Queues : /\ Waiting(nv.sq[q]) = nv.sent[q] /\ Waiting(nv.cq[q]) = nv.posted[q]
                       /\ nv.sq_bell[q] = nv.sq[q].tail /\ nv.cq_bell[q] = nv.cq[q].head

\* One queue pair changes, the two rings of it with their doorbells and histories.
LEMMA OneQueueInv ==
  ASSUME RingsInv, NEW q \in Queues, nv' \in NvRecord,
         \A p \in Queues \ {q} :
            /\ nv'.sq[p] = nv.sq[p] /\ nv'.cq[p] = nv.cq[p] /\ nv'.sent[p] = nv.sent[p]
            /\ nv'.posted[p] = nv.posted[p] /\ nv'.sq_bell[p] = nv.sq_bell[p]
            /\ nv'.cq_bell[p] = nv.cq_bell[p],
         Waiting(nv'.sq[q]) = nv'.sent[q], Waiting(nv'.cq[q]) = nv'.posted[q],
         nv'.sq_bell[q] = nv'.sq[q].tail, nv'.cq_bell[q] = nv'.cq[q].head
  PROVE  RingsInv'
<1>1. ASSUME NEW p \in Queues
      PROVE  /\ Waiting(nv'.sq[p]) = nv'.sent[p] /\ Waiting(nv'.cq[p]) = nv'.posted[p]
             /\ nv'.sq_bell[p] = nv'.sq[p].tail /\ nv'.cq_bell[p] = nv'.cq[p].head
  <2>1. CASE p = q
    BY <2>1, Zenon
  <2>2. CASE p # q
    <3>1. /\ nv'.sq[p] = nv.sq[p] /\ nv'.cq[p] = nv.cq[p] /\ nv'.sent[p] = nv.sent[p]
          /\ nv'.posted[p] = nv.posted[p] /\ nv'.sq_bell[p] = nv.sq_bell[p]
          /\ nv'.cq_bell[p] = nv.cq_bell[p]
      BY <2>2
    <3>2. /\ Waiting(nv.sq[p]) = nv.sent[p] /\ Waiting(nv.cq[p]) = nv.posted[p]
          /\ nv.sq_bell[p] = nv.sq[p].tail /\ nv.cq_bell[p] = nv.cq[p].head
      BY DEF RingsInv
    <3> QED
      BY <3>1, <3>2, Zenon
  <2> QED
    BY <2>1, <2>2, Zenon
<1> QED
  BY <1>1 DEF RingsInv, Waiting, Held, NvRecord, RingRecord, Entry, Queues

\* The fields of the controller.
LEMMA NvFields ==
  ASSUME RingsInv
  PROVE  /\ nv = [sq |-> nv.sq, cq |-> nv.cq, sq_bell |-> nv.sq_bell, cq_bell |-> nv.cq_bell,
                  made |-> nv.made, sent |-> nv.sent, posted |-> nv.posted]
         /\ nv.sq \in [Queues -> RingRecord] /\ nv.cq \in [Queues -> RingRecord] /\ nv.made \in Nat
         /\ nv.sq_bell \in [Queues -> Entry] /\ nv.cq_bell \in [Queues -> Entry]
         /\ nv.sent \in [Queues -> Seq(Nat)] /\ nv.posted \in [Queues -> Seq(Nat)]
<1>1. nv \in NvRecord
  BY DEF RingsInv
<1>2. nv = [sq |-> nv.sq, cq |-> nv.cq, sq_bell |-> nv.sq_bell, cq_bell |-> nv.cq_bell,
            made |-> nv.made, sent |-> nv.sent, posted |-> nv.posted]
  BY <1>1 DEF NvRecord
<1> QED
  BY <1>1, <1>2 DEF NvRecord

\* What waits in a queue is what its history says, and its doorbells are where it is.
LEMMA QueueIs ==
  ASSUME RingsInv, NEW q \in Queues
  PROVE  /\ nv.sq[q] \in RingRecord /\ nv.cq[q] \in RingRecord
         /\ nv.sent[q] \in Seq(Nat) /\ nv.posted[q] \in Seq(Nat)
         /\ Waiting(nv.sq[q]) = nv.sent[q] /\ Waiting(nv.cq[q]) = nv.posted[q]
         /\ nv.sq_bell[q] = nv.sq[q].tail /\ nv.cq_bell[q] = nv.cq[q].head
<1>1. /\ nv.sq[q] \in RingRecord /\ nv.cq[q] \in RingRecord
      /\ nv.sent[q] \in Seq(Nat) /\ nv.posted[q] \in Seq(Nat)
  BY NvFields
<1> QED
  BY <1>1 DEF RingsInv

\* A step of a submission queue: what changes is one ring, its doorbell and its history.
LEMMA SqStep ==
  ASSUME RingsInv, NEW q \in Queues, NEW r \in RingRecord, NEW made \in Nat, NEW left \in Seq(Nat),
         Waiting(r) = left,
         nv' = [nv EXCEPT !.sq = [nv.sq EXCEPT ![q] = r], !.sq_bell = [nv.sq_bell EXCEPT ![q] = r.tail],
                          !.made = made, !.sent = [nv.sent EXCEPT ![q] = left]]
  PROVE  RingsInv'
<1> DEFINE sq  == [nv.sq EXCEPT ![q] = r]
           sqb == [nv.sq_bell EXCEPT ![q] = r.tail]
           se  == [nv.sent EXCEPT ![q] = left]
<1>1. r.tail \in Entry
  BY HeldIs
<1>2. /\ nv = [sq |-> nv.sq, cq |-> nv.cq, sq_bell |-> nv.sq_bell, cq_bell |-> nv.cq_bell,
               made |-> nv.made, sent |-> nv.sent, posted |-> nv.posted]
      /\ nv.sq \in [Queues -> RingRecord] /\ nv.cq \in [Queues -> RingRecord]
      /\ nv.sq_bell \in [Queues -> Entry] /\ nv.cq_bell \in [Queues -> Entry]
      /\ nv.sent \in [Queues -> Seq(Nat)] /\ nv.posted \in [Queues -> Seq(Nat)]
  BY NvFields, Zenon
<1>3. sq \in [Queues -> RingRecord] /\ sq[q] = r /\ \A p \in Queues \ {q} : sq[p] = nv.sq[p]
  BY <1>2
<1>4. sqb \in [Queues -> Entry] /\ sqb[q] = r.tail /\ \A p \in Queues \ {q} : sqb[p] = nv.sq_bell[p]
  BY <1>1, <1>2
<1>5. se \in [Queues -> Seq(Nat)] /\ se[q] = left /\ \A p \in Queues \ {q} : se[p] = nv.sent[p]
  BY <1>2
<1>6. nv' = [nv EXCEPT !.sq = sq, !.sq_bell = sqb, !.made = made, !.sent = se]
  OBVIOUS
<1> HIDE DEF sq, sqb, se
<1>7. nv' = [sq |-> sq, cq |-> nv.cq, sq_bell |-> sqb, cq_bell |-> nv.cq_bell, made |-> made, sent |-> se,
             posted |-> nv.posted]
  BY <1>2, <1>6
<1>8. nv' \in NvRecord
  BY <1>2, <1>3, <1>4, <1>5, <1>7 DEF NvRecord
<1>9. /\ nv'.sq = sq /\ nv'.cq = nv.cq /\ nv'.sq_bell = sqb /\ nv'.cq_bell = nv.cq_bell
      /\ nv'.sent = se /\ nv'.posted = nv.posted
  <2> DEFINE R == [sq |-> sq, cq |-> nv.cq, sq_bell |-> sqb, cq_bell |-> nv.cq_bell, made |-> made, sent |-> se,
                   posted |-> nv.posted]
  <2>1. nv' = R
    BY <1>7, Zenon
  <2>2. R.sq = sq /\ R.cq = nv.cq /\ R.sq_bell = sqb /\ R.cq_bell = nv.cq_bell /\ R.sent = se /\ R.posted = nv.posted
    OBVIOUS
  <2> HIDE DEF R
  <2> QED
    BY <2>1, <2>2, Zenon
<1>10. /\ Waiting(nv.cq[q]) = nv.posted[q] /\ nv.cq_bell[q] = nv.cq[q].head
  BY QueueIs, Zenon
<1>11. /\ Waiting(nv'.sq[q]) = nv'.sent[q] /\ Waiting(nv'.cq[q]) = nv'.posted[q]
       /\ nv'.sq_bell[q] = nv'.sq[q].tail /\ nv'.cq_bell[q] = nv'.cq[q].head
  BY <1>3, <1>4, <1>5, <1>9, <1>10, Zenon
<1>12. \A p \in Queues \ {q} :
          /\ nv'.sq[p] = nv.sq[p] /\ nv'.cq[p] = nv.cq[p] /\ nv'.sent[p] = nv.sent[p]
          /\ nv'.posted[p] = nv.posted[p] /\ nv'.sq_bell[p] = nv.sq_bell[p]
          /\ nv'.cq_bell[p] = nv.cq_bell[p]
  BY <1>3, <1>4, <1>5, <1>9, Zenon
<1> QED
  BY <1>8, <1>11, <1>12, OneQueueInv, Zenon

\* A step of a completion queue.
LEMMA CqStep ==
  ASSUME RingsInv, NEW q \in Queues, NEW r \in RingRecord, NEW made \in Nat, NEW left \in Seq(Nat),
         Waiting(r) = left,
         nv' = [nv EXCEPT !.cq = [nv.cq EXCEPT ![q] = r], !.cq_bell = [nv.cq_bell EXCEPT ![q] = r.head],
                          !.made = made, !.posted = [nv.posted EXCEPT ![q] = left]]
  PROVE  RingsInv'
<1> DEFINE cq  == [nv.cq EXCEPT ![q] = r]
           cqb == [nv.cq_bell EXCEPT ![q] = r.head]
           po  == [nv.posted EXCEPT ![q] = left]
<1>1. r.head \in Entry
  BY HeldIs
<1>2. /\ nv = [sq |-> nv.sq, cq |-> nv.cq, sq_bell |-> nv.sq_bell, cq_bell |-> nv.cq_bell,
               made |-> nv.made, sent |-> nv.sent, posted |-> nv.posted]
      /\ nv.sq \in [Queues -> RingRecord] /\ nv.cq \in [Queues -> RingRecord]
      /\ nv.sq_bell \in [Queues -> Entry] /\ nv.cq_bell \in [Queues -> Entry]
      /\ nv.sent \in [Queues -> Seq(Nat)] /\ nv.posted \in [Queues -> Seq(Nat)]
  BY NvFields, Zenon
<1>3. cq \in [Queues -> RingRecord] /\ cq[q] = r /\ \A p \in Queues \ {q} : cq[p] = nv.cq[p]
  BY <1>2
<1>4. cqb \in [Queues -> Entry] /\ cqb[q] = r.head /\ \A p \in Queues \ {q} : cqb[p] = nv.cq_bell[p]
  BY <1>1, <1>2
<1>5. po \in [Queues -> Seq(Nat)] /\ po[q] = left /\ \A p \in Queues \ {q} : po[p] = nv.posted[p]
  BY <1>2
<1>6. nv' = [nv EXCEPT !.cq = cq, !.cq_bell = cqb, !.made = made, !.posted = po]
  OBVIOUS
<1> HIDE DEF cq, cqb, po
<1>7. nv' = [sq |-> nv.sq, cq |-> cq, sq_bell |-> nv.sq_bell, cq_bell |-> cqb, made |-> made,
             sent |-> nv.sent, posted |-> po]
  BY <1>2, <1>6
<1>8. nv' \in NvRecord
  BY <1>2, <1>3, <1>4, <1>5, <1>7 DEF NvRecord
<1>9. /\ nv'.sq = nv.sq /\ nv'.cq = cq /\ nv'.sq_bell = nv.sq_bell /\ nv'.cq_bell = cqb
      /\ nv'.sent = nv.sent /\ nv'.posted = po
  <2> DEFINE R == [sq |-> nv.sq, cq |-> cq, sq_bell |-> nv.sq_bell, cq_bell |-> cqb, made |-> made,
                   sent |-> nv.sent, posted |-> po]
  <2>1. nv' = R
    BY <1>7, Zenon
  <2>2. R.sq = nv.sq /\ R.cq = cq /\ R.sq_bell = nv.sq_bell /\ R.cq_bell = cqb /\ R.sent = nv.sent /\ R.posted = po
    OBVIOUS
  <2> HIDE DEF R
  <2> QED
    BY <2>1, <2>2, Zenon
<1>10. /\ Waiting(nv.sq[q]) = nv.sent[q] /\ nv.sq_bell[q] = nv.sq[q].tail
  BY QueueIs, Zenon
<1>11. /\ Waiting(nv'.sq[q]) = nv'.sent[q] /\ Waiting(nv'.cq[q]) = nv'.posted[q]
       /\ nv'.sq_bell[q] = nv'.sq[q].tail /\ nv'.cq_bell[q] = nv'.cq[q].head
  BY <1>3, <1>4, <1>5, <1>9, <1>10, Zenon
<1>12. \A p \in Queues \ {q} :
          /\ nv'.sq[p] = nv.sq[p] /\ nv'.cq[p] = nv.cq[p] /\ nv'.sent[p] = nv.sent[p]
          /\ nv'.posted[p] = nv.posted[p] /\ nv'.sq_bell[p] = nv.sq_bell[p]
          /\ nv'.cq_bell[p] = nv.cq_bell[p]
  BY <1>3, <1>4, <1>5, <1>9, Zenon
<1> QED
  BY <1>8, <1>11, <1>12, OneQueueInv, Zenon

\* A command goes behind those sent, or is refused.
LEMMA SubmitInv ==
  ASSUME RingsInv, NEW q \in Queues, nvme_submit_cmd(q)
  PROVE  RingsInv'
<1> DEFINE cmd == nv.made + 1
           r   == sq_enqueue(nv.sq[q], cmd)
<1>1. CASE sq_is_full(nv.sq[q])
  <2>1. nv' = nv
    BY <1>1 DEF nvme_submit_cmd
  <2> QED
    BY <2>1 DEF RingsInv
<1>2. CASE ~sq_is_full(nv.sq[q])
  <2>1. nv' = [nv EXCEPT !.sq[q] = r, !.sq_bell[q] = r.tail, !.made = @ + 1, !.sent[q] = Append(@, cmd)]
    BY <1>2 DEF nvme_submit_cmd
  <2>2. cmd \in Nat /\ cmd = nv.made + 1
    <3>1. nv.made \in Nat
      BY NvFields, Zenon
    <3> QED
      BY <3>1
  <2>3. nv.sq[q] \in RingRecord /\ nv.sent[q] \in Seq(Nat) /\ Waiting(nv.sq[q]) = nv.sent[q]
    BY QueueIs, Zenon
  <2> HIDE DEF cmd
  <2>4. r \in RingRecord /\ Waiting(r) = Append(Waiting(nv.sq[q]), cmd)
    BY <1>2, <2>2, <2>3, RingPut, Zenon
  <2> DEFINE left == Append(nv.sent[q], cmd)
  <2>5. left \in Seq(Nat) /\ Waiting(r) = left
    BY <2>2, <2>3, <2>4
  <2> HIDE DEF r
  <2>6. nv' = [nv EXCEPT !.sq = [nv.sq EXCEPT ![q] = r], !.sq_bell = [nv.sq_bell EXCEPT ![q] = r.tail],
                         !.made = cmd, !.sent = [nv.sent EXCEPT ![q] = left]]
    <3>1. nv = [sq |-> nv.sq, cq |-> nv.cq, sq_bell |-> nv.sq_bell, cq_bell |-> nv.cq_bell,
                made |-> nv.made, sent |-> nv.sent, posted |-> nv.posted]
      BY NvFields, Zenon
    <3> QED
      BY <2>1, <2>2, <3>1
  <2> HIDE DEF left
  <2> QED
    BY <2>2, <2>4, <2>5, <2>6, SqStep, Zenon
<1> QED
  BY <1>1, <1>2

\* Taking a completion takes the oldest.
LEMMA ProcessCqInv ==
  ASSUME RingsInv, NEW q \in Queues, nvme_process_cq(q)
  PROVE  RingsInv'
<1> DEFINE next == (nv.cq[q].head + 1) % NVME_QUEUE_DEPTH
           r    == [nv.cq[q] EXCEPT !.head = next]
           left == Tail(nv.posted[q])
<1>1. /\ ~sq_is_empty(nv.cq[q])
      /\ nv' = [nv EXCEPT !.cq[q].head = next, !.cq_bell[q] = next, !.posted[q] = Tail(@)]
  BY DEF nvme_process_cq
<1>2. /\ nv.cq[q] \in RingRecord /\ nv.posted[q] \in Seq(Nat)
      /\ Waiting(nv.cq[q]) = nv.posted[q] /\ nv.cq_bell[q] = nv.cq[q].head
  BY QueueIs, Zenon
<1>3. /\ r \in RingRecord /\ Waiting(r) = Tail(Waiting(nv.cq[q])) /\ r.tail = nv.cq[q].tail
  BY <1>1, <1>2, RingTake, Zenon
<1>4. r.head = next
  BY <1>2 DEF RingRecord
<1>5. left \in Seq(Nat)
  <2>1. Held(nv.cq[q]) # 0 /\ Held(nv.cq[q]) \in Nat
    <3>1. /\ Held(nv.cq[q]) \in Entry
          /\ Held(nv.cq[q]) = 0 <=> nv.cq[q].head = nv.cq[q].tail
      BY <1>2, HeldIs, Zenon
    <3> QED
      BY <1>1, <3>1 DEF sq_is_empty, Entry
  <2>2. DOMAIN Waiting(nv.cq[q]) = 1 .. Held(nv.cq[q])
    BY DEF Waiting
  <2>3. nv.posted[q] # <<>>
    BY <1>2, <2>1, <2>2
  <2> QED
    BY <1>2, <2>3
<1>6. nv.made \in Nat
  BY NvFields, Zenon
<1>7. nv' = [nv EXCEPT !.cq = [nv.cq EXCEPT ![q] = r], !.cq_bell = [nv.cq_bell EXCEPT ![q] = r.head],
                       !.made = nv.made, !.posted = [nv.posted EXCEPT ![q] = left]]
  <2> HIDE DEF next
  <2>1. nv = [sq |-> nv.sq, cq |-> nv.cq, sq_bell |-> nv.sq_bell, cq_bell |-> nv.cq_bell,
              made |-> nv.made, sent |-> nv.sent, posted |-> nv.posted]
    BY NvFields, Zenon
  <2>2. nv' = [nv EXCEPT !.cq = [nv.cq EXCEPT ![q] = r], !.cq_bell = [nv.cq_bell EXCEPT ![q] = next],
                         !.posted = [nv.posted EXCEPT ![q] = left]]
    BY <1>1, <2>1
  <2> HIDE DEF r, left
  <2> QED
    BY <1>4, <2>1, <2>2
<1>8. Waiting(r) = left
  BY <1>2, <1>3, Zenon
<1> HIDE DEF r, left
<1> QED
  BY <1>3, <1>5, <1>6, <1>7, <1>8, CqStep, Zenon

\* So does the device with a command.
LEMMA DeviceTakesInv ==
  ASSUME RingsInv, NEW q \in Queues, DeviceTakes(q)
  PROVE  RingsInv'
<1> DEFINE next == (nv.sq[q].head + 1) % NVME_QUEUE_DEPTH
           r    == [nv.sq[q] EXCEPT !.head = next]
           left == Tail(nv.sent[q])
<1>1. /\ ~sq_is_empty(nv.sq[q])
      /\ nv' = [nv EXCEPT !.sq[q].head = next, !.sent[q] = Tail(@)]
  BY DEF DeviceTakes
<1>2. /\ nv.sq[q] \in RingRecord /\ nv.sent[q] \in Seq(Nat)
      /\ Waiting(nv.sq[q]) = nv.sent[q] /\ nv.sq_bell[q] = nv.sq[q].tail
  BY QueueIs, Zenon
<1>3. /\ r \in RingRecord /\ Waiting(r) = Tail(Waiting(nv.sq[q])) /\ r.tail = nv.sq[q].tail
  BY <1>1, <1>2, RingTake, Zenon
<1>4. r.tail = nv.sq_bell[q]
  BY <1>2, <1>3, Zenon
<1>5. left \in Seq(Nat)
  <2>1. Held(nv.sq[q]) # 0 /\ Held(nv.sq[q]) \in Nat
    <3>1. /\ Held(nv.sq[q]) \in Entry
          /\ Held(nv.sq[q]) = 0 <=> nv.sq[q].head = nv.sq[q].tail
      BY <1>2, HeldIs, Zenon
    <3> QED
      BY <1>1, <3>1 DEF sq_is_empty, Entry
  <2>2. DOMAIN Waiting(nv.sq[q]) = 1 .. Held(nv.sq[q])
    BY DEF Waiting
  <2>3. nv.sent[q] # <<>>
    BY <1>2, <2>1, <2>2
  <2> QED
    BY <1>2, <2>3
<1>6. /\ nv = [sq |-> nv.sq, cq |-> nv.cq, sq_bell |-> nv.sq_bell, cq_bell |-> nv.cq_bell,
               made |-> nv.made, sent |-> nv.sent, posted |-> nv.posted]
      /\ nv.sq_bell \in [Queues -> Entry] /\ nv.made \in Nat
  BY NvFields, Zenon
<1>7. nv' = [nv EXCEPT !.sq = [nv.sq EXCEPT ![q] = r], !.sq_bell = [nv.sq_bell EXCEPT ![q] = r.tail],
                       !.made = nv.made, !.sent = [nv.sent EXCEPT ![q] = left]]
  <2> HIDE DEF next
  <2>1. nv' = [nv EXCEPT !.sq = [nv.sq EXCEPT ![q] = r], !.sent = [nv.sent EXCEPT ![q] = left]]
    BY <1>1, <1>6
  <2> HIDE DEF r, left
  <2>2. nv.sq_bell = [nv.sq_bell EXCEPT ![q] = r.tail]
    BY <1>4, <1>6
  <2> DEFINE bell == [nv.sq_bell EXCEPT ![q] = r.tail]
  <2>3. nv.sq_bell = bell
    BY <2>2
  <2> HIDE DEF bell
  <2>4. nv' = [nv EXCEPT !.sq = [nv.sq EXCEPT ![q] = r], !.sq_bell = bell, !.made = nv.made,
                         !.sent = [nv.sent EXCEPT ![q] = left]]
    BY <1>6, <2>1, <2>3
  <2> QED
    BY <2>4 DEF bell
<1>8. Waiting(r) = left
  BY <1>2, <1>3, Zenon
<1> HIDE DEF r, left
<1> QED
  BY <1>3, <1>5, <1>6, <1>7, <1>8, SqStep, Zenon

\* And a completion goes behind those posted.
LEMMA DevicePostsInv ==
  ASSUME RingsInv, NEW q \in Queues, DevicePosts(q)
  PROVE  RingsInv'
<1> DEFINE cmd  == nv.made + 1
           r    == sq_enqueue(nv.cq[q], cmd)
           left == Append(nv.posted[q], cmd)
<1>1. /\ ~sq_is_full(nv.cq[q])
      /\ nv' = [nv EXCEPT !.cq[q] = sq_enqueue(@, cmd), !.made = @ + 1, !.posted[q] = Append(@, cmd)]
  BY DEF DevicePosts
<1>2. /\ nv = [sq |-> nv.sq, cq |-> nv.cq, sq_bell |-> nv.sq_bell, cq_bell |-> nv.cq_bell,
               made |-> nv.made, sent |-> nv.sent, posted |-> nv.posted]
      /\ nv.cq_bell \in [Queues -> Entry] /\ nv.made \in Nat
  BY NvFields, Zenon
<1>3. /\ nv.cq[q] \in RingRecord /\ nv.posted[q] \in Seq(Nat)
      /\ Waiting(nv.cq[q]) = nv.posted[q] /\ nv.cq_bell[q] = nv.cq[q].head
  BY QueueIs, Zenon
<1>4. cmd \in Nat /\ cmd = nv.made + 1
  BY <1>2
<1> HIDE DEF cmd
<1>5. r \in RingRecord /\ Waiting(r) = Append(Waiting(nv.cq[q]), cmd) /\ r.head = nv.cq[q].head
  BY <1>1, <1>3, <1>4, RingPut, Zenon
<1>6. left \in Seq(Nat) /\ Waiting(r) = left
  BY <1>3, <1>4, <1>5
<1>7. nv' = [nv EXCEPT !.cq = [nv.cq EXCEPT ![q] = r], !.cq_bell = [nv.cq_bell EXCEPT ![q] = r.head],
                       !.made = cmd, !.posted = [nv.posted EXCEPT ![q] = left]]
  <2>1. nv' = [nv EXCEPT !.cq = [nv.cq EXCEPT ![q] = r], !.made = cmd,
                         !.posted = [nv.posted EXCEPT ![q] = left]]
    BY <1>1, <1>2, <1>4
  <2> HIDE DEF r, left
  <2> DEFINE bell == [nv.cq_bell EXCEPT ![q] = r.head]
  <2>2. nv.cq_bell = bell
    BY <1>2, <1>3, <1>5
  <2> HIDE DEF bell
  <2>3. nv' = [nv EXCEPT !.cq = [nv.cq EXCEPT ![q] = r], !.cq_bell = bell, !.made = cmd,
                         !.posted = [nv.posted EXCEPT ![q] = left]]
    BY <1>2, <2>1, <2>2
  <2> QED
    BY <2>3 DEF bell
<1> HIDE DEF r, left
<1> QED
  BY <1>4, <1>5, <1>6, <1>7, CqStep, Zenon

\* The rings start empty.
LEMMA RingsInitInv == nv = nvme_init => RingsInv
<1> SUFFICES ASSUME nv = nvme_init PROVE RingsInv
  OBVIOUS
<1>1. 0 \in Entry
  BY StorageQueuesAssumption DEF Entry
<1>2. Ring \in RingRecord /\ Ring.head = 0 /\ Ring.tail = 0
  BY <1>1 DEF Ring, RingRecord, Entry
<1>3. Held(Ring) = 0
  BY <1>2 DEF Held
<1>4. Waiting(Ring) = <<>>
  BY <1>3 DEF Waiting
<1>5. /\ nv.sq = [q \in Queues |-> Ring] /\ nv.cq = [q \in Queues |-> Ring] /\ nv.made = 0
      /\ nv.sq_bell = [q \in Queues |-> 0] /\ nv.cq_bell = [q \in Queues |-> 0]
      /\ nv.sent = [q \in Queues |-> << >>] /\ nv.posted = [q \in Queues |-> << >>]
  BY DEF nvme_init
<1>6. nv = [sq |-> nv.sq, cq |-> nv.cq, sq_bell |-> nv.sq_bell, cq_bell |-> nv.cq_bell,
            made |-> nv.made, sent |-> nv.sent, posted |-> nv.posted]
  BY DEF nvme_init
<1>7. /\ nv.sq \in [Queues -> RingRecord] /\ nv.cq \in [Queues -> RingRecord] /\ nv.made \in Nat
      /\ nv.sq_bell \in [Queues -> Entry] /\ nv.cq_bell \in [Queues -> Entry]
      /\ nv.sent \in [Queues -> Seq(Nat)] /\ nv.posted \in [Queues -> Seq(Nat)]
  BY <1>1, <1>2, <1>5
<1>8. nv \in NvRecord
  BY <1>6, <1>7 DEF NvRecord
<1> QED
  BY <1>2, <1>4, <1>5, <1>8 DEF RingsInv

\* Every operation on the rings keeps it.
LEMMA NvmeNextInv == RingsInv /\ NvmeNext => RingsInv'
<1>1. 0 \in Queues
  BY StorageQueuesAssumption DEF Queues
<1> SUFFICES ASSUME RingsInv, NvmeNext PROVE RingsInv'
  OBVIOUS
<1>2. PICK q \in Queues : \/ nvme_submit_cmd(q) \/ nvme_submit_cmd(0) \/ nvme_process_cq(q)
                         \/ DeviceTakes(q) \/ DevicePosts(q)
  BY Zenon DEF NvmeNext, nvme_submit_io_cmd, nvme_submit_admin_cmd
<1> QED
  BY <1>1, <1>2, SubmitInv, ProcessCqInv, DeviceTakesInv, DevicePostsInv, Zenon
--------------------------------------------------------------------------------
(* The arbiter. *)

\* With a burst above 0 every queue always has some of it left, so that the turn is with
\* the queue after the one that had it last.
ArbInv ==
  /\ arb = [weights |-> arb.weights, remaining_burst |-> arb.remaining_burst,
            current_sq |-> arb.current_sq, arb_burst |-> arb.arb_burst, turns |-> arb.turns]
  /\ arb.arb_burst \in Nat
  /\ arb.arb_burst > 0 =>
        /\ arb.weights \in [IoQueues -> Nat] /\ arb.remaining_burst \in [IoQueues -> Nat \ {0}]
        /\ arb.turns \in Seq(IoQueues) /\ arb.current_sq = Len(arb.turns) % NVME_MAX_IO_QUEUES
        /\ \A i \in 1 .. Len(arb.turns) : arb.turns[i] = (i - 1) % NVME_MAX_IO_QUEUES

\* The arbiter starts with it, whatever the burst.
LEMMA ArbInitInv == \A b \in Bursts : arb = nvme_arbiter_init(b) => ArbInv
<1> SUFFICES ASSUME NEW b \in Bursts, arb = nvme_arbiter_init(b) PROVE ArbInv
  OBVIOUS
<1>1. b \in Nat /\ NVME_MAX_IO_QUEUES \in Nat \ {0}
  BY StorageQueuesAssumption
<1>2. arb = [weights |-> [q \in IoQueues |-> 0], remaining_burst |-> [q \in IoQueues |-> b], current_sq |-> 0,
             arb_burst |-> b, turns |-> << >>]
  BY DEF nvme_arbiter_init
<1>3. Len(arb.turns) % NVME_MAX_IO_QUEUES = 0
  BY <1>1, <1>2
<1> QED
  BY <1>1, <1>2, <1>3 DEF ArbInv

\* What a queue is charged leaves none of its burst or some, never less than none.
LEMMA ChargedInv ==
  ASSUME NEW w \in Nat, NEW left \in Nat \ {0}
  PROVE  left - (IF w = 0 THEN 1 ELSE Min({w, left})) \in Nat
<1>1. CASE w # 0
  <2>1. Min({w, left}) \in {w, left} /\ Min({w, left}) <= left
    <3>1. {w, left} \in SUBSET Nat /\ {w, left} # {} /\ left \in {w, left}
      OBVIOUS
    <3> HIDE DEF Min
    <3> QED
      BY <3>1, MinIs, Zenon
  <2> QED
    BY <1>1, <2>1
<1> QED
  BY <1>1

\* A natural is the quotient times the divisor and the remainder.
LEMMA QuotientIs ==
  ASSUME NEW N \in Nat \ {0}, NEW n \in Nat
  PROVE  n = N * (n \div N) + (n % N) /\ n \div N \in Nat /\ n % N \in 0 .. N - 1
OBVIOUS

\* The remainder is the only one.
LEMMA RemainderIsOnly ==
  ASSUME NEW N \in Nat \ {0}, NEW q \in Nat, NEW r \in 0 .. N - 1
  PROVE  (N * q + r) % N = r
<1> DEFINE x == N * q + r
           d == x \div N
           m == x % N
<1>1. x \in Nat
  OBVIOUS
<1>2. x = N * d + m /\ d \in Nat /\ m \in 0 .. N - 1
  BY <1>1, QuotientIs
<1>3. x = N * q + r
  OBVIOUS
<1> HIDE DEF x, d, m
<1>4. CASE d < q
  <2>1. d + 1 <= q
    BY <1>2, <1>4
  <2>2. N * (d + 1) <= N * q
    BY <2>1, <1>2
  <2>3. N * (d + 1) = N * d + N
    BY <1>2
  <2>4. N * d \in Nat /\ N * q \in Nat
    BY <1>2
  <2> QED
    BY <2>2, <2>3, <2>4, <1>2, <1>3
<1>5. CASE d > q
  <2>1. q + 1 <= d
    BY <1>2, <1>5
  <2>2. N * (q + 1) <= N * d
    BY <2>1, <1>2
  <2>3. N * (q + 1) = N * q + N
    BY <1>2
  <2>4. N * d \in Nat /\ N * q \in Nat
    BY <1>2
  <2> QED
    BY <2>2, <2>3, <2>4, <1>2, <1>3
<1>6. CASE d = q
  <2>1. N * q \in Nat
    BY <1>2
  <2>2. N * q + m = N * q + r
    BY <1>6, <1>2, <1>3
  <2> QED
    BY <2>1, <2>2, <1>2 DEF m, x
<1> QED
  BY <1>2, <1>4, <1>5, <1>6

\* Counting on by one, with the remainder or without it.
LEMMA NextRemainder ==
  ASSUME NEW N \in Nat \ {0}, NEW n \in Nat
  PROVE  ((n % N) + 1) % N = (n + 1) % N
<1> DEFINE q == n \div N
           m == n % N
<1>1. n = N * q + m /\ q \in Nat /\ m \in 0 .. N - 1
  BY QuotientIs
<1> HIDE DEF q, m
<1>2. CASE m + 1 < N
  <2>1. (N * q + (m + 1)) % N = m + 1
    BY <1>1, <1>2, RemainderIsOnly
  <2>2. n + 1 = N * q + (m + 1)
    BY <1>1
  <2>3. (m + 1) % N = m + 1
    BY <1>1, <1>2
  <2> QED
    BY <2>1, <2>2, <2>3 DEF m
<1>3. CASE m + 1 = N
  <2>1. (N * (q + 1) + 0) % N = 0
    BY <1>1, <1>3, RemainderIsOnly
  <2>2. n + 1 = N * (q + 1) + 0
    BY <1>1, <1>3
  <2>3. (m + 1) % N = 0
    BY <1>1, <1>3
  <2> QED
    BY <2>1, <2>2, <2>3 DEF m
<1> QED
  BY <1>1, <1>2, <1>3

\* The queues counted from one of them are queues, the first it itself.
LEMMA QueuesFrom ==
  ASSUME NEW q \in IoQueues
  PROVE  /\ (q + 0) % NVME_MAX_IO_QUEUES = q
         /\ \A i \in IoQueues : (q + i) % NVME_MAX_IO_QUEUES \in IoQueues
<1>1. NVME_MAX_IO_QUEUES \in Nat \ {0}
  BY StorageQueuesAssumption
<1> QED
  BY <1>1 DEF IoQueues

\* A turn with a burst above 0: the queue at current_sq is able, so it is chosen and no
\* other is passed.
LEMMA TurnIs ==
  ASSUME ArbInv, arb.arb_burst > 0, nvme_arbiter_next_sq
  PROVE  \E left \in Nat \ {0} :
            arb' = [weights |-> arb.weights,
                    remaining_burst |-> [arb.remaining_burst EXCEPT ![arb.current_sq] = left],
                    current_sq |-> (arb.current_sq + 1) % NVME_MAX_IO_QUEUES, arb_burst |-> arb.arb_burst,
                    turns |-> Append(arb.turns, arb.current_sq)]
<1> DEFINE N == NVME_MAX_IO_QUEUES
           At(i) == (arb.current_sq + i) % N
           able == {i \in IoQueues : arb.remaining_burst[At(i)] > 0}
           passed == {At(i) : i \in {j \in IoQueues : \A k \in able : j < k}}
           a == [arb EXCEPT !.remaining_burst = [q \in IoQueues |-> IF q \in passed THEN arb.arb_burst ELSE @[q]]]
           q0 == arb.current_sq
<1>1. /\ N \in Nat \ {0} /\ arb.arb_burst \in Nat \ {0} /\ arb.weights \in [IoQueues -> Nat]
      /\ arb.remaining_burst \in [IoQueues -> Nat \ {0}] /\ Len(arb.turns) \in Nat
      /\ q0 = Len(arb.turns) % N
  BY StorageQueuesAssumption DEF ArbInv
<1>2. q0 \in IoQueues /\ 0 \in IoQueues
  <2> DEFINE n == Len(arb.turns)
  <2>1. n \in Nat /\ N \in Nat \ {0} /\ q0 = n % N
    BY <1>1
  <2> HIDE DEF n, q0
  <2> QED
    BY <2>1, QuotientIs DEF IoQueues
<1>3. At(0) = q0 /\ \A i \in IoQueues : At(i) \in IoQueues
  <2>1. arb.current_sq \in IoQueues
    BY <1>2
  <2> QED
    BY <2>1, QueuesFrom, Zenon
<1>4. able = IoQueues
  <2> HIDE DEF At, q0
  <2> QED
    BY <1>1, <1>3
<1>5. At(0) = q0
  BY <1>3, Zenon
<1>6. Min(able) = 0
  <2>1. IoQueues \in SUBSET Nat /\ IoQueues # {} /\ \A i \in IoQueues : i >= 0
    BY <1>2 DEF IoQueues
  <2>2. Min(IoQueues) \in IoQueues /\ Min(IoQueues) <= 0
    BY <1>2, <2>1, MinIs
  <2>3. Min(IoQueues) = 0
    <3> DEFINE m == Min(IoQueues)
    <3>1. m \in IoQueues /\ m <= 0
      BY <2>2, Zenon
    <3> HIDE DEF m
    <3>2. m = 0
      BY <3>1 DEF IoQueues
    <3> QED
      BY <3>2 DEF m
  <2> QED
    BY <1>4, <2>3, Zenon
<1>7. passed = {}
  BY <1>2, <1>4 DEF IoQueues
<1>8. arb' = [IF able = {} THEN a ELSE Chosen(a, At(Min(able)))
              EXCEPT !.turns = Append(@, IF able = {} THEN -1 ELSE At(Min(able)))]
  BY Zenon DEF nvme_arbiter_next_sq
<1> HIDE DEF N, At, able, passed, q0
<1>9. a = arb
  BY <1>1, <1>7 DEF ArbInv
<1>10. able # {}
  BY <1>2, <1>4
<1> HIDE DEF a
<1>11. arb' = [Chosen(arb, q0) EXCEPT !.turns = Append(@, q0)]
  BY <1>5, <1>6, <1>8, <1>9, <1>10, Zenon
<1> DEFINE take == IF arb.weights[q0] = 0 THEN 1 ELSE Min({arb.weights[q0], arb.remaining_burst[q0]})
           rest == arb.remaining_burst[q0] - take
           left == IF rest = 0 THEN arb.arb_burst ELSE rest
           rb == [arb.remaining_burst EXCEPT ![q0] = left]
<1>12. Chosen(arb, q0) = [arb EXCEPT !.remaining_burst = rb, !.current_sq = (q0 + 1) % N]
  BY DEF Chosen, ArbInv, N
<1>13. rest \in Nat
  <2>1. arb.weights[q0] \in Nat /\ arb.remaining_burst[q0] \in Nat \ {0}
    BY <1>1, <1>2
  <2> QED
    BY <2>1, ChargedInv, Zenon
<1> HIDE DEF rest
<1>14. left \in Nat \ {0}
  BY <1>1, <1>13
<1>15. rb = [arb.remaining_burst EXCEPT ![arb.current_sq] = left]
  BY DEF q0
<1> HIDE DEF left, rb
<1>16. arb' = [arb EXCEPT !.remaining_burst = rb, !.current_sq = (q0 + 1) % N, !.turns = Append(arb.turns, q0)]
  <2>1. arb = [weights |-> arb.weights, remaining_burst |-> arb.remaining_burst,
            current_sq |-> arb.current_sq, arb_burst |-> arb.arb_burst, turns |-> arb.turns]
    BY DEF ArbInv
  <2> QED
    BY <1>11, <1>12, <2>1
<1>17. arb' = [weights |-> arb.weights, remaining_burst |-> rb, current_sq |-> (q0 + 1) % N,
               arb_burst |-> arb.arb_burst, turns |-> Append(arb.turns, q0)]
  <2>1. arb = [weights |-> arb.weights, remaining_burst |-> arb.remaining_burst,
            current_sq |-> arb.current_sq, arb_burst |-> arb.arb_burst, turns |-> arb.turns]
    BY DEF ArbInv
  <2> QED
    BY <1>16, <2>1
<1> QED
  BY <1>14, <1>15, <1>17, Zenon DEF q0, N

\* Every operation on the arbiter keeps it.
LEMMA ArbiterNextInv == ArbInv /\ ArbiterNext => ArbInv'
<1> SUFFICES ASSUME ArbInv, ArbiterNext PROVE ArbInv'
  OBVIOUS
<1> DEFINE N == NVME_MAX_IO_QUEUES
<1>1. CASE nvme_arbiter_next_sq /\ arb.arb_burst > 0
  <2>1. PICK left \in Nat \ {0} :
            arb' = [weights |-> arb.weights,
                    remaining_burst |-> [arb.remaining_burst EXCEPT ![arb.current_sq] = left],
                    current_sq |-> (arb.current_sq + 1) % N, arb_burst |-> arb.arb_burst,
                    turns |-> Append(arb.turns, arb.current_sq)]
    BY <1>1, TurnIs
  <2>2. /\ N \in Nat \ {0} /\ arb.arb_burst \in Nat /\ arb.weights \in [IoQueues -> Nat]
        /\ arb.remaining_burst \in [IoQueues -> Nat \ {0}] /\ arb.turns \in Seq(IoQueues)
        /\ arb.current_sq = Len(arb.turns) % N
        /\ \A i \in 1 .. Len(arb.turns) : arb.turns[i] = (i - 1) % N
    BY <1>1, StorageQueuesAssumption DEF ArbInv
  <2> DEFINE q0 == arb.current_sq
             n  == Len(arb.turns)
             next == (q0 + 1) % N
             rb == [arb.remaining_burst EXCEPT ![q0] = left]
             tu == Append(arb.turns, q0)
  <2>3. q0 \in IoQueues /\ n \in Nat
    <3>1. n \in Nat /\ N \in Nat \ {0} /\ q0 = n % N
      BY <2>2
    <3> HIDE DEF n, q0
    <3> QED
      BY <3>1, QuotientIs DEF IoQueues
  <2>4. rb \in [IoQueues -> Nat \ {0}]
    BY <2>2, <2>3
  <2>5. tu \in Seq(IoQueues) /\ Len(tu) = n + 1 /\ tu[n + 1] = q0 /\ \A i \in 1 .. n : tu[i] = arb.turns[i]
    <3> DEFINE S == IoQueues
               t == arb.turns
    <3>1. t \in Seq(S) /\ q0 \in S /\ tu = Append(t, q0) /\ n = Len(t)
      BY <2>2, <2>3
    <3> HIDE DEF S, t, q0, tu, n
    <3>2. tu \in Seq(S) /\ Len(tu) = n + 1 /\ tu[n + 1] = q0 /\ \A i \in 1 .. n : tu[i] = t[i]
      BY <3>1
    <3> QED
      BY <3>2 DEF S, t
  <2>6. next = (n + 1) % N
    <3>1. n \in Nat /\ N \in Nat \ {0} /\ q0 = n % N
      BY <2>2, <2>3
    <3> HIDE DEF n, q0, N
    <3>2. ((n % N) + 1) % N = (n + 1) % N
      BY <3>1, NextRemainder
    <3> QED
      BY <3>1, <3>2, Zenon
  <2>7. \A i \in 1 .. n + 1 : tu[i] = (i - 1) % N
    <3>1. \A i \in 1 .. n + 1 : i \in 1 .. n \/ i = n + 1
      BY <2>3
    <3>2. (n + 1) - 1 = n
      BY <2>3
    <3> QED
      BY <2>2, <2>3, <2>5, <3>1, <3>2
  <2>8. /\ arb'.weights = arb.weights /\ arb'.remaining_burst = rb /\ arb'.current_sq = next
        /\ arb'.arb_burst = arb.arb_burst /\ arb'.turns = tu
        /\ arb' = [weights |-> arb.weights, remaining_burst |-> rb, current_sq |-> next,
                   arb_burst |-> arb.arb_burst, turns |-> tu]
    BY <2>1
  <2> HIDE DEF rb, tu, next
  <2>9. arb' = [weights |-> arb'.weights, remaining_burst |-> arb'.remaining_burst,
                current_sq |-> arb'.current_sq, arb_burst |-> arb'.arb_burst, turns |-> arb'.turns]
    BY <2>8
  <2> QED
    BY <2>2, <2>4, <2>5, <2>6, <2>7, <2>8, <2>9 DEF ArbInv
<1>2. CASE nvme_arbiter_next_sq /\ ~(arb.arb_burst > 0)
  <2>1. PICK a, rb, cur, tu : /\ \/ a = [arb EXCEPT !.remaining_burst = rb]
                                \/ a = [arb EXCEPT !.remaining_burst = rb, !.current_sq = cur]
                             /\ arb' = [a EXCEPT !.turns = tu]
    <3> DEFINE At(i) == (arb.current_sq + i) % N
               able == {i \in IoQueues : arb.remaining_burst[At(i)] > 0}
               passed == {At(i) : i \in {j \in IoQueues : \A k \in able : j < k}}
               some == [q \in IoQueues |-> IF q \in passed THEN arb.arb_burst ELSE arb.remaining_burst[q]]
               a == [arb EXCEPT !.remaining_burst = some]
               q0 == At(Min(able))
    <3>1. arb' = [IF able = {} THEN a ELSE Chosen(a, q0)
                  EXCEPT !.turns = Append(@, IF able = {} THEN -1 ELSE q0)]
      BY <1>2 DEF nvme_arbiter_next_sq
    <3> HIDE DEF able, q0, some
    <3>2. PICK rb, cur : Chosen(a, q0) = [a EXCEPT !.remaining_burst = rb, !.current_sq = cur]
      BY DEF Chosen
    <3>3. Chosen(a, q0) = [arb EXCEPT !.remaining_burst = rb, !.current_sq = cur]
      BY <3>2 DEF ArbInv
    <3> QED
      BY <3>1, <3>3
  <2>2. PICK c : a = [weights |-> arb.weights, remaining_burst |-> rb, current_sq |-> c,
                      arb_burst |-> arb.arb_burst, turns |-> arb.turns]
    BY <2>1 DEF ArbInv
  <2>3. arb' = [weights |-> arb.weights, remaining_burst |-> rb, current_sq |-> c,
                arb_burst |-> arb.arb_burst, turns |-> tu]
    BY <2>1, <2>2
  <2> QED
    BY <1>2, <2>3 DEF ArbInv
<1>3. ASSUME NEW q \in IoQueues, NEW w \in Weights, nvme_arbiter_set_weight(q, w)
      PROVE  ArbInv'
  <2>1. w \in Nat
    BY StorageQueuesAssumption
  <2>2. arb' = [weights |-> [arb.weights EXCEPT ![q] = w], remaining_burst |-> arb.remaining_burst,
                current_sq |-> arb.current_sq, arb_burst |-> arb.arb_burst, turns |-> arb.turns]
    BY <1>3 DEF nvme_arbiter_set_weight, ArbInv
  <2> QED
    BY <2>1, <2>2 DEF ArbInv
<1> QED
  BY <1>1, <1>2, <1>3 DEF ArbiterNext
--------------------------------------------------------------------------------
(* The shares of the classes. *)

SsdFields == {"consumed", "served", "rounds", "state", "latency", "temperature", "throttle", "critical"}

\* Every class has had its credits in the rounds before, and what it consumed in this one.
ShareInv ==
  /\ DOMAIN ssdm = SsdFields
  /\ ssdm.consumed \in [1 .. 3 -> Nat] /\ ssdm.served \in [1 .. 3 -> Nat] /\ ssdm.rounds \in Nat
  /\ SharesExact

\* Nothing is served at the start.
LEMMA ShareInitInv == ssdm = ssdc_init => ShareInv
<1> SUFFICES ASSUME ssdm = ssdc_init PROVE ShareInv
  OBVIOUS
<1>1. /\ DOMAIN ssdm = SsdFields
      /\ ssdm.consumed = <<0, 0, 0>> /\ ssdm.served = <<0, 0, 0>> /\ ssdm.rounds = 0
  BY DEF ssdc_init, SsdFields
<1>2. <<0, 0, 0>> \in [1 .. 3 -> Nat] /\ \A i \in 1 .. 3 : <<0, 0, 0>>[i] = 0
  OBVIOUS
<1>3. \A i \in 1 .. 3 : QosCredits[i] \in Nat
  BY StorageQueuesAssumption
<1>4. SharesExact
  BY <1>1, <1>2, <1>3 DEF SharesExact
<1> QED
  BY <1>1, <1>2, <1>4 DEF ShareInv

\* One more of a class with credit left, or the first of a new round.
LEMMA SelectInv == ShareInv /\ ssdc_qos_select_queue => ShareInv'
<1> SUFFICES ASSUME ShareInv, ssdc_qos_select_queue PROVE ShareInv'
  OBVIOUS
<1> DEFINE left == {i \in 1 .. 3 : QosCredits[i] > ssdm.consumed[i]}
           k == Min(left)
           c == ssdm.consumed
           s == ssdm.served
           r == ssdm.rounds
<1>1. /\ c \in [1 .. 3 -> Nat] /\ s \in [1 .. 3 -> Nat] /\ r \in Nat /\ DOMAIN ssdm = SsdFields
      /\ \A i \in 1 .. 3 : QosCredits[i] \in Nat \ {0}
  BY StorageQueuesAssumption DEF ShareInv
<1>2. \A i \in 1 .. 3 : s[i] = r * QosCredits[i] + c[i] /\ c[i] <= QosCredits[i]
  BY DEF ShareInv, SharesExact
<1>3. CASE left # {}
  <2>1. ssdm' = [ssdm EXCEPT !.consumed[k] = @ + 1, !.served[k] = @ + 1]
    BY <1>3 DEF ssdc_qos_select_queue
  <2>2. k \in left
    <3>1. left \in SUBSET Nat
      OBVIOUS
    <3> HIDE DEF left
    <3> QED
      BY <1>3, <3>1, MinIs
  <2>3. k \in 1 .. 3 /\ QosCredits[k] > c[k]
    BY <2>2
  <2> HIDE DEF k
  <2>4. ssdm' = [ssdm EXCEPT !.consumed = [c EXCEPT ![k] = c[k] + 1], !.served = [s EXCEPT ![k] = s[k] + 1]]
    BY <1>1, <2>1 DEF SsdFields
  <2> DEFINE c1 == [c EXCEPT ![k] = c[k] + 1]
             s1 == [s EXCEPT ![k] = s[k] + 1]
  <2>5. c1 \in [1 .. 3 -> Nat] /\ s1 \in [1 .. 3 -> Nat]
    BY <1>1, <2>3
  <2>6. \A i \in 1 .. 3 : c1[i] = (IF i = k THEN c[i] + 1 ELSE c[i]) /\ s1[i] = (IF i = k THEN s[i] + 1 ELSE s[i])
    BY <1>1, <2>3
  <2> HIDE DEF c1, s1
  <2>7. ssdm'.consumed = c1 /\ ssdm'.served = s1 /\ ssdm'.rounds = r /\ DOMAIN ssdm' = SsdFields
    BY <1>1, <2>4 DEF SsdFields, c1, s1
  <2>8. \A i \in 1 .. 3 : s1[i] = r * QosCredits[i] + c1[i] /\ c1[i] <= QosCredits[i]
    <3> SUFFICES ASSUME NEW i \in 1 .. 3
                 PROVE  s1[i] = r * QosCredits[i] + c1[i] /\ c1[i] <= QosCredits[i]
      OBVIOUS
    <3>1. r * QosCredits[i] \in Nat /\ c[i] \in Nat /\ s[i] \in Nat /\ QosCredits[i] \in Nat
      BY <1>1
    <3> QED
      BY <1>2, <2>3, <2>6, <3>1
  <2>9. SharesExact'
    BY <2>7, <2>8 DEF SharesExact
  <2> QED
    BY <1>1, <2>5, <2>7, <2>9 DEF ShareInv
<1>4. CASE left = {}
  <2>1. ssdm' = [ssdm EXCEPT !.consumed = <<1, 0, 0>>, !.served[1] = @ + 1, !.rounds = @ + 1]
    BY <1>4 DEF ssdc_qos_select_queue
  <2>2. \A i \in 1 .. 3 : c[i] = QosCredits[i]
    <3> SUFFICES ASSUME NEW i \in 1 .. 3 PROVE c[i] = QosCredits[i]
      OBVIOUS
    <3>1. ~(QosCredits[i] > c[i])
      BY <1>4
    <3>2. c[i] \in Nat /\ QosCredits[i] \in Nat /\ c[i] <= QosCredits[i]
      BY <1>1, <1>2
    <3> QED
      BY <3>1, <3>2
  <2> DEFINE s1 == [s EXCEPT ![1] = s[1] + 1]
  <2>3. s1 \in [1 .. 3 -> Nat] /\ \A i \in 1 .. 3 : s1[i] = (IF i = 1 THEN s[i] + 1 ELSE s[i])
    BY <1>1
  <2>4. <<1, 0, 0>> \in [1 .. 3 -> Nat] /\ \A i \in 1 .. 3 : <<1, 0, 0>>[i] = IF i = 1 THEN 1 ELSE 0
    OBVIOUS
  <2>5. ssdm'.consumed = <<1, 0, 0>> /\ ssdm'.served = s1 /\ ssdm'.rounds = r + 1 /\ DOMAIN ssdm' = SsdFields
    BY <1>1, <2>1 DEF SsdFields
  <2> HIDE DEF s1
  <2>6. \A i \in 1 .. 3 : /\ s1[i] = (r + 1) * QosCredits[i] + <<1, 0, 0>>[i]
                          /\ <<1, 0, 0>>[i] <= QosCredits[i]
    <3> SUFFICES ASSUME NEW i \in 1 .. 3
                 PROVE  /\ s1[i] = (r + 1) * QosCredits[i] + <<1, 0, 0>>[i]
                        /\ <<1, 0, 0>>[i] <= QosCredits[i]
      OBVIOUS
    <3> DEFINE Q == QosCredits[i]
               y == <<1, 0, 0>>[i]
               x == r * Q
    <3>1. Q \in Nat \ {0} /\ r \in Nat
      BY <1>1
    <3>2. x \in Nat /\ (r + 1) * Q = x + Q
      <4> HIDE DEF Q
      <4> QED
        BY <3>1
    <3>3. s[i] = x + Q
      BY <1>2, <2>2
    <3>4. y = (IF i = 1 THEN 1 ELSE 0) /\ s1[i] = (IF i = 1 THEN s[i] + 1 ELSE s[i])
      BY <2>3, <2>4
    <3> HIDE DEF Q, x, y
    <3>5. s1[i] = (x + Q) + y /\ y <= Q
      BY <3>1, <3>2, <3>3, <3>4
    <3> QED
      BY <3>2, <3>5 DEF Q, y
  <2>7. SharesExact'
    BY <2>5, <2>6 DEF SharesExact
  <2> QED
    BY <1>1, <2>3, <2>4, <2>5, <2>7 DEF ShareInv
<1> QED
  BY <1>3, <1>4

\* Every operation of the controller keeps it.
LEMMA SsdNextInv == ShareInv /\ SsdNext => ShareInv'
<1> SUFFICES ASSUME ShareInv, SsdNext PROVE ShareInv'
  OBVIOUS
<1>1. CASE ssdc_qos_select_queue
  BY <1>1, SelectInv
<1>2. /\ DOMAIN ssdm' = SsdFields /\ ssdm'.consumed = ssdm.consumed /\ ssdm'.served = ssdm.served
      /\ ssdm'.rounds = ssdm.rounds
      => ShareInv'
  BY DEF ShareInv, SharesExact
<1>3. DOMAIN ssdm = SsdFields
  BY DEF ShareInv
<1>4. ASSUME NEW idle \in IdleTimes, ssdc_power_auto_transition(idle)
      PROVE  ShareInv'
  <2>1. PICK target : ssdm' = ssdc_power_transition(ssdm, target)
    BY <1>4, SMT DEF ssdc_power_auto_transition
  <2>2. CASE target = ssdm.state
    <3>1. ssdm' = [ssdm EXCEPT !.latency = 0]
      BY <2>1, <2>2 DEF ssdc_power_transition
    <3> QED
      BY <1>2, <1>3, <3>1 DEF SsdFields
  <2>3. CASE target # ssdm.state
    <3> DEFINE l == exit_latency_us[ssdm.state + 1] + entry_latency_us[target + 1]
    <3>1. ssdm' = [ssdm EXCEPT !.state = target, !.latency = l]
      BY <2>1, <2>3, Zenon DEF ssdc_power_transition
    <3> HIDE DEF l
    <3> QED
      BY <1>2, <1>3, <3>1 DEF SsdFields
  <2> QED
    BY <2>2, <2>3
<1>5. ASSUME NEW t \in Temperatures, ssdc_thermal_update(t)
      PROVE  ShareInv'
  <2> DEFINE cr == ssdm.critical \/ t >= 85
             th == IF t >= 85 THEN 0 ELSE IF t >= 70 THEN 100 - (100 * (t - 70)) \div 15 ELSE 100
  <2>1. ssdm' = [ssdm EXCEPT !.temperature = t, !.critical = @ \/ t >= 85, !.throttle = th]
    BY <1>5 DEF ssdc_thermal_update
  <2> HIDE DEF th
  <2> QED
    BY <1>2, <1>3, <2>1 DEF SsdFields
<1> QED
  BY <1>1, <1>4, <1>5 DEF SsdNext
--------------------------------------------------------------------------------
(* The choices of the garbage collector. *)

\* What is more stays more, times a positive number.
LEMMA TimesKeepsOrder ==
  ASSUME NEW a \in Nat, NEW b \in Nat, NEW c \in Nat \ {0}
  PROVE  /\ a * c \in Nat /\ b * c \in Nat
         /\ a > b => a * c > b * c
         /\ a <= b => a * c <= b * c
<1>1. a * c \in Nat /\ b * c \in Nat
  OBVIOUS
<1>2. ASSUME a > b PROVE a * c > b * c
  <2>1. b + 1 <= a
    BY <1>2
  <2>2. (b + 1) * c <= a * c
    BY <2>1
  <2>3. (b + 1) * c = b * c + c
    OBVIOUS
  <2> QED
    BY <1>1, <2>2, <2>3
<1>3. ASSUME a <= b PROVE a * c <= b * c
  BY <1>3
<1> QED
  BY <1>1, <1>2, <1>3

\* If one fraction is not above a second, and a third is, the first is not above the third.
LEMMA FractionsOrdered ==
  ASSUME NEW nj \in Nat, NEW nb \in Nat, NEW nm \in Nat,
         NEW dj \in Nat \ {0}, NEW db \in Nat \ {0}, NEW dm \in Nat \ {0},
         ~(nj * db > nb * dj), nm * db > nb * dm
  PROVE  ~(nj * dm > nm * dj)
<1> DEFINE x == nj * dm
           y == nm * dj
           u == nb * dm
           w == nm * db
           p == nj * db
           s == nb * dj
<1>1. x \in Nat /\ y \in Nat /\ u \in Nat /\ w \in Nat /\ p \in Nat /\ s \in Nat
  OBVIOUS
<1>2. p * dm <= s * dm
  <2> HIDE DEF p, s
  <2>1. p <= s
    BY <1>1 DEF p, s
  <2> QED
    BY <1>1, <2>1, TimesKeepsOrder
<1>3. u * dj <= w * dj
  <2>1. u <= w
    BY <1>1
  <2> HIDE DEF u, w
  <2> QED
    BY <1>1, <2>1, TimesKeepsOrder
<1>4. p * dm = x * db /\ s * dm = u * dj /\ w * dj = y * db
  OBVIOUS
<1>5. x * db <= y * db
  <2>1. p * dm \in Nat /\ s * dm \in Nat /\ u * dj \in Nat /\ w * dj \in Nat
    BY <1>1
  <2> HIDE DEF p, s, u, w, x, y
  <2> QED
    BY <1>2, <1>3, <1>4, <2>1
<1>6. ~(x > y)
  <2> HIDE DEF x, y
  <2>1. x > y => x * db > y * db
    BY <1>1, TimesKeepsOrder
  <2>2. x * db \in Nat /\ y * db \in Nat
    BY <1>1
  <2> QED
    BY <1>5, <2>1, <2>2
<1> QED
  BY <1>6

\* Of finitely many fractions one is such that none is above it.
LEMMA BestFraction ==
  ASSUME NEW n \in Nat, NEW S \in SUBSET (0 .. n), S # {},
         NEW num \in [S -> Nat], NEW den \in [S -> Nat \ {0}]
  PROVE  \E b \in S : \A j \in S : ~(num[j] * den[b] > num[b] * den[j])
<1> DEFINE T(k)    == S \cap (0 .. k)
           Best(k) == \E b \in T(k) : \A j \in T(k) : ~(num[j] * den[b] > num[b] * den[j])
           K == {k \in Nat : T(k) # {} /\ ~Best(k)}
<1>1. K = {}
  <2> SUFFICES ASSUME K # {} PROVE FALSE
    OBVIOUS
  <2>1. PICK m \in K : \A k \in K : m <= k
    BY LeastElement
  <2>2. m \in Nat /\ T(m) # {} /\ ~Best(m)
    BY <2>1
  <2>3. CASE m = 0 \/ T(m - 1) = {}
    <3>1. PICK b \in T(m) : TRUE
      BY <2>2
    <3>2. \A j \in T(m) : j = b
      BY <2>2, <2>3, <3>1
    <3>3. ~(num[b] * den[b] > num[b] * den[b])
      <4>1. num[b] \in Nat /\ den[b] \in Nat
        BY <3>1
      <4>2. num[b] * den[b] \in Nat
        BY <4>1
      <4> QED
        BY <4>2
    <3> QED
      BY <2>2, <3>1, <3>2, <3>3
  <2>4. CASE m # 0 /\ T(m - 1) # {}
    <3>1. m - 1 \in Nat /\ ~(m <= m - 1)
      BY <2>2, <2>4
    <3>2. Best(m - 1)
      <4>1. m - 1 \notin K
        BY <2>1, <3>1
      <4> QED
        BY <2>4, <3>1, <4>1
    <3>3. PICK b \in T(m - 1) : \A j \in T(m - 1) : ~(num[j] * den[b] > num[b] * den[j])
      BY <3>2
    <3>4. \A j \in T(m) : j \in T(m - 1) \/ j = m
      BY <2>2
    <3>5. b \in T(m)
      BY <2>2, <3>1, <3>3
    <3>6. m \in S /\ num[m] * den[b] > num[b] * den[m]
      BY <2>2, <3>3, <3>4, <3>5
    <3>7. m \in T(m) /\ num[m] \in Nat /\ den[m] \in Nat \ {0} /\ num[b] \in Nat /\ den[b] \in Nat \ {0}
      BY <2>2, <3>5, <3>6
    <3>8. ASSUME NEW j \in T(m) PROVE ~(num[j] * den[m] > num[m] * den[j])
      <4>1. CASE j = m
        <5>1. num[m] * den[m] \in Nat
          BY <3>7
        <5> QED
          BY <4>1, <5>1
      <4>2. CASE j # m
        <5>1. /\ j \in T(m - 1) /\ num[j] \in Nat /\ den[j] \in Nat \ {0}
          BY <3>4, <4>2
        <5>2. ~(num[j] * den[b] > num[b] * den[j])
          BY <3>3, <5>1
        <5> QED
          BY <3>6, <3>7, <5>1, <5>2, FractionsOrdered
      <4> QED
        BY <4>1, <4>2
    <3> QED
      BY <2>2, <3>7, <3>8
  <2> QED
    BY <2>3, <2>4
<1>2. T(n) = S
  OBVIOUS
<1> QED
  BY <1>1, <1>2

\* The age of a block last chosen before now.
LEMMA AgeIs ==
  ASSUME NEW now \in Nat, NEW c \in Nat, c < now
  PROVE  Max({now - c, 1}) = now - c
<1> DEFINE S == {now - c, 1}
<1>1. now - c \in S /\ \A y \in S : now - c >= y
  OBVIOUS
<1>2. \A x \in S : (\A y \in S : x >= y) => x = now - c
  OBVIOUS
<1> HIDE DEF S
<1>3. Max(S) \in S /\ \A y \in S : Max(S) >= y
  BY <1>1 DEF Max
<1>4. Max(S) = now - c
  BY <1>2, <1>3
<1> QED
  BY <1>4 DEF S

\* The score of a block with a page to gain is a fraction.
LEMMA ScoreIs ==
  ASSUME NEW b \in GcBlock, NEW now \in Nat, b.cleaned < now, b.valid < GcPages
  PROVE  /\ gc_cost_benefit_score(b, now).num \in Nat /\ gc_cost_benefit_score(b, now).den \in Nat \ {0}
         /\ gc_cost_benefit_score(b, now)
               = IF b.valid = 0 THEN [num |-> 100 * (now - b.cleaned), den |-> 1]
                 ELSE [num |-> (GcPages - b.valid) * (now - b.cleaned), den |-> 2 * b.valid]
<1> DEFINE age == Max({now - b.cleaned, 1})
           free == GcPages - b.valid
<1>1. GcPages \in Nat /\ b.valid \in 0 .. GcPages /\ b.cleaned \in Nat
  BY GcChoiceAssumption DEF GcBlock
<1>2. age = now - b.cleaned /\ age \in Nat /\ free \in Nat
  <2> DEFINE c == b.cleaned
  <2>1. c \in Nat /\ c < now
    BY <1>1
  <2> HIDE DEF c
  <2>2. Max({now - c, 1}) = now - c
    BY <2>1, AgeIs, Zenon
  <2>3. age = now - c
    BY <2>2, Zenon DEF c
  <2> HIDE DEF age
  <2> QED
    BY <1>1, <2>1, <2>3 DEF c
<1>3. gc_cost_benefit_score(b, now)
         = IF b.valid = 0 THEN [num |-> 100 * age, den |-> 1] ELSE [num |-> free * age, den |-> 2 * b.valid]
  BY DEF gc_cost_benefit_score
<1> HIDE DEF age, free
<1>4. 100 * age \in Nat /\ free * age \in Nat
  BY <1>2
<1>5. b.valid # 0 => 2 * b.valid \in Nat \ {0}
  BY <1>1
<1>6. CASE b.valid = 0
  BY <1>2, <1>3, <1>4, <1>6
<1>7. CASE b.valid # 0
  BY <1>2, <1>3, <1>4, <1>5, <1>7 DEF free
<1> QED
  BY <1>6, <1>7

\* Of two blocks with as many valid pages the one chosen longer ago scores more.
LEMMA OlderScoresMore ==
  ASSUME NEW a \in GcBlock, NEW b \in GcBlock, NEW now \in Nat, a.valid = b.valid, b.valid < GcPages,
         a.cleaned < b.cleaned, b.cleaned < now
  PROVE  Above(gc_cost_benefit_score(a, now), gc_cost_benefit_score(b, now))
<1> DEFINE x == now - a.cleaned
           y == now - b.cleaned
           v == b.valid
           f == GcPages - v
<1>1. a.cleaned \in Nat /\ b.cleaned \in Nat /\ v \in Nat /\ GcPages \in Nat
  BY GcChoiceAssumption DEF GcBlock
<1>2. x \in Nat /\ y \in Nat /\ x > y /\ f \in Nat \ {0}
  BY <1>1
<1>3. a.cleaned < now
  BY <1>1
<1>4. /\ gc_cost_benefit_score(a, now) = IF v = 0 THEN [num |-> 100 * x, den |-> 1]
                                         ELSE [num |-> f * x, den |-> 2 * v]
      /\ gc_cost_benefit_score(b, now) = IF v = 0 THEN [num |-> 100 * y, den |-> 1]
                                         ELSE [num |-> f * y, den |-> 2 * v]
  BY <1>3, ScoreIs
<1> HIDE DEF x, y, v, f
<1>5. CASE v = 0
  <2>1. (100 * x) * 1 > (100 * y) * 1
    BY <1>2
  <2> QED
    BY <1>4, <1>5, <2>1 DEF Above
<1>6. CASE v # 0
  <2> DEFINE p == f * x
             q == f * y
             d == 2 * v
  <2>1. d \in Nat \ {0}
    BY <1>1, <1>6
  <2>2. p \in Nat /\ q \in Nat /\ p > q
    <3>1. x * f > y * f /\ x * f \in Nat /\ y * f \in Nat
      BY <1>2, TimesKeepsOrder
    <3>2. p = x * f /\ q = y * f
      BY <1>2
    <3> QED
      BY <3>1, <3>2
  <2>3. gc_cost_benefit_score(a, now) = [num |-> p, den |-> d] /\ gc_cost_benefit_score(b, now) = [num |-> q, den |-> d]
    BY <1>4, <1>6
  <2> HIDE DEF p, q, d
  <2>4. p * d > q * d
    BY <2>1, <2>2, TimesKeepsOrder
  <2> QED
    BY <2>3, <2>4 DEF Above
<1> QED
  BY <1>5, <1>6

Gaining(blocks, i) == Used(blocks[i]) /\ blocks[i].valid < GcPages

\* Between two choices of a block, every other one with as many valid pages is chosen.
Alternate(blocks, t, v) ==
  \A k \in 1 .. t, m \in 1 .. t :
     (k < m /\ v[k] = v[m] /\ v[k] # NoBlock) =>
        \A i \in DOMAIN blocks :
           (Gaining(blocks, i) /\ blocks[i].valid = blocks[v[k]].valid /\ i # v[k])
              => \E n \in k + 1 .. m - 1 : v[n] = i

\* The victims have pages to gain, and a block knows when it was last chosen.
ChoicesInv(blocks, t, v) ==
  /\ t \in Nat /\ v \in Seq(Int) /\ Len(v) = t
  /\ \E n \in Nat : blocks \in [0 .. n -> GcBlock]
  /\ \A k \in 1 .. t : v[k] = NoBlock \/ (v[k] \in DOMAIN blocks /\ Gaining(blocks, v[k]))
  /\ \A i \in DOMAIN blocks : /\ blocks[i].cleaned <= t
                              /\ blocks[i].cleaned > 0 => v[blocks[i].cleaned] = i
                              /\ \A k \in 1 .. t : v[k] = i => k <= blocks[i].cleaned
  /\ Alternate(blocks, t, v)

\* Choosing no block, as there is none to choose.
LEMMA NoChoiceInv ==
  ASSUME NEW blocks, NEW t \in Nat, NEW v \in Seq(Int), ChoicesInv(blocks, t, v)
  PROVE  ChoicesInv(blocks, t + 1, Append(v, NoBlock))
<1> DEFINE w == Append(v, NoBlock)
<1>1. Len(v) = t
  BY DEF ChoicesInv
<1>2. w \in Seq(Int) /\ Len(w) = t + 1 /\ w[t + 1] = NoBlock /\ \A k \in 1 .. t : w[k] = v[k]
  BY <1>1 DEF NoBlock
<1> HIDE DEF w
<1>3. \A k \in 1 .. t + 1 : k \in 1 .. t \/ k = t + 1
  OBVIOUS
<1>4. PICK n \in Nat : blocks \in [0 .. n -> GcBlock]
  BY DEF ChoicesInv
<1>5. \A i \in DOMAIN blocks : i \in 0 .. n /\ i # NoBlock /\ blocks[i].cleaned \in Nat
  BY <1>4 DEF NoBlock, GcBlock
<1>6. \A k \in 1 .. t + 1 : w[k] = NoBlock \/ (w[k] \in DOMAIN blocks /\ Gaining(blocks, w[k]))
  BY <1>2, <1>3 DEF ChoicesInv
<1>7. ASSUME NEW i \in DOMAIN blocks
      PROVE  /\ blocks[i].cleaned <= t + 1
             /\ blocks[i].cleaned > 0 => w[blocks[i].cleaned] = i
             /\ \A k \in 1 .. t + 1 : w[k] = i => k <= blocks[i].cleaned
  <2>1. /\ blocks[i].cleaned <= t
        /\ blocks[i].cleaned > 0 => v[blocks[i].cleaned] = i
        /\ \A k \in 1 .. t : v[k] = i => k <= blocks[i].cleaned
    BY DEF ChoicesInv
  <2> QED
    BY <1>2, <1>3, <1>5, <2>1, SMTT(30)
<1>8. Alternate(blocks, t + 1, w)
  <2> SUFFICES ASSUME NEW k \in 1 .. t + 1, NEW m \in 1 .. t + 1, k < m, w[k] = w[m], w[k] # NoBlock,
                      NEW i \in DOMAIN blocks, Gaining(blocks, i), blocks[i].valid = blocks[w[k]].valid, i # w[k]
               PROVE  \E l \in k + 1 .. m - 1 : w[l] = i
    BY DEF Alternate
  <2>1. k \in 1 .. t /\ m \in 1 .. t
    BY <1>2, <1>3
  <2>2. PICK l \in k + 1 .. m - 1 : v[l] = i
    BY <1>2, <2>1 DEF ChoicesInv, Alternate
  <2>3. l \in 1 .. t
    BY <2>1
  <2> QED
    BY <1>2, <2>2, <2>3
<1>9. t + 1 \in Nat
  OBVIOUS
<1>10. ChoicesInv(blocks, t + 1, w)
  BY <1>2, <1>4, <1>6, <1>7, <1>8, <1>9, Zenon DEF ChoicesInv
<1> QED
  BY <1>10 DEF w

\* Choosing a block of the best score: one with as many valid pages that was not chosen
\* since the block was would score more.
LEMMA ChoiceInv ==
  ASSUME NEW blocks, NEW t \in Nat, NEW v \in Seq(Int), ChoicesInv(blocks, t, v),
         NEW b \in DOMAIN blocks, Gaining(blocks, b),
         \A i \in DOMAIN blocks : Gaining(blocks, i) =>
            ~Above(gc_cost_benefit_score(blocks[i], t + 1), gc_cost_benefit_score(blocks[b], t + 1)),
         NEW new, new = [blocks EXCEPT ![b].cleaned = t + 1]
  PROVE  ChoicesInv(new, t + 1, Append(v, b))
<1> DEFINE w == Append(v, b)
<1>1. PICK n \in Nat : blocks \in [0 .. n -> GcBlock]
  BY DEF ChoicesInv
<1>2. b \in 0 .. n /\ t + 1 \in Nat /\ DOMAIN blocks = 0 .. n
  BY <1>1
<1>3. /\ new \in [0 .. n -> GcBlock]
      /\ \A i \in 0 .. n : /\ new[i].state = blocks[i].state /\ new[i].valid = blocks[i].valid
                           /\ new[i].cleaned = IF i = b THEN t + 1 ELSE blocks[i].cleaned
  <2> DEFINE now == t + 1
             c == [blocks[b] EXCEPT !.cleaned = now]
  <2>1. blocks[b] \in GcBlock /\ now \in Nat
    BY <1>1, <1>2
  <2> HIDE DEF now
  <2>2. c \in GcBlock /\ c.state = blocks[b].state /\ c.valid = blocks[b].valid /\ c.cleaned = now
    BY <2>1 DEF GcBlock
  <2>3. new = [blocks EXCEPT ![b] = c]
    BY DEF now
  <2> HIDE DEF c
  <2>4. new \in [0 .. n -> GcBlock] /\ \A i \in 0 .. n : new[i] = IF i = b THEN c ELSE blocks[i]
    BY <1>1, <1>2, <2>2, <2>3
  <2> QED
    BY <2>2, <2>4 DEF now
<1>4. w \in Seq(Int) /\ Len(w) = t + 1 /\ w[t + 1] = b /\ \A k \in 1 .. t : w[k] = v[k]
  <2>1. Len(v) = t /\ b \in Int
    BY <1>2 DEF ChoicesInv
  <2> QED
    BY <2>1
<1> HIDE DEF w
<1>5. \A k \in 1 .. t + 1 : k \in 1 .. t \/ k = t + 1
  OBVIOUS
<1>6. \A i \in 0 .. n : Gaining(new, i) <=> Gaining(blocks, i)
  BY <1>3 DEF Gaining, Used
<1>7. DOMAIN new = 0 .. n
  BY <1>3
<1>8. \A i \in 0 .. n : i \in Nat /\ blocks[i].cleaned \in Nat /\ i # NoBlock
  BY <1>1 DEF GcBlock, NoBlock
<1>9. \A i \in 0 .. n : /\ blocks[i].cleaned <= t
                        /\ blocks[i].cleaned > 0 => v[blocks[i].cleaned] = i
                        /\ \A k \in 1 .. t : v[k] = i => k <= blocks[i].cleaned
  BY <1>2 DEF ChoicesInv
<1>10. ASSUME NEW k \in 1 .. t + 1
       PROVE  w[k] = NoBlock \/ (w[k] \in DOMAIN new /\ Gaining(new, w[k]))
  <2>1. CASE k \in 1 .. t
    <3>1. w[k] = v[k] /\ (v[k] = NoBlock \/ (v[k] \in DOMAIN blocks /\ Gaining(blocks, v[k])))
      BY <1>4, <2>1 DEF ChoicesInv
    <3> QED
      BY <1>2, <1>6, <1>7, <3>1
  <2>2. CASE k = t + 1
    BY <1>2, <1>4, <1>6, <1>7, <2>2
  <2> QED
    BY <1>5, <2>1, <2>2
<1>11. ASSUME NEW i \in DOMAIN new
       PROVE  /\ new[i].cleaned <= t + 1
              /\ new[i].cleaned > 0 => w[new[i].cleaned] = i
              /\ \A k \in 1 .. t + 1 : w[k] = i => k <= new[i].cleaned
  <2>1. i \in 0 .. n /\ blocks[i].cleaned \in Nat
    BY <1>7, <1>8
  <2>2. CASE i = b
    <3>1. new[i].cleaned = t + 1
      BY <1>3, <2>1, <2>2
    <3>2. w[new[i].cleaned] = i
      BY <1>4, <2>2, <3>1
    <3>3. \A k \in 1 .. t + 1 : k <= new[i].cleaned
      BY <3>1
    <3>4. new[i].cleaned <= t + 1
      BY <1>2, <3>1
    <3> QED
      BY <3>2, <3>3, <3>4, Zenon
  <2>3. CASE i # b
    <3>1. new[i].cleaned = blocks[i].cleaned
      BY <1>3, <2>1, <2>3
    <3>2. /\ blocks[i].cleaned <= t
          /\ blocks[i].cleaned > 0 => v[blocks[i].cleaned] = i
          /\ \A k \in 1 .. t : v[k] = i => k <= blocks[i].cleaned
      BY <1>9, <2>1
    <3> DEFINE c == blocks[i].cleaned
    <3>3. c \in Nat /\ c <= t /\ c <= t + 1 /\ (c > 0 => c \in 1 .. t)
      BY <2>1, <3>2
    <3>4. c > 0 => w[c] = i
      BY <1>4, <3>2, <3>3
    <3>5. \A k \in 1 .. t + 1 : w[k] = i => k <= c
      BY <1>4, <1>5, <2>3, <3>2
    <3> HIDE DEF c
    <3>6. new[i].cleaned = c
      BY <3>1, Zenon DEF c
    <3> QED
      BY <3>3, <3>4, <3>5, <3>6, Zenon
  <2> QED
    BY <2>2, <2>3
<1>12. Alternate(new, t + 1, w)
  <2> SUFFICES ASSUME NEW k \in 1 .. t + 1, NEW m \in 1 .. t + 1, k < m, w[k] = w[m], w[k] # NoBlock,
                      NEW i \in DOMAIN new, Gaining(new, i), new[i].valid = new[w[k]].valid, i # w[k]
               PROVE  \E l \in k + 1 .. m - 1 : w[l] = i
    BY DEF Alternate
  <2>1. k \in 1 .. t /\ w[k] = v[k] /\ i \in 0 .. n
    BY <1>4, <1>7
  <2>2. v[k] \in 0 .. n
    BY <1>2, <2>1 DEF ChoicesInv
  <2>3. Gaining(blocks, i) /\ blocks[i].valid = blocks[v[k]].valid
    BY <1>3, <1>6, <2>1, <2>2
  <2>4. CASE m \in 1 .. t
    <3>1. w[m] = v[m]
      BY <1>4, <2>4
    <3>2. v[k] = v[m] /\ v[k] # NoBlock /\ i # v[k] /\ i \in DOMAIN blocks
      BY <1>2, <2>1, <3>1
    <3>3. Alternate(blocks, t, v)
      BY Zenon DEF ChoicesInv
    <3>4. PICK l \in k + 1 .. m - 1 : v[l] = i
      BY <2>1, <2>3, <2>4, <3>2, <3>3, Zenon DEF Alternate
    <3>5. l \in 1 .. t
      BY <2>4
    <3> QED
      BY <1>4, <3>4, <3>5
  <2>5. CASE m = t + 1
    <3>1. v[k] = b
      BY <1>4, <2>1, <2>5
    <3>2. k <= blocks[b].cleaned
      BY <1>2, <1>9, <2>1, <3>1
    <3>3. ~(blocks[i].cleaned < blocks[b].cleaned)
      <4>1. blocks[i] \in GcBlock /\ blocks[b] \in GcBlock
        BY <1>1, <1>2, <2>1
      <4>2. blocks[b].cleaned < t + 1 /\ blocks[b].valid < GcPages
        BY <1>2, <1>8, <1>9 DEF Gaining
      <4>3. ~Above(gc_cost_benefit_score(blocks[i], t + 1), gc_cost_benefit_score(blocks[b], t + 1))
        BY <1>2, <2>1, <2>3
      <4> QED
        BY <1>2, <2>3, <3>1, <4>1, <4>2, <4>3, OlderScoresMore
    <3>4. /\ blocks[i].cleaned \in Nat /\ blocks[b].cleaned \in Nat /\ blocks[i].cleaned <= t
          /\ blocks[i].cleaned > 0 => v[blocks[i].cleaned] = i
      BY <1>2, <1>8, <1>9, <2>1
    <3> DEFINE l == blocks[i].cleaned
    <3>5. l \in 1 .. t /\ l >= k /\ v[l] = i
      BY <2>1, <3>2, <3>3, <3>4
    <3>6. l # k
      BY <2>1, <3>5
    <3> HIDE DEF l
    <3>7. w[l] = i
      BY <1>4, <3>5
    <3>8. l \in k + 1 .. m - 1
      <4>1. k \in Nat /\ m = t + 1 /\ l \in 1 .. t /\ l >= k /\ l # k
        BY <2>1, <2>5, <3>5, <3>6
      <4> HIDE DEF w
      <4> QED
        BY <1>2, <4>1
    <3> QED
      BY <3>7, <3>8
  <2> QED
    BY <1>5, <2>4, <2>5
<1>13. ChoicesInv(new, t + 1, w)
  BY <1>2, <1>3, <1>4, <1>10, <1>11, <1>12, Zenon DEF ChoicesInv
<1> QED
  BY <1>13 DEF w

\* Among blocks with a page to gain one scores best, and it is chosen.
LEMMA BestScoreIs ==
  ASSUME NEW n \in Nat, NEW blocks \in [0 .. n -> GcBlock], NEW now \in Nat,
         NEW able, able = {i \in 0 .. n : Gaining(blocks, i)}, able # {},
         \A i \in 0 .. n : blocks[i].cleaned < now
  PROVE  /\ Min(BestScores(blocks, able, now)) \in able
         /\ \A i \in able : ~Above(gc_cost_benefit_score(blocks[i], now),
                                   gc_cost_benefit_score(blocks[Min(BestScores(blocks, able, now))], now))
<1> DEFINE num == [i \in able |-> gc_cost_benefit_score(blocks[i], now).num]
           den == [i \in able |-> gc_cost_benefit_score(blocks[i], now).den]
           B   == BestScores(blocks, able, now)
<1>1. able \in SUBSET (0 .. n)
  OBVIOUS
<1>2. num \in [able -> Nat] /\ den \in [able -> Nat \ {0}]
  <2>1. ASSUME NEW i \in able
        PROVE  gc_cost_benefit_score(blocks[i], now).num \in Nat /\ gc_cost_benefit_score(blocks[i], now).den \in Nat \ {0}
    <3>1. blocks[i] \in GcBlock /\ blocks[i].cleaned < now /\ blocks[i].valid < GcPages
      BY DEF Gaining
    <3> QED
      BY <3>1, ScoreIs, Zenon
  <2> QED
    BY <2>1
<1>3. PICK b \in able : \A j \in able : ~(num[j] * den[b] > num[b] * den[j])
  <2> HIDE DEF num, den
  <2> QED
    BY <1>1, <1>2, BestFraction
<1>4. b \in B
  <2>1. ASSUME NEW j \in able
        PROVE  ~Above(gc_cost_benefit_score(blocks[j], now), gc_cost_benefit_score(blocks[b], now))
    BY <1>3 DEF Above
  <2> QED
    BY <2>1, Zenon DEF BestScores
<1>5. B \in SUBSET Nat /\ B # {} /\ B \subseteq able
  BY <1>1, <1>4 DEF BestScores
<1> HIDE DEF B
<1>6. Min(B) \in B
  BY <1>5, MinIs, Zenon
<1>7. \A m \in B : m \in able /\ \A i \in able : ~Above(gc_cost_benefit_score(blocks[i], now), gc_cost_benefit_score(blocks[m], now))
  BY Zenon DEF B, BestScores
<1>8. Min(B) \in able /\ \A i \in able : ~Above(gc_cost_benefit_score(blocks[i], now), gc_cost_benefit_score(blocks[Min(B)], now))
  BY <1>6, <1>7, Zenon
<1> QED
  BY <1>8, Zenon DEF B

\* Max of a set of naturals that has an upper bound is in the set.
LEMMA MaxIs ==
  ASSUME NEW S \in SUBSET Nat, S # {}, NEW B \in Nat, \A n \in S : n <= B
  PROVE  Max(S) \in S /\ \A n \in S : Max(S) >= n
<1> DEFINE D == {B - n : n \in S}
<1>1. D \in SUBSET Nat /\ D # {}
  <2>1. \A n \in S : B - n \in Nat
    OBVIOUS
  <2>2. D # {}
    OBVIOUS
  <2>3. \A x \in D : x \in Nat
    BY <2>1
  <2> QED
    BY <2>2, <2>3, Zenon
<1>2. PICK d \in D : \A e \in D : d <= e
  BY <1>1, LeastElement
<1>3. PICK m \in S : d = B - m
  BY <1>2
<1>4. \A n \in S : m >= n
  <2> SUFFICES ASSUME NEW n \in S PROVE m >= n
    OBVIOUS
  <2>1. B - m <= B - n
    BY <1>2, <1>3
  <2> QED
    BY <2>1
<1> QED
  BY <1>3, <1>4 DEF Max

\* The block chosen for its little wear has invalid pages.
LEMMA WearAwareGains ==
  ASSUME NEW n \in Nat, NEW blocks \in [0 .. n -> GcBlock],
         NEW w, w = gc_select_wear_aware(blocks, NoBlock), w # NoBlock
  PROVE  blocks[w].invalid > 0
<1> DEFINE invalids == {0} \cup {blocks[i].invalid : i \in {j \in DOMAIN blocks : blocks[j].state # "BAD"}}
           target == Max(invalids)
           able == {i \in DOMAIN blocks : Used(blocks[i]) /\ blocks[i].invalid >= target \div 2}
           least == {i \in able : \A j \in able : blocks[i].erased <= blocks[j].erased}
<1>1. /\ GcPages \in Nat /\ GcPages >= 20 /\ DOMAIN blocks = 0 .. n
      /\ \A i \in 0 .. n : blocks[i].invalid \in 0 .. GcPages /\ blocks[i].erased \in Nat
  BY GcChoiceAssumption DEF GcBlock
<1>2. target \in Nat
  <2>1. invalids \in SUBSET Nat /\ invalids # {} /\ \A x \in invalids : x <= GcPages
    BY <1>1
  <2> HIDE DEF invalids
  <2>2. Max(invalids) \in invalids
    BY <1>1, <2>1, MaxIs, Zenon
  <2> QED
    BY <2>1, <2>2
<1>3. w = IF target < GcPages \div 10 THEN NoBlock ELSE IF able = {} THEN NoBlock ELSE Min(least)
  BY Zenon DEF gc_select_wear_aware
<1> HIDE DEF target
<1>4. ~(target < GcPages \div 10) /\ able # {} /\ w = Min(least)
  BY <1>3, Zenon
<1>5. target \div 2 >= 1 /\ target \div 2 \in Nat
  BY <1>1, <1>2, <1>4
<1>6. least # {}
  <2> DEFINE wear == {blocks[i].erased : i \in able}
  <2>1. wear \in SUBSET Nat /\ wear # {}
    BY <1>1, <1>4
  <2>2. PICK e \in wear : \A f \in wear : e <= f
    BY <2>1, LeastElement
  <2>3. PICK i \in able : e = blocks[i].erased
    BY <2>2
  <2>4. \A j \in able : blocks[i].erased <= blocks[j].erased
    BY <2>2, <2>3
  <2>5. i \in least
    BY <2>4
  <2> QED
    BY <2>5, Zenon
<1>7. least \in SUBSET Nat /\ least \subseteq able
  BY <1>1
<1>8. w \in able
  <2> HIDE DEF least, able
  <2>1. Min(least) \in least
    BY <1>6, <1>7, MinIs, Zenon
  <2> QED
    BY <1>4, <1>7, <2>1
<1>9. w \in 0 .. n /\ blocks[w].invalid >= target \div 2
  BY <1>1, <1>8
<1> QED
  BY <1>1, <1>5, <1>9

VictimInv ==
  /\ DOMAIN gcs = {"blocks", "gc_time", "victims"}
  /\ ChoicesInv(gcs.blocks, gcs.gc_time, gcs.victims)

\* It holds before any choice.
LEMMA VictimInitInv ==
  (\E blocks \in GcBlocks : gcs = [blocks |-> blocks, gc_time |-> 0, victims |-> << >>]) => VictimInv
<1> SUFFICES ASSUME NEW blocks \in GcBlocks, gcs = [blocks |-> blocks, gc_time |-> 0, victims |-> << >>]
             PROVE  VictimInv
  OBVIOUS
<1>1. PICK n \in Nat : blocks \in [0 .. n -> GcBlock] /\ \A i \in 0 .. n : blocks[i].cleaned = 0
  <2> DEFINE m == Cardinality(DOMAIN blocks) - 1
  <2>1. m \in Nat /\ blocks \in [0 .. m -> GcBlock] /\ \A i \in 0 .. m : blocks[i].cleaned = 0
    BY GcChoiceAssumption, Zenon
  <2> HIDE DEF m
  <2> QED
    BY <2>1
<1>2. DOMAIN gcs = {"blocks", "gc_time", "victims"} /\ gcs.blocks = blocks /\ gcs.gc_time = 0 /\ gcs.victims = << >>
  OBVIOUS
<1>3. << >> \in Seq(Int) /\ Len(<< >>) = 0
  OBVIOUS
<1>4. \A i \in DOMAIN blocks : blocks[i].cleaned = 0
  BY <1>1
<1>5. Alternate(blocks, 0, << >>)
  BY DEF Alternate
<1>6. ChoicesInv(blocks, 0, << >>)
  BY <1>1, <1>3, <1>4, <1>5 DEF ChoicesInv
<1> QED
  BY <1>2, <1>6 DEF VictimInv

\* A choice keeps it.
LEMMA GcChoiceNextInv == VictimInv /\ GcChoiceNext => VictimInv'
<1> SUFFICES ASSUME VictimInv, gc_select_cost_benefit PROVE VictimInv'
  BY DEF GcChoiceNext
<1> DEFINE blocks == gcs.blocks
           t == gcs.gc_time
           v == gcs.victims
           now == t + 1
           able == {i \in DOMAIN gcs.blocks : Used(gcs.blocks[i]) /\ gcs.blocks[i].valid < GcPages}
           best == Min(BestScores(gcs.blocks, able, now))
           new == IF able = {} THEN blocks ELSE [blocks EXCEPT ![best].cleaned = now]
           chosen == IF able = {} THEN NoBlock ELSE best
<1>1. /\ DOMAIN gcs = {"blocks", "gc_time", "victims"} /\ ChoicesInv(blocks, t, v)
      /\ t \in Nat /\ v \in Seq(Int)
  BY DEF VictimInv, ChoicesInv
<1>2. gcs' = [gcs EXCEPT !.gc_time = now, !.blocks = IF able = {} THEN @ ELSE [@ EXCEPT ![best].cleaned = now],
                         !.victims = Append(@, IF able = {} THEN NoBlock ELSE best)]
  BY Zenon DEF gc_select_cost_benefit
<1>3. gcs' = [gcs EXCEPT !.gc_time = now, !.blocks = new, !.victims = Append(v, chosen)]
  <2> HIDE DEF best, able, now
  <2> QED
    BY <1>1, <1>2
<1>4. DOMAIN gcs' = {"blocks", "gc_time", "victims"} /\ gcs'.blocks = new /\ gcs'.gc_time = now /\ gcs'.victims = Append(v, chosen)
  <2> HIDE DEF new, chosen, now, v
  <2> QED
    BY <1>1, <1>3
<1>5. ChoicesInv(new, now, Append(v, chosen))
  <2>1. CASE able = {}
    <3>1. new = blocks /\ chosen = NoBlock
      BY <2>1, Zenon
    <3> HIDE DEF new, chosen, blocks, t, v, able, best
    <3>2. ChoicesInv(blocks, t + 1, Append(v, NoBlock))
      BY <1>1, NoChoiceInv
    <3> QED
      BY <3>1, <3>2, Zenon
  <2>2. CASE able # {}
    <3>1. PICK n \in Nat : blocks \in [0 .. n -> GcBlock]
      BY <1>1 DEF ChoicesInv
    <3>2. DOMAIN blocks = 0 .. n /\ now \in Nat
      BY <1>1, <3>1
    <3>3. able = {i \in 0 .. n : Gaining(blocks, i)}
      BY <3>2 DEF Gaining
    <3>4. new = [blocks EXCEPT ![best].cleaned = now] /\ chosen = best
      BY <2>2, Zenon
    <3>5. \A i \in 0 .. n : blocks[i].cleaned < now
      <4> SUFFICES ASSUME NEW i \in 0 .. n PROVE blocks[i].cleaned < now
        OBVIOUS
      <4>1. blocks[i].cleaned <= t
        BY <1>1, <3>2 DEF ChoicesInv
      <4>2. blocks[i].cleaned \in Nat
        BY <3>1 DEF GcBlock
      <4> QED
        BY <1>1, <4>1, <4>2
    <3> HIDE DEF able, new, chosen, blocks, now
    <3>6. /\ best \in able
          /\ \A i \in able : ~Above(gc_cost_benefit_score(blocks[i], now), gc_cost_benefit_score(blocks[best], now))
      BY <2>2, <3>1, <3>2, <3>3, <3>5, BestScoreIs DEF blocks
    <3> HIDE DEF best, t, v
    <3>7. /\ best \in DOMAIN blocks /\ Gaining(blocks, best)
          /\ \A i \in DOMAIN blocks : Gaining(blocks, i) =>
                ~Above(gc_cost_benefit_score(blocks[i], t + 1), gc_cost_benefit_score(blocks[best], t + 1))
      BY <3>2, <3>3, <3>6 DEF now
    <3>8. new = [blocks EXCEPT ![best].cleaned = t + 1]
      BY <3>4 DEF now
    <3>9. ChoicesInv(new, t + 1, Append(v, best))
      BY <1>1, <3>7, <3>8, ChoiceInv
    <3> QED
      BY <3>4, <3>9, Zenon DEF now
  <2> QED
    BY <2>1, <2>2
<1>6. ChoicesInv(gcs'.blocks, gcs'.gc_time, gcs'.victims)
  BY <1>4, <1>5, Zenon
<1> QED
  BY <1>4, <1>6, Zenon DEF VictimInv, ChoicesInv, Alternate, Gaining, Used

\* What the invariant says of the choices is what is promised of them.
LEMMA VictimInvSuffices == VictimInv => VictimsReclaim
<1> SUFFICES ASSUME VictimInv PROVE VictimsReclaim
  OBVIOUS
<1>1. PICK n \in Nat : gcs.blocks \in [0 .. n -> GcBlock]
  BY DEF VictimInv, ChoicesInv
<1>2. DOMAIN gcs.victims = 1 .. gcs.gc_time
  BY DEF VictimInv, ChoicesInv
<1>3. \A k \in DOMAIN gcs.victims : gcs.victims[k] = NoBlock \/ Gaining(gcs.blocks, gcs.victims[k])
  BY <1>2 DEF VictimInv, ChoicesInv
<1>4. gc_select_wear_aware(gcs.blocks, NoBlock) # NoBlock
         => gcs.blocks[gc_select_wear_aware(gcs.blocks, NoBlock)].invalid > 0
  BY <1>1, WearAwareGains
<1>5. Alternate(gcs.blocks, gcs.gc_time, gcs.victims)
  BY DEF VictimInv, ChoicesInv
<1> QED
  BY <1>2, <1>3, <1>4, <1>5, Zenon DEF VictimsReclaim, Alternate, Gaining
--------------------------------------------------------------------------------
StorageQueuesInv == RingsInv /\ ArbInv /\ ShareInv /\ VictimInv

\* The four parts start with their invariants.
LEMMA StorageQueuesInitInv == StorageQueuesInit => StorageQueuesInv
BY RingsInitInv, ArbInitInv, ShareInitInv, VictimInitInv DEF StorageQueuesInit, StorageQueuesInv

\* No step of one part changes another.
LEMMA StorageQueuesNextInv == StorageQueuesInv /\ [StorageQueuesNext]_storageq_vars => StorageQueuesInv'
<1> SUFFICES ASSUME StorageQueuesInv, [StorageQueuesNext]_storageq_vars PROVE StorageQueuesInv'
  OBVIOUS
<1>1. RingsInv /\ ArbInv /\ ShareInv /\ VictimInv
  BY DEF StorageQueuesInv
<1>2. UNCHANGED nv => RingsInv'
  BY <1>1 DEF RingsInv
<1>3. UNCHANGED arb => ArbInv'
  BY <1>1 DEF ArbInv
<1>4. UNCHANGED ssdm => ShareInv'
  BY <1>1 DEF ShareInv, SharesExact
<1>5. UNCHANGED gcs => VictimInv'
  BY <1>1 DEF VictimInv
<1>6. CASE NvmeNext /\ UNCHANGED <<arb, ssdm, gcs>>
  BY <1>1, <1>3, <1>4, <1>5, <1>6, NvmeNextInv DEF StorageQueuesInv
<1>7. CASE ArbiterNext /\ UNCHANGED <<nv, ssdm, gcs>>
  BY <1>1, <1>2, <1>4, <1>5, <1>7, ArbiterNextInv DEF StorageQueuesInv
<1>8. CASE SsdNext /\ UNCHANGED <<nv, arb, gcs>>
  BY <1>1, <1>2, <1>3, <1>5, <1>8, SsdNextInv DEF StorageQueuesInv
<1>9. CASE GcChoiceNext /\ UNCHANGED <<nv, arb, ssdm>>
  BY <1>1, <1>2, <1>3, <1>4, <1>9, GcChoiceNextInv DEF StorageQueuesInv
<1>10. CASE UNCHANGED storageq_vars
  BY <1>2, <1>3, <1>4, <1>5, <1>10 DEF StorageQueuesInv, storageq_vars
<1> QED
  BY <1>6, <1>7, <1>8, <1>9, <1>10 DEF StorageQueuesNext

\* What the invariants say is what the parts promise.
LEMMA StorageQueuesInvSuffices == StorageQueuesInv => StorageQueuesSound
<1> SUFFICES ASSUME StorageQueuesInv PROVE StorageQueuesSound
  OBVIOUS
<1>1. RingsHold
  BY DEF StorageQueuesInv, RingsInv, RingsHold, Waiting
<1>2. EveryQueueItsTurn
  <2>1. arb.arb_burst > 0 => DOMAIN arb.turns = 1 .. Len(arb.turns)
    BY DEF StorageQueuesInv, ArbInv
  <2> QED
    BY <2>1 DEF StorageQueuesInv, ArbInv, EveryQueueItsTurn
<1>3. SharesExact
  BY DEF StorageQueuesInv, ShareInv
<1>4. VictimsReclaim
  BY VictimInvSuffices DEF StorageQueuesInv
<1> QED
  BY <1>1, <1>2, <1>3, <1>4 DEF StorageQueuesSound

\* For every size of the rings, number of queues, burst, weight and credits, and whatever
\* the blocks: no command is lost, duplicated or reordered, no queue is passed over, no class
\* gets more or less than its share and no victim is chosen in vain (src/nvme.c,
\* src/ssd_controller.c, src/gc.c).
THEOREM StorageQueuesCorrect == StorageQueuesSpec => []StorageQueuesSound
BY StorageQueuesInitInv, StorageQueuesNextInv, StorageQueuesInvSuffices, PTL DEF StorageQueuesSpec

--------------------------------------------------------------------------------
(* Flip-flops and latches. *)

\* The two outputs of each are opposite.
Outputs == [q : BOOLEAN, q_bar : BOOLEAN]
FlipInv ==
  /\ ff \in [dff : Outputs, reset : BOOLEAN, preset : BOOLEAN, jk : Outputs, t : Outputs, sr : Outputs, latch : Outputs]
  /\ \A o \in {ff.dff, ff.jk, ff.t, ff.sr, ff.latch} : o.q_bar = ~o.q

\* A pair of outputs is opposite, and is again when exchanged.
LEMMA OutIs ==
  /\ \A b \in BOOLEAN : Out(b) \in Outputs /\ Out(b).q_bar = ~Out(b).q
  /\ \A o \in Outputs : o.q_bar = ~o.q => Swapped(o) \in Outputs /\ Swapped(o).q_bar = ~Swapped(o).q
  BY DEF Out, Swapped, Outputs

\* Each input leaves the outputs opposite (sequential.c).
LEMMA FlipKeeps ==
  ASSUME FlipInv, FlipNext
  PROVE  FlipInv'
<1> USE DEF FlipInv
<1>0. PICK x \in BOOLEAN, y \in BOOLEAN :
         \/ dff_clock(x) \/ dff_reset(x) \/ dff_preset
         \/ jkff_clock(x, y) \/ tff_clock(x) \/ sr_latch_eval(x, y) \/ d_latch_eval(x, y)
  BY DEF FlipNext
<1>1. CASE dff_clock(x)
  <2> DEFINE bit  == IF ff.reset THEN FALSE ELSE IF ff.preset THEN TRUE ELSE x
             next == Out(bit)
  <2>1. next \in Outputs /\ next.q_bar = ~next.q
    <3>1. bit \in BOOLEAN
      OBVIOUS
    <3> HIDE DEF bit
    <3> QED
      BY <3>1, OutIs
  <2>2. ff' = [ff EXCEPT !.dff = next]
    BY <1>1 DEF dff_clock
  <2> HIDE DEF next
  <2> QED
    BY <2>1, <2>2
<1>2. CASE dff_reset(x)
  BY <1>2, OutIs, ZenonT(30) DEF dff_reset
<1>3. CASE dff_preset
  BY <1>3, OutIs, ZenonT(30) DEF dff_preset
<1>4. CASE jkff_clock(x, y)
  <2>1. JkNext(ff.jk, x, y) \in Outputs /\ JkNext(ff.jk, x, y).q_bar = ~JkNext(ff.jk, x, y).q
    BY OutIs DEF JkNext
  <2> QED
    BY <1>4, <2>1 DEF jkff_clock
<1>5. CASE tff_clock(x)
  <2> DEFINE next == IF x THEN Swapped(ff.t) ELSE ff.t
  <2>1. next \in Outputs /\ next.q_bar = ~next.q
    BY OutIs
  <2>2. ff' = [ff EXCEPT !.t = next]
    BY <1>5 DEF tff_clock
  <2> HIDE DEF next
  <2> QED
    BY <2>1, <2>2
<1>6. CASE sr_latch_eval(x, y)
  BY <1>6, OutIs DEF sr_latch_eval
<1>7. CASE d_latch_eval(x, y)
  BY <1>7, OutIs DEF d_latch_eval
<1> QED
  BY <1>0, <1>1, <1>2, <1>3, <1>4, <1>5, <1>6, <1>7

--------------------------------------------------------------------------------
(* Shift registers. *)

\* Where the i-th last bit shifted in stands.
Place(i) == IF shr.direction = "RIGHT" THEN RegWidth - i ELSE i - 1

\* The bits given since the last load stand in the register, in order.
ShiftInv ==
  /\ shr \in [direction : {"LEFT", "RIGHT", "BIDIR"}, bits : [0 .. RegWidth - 1 -> BOOLEAN], given : Seq(BOOLEAN)]
  /\ Len(shr.given) <= RegWidth
  /\ \A i \in 1 .. Len(shr.given) : shr.bits[Place(i)] = shr.given[i]

\* A shift pushes the bits given before one place on (shift_reg_shift).
LEMMA ShiftKeeps ==
  ASSUME ShiftInv, ShiftNext
  PROVE  ShiftInv'
<1> USE DEF ShiftInv
<1>1. ASSUME NEW l \in BOOLEAN, NEW r \in BOOLEAN, shift_reg_shift(l, r)
      PROVE  ShiftInv'
  <2> DEFINE new  == IF shr.direction = "RIGHT" THEN r ELSE l
             bits == ShiftedBits(shr.direction, shr.bits, l, r)
             more == <<new>> \o shr.given
             n    == Len(shr.given)
             m    == IF n < RegWidth THEN n + 1 ELSE RegWidth
             given == SubSeq(more, 1, m)
  <2>1. shr' = [shr EXCEPT !.bits = bits, !.given = given]
    BY <1>1 DEF shift_reg_shift
  <2>2. new \in BOOLEAN /\ n \in Nat /\ m \in Nat /\ m <= n + 1 /\ m <= RegWidth
    BY ClockedAssumption
  <2>3. bits \in [0 .. RegWidth - 1 -> BOOLEAN]
    BY ClockedAssumption DEF ShiftedBits
  <2>4. more \in Seq(BOOLEAN) /\ Len(more) = n + 1 /\ \A i \in 1 .. n + 1 : more[i] = IF i = 1 THEN new ELSE shr.given[i - 1]
    <3> HIDE DEF new
    <3> QED
      BY <2>2
  <2>5. given \in Seq(BOOLEAN) /\ Len(given) = m /\ \A i \in 1 .. m : given[i] = more[i]
    <3> HIDE DEF more, m, n
    <3> QED
      BY <2>2, <2>4
  <2>6. shr.direction' = shr.direction /\ shr.bits' = bits /\ shr.given' = given
    BY <2>1
  <2>7. shr' \in [direction : {"LEFT", "RIGHT", "BIDIR"}, bits : [0 .. RegWidth - 1 -> BOOLEAN], given : Seq(BOOLEAN)]
    BY <2>1, <2>3, <2>5
  <2>8. ASSUME NEW i \in 1 .. m
        PROVE  bits[Place(i)] = given[i]
    <3>1. CASE i = 1
      BY <2>2, <2>4, <2>5, <3>1, ClockedAssumption DEF ShiftedBits, Place
    <3>2. CASE i # 1
      <4>1. i - 1 \in 1 .. n /\ i \in 1 .. n + 1 /\ i <= RegWidth
        <5> HIDE DEF m, n
        <5> QED
          BY <2>2, <3>2, ClockedAssumption
      <4>2. shr.bits[Place(i - 1)] = shr.given[i - 1] /\ given[i] = shr.given[i - 1]
        BY <2>4, <2>5, <3>2, <4>1
      <4>3. bits[Place(i)] = shr.bits[Place(i - 1)]
        BY <3>2, <4>1, ClockedAssumption DEF ShiftedBits, Place
      <4> QED
        BY <4>2, <4>3
    <3> QED
      BY <3>1, <3>2
  <2> HIDE DEF bits, given, m, n
  <2> QED
    BY <2>2, <2>5, <2>6, <2>7, <2>8 DEF Place
<1>2. ASSUME NEW data \in [0 .. RegWidth - 1 -> BOOLEAN], shift_reg_load(data)
      PROVE  ShiftInv'
  <2>1. shr' = [shr EXCEPT !.bits = data, !.given = <<>>]
    BY <1>2 DEF shift_reg_load
  <2>2. shr.given' = <<>> /\ Len(<<>>) = 0 /\ <<>> \in Seq(BOOLEAN)
    BY <2>1
  <2>3. shr' \in [direction : {"LEFT", "RIGHT", "BIDIR"}, bits : [0 .. RegWidth - 1 -> BOOLEAN], given : Seq(BOOLEAN)]
    BY <2>1, <2>2
  <2> QED
    BY <2>2, <2>3, ClockedAssumption
<1> QED
  BY <1>1, <1>2 DEF ShiftNext

--------------------------------------------------------------------------------
(* Counters. *)

\* Every counter but the Gray one shows the ticks up less the ticks down.
CountInv ==
  /\ DOMAIN cnt = {"type", "value", "up", "moved"}
  /\ cnt.type # "GRAY" => cnt.value = cnt.moved
  /\ cnt.type = "BCD" => cnt.value \in 0 .. 9

\* A tick moves the value as it moves the count of ticks (counter_tick).
LEMMA CountKeeps ==
  ASSUME CountInv, CountNext
  PROVE  CountInv'
<1> USE DEF CountInv
<1>1. CASE counter_tick
  <2> DEFINE step == IF cnt.up THEN 1 ELSE -1
             next == CounterNext(cnt.type, cnt.value, cnt.up)
             gone == (cnt.moved + step) % Period(cnt.type)
  <2>1. cnt' = [cnt EXCEPT !.value = next, !.moved = gone]
    BY <1>1 DEF counter_tick
  <2>2. CASE cnt.type = "GRAY"
    BY <2>1, <2>2
  <2>3. CASE cnt.type = "BCD"
    <3>1. next = gone /\ next \in 0 .. 9
      BY <2>3 DEF CounterNext, Period
    <3> QED
      BY <2>1, <2>3, <3>1
  <2>4. CASE cnt.type \notin {"GRAY", "BCD"}
    <3>1. next = gone
      BY <2>4 DEF CounterNext, Period
    <3> QED
      BY <2>1, <2>4, <3>1
  <2> QED
    BY <2>2, <2>3, <2>4
<1>2. CASE counter_reset
  BY <1>2 DEF counter_reset
<1>3. ASSUME NEW up \in BOOLEAN, counter_set_direction(up)
      PROVE  CountInv'
  BY <1>3 DEF counter_set_direction
<1> QED
  BY <1>1, <1>2, <1>3 DEF CountNext

--------------------------------------------------------------------------------
(* The TLB. *)

\* Entries keep their types, and those in use were given since their page was invalidated.
DtlbEntry == [vpn : Vpns \cup {0}, ppn : Ppns \cup {0}, valid : BOOLEAN, last_access : Nat]
DtlbInv ==
  /\ dtlb \in [entries : [1 .. DtlbEntries -> DtlbEntry], clock : Nat, given : SUBSET (Vpns \X Ppns)]
  /\ DtlbForgets

\* An insertion gives what it inserts; an invalidation leaves no entry of the page
\* in use (memory.c).
LEMMA DtlbKeeps ==
  ASSUME DtlbInv, DtlbNext
  PROVE  DtlbInv'
<1> USE DEF DtlbInv, DtlbForgets
<1> DEFINE N == 1 .. DtlbEntries
<1>1. ASSUME NEW v \in Vpns, tlb_lookup(v)
      PROVE  DtlbInv'
  <2> DEFINE i == Min(tlb_hits(v))
             e == IF tlb_hits(v) = {} THEN dtlb.entries
                  ELSE [dtlb.entries EXCEPT ![i].last_access = dtlb.clock + 1]
  <2>1. dtlb' = [dtlb EXCEPT !.clock = @ + 1, !.entries = e]
    BY <1>1 DEF tlb_lookup
  <2> HIDE DEF i
  <2>2. /\ e \in [N -> DtlbEntry]
        /\ \A k \in N : e[k].vpn = dtlb.entries[k].vpn /\ e[k].ppn = dtlb.entries[k].ppn
                        /\ e[k].valid = dtlb.entries[k].valid
    <3>1. /\ DOMAIN e = N /\ e = [k \in N |-> e[k]]
          /\ \A k \in N : e[k] = dtlb.entries[k] \/ e[k] = [dtlb.entries[k] EXCEPT !.last_access = dtlb.clock + 1]
      <4> HIDE DEF DtlbForgets
      <4>1. CASE tlb_hits(v) = {}
        BY <4>1
      <4>2. CASE tlb_hits(v) # {}
        BY <4>2
      <4> QED
        BY <4>1, <4>2
    <3>2. \A r \in DtlbEntry : LET t == [r EXCEPT !.last_access = dtlb.clock + 1]
                                IN  t \in DtlbEntry /\ t.vpn = r.vpn /\ t.ppn = r.ppn /\ t.valid = r.valid
      BY DEF DtlbEntry
    <3> HIDE DEF e
    <3>3. \A k \in N : dtlb.entries[k] \in DtlbEntry
      OBVIOUS
    <3>4. \A k \in N : /\ e[k] \in DtlbEntry
                        /\ e[k].vpn = dtlb.entries[k].vpn /\ e[k].ppn = dtlb.entries[k].ppn
                        /\ e[k].valid = dtlb.entries[k].valid
      BY <3>1, <3>2, <3>3, ZenonT(30)
    <3> QED
      BY <3>1, <3>4
  <2>3. \A k \in N : e[k].valid => <<e[k].vpn, e[k].ppn>> \in dtlb.given
    BY <2>2
  <2> HIDE DEF e
  <2>4. dtlb'.entries = e /\ dtlb'.given = dtlb.given
    BY <2>1
  <2>5. dtlb' \in [entries : [N -> DtlbEntry], clock : Nat, given : SUBSET (Vpns \X Ppns)]
    <3>1. dtlb \in [entries : [N -> DtlbEntry], clock : Nat, given : SUBSET (Vpns \X Ppns)] /\ dtlb.clock + 1 \in Nat
      OBVIOUS
    <3>2. e \in [N -> DtlbEntry]
      BY <2>2
    <3> HIDE DEF DtlbInv, N
    <3> QED
      BY <2>1, <3>1, <3>2
  <2> QED
    BY <2>2, <2>3, <2>4, <2>5
<1>2. ASSUME NEW v \in Vpns, tlb_invalidate(v)
      PROVE  DtlbInv'
  <2> DEFINE e == [k \in N |-> IF dtlb.entries[k].vpn = v THEN [dtlb.entries[k] EXCEPT !.valid = FALSE]
                               ELSE dtlb.entries[k]]
             g == {t \in dtlb.given : t[1] # v}
  <2>1. dtlb' = [dtlb EXCEPT !.entries = e, !.given = g]
    BY <1>2 DEF tlb_invalidate
  <2>2. /\ e \in [N -> DtlbEntry]
        /\ \A k \in N : e[k].valid => e[k] = dtlb.entries[k] /\ e[k].vpn # v
    BY DEF DtlbEntry
  <2>3. \A k \in N : e[k].valid => <<e[k].vpn, e[k].ppn>> \in g
    BY <2>2
  <2> HIDE DEF e, g
  <2>4. g \in SUBSET (Vpns \X Ppns)
    BY DEF g
  <2> QED
    BY <2>1, <2>2, <2>3, <2>4
<1>3. ASSUME NEW v \in Vpns, NEW p \in Ppns, tlb_insert(v, p)
      PROVE  DtlbInv'
  <2> DEFINE new == [vpn |-> v, ppn |-> p, valid |-> TRUE, last_access |-> dtlb.clock]
             g   == dtlb.given \cup {<<v, p>>}
  <2>1. PICK i : dtlb' = [dtlb EXCEPT !.entries[i] = new, !.given = g]
    BY <1>3 DEF tlb_insert
  <2> DEFINE e == [dtlb.entries EXCEPT ![i] = new]
  <2>2. e \in [N -> DtlbEntry] /\ \A k \in N : e[k] = new \/ e[k] = dtlb.entries[k]
    BY DEF DtlbEntry
  <2>3. \A k \in N : e[k].valid => <<e[k].vpn, e[k].ppn>> \in g
    BY <2>2
  <2>4. dtlb' = [dtlb EXCEPT !.entries = e, !.given = g] /\ g \in SUBSET (Vpns \X Ppns)
    BY <2>1
  <2> HIDE DEF e, g, new
  <2> QED
    BY <2>2, <2>3, <2>4
<1>4. CASE tlb_flush
  <2> DEFINE e == [k \in N |-> [dtlb.entries[k] EXCEPT !.valid = FALSE]]
  <2>1. dtlb' = [dtlb EXCEPT !.entries = e, !.given = {}]
    BY <1>4 DEF tlb_flush
  <2>2. e \in [N -> DtlbEntry] /\ \A k \in N : ~e[k].valid
    BY DEF DtlbEntry
  <2> HIDE DEF e
  <2> QED
    BY <2>1, <2>2
<1> QED
  BY <1>1, <1>2, <1>3, <1>4 DEF DtlbNext

--------------------------------------------------------------------------------
(* The bus arbiters. *)

\* How far m is behind c going round n places.
Behind(n, c, m) == IF m >= c THEN m - c ELSE m - c + n

\* An arbiter, and how long a requester can still be passed over: under round robin by the masters
\* between the last one served and it, under TDMA for the slots up to its own.
Arbiter ==
  [type : {"FIXED", "RR", "TDMA"}, request : SUBSET Masters, grant : SUBSET Masters,
   current_master : -1 .. BUS_MASTERS - 1, tdma_slot : Nat, tdma_num_slots : Nat \ {0},
   starvation_count : [Masters -> Nat], cycle : Nat, passed : [Masters -> Nat]]
PassedOver(a) ==
  /\ \A m \in Masters : m \notin a.request => a.passed[m] = 0
  /\ a.type = "RR" =>
       \A m \in Masters : a.passed[m] + Behind(BUS_MASTERS, a.current_master + 1, m) < BUS_MASTERS
  /\ a.type = "TDMA" =>
       \A m \in Masters : m < a.tdma_num_slots =>
          a.passed[m] + Behind(a.tdma_num_slots, a.tdma_slot % a.tdma_num_slots, m) < a.tdma_num_slots
ArbiterInv(a) ==
  /\ a \in Arbiter /\ a.grant \subseteq a.request /\ (a.grant = {} \/ \E m \in Masters : a.grant = {m})
  /\ PassedOver(a)

BusInv ==
  /\ bus \in [arb : [DOMAIN bus.arb -> Arbiter], busy : BOOLEAN]
  /\ \A b \in DOMAIN bus.arb : ArbiterInv(bus.arb[b])

\* An arbiter as it is created waits for nobody.
LEMMA CreateIs ==
  ASSUME NEW type \in {"FIXED", "RR", "TDMA"}
  PROVE  ArbiterInv(bus_arbiter_create(type))
<1> DEFINE a == bus_arbiter_create(type)
<1>1. a \in Arbiter /\ a.grant = {}
  BY ClockedAssumption DEF bus_arbiter_create, Arbiter
<1>2. \A m \in Masters : a.passed[m] = 0 /\ Behind(BUS_MASTERS, 0, m) \in 0 .. BUS_MASTERS - 1
  BY ClockedAssumption DEF bus_arbiter_create, Behind, Masters
<1>3. a.current_master + 1 = 0 /\ a.tdma_num_slots = BUS_MASTERS /\ a.tdma_slot % a.tdma_num_slots = 0
  BY ClockedAssumption DEF bus_arbiter_create
<1> HIDE DEF a
<1>4. ArbiterInv(a)
  BY <1>1, <1>2, <1>3, ClockedAssumption DEF ArbiterInv, PassedOver
<1> QED
  BY <1>4 DEF a

\* The next in turn is the first requester behind the master served last.
LEMMA RrChoiceIs ==
  ASSUME NEW a \in Arbiter, a.request # {}
  PROVE  LET n == BUS_MASTERS
             c == a.current_master + 1
             m == RrChoice(a) % n
         IN  /\ m \in a.request
             /\ \A j \in a.request : Behind(n, c, m) <= Behind(n, c, j)
<1> DEFINE n == BUS_MASTERS
           c == a.current_master + 1
           S == {i \in 0 .. n - 1 : (c + i) % n \in a.request}
           k == Min(S)
<1>1. n \in Nat \ {0} /\ c \in 0 .. n /\ a.request \subseteq 0 .. n - 1
  <2>1. a.current_master \in -1 .. BUS_MASTERS - 1 /\ a.request \in SUBSET Masters
    BY DEF Arbiter
  <2> QED
    BY <2>1, ClockedAssumption DEF Masters
<1> HIDE DEF n, c
<1>2. \A j \in 0 .. n - 1 : Behind(n, c, j) \in 0 .. n - 1 /\ (c + Behind(n, c, j)) % n = j
  <2> SUFFICES ASSUME NEW j \in 0 .. n - 1
               PROVE  Behind(n, c, j) \in 0 .. n - 1 /\ (c + Behind(n, c, j)) % n = j
    OBVIOUS
  <2>1. CASE j >= c
    BY <1>1, <2>1 DEF Behind
  <2>2. CASE j < c
    <3>1. Behind(n, c, j) = j - c + n /\ c + Behind(n, c, j) = j + n
      BY <1>1, <2>2 DEF Behind
    <3>2. (j + n) % n = j
      BY <1>1
    <3> QED
      BY <1>1, <2>2, <3>1, <3>2
  <2> QED
    BY <1>1, <2>1, <2>2
<1>3. \A j \in a.request : Behind(n, c, j) \in S
  BY <1>1, <1>2
<1>4. k \in S /\ \A i \in S : k <= i
  <2>1. PICK low \in S : \A i \in S : low <= i
    <3>1. S \in SUBSET Nat /\ S # {}
      BY <1>3
    <3> QED
      BY <3>1, LeastElement
  <2> QED
    BY <2>1, Zenon DEF Min
<1> DEFINE m == (c + k) % n
<1>5. m \in a.request
  BY <1>4
<1>6. Behind(n, c, m) = k
  <2>1. k \in 0 .. n - 1
    BY <1>4
  <2> HIDE DEF k
  <2>2. c + k < n => (c + k) % n = c + k
    BY <1>1, <2>1
  <2>3. c + k >= n => (c + k) % n = c + k - n
    BY <1>1, <2>1
  <2> HIDE DEF m
  <2>4. (c + k < n => m = c + k) /\ (c + k >= n => m = c + k - n)
    BY <2>2, <2>3 DEF m
  <2> QED
    BY <1>1, <2>1, <2>4 DEF Behind
<1>7. RrChoice(a) % n = m
  <2>1. {i \in 0 .. n - 1 : (a.current_master + 1 + i) % n \in a.request} = S
    BY DEF c
  <2>2. RrChoice(a) = k + a.current_master + 1
    BY <2>1, Zenon DEF RrChoice, n
  <2>3. a.current_master \in Int
    BY DEF Arbiter
  <2>4. k \in Int
    BY <1>4
  <2> HIDE DEF k
  <2>5. RrChoice(a) = c + k
    BY <2>2, <2>3, <2>4 DEF c
  <2> QED
    BY <2>5
<1> HIDE DEF m, S, k
<1> QED
  BY <1>3, <1>4, <1>5, <1>6, <1>7 DEF n, c

\* What one arbitration leaves of the waiting.
LEMMA ArbitratedKeeps ==
  ASSUME NEW a, ArbiterInv(a)
  PROVE  ArbiterInv(Arbitrated(a))
<1> DEFINE m == ChosenMaster(a)
           next == Arbitrated(a)
           late == [j \in Masters |-> IF j \in a.request \ {m} THEN a.passed[j] + 1 ELSE 0]
<1>1. a \in Arbiter /\ PassedOver(a) /\ a.request \subseteq Masters
  BY DEF ArbiterInv, Arbiter
<1>2. m = -1 \/ m \in a.request
  <2>1. CASE a.type = "FIXED" /\ a.request # {}
    <3>1. PICK low \in a.request : \A i \in a.request : low <= i
      <4>1. a.request \in SUBSET Nat /\ a.request # {}
        BY <1>1, <2>1 DEF Masters
      <4> QED
        BY <4>1, LeastElement
    <3>2. Min(a.request) \in a.request
      BY <3>1, Zenon DEF Min
    <3> QED
      BY <2>1, <3>2 DEF ChosenMaster
  <2>2. CASE a.type = "RR" /\ a.request # {}
    <3>1. RrChoice(a) % BUS_MASTERS \in a.request
      BY <1>1, <2>2, RrChoiceIs
    <3> QED
      BY <2>2, <3>1 DEF ChosenMaster
  <2>3. CASE a.type = "TDMA"
    BY <2>3 DEF ChosenMaster
  <2>4. CASE a.type # "TDMA" /\ a.request = {}
    BY <2>4 DEF ChosenMaster
  <2> QED
    BY <1>1, <2>1, <2>2, <2>3, <2>4 DEF Arbiter
<1>3. /\ next \in Arbiter /\ next.type = a.type /\ next.request = a.request /\ next.passed = late
      /\ next.grant = IF m = -1 THEN {} ELSE {m}
      /\ m # -1 => next.current_master = m
      /\ next.tdma_num_slots = a.tdma_num_slots
      /\ a.type = "TDMA" => next.tdma_slot = a.tdma_slot + 1
  <2>1. CASE m # -1
    <3> DEFINE starved == [j \in Masters |-> IF a.type = "RR" /\ j # m /\ j \in a.request
                                             THEN a.starvation_count[j] + 1 ELSE a.starvation_count[j]]
               slot == IF a.type = "TDMA" THEN a.tdma_slot + 1 ELSE a.tdma_slot
    <3>1. next = [a EXCEPT !.grant = {m}, !.current_master = m, !.cycle = @ + 1, !.starvation_count = starved,
                           !.tdma_slot = slot, !.passed = late]
      BY <2>1 DEF Arbitrated, Granted, Arbiter
    <3>2. starved \in [Masters -> Nat] /\ late \in [Masters -> Nat] /\ slot \in Nat /\ {m} \in SUBSET Masters
          /\ m \in -1 .. BUS_MASTERS - 1 /\ a.cycle + 1 \in Nat
      <4> HIDE DEF m
      <4>1. m \in Masters
        BY <1>1, <1>2, <2>1
      <4>2. a.starvation_count \in [Masters -> Nat] /\ a.passed \in [Masters -> Nat] /\ a.tdma_slot \in Nat /\ a.cycle \in Nat
        BY <1>1 DEF Arbiter
      <4>3. starved \in [Masters -> Nat]
        BY <4>2
      <4>4. late \in [Masters -> Nat]
        BY <4>2
      <4>5. slot \in Nat /\ a.cycle + 1 \in Nat
        BY <4>2
      <4>6. m \in -1 .. BUS_MASTERS - 1 /\ {m} \in SUBSET Masters
        BY <4>1, ClockedAssumption DEF Masters
      <4> QED
        BY <4>3, <4>4, <4>5, <4>6
    <3> HIDE DEF next, late, starved, m, slot
    <3>3. next \in Arbiter
      BY <1>1, <3>1, <3>2 DEF Arbiter
    <3>4. /\ next.type = a.type /\ next.request = a.request /\ next.passed = late /\ next.grant = {m}
          /\ next.current_master = m /\ next.tdma_num_slots = a.tdma_num_slots /\ next.tdma_slot = slot
      BY <1>1, <3>1 DEF Arbiter
    <3> QED
      BY <2>1, <3>3, <3>4 DEF slot
  <2>2. CASE m = -1
    <3> DEFINE slot == IF a.type = "TDMA" THEN a.tdma_slot + 1 ELSE a.tdma_slot
               cycle == a.cycle + (IF a.type = "TDMA" THEN 2 ELSE 1)
    <3>1. next = [a EXCEPT !.grant = {}, !.cycle = cycle, !.tdma_slot = slot, !.passed = late]
      BY <2>2 DEF Arbitrated, Arbiter
    <3>2. late \in [Masters -> Nat] /\ slot \in Nat /\ cycle \in Nat
      BY <1>1 DEF Arbiter
    <3> HIDE DEF next, late, m, cycle
    <3> QED
      BY <1>1, <2>2, <3>1, <3>2 DEF Arbiter, slot
  <2> QED
    BY <2>1, <2>2
<1> HIDE DEF next
<1>4. \A j \in Masters : j \notin a.request => next.passed[j] = 0
  BY <1>3
<1>5. ASSUME a.type = "RR", NEW j \in Masters
      PROVE  next.passed[j] + Behind(BUS_MASTERS, next.current_master + 1, j) < BUS_MASTERS
  <2> DEFINE n == BUS_MASTERS
             c == a.current_master + 1
             x == a.passed[j]
  <2>1. /\ n \in Nat \ {0} /\ c \in 0 .. n /\ j \in 0 .. n - 1 /\ x \in Nat
        /\ x + Behind(n, c, j) < n
    <3>1. a.current_master \in -1 .. BUS_MASTERS - 1 /\ a.passed[j] \in Nat
      BY <1>1 DEF Arbiter
    <3>2. x + Behind(n, c, j) < n
      BY <1>1, <1>5, Zenon DEF PassedOver
    <3> QED
      BY <3>1, <3>2, ClockedAssumption DEF Masters
  <2>2. CASE j \notin a.request \/ j = m
    <3>1. next.passed[j] = 0
      BY <1>3, <2>2
    <3>2. next.current_master + 1 \in 0 .. n
      BY <1>3, ClockedAssumption DEF Arbiter
    <3> DEFINE d == next.current_master + 1
    <3>3. Behind(n, d, j) \in 0 .. n - 1
      <4> HIDE DEF n, d
      <4> QED
        BY <2>1, <3>2 DEF d, Behind
    <3> HIDE DEF d
    <3>4. next.passed[j] + Behind(n, d, j) < n
      <4> HIDE DEF n
      <4> QED
        BY <2>1, <3>1, <3>3
    <3> QED
      BY <3>4 DEF d
  <2>3. CASE j \in a.request /\ j # m
    <3>1. m = RrChoice(a) % n
      BY <1>5, <2>3 DEF ChosenMaster
    <3>2. m \in a.request /\ Behind(n, c, m) <= Behind(n, c, j)
      <4>1. a.request # {}
        BY <2>3
      <4>2. RrChoice(a) % n \in a.request /\ \A k \in a.request : Behind(n, c, RrChoice(a) % n) <= Behind(n, c, k)
        BY <1>1, <4>1, RrChoiceIs
      <4> QED
        BY <2>3, <3>1, <4>2, Zenon
    <3>3. m \in 0 .. n - 1 /\ m # -1
      BY <1>1, <3>2, <2>1 DEF Masters
    <3>4. next.passed[j] = x + 1 /\ next.current_master = m
      BY <1>3, <2>3, <3>3
    <3> HIDE DEF m, n, c, x
    <3>5. Behind(n, m + 1, j) = Behind(n, c, j) - Behind(n, c, m) - 1 /\ Behind(n, c, m) \in Nat /\ Behind(n, c, j) \in Nat
      BY <2>1, <2>3, <3>2, <3>3 DEF Behind
    <3>6. next.passed[j] + Behind(n, next.current_master + 1, j) < n
      BY <2>1, <3>4, <3>5
    <3> QED
      BY <3>6 DEF n
  <2> QED
    BY <2>2, <2>3
<1>6. ASSUME a.type = "TDMA", NEW j \in Masters, j < a.tdma_num_slots
      PROVE  next.passed[j] + Behind(a.tdma_num_slots, next.tdma_slot % a.tdma_num_slots, j) < a.tdma_num_slots
  <2> DEFINE n == a.tdma_num_slots
             s == a.tdma_slot
             c == s % n
             d == (s + 1) % n
             x == a.passed[j]
  <2>1. n \in Nat \ {0} /\ s \in Nat /\ j \in Nat /\ j < n /\ x \in Nat
    <3>1. a.tdma_num_slots \in Nat \ {0} /\ a.tdma_slot \in Nat /\ a.passed[j] \in Nat
      BY <1>1 DEF Arbiter
    <3>2. j \in Nat
      BY ClockedAssumption DEF Masters
    <3> QED
      BY <1>6, <3>1, <3>2
  <2>2. x + Behind(n, c, j) < n
    BY <1>1, <1>6, Zenon DEF PassedOver
  <2>3. c \in 0 .. n - 1 /\ d = IF c + 1 < n THEN c + 1 ELSE 0
    <3> HIDE DEF n, s
    <3> DEFINE q == s \div n
    <3>1. s = n * q + c /\ q \in Nat /\ c \in 0 .. n - 1
      BY <2>1
    <3> HIDE DEF q, c
    <3>2. CASE c + 1 < n
      <4>1. s + 1 = n * q + (c + 1)
        BY <2>1, <3>1
      <4>2. (s + 1) % n = c + 1
        BY <2>1, <3>1, <3>2, <4>1
      <4> QED
        BY <3>1, <3>2, <4>2
    <3>3. CASE c + 1 = n
      <4>1. s + 1 = n * (q + 1)
        BY <2>1, <3>1, <3>3
      <4>2. (s + 1) % n = 0
        BY <2>1, <3>1, <4>1
      <4> QED
        BY <2>1, <3>1, <3>3, <4>2
    <3> QED
      BY <2>1, <3>1, <3>2, <3>3
  <2>4. next.tdma_slot % n = d
    BY <1>3, <1>6
  <2>5. c \in a.request => m = c
    <3>1. a.type # "FIXED" /\ a.type # "RR"
      BY <1>6
    <3> QED
      BY <1>6, <3>1, Zenon DEF ChosenMaster
  <2>6. /\ j \notin a.request \/ j = m => next.passed[j] = 0
        /\ j \in a.request /\ j # m => next.passed[j] = x + 1 /\ j # c
    BY <1>3, <2>5
  <2> HIDE DEF n, s, c, d, x, m
  <2>7. next.passed[j] + Behind(n, d, j) < n
    BY <2>1, <2>2, <2>3, <2>6 DEF Behind
  <2> QED
    BY <2>4, <2>7 DEF n
<1>7. PassedOver(next)
  BY <1>3, <1>4, <1>5, <1>6 DEF PassedOver
<1>8. ArbiterInv(next)
  BY <1>1, <1>2, <1>3, <1>7 DEF ArbiterInv
<1> QED
  BY <1>8 DEF next

\* No call on a bus lets a requester be passed over longer (bus_arbiter.c).
LEMMA BusKeeps ==
  ASSUME BusInv, BusNext
  PROVE  BusInv'
<1> DEFINE D == DOMAIN bus.arb
<1>1. \A b \in D : ArbiterInv(bus.arb[b]) /\ bus.arb[b] \in Arbiter
  BY DEF BusInv, ArbiterInv
<1>2. ASSUME NEW next \in [D -> Arbiter], \A b \in D : ArbiterInv(next[b]), bus' = [bus EXCEPT !.arb = next]
      PROVE  BusInv'
  <2>1. bus'.arb = next /\ bus'.busy \in BOOLEAN /\ bus' = [arb |-> next, busy |-> bus.busy]
    BY <1>2 DEF BusInv
  <2>2. DOMAIN next = D
    OBVIOUS
  <2>3. bus' \in [arb : [DOMAIN bus'.arb -> Arbiter], busy : BOOLEAN]
    BY <2>1, <2>2
  <2>4. \A b \in DOMAIN bus'.arb : ArbiterInv(bus'.arb[b])
    BY <1>2, <2>1, <2>2
  <2> QED
    BY <2>3, <2>4 DEF BusInv
<1>3. ASSUME NEW m \in Masters, bus_arbiter_request(m)
      PROVE  BusInv'
  <2> DEFINE next == [b \in D |-> [bus.arb[b] EXCEPT !.request = @ \cup {m}]]
  <2>1. ASSUME NEW b \in D
        PROVE  ArbiterInv(next[b])
    <3> DEFINE a == bus.arb[b]
    <3>1. next[b] = [a EXCEPT !.request = @ \cup {m}] /\ ArbiterInv(a)
      BY <1>1
    <3> HIDE DEF a, next
    <3>2. next[b] \in Arbiter /\ next[b].grant = a.grant /\ next[b].request = a.request \cup {m} /\ next[b].type = a.type
          /\ next[b].passed = a.passed /\ next[b].current_master = a.current_master
          /\ next[b].tdma_slot = a.tdma_slot /\ next[b].tdma_num_slots = a.tdma_num_slots
      BY <3>1 DEF ArbiterInv, Arbiter
    <3> QED
      BY <3>1, <3>2 DEF ArbiterInv, PassedOver
  <2>2. next \in [D -> Arbiter]
    BY <2>1 DEF ArbiterInv
  <2>3. bus' = [bus EXCEPT !.arb = next]
    BY <1>3 DEF bus_arbiter_request
  <2> HIDE DEF next
  <2> QED
    BY <1>2, <2>1, <2>2, <2>3
<1>4. ASSUME NEW m \in Masters, bus_arbiter_release(m)
      PROVE  BusInv'
  <2> DEFINE next == [b \in D |-> [bus.arb[b] EXCEPT !.request = @ \ {m}, !.grant = @ \ {m}, !.passed[m] = 0]]
  <2>1. ASSUME NEW b \in D
        PROVE  ArbiterInv(next[b])
    <3> DEFINE a == bus.arb[b]
               late == [a.passed EXCEPT ![m] = 0]
    <3>1. next[b] = [a EXCEPT !.request = @ \ {m}, !.grant = @ \ {m}, !.passed = late] /\ ArbiterInv(a)
      BY <1>1
    <3>2. a \in Arbiter
      BY <1>1
    <3> HIDE DEF a, next
    <3>3. late \in [Masters -> Nat] /\ \A j \in Masters : late[j] = IF j = m THEN 0 ELSE a.passed[j]
      BY <3>2 DEF Arbiter
    <3> HIDE DEF late
    <3>4. next[b] \in Arbiter /\ next[b].grant = a.grant \ {m} /\ next[b].request = a.request \ {m} /\ next[b].type = a.type
          /\ next[b].passed = late /\ next[b].current_master = a.current_master
          /\ next[b].tdma_slot = a.tdma_slot /\ next[b].tdma_num_slots = a.tdma_num_slots
      BY <3>1, <3>2, <3>3 DEF Arbiter
    <3>5. PassedOver(next[b])
      <4>1. /\ a.type = "RR" => 0 + Behind(BUS_MASTERS, a.current_master + 1, m) < BUS_MASTERS
            /\ a.type = "TDMA" /\ m < a.tdma_num_slots =>
                 0 + Behind(a.tdma_num_slots, a.tdma_slot % a.tdma_num_slots, m) < a.tdma_num_slots
        <5>1. /\ a.current_master \in -1 .. BUS_MASTERS - 1 /\ a.tdma_num_slots \in Nat \ {0} /\ a.tdma_slot \in Nat
          BY <3>2 DEF Arbiter
        <5>2. m \in 0 .. BUS_MASTERS - 1 /\ BUS_MASTERS \in Nat \ {0}
          BY ClockedAssumption DEF Masters
        <5>3. a.tdma_slot % a.tdma_num_slots \in 0 .. a.tdma_num_slots - 1
          BY <5>1
        <5> QED
          BY <5>1, <5>2, <5>3 DEF Behind
      <4> QED
        BY <3>1, <3>3, <3>4, <4>1 DEF ArbiterInv, PassedOver
    <3>6. next[b].grant \subseteq next[b].request /\ (next[b].grant = {} \/ \E j \in Masters : next[b].grant = {j})
      BY <3>1, <3>4 DEF ArbiterInv
    <3> QED
      BY <3>4, <3>5, <3>6 DEF ArbiterInv
  <2>2. next \in [D -> Arbiter]
    BY <2>1 DEF ArbiterInv
  <2>3. bus' = [bus EXCEPT !.arb = next]
    BY <1>4 DEF bus_arbiter_release
  <2> HIDE DEF next
  <2> QED
    BY <1>2, <2>1, <2>2, <2>3
<1>5. ASSUME NEW b \in D, bus_arbiter_arbitrate(b)
      PROVE  BusInv'
  <2> DEFINE next == [bus.arb EXCEPT ![b] = Arbitrated(bus.arb[b])]
  <2>1. \A c \in D : ArbiterInv(next[c])
    BY <1>1, ArbitratedKeeps
  <2>2. next \in [D -> Arbiter]
    BY <1>1, <2>1 DEF ArbiterInv
  <2>3. bus' = [bus EXCEPT !.arb = next]
    BY <1>5 DEF bus_arbiter_arbitrate
  <2> HIDE DEF next
  <2> QED
    BY <1>2, <2>1, <2>2, <2>3
<1>6. ASSUME NEW b \in D, NEW n \in TdmaSlots, bus.arb[b].type = "TDMA", bus_arbiter_tdma_configure(b, n)
      PROVE  BusInv'
  <2> DEFINE none == [m \in Masters |-> 0]
             a    == [bus.arb[b] EXCEPT !.tdma_num_slots = n, !.passed = none]
             next == [bus.arb EXCEPT ![b] = a]
  <2>1. ArbiterInv(a)
    <3> DEFINE old == bus.arb[b]
    <3>1. ArbiterInv(old) /\ old \in Arbiter /\ n \in Nat \ {0} /\ none \in [Masters -> Nat]
      BY <1>1, ClockedAssumption
    <3>2. \A m \in Masters : none[m] = 0
      OBVIOUS
    <3> HIDE DEF none, old
    <3>3. a = [old EXCEPT !.tdma_num_slots = n, !.passed = none]
      BY DEF old
    <3> HIDE DEF a
    <3>4. a \in Arbiter /\ a.grant = old.grant /\ a.request = old.request /\ a.type = "TDMA" /\ a.passed = none
          /\ a.tdma_slot = old.tdma_slot /\ a.tdma_num_slots = n
      BY <1>6, <3>1, <3>3 DEF Arbiter, old
    <3>5. \A m \in Masters : m < n => 0 + Behind(n, a.tdma_slot % n, m) < n
      <4>1. a.tdma_slot \in Nat /\ Masters \subseteq Nat
        BY <3>4, ClockedAssumption DEF Arbiter, Masters
      <4>2. a.tdma_slot % n \in 0 .. n - 1
        BY <3>1, <4>1
      <4> QED
        BY <3>1, <4>1, <4>2 DEF Behind
    <3>6. PassedOver(a)
      BY <3>2, <3>4, <3>5 DEF PassedOver
    <3> QED
      BY <3>1, <3>4, <3>6 DEF ArbiterInv
  <2> HIDE DEF a
  <2>2. \A c \in D : ArbiterInv(next[c])
    BY <1>1, <2>1
  <2>3. next \in [D -> Arbiter]
    BY <1>1, <2>1 DEF ArbiterInv
  <2>4. bus' = [bus EXCEPT !.arb = next]
    <3>1. bus' = [bus EXCEPT !.arb[b].tdma_num_slots = n, !.arb[b].passed = none]
      BY <1>6 DEF bus_arbiter_tdma_configure
    <3>2. /\ bus \in [arb : [D -> Arbiter], busy : BOOLEAN]
      BY DEF BusInv
    <3> HIDE DEF D, none
    <3> QED
      BY <3>1, <3>2 DEF a
  <2> HIDE DEF next
  <2> QED
    BY <1>2, <2>2, <2>3, <2>4
<1>7. CASE bus_system_tick
  <2>1. CASE bus.busy
    BY <1>7, <2>1 DEF bus_system_tick, BusInv
  <2>2. CASE ~bus.busy
    <3> DEFINE next == [b \in D |-> Arbitrated(bus.arb[b])]
    <3>1. \A c \in D : ArbiterInv(next[c])
      BY <1>1, ArbitratedKeeps
    <3>2. next \in [D -> Arbiter]
      BY <3>1 DEF ArbiterInv
    <3>3. bus' = [bus EXCEPT !.arb = next]
      BY <1>7, <2>2 DEF bus_system_tick
    <3> HIDE DEF next
    <3> QED
      BY <1>2, <3>1, <3>2, <3>3
  <2> QED
    BY <2>1, <2>2
<1> QED
  BY <1>3, <1>4, <1>5, <1>6, <1>7 DEF BusNext

--------------------------------------------------------------------------------
(* All the clocked parts. *)

ClockedInv == FlipInv /\ ShiftInv /\ CountInv /\ BusInv /\ DtlbInv

\* As they are created.
LEMMA ClockedInitInv == ClockedInit => ClockedInv
<1> SUFFICES ASSUME ClockedInit PROVE ClockedInv
  OBVIOUS
<1> USE DEF ClockedInit
<1>1. FlipInv
  BY OutIs DEF FlipInit, FlipInv
<1>2. ShiftInv
  <2>1. <<>> \in Seq(BOOLEAN) /\ Len(<<>>) = 0
    OBVIOUS
  <2> QED
    BY <2>1, ClockedAssumption DEF ShiftInit, ShiftInv
<1>3. CountInv
  BY DEF CounterInit, CountInv
<1>4. BusInv
  <2>1. ASSUME NEW D, NEW type \in {"FIXED", "RR", "TDMA"},
               bus = [arb |-> [b \in D |-> bus_arbiter_create(type)], busy |-> FALSE]
        PROVE  BusInv
    <3>1. ArbiterInv(bus_arbiter_create(type)) /\ bus_arbiter_create(type) \in Arbiter
      BY CreateIs DEF ArbiterInv
    <3> QED
      BY <2>1, <3>1 DEF BusInv
  <2>2. CASE \E type \in {"FIXED", "RR", "TDMA"} :
                bus = [arb |-> [b \in {"address"} |-> bus_arbiter_create(type)], busy |-> FALSE]
    <3>1. PICK type \in {"FIXED", "RR", "TDMA"} :
                bus = [arb |-> [b \in {"address"} |-> bus_arbiter_create(type)], busy |-> FALSE]
      BY <2>2
    <3> QED
      BY <2>1, <3>1, Zenon
  <2>3. CASE bus = [arb |-> [b \in {"address", "data"} |-> bus_arbiter_create("RR")], busy |-> FALSE]
    <3>1. "RR" \in {"FIXED", "RR", "TDMA"}
      OBVIOUS
    <3> QED
      BY <2>1, <2>3, <3>1, Zenon
  <2> QED
    BY <2>2, <2>3 DEF BusInit
<1>5. DtlbInv
  <2>1. dtlb \in [entries : [1 .. DtlbEntries -> DtlbEntry], clock : Nat, given : SUBSET (Vpns \X Ppns)]
    BY DEF DtlbInit, DtlbEntry
  <2>2. \A i \in DOMAIN dtlb.entries : ~dtlb.entries[i].valid
    BY DEF DtlbInit
  <2> QED
    BY <2>1, <2>2 DEF DtlbInv, DtlbForgets
<1> QED
  BY <1>1, <1>2, <1>3, <1>4, <1>5 DEF ClockedInv

\* A step is one part's.
LEMMA ClockedNextInv == ClockedInv /\ [ClockedNext]_clocked_vars => ClockedInv'
<1> SUFFICES ASSUME ClockedInv, [ClockedNext]_clocked_vars PROVE ClockedInv'
  OBVIOUS
<1>1. FlipInv /\ ShiftInv /\ CountInv /\ BusInv /\ DtlbInv
  BY DEF ClockedInv
<1>2. FlipInv'
  <2>1. FlipNext \/ ff' = ff
    BY DEF ClockedNext, clocked_vars
  <2>2. CASE ff' = ff
    BY <1>1, <2>2 DEF FlipInv
  <2> QED
    BY <1>1, <2>1, <2>2, FlipKeeps
<1>3. ShiftInv'
  <2>1. ShiftNext \/ shr' = shr
    BY DEF ClockedNext, clocked_vars
  <2>2. CASE shr' = shr
    BY <1>1, <2>2 DEF ShiftInv, Place
  <2> QED
    BY <1>1, <2>1, <2>2, ShiftKeeps
<1>4. CountInv'
  <2>1. CountNext \/ cnt' = cnt
    BY DEF ClockedNext, clocked_vars
  <2>2. CASE cnt' = cnt
    BY <1>1, <2>2 DEF CountInv
  <2> QED
    BY <1>1, <2>1, <2>2, CountKeeps
<1>5. BusInv'
  <2>1. BusNext \/ bus' = bus
    BY DEF ClockedNext, clocked_vars
  <2>2. CASE bus' = bus
    BY <1>1, <2>2 DEF BusInv
  <2> QED
    BY <1>1, <2>1, <2>2, BusKeeps
<1>6. DtlbInv'
  <2>1. DtlbNext \/ dtlb' = dtlb
    BY DEF ClockedNext, clocked_vars
  <2>2. CASE dtlb' = dtlb
    BY <1>1, <2>2 DEF DtlbInv, DtlbForgets
  <2> QED
    BY <1>1, <2>1, <2>2, DtlbKeeps
<1> QED
  BY <1>2, <1>3, <1>4, <1>5, <1>6 DEF ClockedInv

\* What follows for a reader of the parts.
LEMMA ClockedInvSuffices == ClockedInv => ClockedSound
<1> SUFFICES ASSUME ClockedInv PROVE ClockedSound
  OBVIOUS
<1>1. StorageHolds
  BY DEF ClockedInv, FlipInv, ShiftInv, Place, StorageHolds
<1>2. BusFair
  <2> SUFFICES ASSUME NEW b \in DOMAIN bus.arb
               PROVE  LET a == bus.arb[b]
                      IN  /\ Cardinality(a.grant) <= 1 /\ a.grant \subseteq a.request
                          /\ a.type = "RR" => \A m \in Masters : a.passed[m] < BUS_MASTERS
                          /\ a.type = "TDMA" => \A m \in Masters : m < a.tdma_num_slots => a.passed[m] < a.tdma_num_slots
    BY Zenon DEF BusFair
  <2> DEFINE a == bus.arb[b]
  <2>1. ArbiterInv(a)
    BY DEF ClockedInv, BusInv
  <2> HIDE DEF a
  <2>2. Cardinality(a.grant) <= 1
    <3>1. CASE a.grant = {}
      BY <3>1, FS_EmptySet
    <3>2. CASE \E m \in Masters : a.grant = {m}
      <4>1. PICK m \in Masters : a.grant = {m}
        BY <3>2
      <4>2. Cardinality({m}) = 1
        BY FS_Singleton, Zenon
      <4> QED
        BY <4>1, <4>2
    <3> QED
      BY <2>1, <3>1, <3>2 DEF ArbiterInv
  <2>3. /\ a.current_master \in -1 .. BUS_MASTERS - 1 /\ a.tdma_num_slots \in Nat \ {0} /\ a.tdma_slot \in Nat
        /\ a.passed \in [Masters -> Nat]
    BY <2>1 DEF ArbiterInv, Arbiter
  <2>4. Masters = 0 .. BUS_MASTERS - 1 /\ BUS_MASTERS \in Nat \ {0}
    BY ClockedAssumption DEF Masters
  <2>5. ASSUME NEW m \in Masters, a.type = "RR"
        PROVE  a.passed[m] < BUS_MASTERS
    <3>1. Behind(BUS_MASTERS, a.current_master + 1, m) \in Nat
      BY <2>3, <2>4 DEF Behind
    <3>2. a.passed[m] + Behind(BUS_MASTERS, a.current_master + 1, m) < BUS_MASTERS
      BY <2>1, <2>5, Zenon DEF ArbiterInv, PassedOver
    <3> QED
      BY <2>3, <2>4, <3>1, <3>2
  <2>6. ASSUME NEW m \in Masters, a.type = "TDMA", m < a.tdma_num_slots
        PROVE  a.passed[m] < a.tdma_num_slots
    <3> DEFINE c == a.tdma_slot % a.tdma_num_slots
    <3>1. c \in 0 .. a.tdma_num_slots - 1
      BY <2>3
    <3> HIDE DEF c
    <3>2. Behind(a.tdma_num_slots, c, m) \in Nat
      BY <2>3, <2>4, <3>1 DEF Behind
    <3>3. a.passed[m] + Behind(a.tdma_num_slots, c, m) < a.tdma_num_slots
      BY <2>1, <2>6, Zenon DEF ArbiterInv, PassedOver, c
    <3> QED
      BY <2>3, <3>2, <3>3
  <2>7. a.grant \subseteq a.request
    BY <2>1 DEF ArbiterInv
  <2> QED
    BY <2>2, <2>5, <2>6, <2>7 DEF a
<1>3. DtlbForgets
  BY DEF ClockedInv, DtlbInv
<1> QED
  BY <1>1, <1>2, <1>3 DEF ClockedSound

\* For every number of masters, slots, bits and entries: outputs of flip-flops stay opposite and a
\* register holds the bits last shifted in; at most one master is granted, and it asks; none
\* asks through more arbitrations than there are other masters, or slots; and the TLB answers
\* with what was inserted since the page was invalidated (sequential.c, bus_arbiter.c, memory.c).
THEOREM ClockedCorrect == ClockedSpec => []ClockedSound
BY ClockedInitInv, ClockedNextInv, ClockedInvSuffices, PTL DEF ClockedSpec
================================================================================
