----------------------------- MODULE TrustHardware -----------------------------
(***************************************************************************)
(* The root of trust and the memory encryption engine of                   *)
(* mini-hardware-security (src/hrot_puf.c, src/memory_crypto.c).           *)
(*                                                                         *)
(* Keys, hashes and ciphertexts are symbolic: a value is what it was       *)
(* computed from, so that equal inputs and only those give equal outputs.  *)
(* A response of the SRAM is the set of its bits that read one; enrolment  *)
(* sees how many of its 32 readings found each bit set.  Left out: the     *)
(* ring oscillators, derive_key (one HKDF call), labels, and the integrity *)
(* tree, whose verification compares a hash with itself.                   *)
(***************************************************************************)
EXTENDS Integers, Sequences, FiniteSets

CONSTANTS
    PufBits,        \* bits of the response, 2048
    ReadingCounts,  \* how often, of 32 readings, a bit may be found set
    KEY_SLOTS,      \* MINI_HWSEC_HROT_KEY_SLOTS, 8
    COUNTER_COUNT,  \* MINI_HWSEC_HROT_COUNTER_COUNT, 4
    COUNTER_MAX,    \* 0x00FFFFFFFFFFFFFF
    ProvisionedKeys,
    MAX_REGIONS,    \* MINI_HWSEC_MEM_MAX_REGIONS, 16
    LINE_SIZE,      \* MINI_HWSEC_MEM_LINE_SIZE, 64
    RegionShapes,   \* pairs base, size
    LineAddresses,
    LineData,
    REPLAY_SLOTS,   \* line_addr % 1024
    MaxClaim        \* bound: the counters of the replay table

ASSUME TrustAssumption ==
    /\ ReadingCounts \subseteq Nat
    /\ KEY_SLOTS \in Nat /\ COUNTER_COUNT \in Nat /\ COUNTER_MAX \in Nat
    /\ MAX_REGIONS \in Nat /\ REPLAY_SLOTS \in Nat \ {0} /\ MaxClaim \in Nat
    /\ LineAddresses \subseteq Nat /\ RegionShapes \subseteq Nat \X Nat

VARIABLES
    puf,     \* enrolled, raw, mask, helper, golden; reconstructed, the last key
    seen,    \* history: bits the last enrolment found stable high and low, bits any found stable high
    hrot,    \* slots, counters, lifecycle, debug_locked, device_key
    past,    \* history since the boot: key given to each slot, verified minimum and value at locking of each counter
    mee,     \* regions; line in DRAM; out, what the last decrypt_line returned
    sealed,  \* history: region, base, address and data of that line
    replay,  \* the counters of the replay table
    claimed  \* history: highest claim accepted for each line address

puf_vars   == <<puf, seen>>
hrot_vars  == <<hrot, past>>
mee_vars   == <<mee, sealed>>
replay_vars == <<replay, claimed>>
trust_vars == <<puf_vars, hrot_vars, mee_vars, replay_vars>>
--------------------------------------------------------------------------------
sha256(x) == [sha256 |-> x]
NoDigest  == [sha256 |-> "none"]

StableHigh(counts) == {b \in PufBits : counts[b] > 28}
StableLow(counts)  == {b \in PufBits : counts[b] < 4}

\* The parity of the "BCH" encoder is a digest, and its decoder corrects nothing.
bch_encode(data) == sha256(data)
bch_decode(data) == data

fuzzy_extract(noisy, helper) == sha256(bch_decode([noisy |-> noisy, xor |-> helper]))

NothingSeen == [high |-> {}, low |-> {}, ever |-> {}]

BlankPuf == [enrolled |-> FALSE, raw |-> {}, mask |-> {}, helper |-> NoDigest,
             golden |-> NoDigest, reconstructed |-> NoDigest]

\* Mutant of Enrolled: a bit found stable low is masked in, not cleared.
EnrolledKeepingHigh(p, counts) ==
    LET raw  == p.raw \cup StableHigh(counts)
        mask == p.mask \cup StableHigh(counts) \cup StableLow(counts)
    IN  [p EXCEPT !.enrolled = TRUE, !.raw = raw, !.mask = mask,
                  !.helper = bch_encode(raw), !.golden = sha256(raw \cap mask)]

\* Unstable bits keep what an earlier enrolment of the structure left in them.
Enrolled(p, counts) ==
    LET raw  == (p.raw \cup StableHigh(counts)) \ StableLow(counts)
        mask == p.mask \cup StableHigh(counts) \cup StableLow(counts)
    IN  [p EXCEPT !.enrolled = TRUE, !.raw = raw, !.mask = mask,
                  !.helper = bch_encode(raw), !.golden = sha256(raw \cap mask)]

sram_puf_enroll(counts) ==
    /\ puf' = Enrolled(puf, counts)
    /\ seen' = [high |-> StableHigh(counts), low |-> StableLow(counts),
                ever |-> seen.ever \cup StableHigh(counts)]
    /\ UNCHANGED <<hrot_vars, mee_vars, replay_vars>>

sram_puf_reconstruct(noisy) ==
    /\ puf.enrolled
    /\ puf' = [puf EXCEPT !.reconstructed = fuzzy_extract(noisy, puf.helper)]
    /\ UNCHANGED <<seen, hrot_vars, mee_vars, replay_vars>>

PufNext ==
    \/ \E counts \in [PufBits -> ReadingCounts] : sram_puf_enroll(counts)
    \/ \E noisy \in SUBSET PufBits : sram_puf_reconstruct(noisy)
--------------------------------------------------------------------------------
KeySlots == 0 .. KEY_SLOTS - 1
Counters == 0 .. COUNTER_COUNT - 1

EmptySlot == [occupied |-> FALSE, key |-> "zero", locked |-> FALSE]

Booted(counts) ==
    [slots |-> [s \in KeySlots |-> EmptySlot],
     counters |-> [c \in Counters |-> [value |-> 0, locked |-> FALSE]],
     lifecycle |-> 1, debug_locked |-> FALSE,
     device_key |-> Enrolled(BlankPuf, counts).golden]

NothingPast ==
    [keys |-> [s \in KeySlots |-> "none"],
     verified |-> [c \in Counters |-> 0], lockedAt |-> [c \in Counters |-> -1],
     reached |-> 1, readings |-> {}]

hrot_init(counts) ==
    /\ hrot' = Booted(counts)
    /\ past' = [NothingPast EXCEPT !.readings = {counts}]
    /\ UNCHANGED <<puf_vars, mee_vars, replay_vars>>

hrot_provision_key(s, key) ==
    /\ ~hrot.slots[s].locked
    /\ hrot' = [hrot EXCEPT !.slots[s].key = key, !.slots[s].occupied = TRUE]
    /\ past' = [past EXCEPT !.keys[s] = key]
    /\ UNCHANGED <<puf_vars, mee_vars, replay_vars>>

hrot_get_key(s) == IF hrot.slots[s].occupied THEN hrot.slots[s].key ELSE "none"

\* Mutant of Incremented: the counter wraps at its width.
IncrementedModulo(v) == (v + 1) % (COUNTER_MAX + 1)

\* Past COUNTER_MAX the call answers false, and the step has been taken.
Incremented(v) == v + 1

counter_increment(c) ==
    /\ ~hrot.counters[c].locked
    /\ hrot.counters[c].value <= COUNTER_MAX + 1          \* bound
    /\ hrot' = [hrot EXCEPT !.counters[c].value = Incremented(@)]
    /\ UNCHANGED <<past, puf_vars, mee_vars, replay_vars>>

\* Only a check that succeeds tells its caller anything.
counter_verify(c, min) ==
    /\ hrot.counters[c].value >= min
    /\ past' = [past EXCEPT !.verified[c] = IF min > @ THEN min ELSE @]
    /\ UNCHANGED <<hrot, puf_vars, mee_vars, replay_vars>>

counter_lock(c) ==
    /\ hrot' = [hrot EXCEPT !.counters[c].locked = TRUE]
    /\ past' = [past EXCEPT !.lockedAt[c] = IF @ = -1 THEN hrot.counters[c].value ELSE @]
    /\ UNCHANGED <<puf_vars, mee_vars, replay_vars>>

\* Forward, one or several states at a time, or where it is.
hrot_advance_lifecycle(state) ==
    /\ state \in 0 .. 3 /\ state >= hrot.lifecycle
    /\ hrot' = [hrot EXCEPT !.lifecycle = state]
    /\ past' = [past EXCEPT !.reached = IF state > @ THEN state ELSE @]
    /\ UNCHANGED <<puf_vars, mee_vars, replay_vars>>

hrot_lock_debug ==
    /\ hrot.lifecycle >= 2
    /\ hrot' = [hrot EXCEPT !.debug_locked = TRUE]
    /\ UNCHANGED <<past, puf_vars, mee_vars, replay_vars>>

HrotNext ==
    \/ \E counts \in [PufBits -> ReadingCounts] : hrot_init(counts)
    \/ \E s \in KeySlots, key \in ProvisionedKeys : hrot_provision_key(s, key)
    \/ \E c \in Counters : counter_increment(c) \/ counter_lock(c)
    \/ \E c \in Counters, min \in 1 .. COUNTER_MAX + 2 : counter_verify(c, min)
    \/ \E state \in 0 .. 3 : hrot_advance_lifecycle(state)
    \/ hrot_lock_debug
--------------------------------------------------------------------------------
Zeros   == "zeros"
NoLine  == [is_encrypted |-> FALSE, key |-> "none", iv |-> <<>>, tag |-> FALSE, plain |-> Zeros]
NoSeal  == [region |-> -1, base |-> -1, address |-> -1, data |-> Zeros]
NoOut   == [asked |-> FALSE]

\* Mutant of RegionKey: the base address is not part of the derivation.
RegionKeyOfNumber(id, base) == [label |-> id, info |-> 0]

\* hkdf of "MEM-REGION-<id>" and the base address; the master key is not used.
RegionKey(id, base) == [label |-> id, info |-> base]

Region(id) == mee.regions[id + 1]
LineIv(id, address) == <<address, id % 65536>>

mem_engine_init ==
    /\ mee' = [mee EXCEPT !.regions = <<>>, !.failures = 0, !.out = NoOut]
    /\ UNCHANGED <<sealed, puf_vars, hrot_vars, replay_vars>>

mem_region_add(base, size) ==
    /\ Len(mee.regions) < MAX_REGIONS
    /\ size % LINE_SIZE = 0
    /\ mee' = [mee EXCEPT !.out = NoOut,
                 !.regions = Append(@, [base |-> base, key |-> RegionKey(Len(@), base)])]
    /\ UNCHANGED <<sealed, puf_vars, hrot_vars, replay_vars>>

\* Neither the bounds of the region nor the alignment of the address is checked.
mem_encrypt_line(id, address, data) ==
    /\ id < Len(mee.regions)
    /\ mee' = [mee EXCEPT !.out = NoOut,
                 !.line = [is_encrypted |-> TRUE, key |-> Region(id).key,
                           iv |-> LineIv(id, address), tag |-> TRUE, plain |-> data]]
    /\ sealed' = [region |-> id, base |-> Region(id).base, address |-> address, data |-> data]
    /\ UNCHANGED <<puf_vars, hrot_vars, replay_vars>>

\* Galois/counter mode: key, counter block, associated address and tag all have to fit.
Opens(line, key, id, address) == line.tag /\ line.key = key /\ line.iv = LineIv(id, address)

mem_decrypt_line(id, address) ==
    /\ id < Len(mee.regions)
    /\ LET line == mee.line
           ok   == ~line.is_encrypted \/ Opens(line, Region(id).key, id, address)
       IN  mee' = [mee EXCEPT
             !.out = [asked |-> TRUE, ok |-> ok, data |-> IF ok THEN line.plain ELSE Zeros,
                      region |-> id, base |-> Region(id).base, address |-> address],
             !.failures = IF ok \/ @ = 2 THEN @ ELSE @ + 1]     \* bound: failures counted
    /\ UNCHANGED <<sealed, puf_vars, hrot_vars, replay_vars>>

\* mem_bulk_encrypt copies the ciphertext of a line and leaves its tag behind, and
\* mem_bulk_decrypt checks a tag of zeros: what is left of a line for one transfer.
mem_bulk_encrypt(id, address, data) ==
    /\ id < Len(mee.regions)
    /\ mee' = [mee EXCEPT !.out = NoOut,
                 !.line = [is_encrypted |-> TRUE, key |-> Region(id).key,
                           iv |-> LineIv(id, address), tag |-> FALSE, plain |-> data]]
    /\ sealed' = [region |-> id, base |-> Region(id).base, address |-> address, data |-> data]
    /\ UNCHANGED <<puf_vars, hrot_vars, replay_vars>>

MeeNext ==
    \/ mem_engine_init
    \/ \E shape \in RegionShapes : mem_region_add(shape[1], shape[2])
    \/ \E id \in 0 .. MAX_REGIONS - 1, address \in LineAddresses :
          \/ \E data \in LineData : mem_encrypt_line(id, address, data) \/ mem_bulk_encrypt(id, address, data)
          \/ mem_decrypt_line(id, address)
--------------------------------------------------------------------------------
ReplaySlot(address) == address % REPLAY_SLOTS

mem_replay_protect(address, claim) ==
    /\ claim >= replay[ReplaySlot(address)]
    /\ replay' = [replay EXCEPT ![ReplaySlot(address)] = claim]
    /\ claimed' = [claimed EXCEPT ![address] = claim]
    /\ UNCHANGED <<puf_vars, hrot_vars, mee_vars>>

mem_counter_increment(address) ==
    /\ replay[ReplaySlot(address)] < MaxClaim             \* bound
    /\ replay' = [replay EXCEPT ![ReplaySlot(address)] = @ + 1]
    /\ UNCHANGED <<claimed, puf_vars, hrot_vars, mee_vars>>

ReplayNext ==
    \E address \in LineAddresses :
       \/ \E claim \in 0 .. MaxClaim : mem_replay_protect(address, claim)
       \/ mem_counter_increment(address)
--------------------------------------------------------------------------------
TrustInit ==
    /\ puf = BlankPuf /\ seen = NothingSeen
    /\ hrot = Booted([b \in PufBits |-> 0])
    /\ past = [NothingPast EXCEPT !.readings = {[b \in PufBits |-> 0]}]
    /\ mee = [regions |-> <<>>, line |-> NoLine, out |-> NoOut, failures |-> 0]
    /\ sealed = NoSeal
    /\ replay = [i \in 0 .. REPLAY_SLOTS - 1 |-> 0]
    /\ claimed = [address \in LineAddresses |-> 0]

TrustNext == PufNext \/ HrotNext \/ MeeNext \/ ReplayNext

TrustSpec == TrustInit /\ [][TrustNext]_trust_vars
--------------------------------------------------------------------------------
\* After any number of enrolments the key has every bit the last one found stable high,
\* none it found stable low, and no bit that never was stable high; the device key is
\* that of the bits stable high in the readings of the boot, whose structure is new.
KeysOfStableBits ==
    /\ puf.enrolled => \E bits \in SUBSET seen.ever :
                          /\ puf.golden = sha256(bits)
                          /\ seen.high \subseteq bits
                          /\ bits \cap seen.low = {}
    /\ \A counts \in past.readings : hrot.device_key = sha256(StableHigh(counts))

\* Not so of the code (README, section 6): bits unstable in the last enrolment are not used.
KeyOfLastEnrolment == puf.enrolled => puf.golden = sha256(seen.high)

\* Since the boot: a minimum that was verified stays reached, a locked counter
\* stays where it was locked, a slot holds the key it was last given, the life
\* cycle never went back and the debug port was locked in a secure state only.
RootKeepsPromises ==
    /\ \A c \in Counters :
          /\ hrot.counters[c].value >= past.verified[c]
          /\ past.lockedAt[c] >= 0 => hrot.counters[c].value = past.lockedAt[c]
    /\ \A s \in KeySlots : hrot_get_key(s) = past.keys[s]
    /\ hrot.lifecycle = past.reached
    /\ hrot.debug_locked => past.reached >= 2

\* The last line asked for is the one last encrypted: region number, its base, address.
SealedHere ==
    /\ sealed.region = mee.out.region /\ sealed.base = mee.out.base
    /\ sealed.address = mee.out.address

\* A line opens nowhere but for the region of the same number and base it was encrypted
\* for, at its address, and a line of encrypt_line does open there, also after the engine
\* was set up again; what opens is the data, what does not reads as zeros.
LinesOpenWhereSealed ==
    mee.out.asked /\ mee.line.is_encrypted =>
        /\ mee.out.ok => SealedHere
        /\ mee.line.tag /\ SealedHere => mee.out.ok
        /\ mee.out.data = IF mee.out.ok THEN sealed.data ELSE Zeros

\* Not so of the code (README, section 6): what a bulk transfer encrypted it decrypts.
BulkLinesOpen ==
    mee.out.asked /\ mee.line.is_encrypted /\ SealedHere => mee.out.ok

\* Line addresses that share a counter never let a line's count go back.
ClaimsNeverGoBack ==
    \A address \in LineAddresses : replay[ReplaySlot(address)] >= claimed[address]

\* Key material, monotonic counters, encrypted lines and replay counters of
\* mini-hardware-security keep what they promise between any calls.
TrustSound ==
    /\ KeysOfStableBits
    /\ RootKeepsPromises
    /\ LinesOpenWhereSealed
    /\ ClaimsNeverGoBack
================================================================================
