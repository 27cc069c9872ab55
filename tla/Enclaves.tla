-------------------------------- MODULE Enclaves --------------------------------
(***************************************************************************)
(* The enclave manager of mini-hardware-security (src/tee_enclave.c):      *)
(* slots, their life cycle, sealing, attestation and the round robin over  *)
(* the slots.                                                              *)
(*                                                                         *)
(* Keys are symbolic: a key is what it was derived from, and what one key  *)
(* encrypts or authenticates only the same key opens.  A zeroed slot has   *)
(* the zero key.  Left out: the memory image, time stamps, and what an     *)
(* enclave computes.                                                       *)
(***************************************************************************)
EXTENDS Integers, FiniteSets, FiniteSetsExt

CONSTANTS
    MAX_ENCLAVES,      \* MINI_HWSEC_TEE_MAX_ENCLAVES, 16
    Identities,        \* records mr_enclave, mr_signer, product_id, attributes
    ATTRIBUTE_RANGE,   \* 2^16: the key is derived from the low half of the attributes
    MaxSurplus         \* bound: destroy calls on slots that hold no enclave

ASSUME TeeAssumption ==
    /\ MAX_ENCLAVES \in Nat \ {0} /\ ATTRIBUTE_RANGE \in Nat \ {0} /\ MaxSurplus \in Nat
    /\ Identities \subseteq
          [mr_enclave : Nat, mr_signer : Nat, product_id : Nat, attributes : Nat]
    /\ \A id \in Identities : id.mr_enclave # 0     \* no code hashes to zero

Slots == 0 .. MAX_ENCLAVES - 1

VARIABLES
    enclaves,        \* state, identity, seal_key of each slot
    enclave_count,
    sched,           \* current_enclave of the scheduler, -1 for none
    sealed,          \* the blob last sealed: key and key_policy; or NoSeal
    sealer,          \* history: the identity that sealed the blob, or NoIdentity
    surplus,         \* history: destroy calls on slots that held no enclave
    waited           \* history: turns given to others while the slot could run

tee_vars == <<enclaves, enclave_count, sched, sealed, sealer, surplus, waited>>
--------------------------------------------------------------------------------
NoIdentity  == [mr_enclave |-> 0, mr_signer |-> 0, product_id |-> 0, attributes |-> 0]
ZeroKey     == [kdf |-> "zero", from |-> NoIdentity]
PlatformKey == [kdf |-> "ATTEST-KEY", from |-> NoIdentity]
NoSeal      == [key |-> ZeroKey, key_policy |-> "NONE"]
NoEnclave   == [state |-> "UNINITIALIZED", identity |-> NoIdentity, seal_key |-> ZeroKey]

Policies == {"MRENCLAVE", "MRSIGNER"}

SealKey(id) == [kdf |-> "SEAL-KEY", from |-> [id EXCEPT !.attributes = @ % ATTRIBUTE_RANGE]]

Free(e)   == e.state \in {"UNINITIALIZED", "DESTROYED"}
CanRun(e) == e.state \in {"INITIALIZED", "STOPPED"}

\* state >= INITIALIZED in the order of the enumeration: a destroyed slot passes.
CanAttest(e) == e.state \in {"INITIALIZED", "RUNNING", "STOPPED", "DESTROYED"}

get_free_enclaves   == Cardinality({s \in Slots : Free(enclaves[s])})
is_valid_enclave(s) == s \in Slots /\ ~Free(enclaves[s])

\* The policy goes into the initial vector and the tag, at both ends from the blob.
unseal(s)        == sealed # NoSeal /\ sealed.key = enclaves[s].seal_key
verify_report(r) == r.key = PlatformKey

\* Reports of slots that CanAttest; a local one is for the target's eyes.
attest_local(s, target) == [identity |-> enclaves[s].identity, key |-> enclaves[target].seal_key]
attest_remote(s)        == [identity |-> enclaves[s].identity, key |-> PlatformKey]

Distance(s) == (s - (sched + 1) + MAX_ENCLAVES) % MAX_ENCLAVES

\* The first slot after the current one that can run.
NextTurn ==
    LET able == {s \in Slots : CanRun(enclaves[s])}
    IN  IF able = {} THEN -1
        ELSE CHOOSE s \in able : \A r \in able : Distance(s) <= Distance(r)
--------------------------------------------------------------------------------
TeeInit ==
    /\ enclaves = [s \in Slots |-> NoEnclave]
    /\ enclave_count = 0
    /\ sched = -1
    /\ sealed = NoSeal
    /\ sealer = NoIdentity /\ surplus = 0
    /\ waited = [s \in Slots |-> 0]

Become(s, state) == enclaves' = [enclaves EXCEPT ![s].state = state]

tee_create_enclave(id) ==
    /\ \E s \in Slots : Free(enclaves[s])
    /\ LET slot == Min({s \in Slots : Free(enclaves[s])})
       IN  enclaves' = [enclaves EXCEPT ![slot] =
                           [state |-> "CREATED", identity |-> id, seal_key |-> SealKey(id)]]
    /\ enclave_count' = enclave_count + 1
    /\ UNCHANGED <<sched, sealed, sealer, surplus, waited>>

tee_init_enclave(s) ==
    /\ enclaves[s].state = "CREATED"
    /\ Become(s, "INITIALIZED")
    /\ waited' = [waited EXCEPT ![s] = 0]
    /\ UNCHANGED <<enclave_count, sched, sealed, sealer, surplus>>

\* Entering, running and leaving are one call.
tee_enter(s) ==
    /\ CanRun(enclaves[s])
    /\ Become(s, "STOPPED")
    /\ UNCHANGED <<enclave_count, sched, sealed, sealer, surplus, waited>>

\* Mutant of Wiped: the key of the enclave stays in its slot.
WipedButKey(e) == [NoEnclave EXCEPT !.state = "DESTROYED", !.seal_key = e.seal_key]

Wiped(e) == [NoEnclave EXCEPT !.state = "DESTROYED"]

\* Whatever the slot holds: the count goes down even if it holds nothing.
tee_destroy(s) ==
    /\ ~is_valid_enclave(s) => surplus < MaxSurplus
    /\ enclaves' = [enclaves EXCEPT ![s] = Wiped(@)]
    /\ enclave_count' = enclave_count - 1
    /\ surplus' = IF is_valid_enclave(s) THEN surplus ELSE surplus + 1
    /\ UNCHANGED <<sched, sealed, sealer, waited>>

\* The state of the slot is not asked, and the policy labels the blob but does not enter
\* the key.
tee_seal(s, policy) ==
    /\ sealed = NoSeal                    \* bound: one blob in a behaviour
    /\ sealed' = [key |-> enclaves[s].seal_key, key_policy |-> policy]
    /\ sealer' = enclaves[s].identity
    /\ UNCHANGED <<enclaves, enclave_count, sched, surplus, waited>>

tee_scheduler_schedule ==
    /\ sched' = NextTurn
    /\ waited' = [s \in Slots |-> IF s = NextTurn \/ ~CanRun(enclaves[s]) THEN 0 ELSE waited[s] + 1]
    /\ UNCHANGED <<enclaves, enclave_count, sealed, sealer, surplus>>

TeeNext ==
    \/ \E id \in Identities : tee_create_enclave(id)
    \/ \E s \in Slots : tee_init_enclave(s) \/ tee_enter(s) \/ tee_destroy(s)
    \/ \E s \in Slots, policy \in Policies : tee_seal(s, policy)
    \/ tee_scheduler_schedule

TeeSpec == TeeInit /\ [][TeeNext]_tee_vars
--------------------------------------------------------------------------------
(* Properties. *)

\* The count beside the slots is the number of enclaves in them, less one for every
\* destroy call on an empty slot; free slots are the rest.
EnclavesAccounted ==
    /\ enclave_count + surplus = Cardinality({s \in Slots : is_valid_enclave(s)})
    /\ get_free_enclaves = MAX_ENCLAVES - (enclave_count + surplus)

SameOwner(a, b) ==
    /\ a.mr_enclave = b.mr_enclave /\ a.mr_signer = b.mr_signer /\ a.product_id = b.product_id
    /\ a.attributes % ATTRIBUTE_RANGE = b.attributes % ATTRIBUTE_RANGE

\* Sealed data outlives its enclave, through any destruction and reuse of slots: an enclave
\* of the same identity opens it again, in whichever slot it is, and nobody opens it but
\* enclaves of the same signer, and under MRENCLAVE of the same measurement; an empty slot
\* does not.
SealsFollowIdentity ==
    sealer # NoIdentity => \A s \in Slots :
        /\ is_valid_enclave(s) /\ SameOwner(enclaves[s].identity, sealer) => unseal(s)
        /\ unseal(s) =>
              /\ is_valid_enclave(s)
              /\ enclaves[s].identity.mr_signer = sealer.mr_signer
              /\ sealed.key_policy = "MRENCLAVE" =>
                    enclaves[s].identity.mr_enclave = sealer.mr_enclave

\* Violated by the code: what MRSIGNER promises, that any enclave of the signer opens the
\* blob (tee_enclave.c:308).  The key is always derived from the measurement too.
SignerBlobsMigrate ==
    sealer # NoIdentity /\ sealed.key_policy = "MRSIGNER" => \A s \in Slots :
        is_valid_enclave(s) /\ enclaves[s].identity.mr_signer = sealer.mr_signer => unseal(s)

\* No enclave that can run is passed over for as many turns as there are slots, whatever
\* is created and destroyed between the turns.
TurnsComeRound == \A s \in Slots : CanRun(enclaves[s]) => waited[s] < MAX_ENCLAVES

\* A remote report passes verification and names the enclave of its slot, or nobody once
\* it is destroyed.
ReportsSound ==
    \A s \in Slots : CanAttest(enclaves[s]) =>
        /\ verify_report(attest_remote(s))
        /\ attest_remote(s).identity = NoIdentity <=> Free(enclaves[s])

\* Violated by the code: a local report carries a MAC of the platform (tee_enclave.h:224),
\* which verification would accept.  It is made with the target's sealing key instead.
LocalReportsVerify ==
    \A s, t \in Slots : CanAttest(enclaves[s]) /\ CanAttest(enclaves[t]) =>
        verify_report(attest_local(s, t))

\* The life of the slots, the keys and the turns together.
EnclavesSound == EnclavesAccounted /\ SealsFollowIdentity /\ TurnsComeRound /\ ReportsSound
================================================================================
