------------------------------ MODULE DeviceProofs ------------------------------
(***************************************************************************)
(* Theorems about the enclaves, the packet rings, the completion queue,    *)
(* the rate limiters, the measured boot and the warp schedulers of module  *)
(* MCDevices, for every number of slots, every size of ring and queue,     *)
(* every rate, burst and set of times, every chain of images and length of *)
(* the event log, every number of schedulers and warps.                    *)
(*                                                                         *)
(* The enclaves: a slot holds the key of the identity in it, or is wiped;  *)
(* the turns an enclave has waited and its distance from the scheduler's   *)
(* place add up to less than the number of slots.                          *)
(*                                                                         *)
(* The limiters: the room a bucket has is the burst less the worst excess  *)
(* over the rate of any run of packets that ends now.                      *)
(*                                                                         *)
(* The rings: what went in is what came out, followed by the entries from  *)
(* head on, and an operation appends to or takes from that sequence.       *)
(*                                                                         *)
(* The boot: replaying the log gives the start of every register, all of   *)
(* it while the log has room.  A run of the chain, a query and a replay    *)
(* are followed round by round.                                            *)
(*                                                                         *)
(* The warps: the cycles a warp has been overdue and the places between    *)
(* it and the rotating index make less than a round; a queue holds a warp  *)
(* once, so that one stall takes it out.                                   *)
(***************************************************************************)
EXTENDS MCDevices, FiniteSetTheorems, SequenceTheorems, WellFoundedInduction,
        NaturalsInduction, TLAPS

\* The enclave slots are a finite set of MAX_ENCLAVES numbers.
LEMMA SlotsCounted == IsFiniteSet(Slots) /\ Cardinality(Slots) = MAX_ENCLAVES
<1>1. MAX_ENCLAVES \in Nat /\ Slots = 0 .. MAX_ENCLAVES - 1
  BY TeeAssumption DEF Slots
<1> QED
  BY <1>1, FS_Interval
--------------------------------------------------------------------------------
(* The enclaves. *)

SlotRecord ==
  [state    : {"UNINITIALIZED", "CREATED", "INITIALIZED", "STOPPED", "DESTROYED"},
   identity : [mr_enclave : Nat, mr_signer : Nat, product_id : Nat, attributes : Nat],
   seal_key : [kdf  : {"zero", "SEAL-KEY"},
               from : [mr_enclave : Nat, mr_signer : Nat, product_id : Nat, attributes : Nat]]]

TeeTypes ==
  /\ enclaves \in [Slots -> SlotRecord]
  /\ enclave_count \in Int /\ surplus \in Nat
  /\ sched \in -1 .. MAX_ENCLAVES - 1
  /\ waited \in [Slots -> Nat]

\* A free slot is wiped; the others hold the key of the identity they hold.
KeyOfIdentity(e) ==
  /\ Free(e) => e.identity = NoIdentity /\ e.seal_key = ZeroKey
  /\ ~Free(e) => e.identity \in Identities /\ e.seal_key = SealKey(e.identity)

Occupied == {s \in Slots : ~Free(enclaves[s])}

\* The blob was sealed with the key of the identity that sealed it.
BlobKeyed == sealer # NoIdentity => sealer \in Identities /\ sealed.key = SealKey(sealer)

\* The turns a slot has waited and those before it make at most one round: a slot that
\* is chosen is at the least distance, so each turn brings the others as much nearer as
\* it made them wait, or more.
TurnsBounded ==
  \A s \in Slots : CanRun(enclaves[s]) => waited[s] + Distance(s) <= MAX_ENCLAVES - 1

TeeInv ==
  /\ TeeTypes
  /\ \A s \in Slots : KeyOfIdentity(enclaves[s])
  /\ enclave_count + surplus = Cardinality(Occupied)
  /\ BlobKeyed
  /\ TurnsBounded

\* The distance without the modulus.
LEMMA DistanceIs ==
  ASSUME NEW c \in -1 .. MAX_ENCLAVES - 1, NEW s \in Slots
  PROVE  (s - (c + 1) + MAX_ENCLAVES) % MAX_ENCLAVES
            = IF s > c THEN s - c - 1 ELSE s - c - 1 + MAX_ENCLAVES
<1>1. MAX_ENCLAVES \in Nat \ {0} /\ s \in 0 .. MAX_ENCLAVES - 1
  BY TeeAssumption DEF Slots
<1> QED
  BY <1>1

\* The key of an identity is a key, and two identities have the same key exactly if they
\* have the same owner; none is the key of a wiped slot.
LEMMA KeysOfOwners ==
  ASSUME NEW a \in Identities, NEW b \in Identities
  PROVE  /\ SealKey(a) \in [kdf  : {"zero", "SEAL-KEY"},
                            from : [mr_enclave : Nat, mr_signer : Nat,
                                    product_id : Nat, attributes : Nat]]
         /\ SealKey(a) = SealKey(b) <=> SameOwner(a, b)
         /\ SealKey(a) # ZeroKey
<1> DEFINE R == ATTRIBUTE_RANGE
<1>1. /\ a \in [mr_enclave : Nat, mr_signer : Nat, product_id : Nat, attributes : Nat]
      /\ b \in [mr_enclave : Nat, mr_signer : Nat, product_id : Nat, attributes : Nat]
      /\ R \in Nat \ {0}
  BY TeeAssumption
<1>2. a.attributes % R \in Nat /\ b.attributes % R \in Nat
  BY <1>1
<1> HIDE DEF R
<1> DEFINE low(id) == [id EXCEPT !.attributes = @ % R]
<1>3. /\ low(a) \in [mr_enclave : Nat, mr_signer : Nat, product_id : Nat, attributes : Nat]
      /\ low(b) \in [mr_enclave : Nat, mr_signer : Nat, product_id : Nat, attributes : Nat]
  BY <1>1, <1>2
<1>4. /\ low(a).mr_enclave = a.mr_enclave /\ low(a).mr_signer = a.mr_signer
      /\ low(a).product_id = a.product_id /\ low(a).attributes = a.attributes % R
      /\ low(b).mr_enclave = b.mr_enclave /\ low(b).mr_signer = b.mr_signer
      /\ low(b).product_id = b.product_id /\ low(b).attributes = b.attributes % R
  BY <1>1, <1>2
<1>5. /\ SealKey(a) = [kdf |-> "SEAL-KEY", from |-> low(a)]
      /\ SealKey(b) = [kdf |-> "SEAL-KEY", from |-> low(b)]
  BY DEF SealKey, R
<1> HIDE DEF low
<1>6. low(a) = low(b) <=> /\ low(a).mr_enclave = low(b).mr_enclave
                          /\ low(a).mr_signer = low(b).mr_signer
                          /\ low(a).product_id = low(b).product_id
                          /\ low(a).attributes = low(b).attributes
  BY <1>3
<1>7. SealKey(a) = SealKey(b) <=> low(a) = low(b)
  BY <1>5
<1>8. SealKey(a) = SealKey(b) <=> SameOwner(a, b)
  BY <1>4, <1>6, <1>7 DEF SameOwner, R
<1>9. SealKey(a) \in [kdf  : {"zero", "SEAL-KEY"},
                      from : [mr_enclave : Nat, mr_signer : Nat,
                              product_id : Nat, attributes : Nat]]
  BY <1>3, <1>5
<1>10. SealKey(a).kdf = "SEAL-KEY" /\ ZeroKey.kdf = "zero"
  BY <1>5 DEF ZeroKey
<1> QED
  BY <1>8, <1>9, <1>10

\* Changing one slot changes the number of occupied slots by at most that slot.
LEMMA OccupiedAfter ==
  ASSUME TeeTypes, NEW s \in Slots, NEW e, enclaves' = [enclaves EXCEPT ![s] = e]
  PROVE  /\ Cardinality(Occupied) \in Nat
         /\ Free(e) /\ Free(enclaves[s]) => Cardinality(Occupied') = Cardinality(Occupied)
         /\ ~Free(e) /\ ~Free(enclaves[s]) => Cardinality(Occupied') = Cardinality(Occupied)
         /\ ~Free(e) /\ Free(enclaves[s]) => Cardinality(Occupied') = Cardinality(Occupied) + 1
         /\ Free(e) /\ ~Free(enclaves[s]) => Cardinality(Occupied') = Cardinality(Occupied) - 1
<1>1. enclaves \in [Slots -> SlotRecord]
  BY DEF TeeTypes
<1>2. \A r \in Slots : enclaves'[r] = IF r = s THEN e ELSE enclaves[r]
  BY <1>1
<1>3. IsFiniteSet(Occupied) /\ Cardinality(Occupied) \in Nat
  <2>1. Occupied \subseteq Slots
    BY DEF Occupied
  <2> QED
    BY <2>1, SlotsCounted, FS_Subset, FS_CardinalityType
<1>4. Occupied' = {r \in Slots : ~Free(enclaves'[r])}
  BY DEF Occupied, Free
<1>5. \A r \in Slots : r \in Occupied' <=> IF r = s THEN ~Free(e) ELSE r \in Occupied
  BY <1>2, <1>4 DEF Occupied
<1>6. Occupied \subseteq Slots /\ Occupied' \subseteq Slots
  BY <1>4 DEF Occupied
<1>7. s \in Occupied <=> ~Free(enclaves[s])
  BY DEF Occupied
<1>8. CASE Free(e) <=> Free(enclaves[s])
  <2>1. Occupied' = Occupied
    BY <1>5, <1>6, <1>7, <1>8
  <2> QED
    BY <1>3, <1>8, <2>1
<1>9. CASE ~Free(e) /\ Free(enclaves[s])
  <2>1. Occupied' = Occupied \cup {s} /\ s \notin Occupied
    BY <1>5, <1>6, <1>7, <1>9
  <2>2. Cardinality(Occupied \cup {s}) = Cardinality(Occupied) + 1
    BY <1>3, <2>1, FS_AddElement
  <2> QED
    BY <1>3, <1>9, <2>1, <2>2
<1>10. CASE Free(e) /\ ~Free(enclaves[s])
  <2>1. Occupied' = Occupied \ {s} /\ s \in Occupied
    BY <1>5, <1>6, <1>7, <1>10
  <2>2. Cardinality(Occupied \ {s}) = Cardinality(Occupied) - 1
    BY <1>3, <2>1, FS_RemoveElement
  <2> QED
    BY <1>3, <1>10, <2>1, <2>2
<1> QED
  BY <1>8, <1>9, <1>10

\* The first free slot exists if there is one.
LEMMA FirstFree ==
  ASSUME NEW S \in SUBSET Slots, S # {}
  PROVE  Min(S) \in S
<1>1. S \in SUBSET Nat
  BY TeeAssumption DEF Slots
<1>2. PICK x \in S : \A y \in S : <<y, x>> \notin OpToRel(<, Nat)
  BY <1>1, NatLessThanWellFounded, WFMin, Zenon
<1>3. \A y \in S : ~(y < x)
  BY <1>1, <1>2 DEF OpToRel
<1>4. \E x_1 \in S : \A y \in S : x_1 <= y
  BY <1>1, <1>3
<1> QED
  BY <1>4 DEF Min

\* Changing the contents of one slot keeps the turns unless the slot becomes runnable.
LEMMA TurnsKept ==
  ASSUME TeeTypes, TurnsBounded, NEW s \in Slots, NEW e,
         enclaves' = [enclaves EXCEPT ![s] = e], CanRun(e) => CanRun(enclaves[s]),
         UNCHANGED <<sched, waited>>
  PROVE  TurnsBounded'
<1>1. \A r \in Slots : enclaves'[r] = IF r = s THEN e ELSE enclaves[r]
  BY DEF TeeTypes
<1>2. \A r \in Slots : Distance(r)' = Distance(r)
  BY DEF Distance
<1>3. ASSUME NEW r \in Slots, CanRun(enclaves'[r])
      PROVE  waited'[r] + Distance(r)' <= MAX_ENCLAVES - 1
  <2>1. CanRun(enclaves[r])
    BY <1>1, <1>3
  <2> QED
    BY <1>2, <2>1 DEF TurnsBounded
<1> QED
  BY <1>3 DEF TurnsBounded

\* At the start every slot is free and no thread waits.
LEMMA TeeInitInv == TeeInit => TeeInv
<1> SUFFICES ASSUME TeeInit PROVE TeeInv
  OBVIOUS
<1>1. /\ NoIdentity \in [mr_enclave : Nat, mr_signer : Nat, product_id : Nat, attributes : Nat]
      /\ ZeroKey \in [kdf  : {"zero", "SEAL-KEY"},
                      from : [mr_enclave : Nat, mr_signer : Nat,
                              product_id : Nat, attributes : Nat]]
  BY DEF NoIdentity, ZeroKey
<1>2. NoEnclave \in SlotRecord
  BY <1>1 DEF NoEnclave, SlotRecord
<1>3. Free(NoEnclave) /\ ~CanRun(NoEnclave) /\ KeyOfIdentity(NoEnclave)
  BY DEF NoEnclave, Free, CanRun, KeyOfIdentity
<1>4. \A s \in Slots : enclaves[s] = NoEnclave
  BY DEF TeeInit
<1>5. TeeTypes
  BY <1>2, TeeAssumption DEF TeeInit, TeeTypes
<1>6. Occupied = {}
  BY <1>3, <1>4 DEF Occupied
<1>7. enclave_count + surplus = Cardinality(Occupied)
  BY <1>6, FS_EmptySet DEF TeeInit
<1>8. BlobKeyed
  BY DEF TeeInit, BlobKeyed
<1>9. TurnsBounded
  BY <1>3, <1>4 DEF TurnsBounded
<1> QED
  BY <1>3, <1>4, <1>5, <1>7, <1>8, <1>9 DEF TeeInv

\* What every action that rewrites one slot has to show.
LEMMA OneSlotInv ==
  ASSUME TeeInv, NEW s \in Slots, NEW e,
         enclaves' = [enclaves EXCEPT ![s] = e], e \in SlotRecord, KeyOfIdentity(e),
         enclave_count' \in Int, surplus' \in Nat,
         UNCHANGED <<sched, sealed, sealer>>, waited' \in [Slots -> Nat],
         TurnsBounded',
         enclave_count' + surplus' = Cardinality(Occupied')
  PROVE  TeeInv'
<1>1. enclaves' \in [Slots -> SlotRecord]
  BY DEF TeeInv, TeeTypes
<1>2. TeeTypes'
  BY <1>1 DEF TeeInv, TeeTypes
<1>3. \A r \in Slots : KeyOfIdentity(enclaves'[r])
  <2>1. \A r \in Slots : enclaves'[r] = IF r = s THEN e ELSE enclaves[r]
    BY DEF TeeInv, TeeTypes
  <2> QED
    BY <2>1 DEF TeeInv
<1>4. \A r \in Slots : KeyOfIdentity(enclaves[r])'
  BY <1>3 DEF KeyOfIdentity, Free
<1>5. BlobKeyed'
  BY DEF TeeInv, BlobKeyed
<1> QED
  BY <1>2, <1>4, <1>5 DEF TeeInv

\* A created enclave takes a free slot and the key of its identity.
LEMMA CreateInv ==
  ASSUME TeeInv, NEW id \in Identities, tee_create_enclave(id)
  PROVE  TeeInv'
<1> DEFINE free == {s \in Slots : Free(enclaves[s])}
           slot == Min(free)
           e    == [state |-> "CREATED", identity |-> id, seal_key |-> SealKey(id)]
<1>1. slot \in Slots /\ Free(enclaves[slot])
  <2>1. free \in SUBSET Slots /\ free # {}
    BY DEF tee_create_enclave
  <2>2. Min(free) \in free
    BY <2>1, FirstFree
  <2> QED
    BY <2>2
<1>2. enclaves' = [enclaves EXCEPT ![slot] = e]
  BY DEF tee_create_enclave
<1> HIDE DEF free, slot
<1>3. /\ e \in SlotRecord /\ ~Free(e) /\ ~CanRun(e) /\ KeyOfIdentity(e)
  <2>1. id \in [mr_enclave : Nat, mr_signer : Nat, product_id : Nat, attributes : Nat]
    BY TeeAssumption
  <2>2. SealKey(id) \in [kdf  : {"zero", "SEAL-KEY"},
                         from : [mr_enclave : Nat, mr_signer : Nat,
                                 product_id : Nat, attributes : Nat]]
    BY KeysOfOwners
  <2>3. e \in SlotRecord
    BY <2>1, <2>2 DEF SlotRecord
  <2>4. ~Free(e) /\ ~CanRun(e)
    BY DEF Free, CanRun
  <2> QED
    BY <2>3, <2>4 DEF KeyOfIdentity
<1> HIDE DEF e
<1>4. TeeTypes /\ TurnsBounded /\ enclave_count + surplus = Cardinality(Occupied)
  BY DEF TeeInv
<1>5. /\ enclave_count' = enclave_count + 1 /\ surplus' = surplus
      /\ UNCHANGED <<sched, sealed, sealer, waited>>
  BY DEF tee_create_enclave
<1>6. TurnsBounded'
  BY <1>1, <1>2, <1>3, <1>4, <1>5, TurnsKept
<1>7. /\ Cardinality(Occupied) \in Nat
      /\ Cardinality(Occupied') = Cardinality(Occupied) + 1
  BY <1>1, <1>2, <1>3, <1>4, OccupiedAfter
<1>8. /\ enclave_count' \in Int /\ surplus' \in Nat /\ waited' \in [Slots -> Nat]
      /\ enclave_count' + surplus' = Cardinality(Occupied')
  BY <1>4, <1>5, <1>7 DEF TeeTypes
<1> QED
  BY <1>1, <1>2, <1>3, <1>5, <1>6, <1>8, OneSlotInv

\* Initializing and entering change the state of an occupied slot and nothing else of it.
LEMMA BecomeIs ==
  ASSUME TeeInv, NEW s \in Slots, NEW st \in {"INITIALIZED", "STOPPED"},
         ~Free(enclaves[s]), Become(s, st)
  PROVE  \E e : /\ enclaves' = [enclaves EXCEPT ![s] = e]
                /\ e \in SlotRecord /\ KeyOfIdentity(e) /\ ~Free(e) /\ CanRun(e)
<1> DEFINE e == [enclaves[s] EXCEPT !.state = st]
<1>1. enclaves[s] \in SlotRecord /\ KeyOfIdentity(enclaves[s])
  BY DEF TeeInv, TeeTypes
<1>2. enclaves' = [enclaves EXCEPT ![s] = e]
  BY DEF Become, TeeInv, TeeTypes
<1>3. e \in SlotRecord
  BY <1>1 DEF SlotRecord
<1>4. e.state = st /\ e.identity = enclaves[s].identity /\ e.seal_key = enclaves[s].seal_key
  BY <1>1 DEF SlotRecord
<1> HIDE DEF e
<1>5. ~Free(e) /\ CanRun(e)
  BY <1>4 DEF Free, CanRun
<1>6. KeyOfIdentity(e)
  BY <1>1, <1>4, <1>5 DEF KeyOfIdentity
<1> QED
  BY <1>2, <1>3, <1>5, <1>6

\* tee_init_enclave changes one enclave that stays able to run.
LEMMA InitEnclaveInv ==
  ASSUME TeeInv, NEW s \in Slots, tee_init_enclave(s)
  PROVE  TeeInv'
<1>1. ~Free(enclaves[s]) /\ Become(s, "INITIALIZED")
  BY DEF tee_init_enclave, Free
<1>2. PICK e : /\ enclaves' = [enclaves EXCEPT ![s] = e]
               /\ e \in SlotRecord /\ KeyOfIdentity(e) /\ ~Free(e) /\ CanRun(e)
  BY <1>1, BecomeIs
<1>3. TeeTypes /\ TurnsBounded /\ enclave_count + surplus = Cardinality(Occupied)
  BY DEF TeeInv
<1>4. /\ enclave_count' = enclave_count /\ surplus' = surplus
      /\ UNCHANGED <<sched, sealed, sealer>>
      /\ waited' = [waited EXCEPT ![s] = 0]
  BY DEF tee_init_enclave
<1>5. waited' \in [Slots -> Nat] /\ waited'[s] = 0 /\ \A r \in Slots : r # s => waited'[r] = waited[r]
  BY <1>3, <1>4 DEF TeeTypes
<1>6. TurnsBounded'
  <2>1. ASSUME NEW r \in Slots, CanRun(enclaves'[r])
        PROVE  waited'[r] + Distance(r)' <= MAX_ENCLAVES - 1
    <3>1. Distance(r)' = Distance(r)
      BY <1>4 DEF Distance
    <3>2. CASE r = s
      <4>1. Distance(r) <= MAX_ENCLAVES - 1 /\ Distance(r) \in Int
        <5>1. MAX_ENCLAVES \in Nat \ {0} /\ r \in 0 .. MAX_ENCLAVES - 1
              /\ sched \in -1 .. MAX_ENCLAVES - 1
          BY <1>3, TeeAssumption DEF Slots, TeeTypes
        <5>2. Distance(r) = IF r > sched THEN r - sched - 1 ELSE r - sched - 1 + MAX_ENCLAVES
          BY <5>1, DistanceIs DEF Distance
        <5> QED
          BY <5>1, <5>2
      <4> QED
        BY <1>5, <3>1, <3>2, <4>1
    <3>3. CASE r # s
      <4>1. enclaves'[r] = enclaves[r]
        BY <1>2, <1>3, <3>3 DEF TeeTypes
      <4> QED
        BY <1>3, <1>5, <2>1, <3>1, <3>3, <4>1 DEF TurnsBounded
    <3> QED
      BY <3>2, <3>3
  <2> QED
    BY <2>1 DEF TurnsBounded
<1>7. /\ Cardinality(Occupied) \in Nat
      /\ Cardinality(Occupied') = Cardinality(Occupied)
  BY <1>1, <1>2, <1>3, OccupiedAfter
<1>8. /\ enclave_count' \in Int /\ surplus' \in Nat
      /\ enclave_count' + surplus' = Cardinality(Occupied')
  BY <1>3, <1>4, <1>7 DEF TeeTypes
<1> QED
  BY <1>2, <1>4, <1>5, <1>6, <1>8, OneSlotInv

\* tee_enter changes one enclave that stays able to run.
LEMMA EnterInv ==
  ASSUME TeeInv, NEW s \in Slots, tee_enter(s)
  PROVE  TeeInv'
<1>1. ~Free(enclaves[s]) /\ CanRun(enclaves[s]) /\ Become(s, "STOPPED")
  BY DEF tee_enter, Free, CanRun
<1>2. PICK e : /\ enclaves' = [enclaves EXCEPT ![s] = e]
               /\ e \in SlotRecord /\ KeyOfIdentity(e) /\ ~Free(e) /\ CanRun(e)
  BY <1>1, BecomeIs
<1>3. TeeTypes /\ TurnsBounded /\ enclave_count + surplus = Cardinality(Occupied)
  BY DEF TeeInv
<1>4. /\ enclave_count' = enclave_count /\ surplus' = surplus
      /\ UNCHANGED <<sched, sealed, sealer, waited>>
  BY DEF tee_enter
<1>5. TurnsBounded'
  BY <1>1, <1>2, <1>3, <1>4, TurnsKept
<1>6. /\ Cardinality(Occupied) \in Nat
      /\ Cardinality(Occupied') = Cardinality(Occupied)
  BY <1>1, <1>2, <1>3, OccupiedAfter
<1>7. /\ enclave_count' \in Int /\ surplus' \in Nat /\ waited' \in [Slots -> Nat]
      /\ enclave_count' + surplus' = Cardinality(Occupied')
  BY <1>3, <1>4, <1>6 DEF TeeTypes
<1> QED
  BY <1>2, <1>4, <1>5, <1>7, OneSlotInv

\* A destroy call on a slot that holds no enclave lowers the count all the same.
LEMMA DestroyInv ==
  ASSUME TeeInv, NEW s \in Slots, tee_destroy(s)
  PROVE  TeeInv'
<1> DEFINE e == Wiped(enclaves[s])
<1>1. e = [state |-> "DESTROYED", identity |-> NoIdentity, seal_key |-> ZeroKey]
  BY DEF Wiped, NoEnclave
<1>2. enclaves' = [enclaves EXCEPT ![s] = e]
  BY DEF tee_destroy
<1> HIDE DEF e
<1>3. e \in SlotRecord /\ Free(e) /\ ~CanRun(e) /\ KeyOfIdentity(e)
  <2>1. /\ NoIdentity \in [mr_enclave : Nat, mr_signer : Nat, product_id : Nat, attributes : Nat]
        /\ ZeroKey \in [kdf  : {"zero", "SEAL-KEY"},
                        from : [mr_enclave : Nat, mr_signer : Nat,
                                product_id : Nat, attributes : Nat]]
    BY DEF NoIdentity, ZeroKey
  <2>2. e \in SlotRecord
    BY <1>1, <2>1 DEF SlotRecord
  <2>3. Free(e) /\ ~CanRun(e)
    BY <1>1 DEF Free, CanRun
  <2> QED
    BY <1>1, <2>2, <2>3 DEF KeyOfIdentity
<1>4. TeeTypes /\ TurnsBounded /\ enclave_count + surplus = Cardinality(Occupied)
  BY DEF TeeInv
<1>5. /\ enclave_count' = enclave_count - 1
      /\ surplus' = IF ~Free(enclaves[s]) THEN surplus ELSE surplus + 1
      /\ UNCHANGED <<sched, sealed, sealer, waited>>
  BY DEF tee_destroy, is_valid_enclave
<1>6. TurnsBounded'
  BY <1>2, <1>3, <1>4, <1>5, TurnsKept
<1>7. /\ Cardinality(Occupied) \in Nat
      /\ Cardinality(Occupied') = IF ~Free(enclaves[s]) THEN Cardinality(Occupied) - 1
                                  ELSE Cardinality(Occupied)
  BY <1>2, <1>3, <1>4, OccupiedAfter
<1>8. /\ enclave_count' \in Int /\ surplus' \in Nat /\ waited' \in [Slots -> Nat]
      /\ enclave_count' + surplus' = Cardinality(Occupied')
  BY <1>4, <1>5, <1>7 DEF TeeTypes
<1> QED
  BY <1>2, <1>3, <1>5, <1>6, <1>8, OneSlotInv

\* A free slot seals with the zero key and leaves no sealer.
LEMMA SealInv ==
  ASSUME TeeInv, NEW s \in Slots, NEW policy \in Policies, tee_seal(s, policy)
  PROVE  TeeInv'
<1>1. /\ UNCHANGED <<enclaves, enclave_count, sched, surplus, waited>>
      /\ sealed'.key = enclaves[s].seal_key /\ sealer' = enclaves[s].identity
  BY DEF tee_seal
<1>2. BlobKeyed'
  <2>1. KeyOfIdentity(enclaves[s])
    BY DEF TeeInv
  <2>2. CASE Free(enclaves[s])
    BY <1>1, <2>1, <2>2 DEF BlobKeyed, KeyOfIdentity
  <2>3. CASE ~Free(enclaves[s])
    <3>1. sealer' \in Identities /\ sealed'.key = SealKey(sealer')
      BY <1>1, <2>1, <2>3 DEF KeyOfIdentity
    <3> QED
      BY <3>1 DEF BlobKeyed, SealKey
  <2> QED
    BY <2>2, <2>3
<1>3. TeeTypes'
  BY <1>1 DEF TeeInv, TeeTypes
<1>4. Occupied' = Occupied
  BY <1>1 DEF Occupied, Free
<1>5. TurnsBounded'
  BY <1>1 DEF TeeInv, TurnsBounded, CanRun, Distance
<1>6. \A r \in Slots : KeyOfIdentity(enclaves[r])'
  BY <1>1 DEF TeeInv, KeyOfIdentity, Free
<1> QED
  BY <1>1, <1>2, <1>3, <1>4, <1>5, <1>6 DEF TeeInv

\* The slot that gets the turn can run, and is the nearest that can.
LEMMA NextTurnIs ==
  ASSUME TeeTypes
  PROVE  LET able == {s \in Slots : CanRun(enclaves[s])}
         IN  /\ able = {} => NextTurn = -1
             /\ able # {} => /\ NextTurn \in able
                             /\ \A r \in able : Distance(NextTurn) <= Distance(r)
<1> DEFINE able == {s \in Slots : CanRun(enclaves[s])}
<1>1. CASE able = {}
  BY <1>1 DEF NextTurn
<1>2. CASE able # {}
  <2>1. \A r \in Slots : Distance(r) \in Nat
    <3>1. MAX_ENCLAVES \in Nat \ {0} /\ Slots = 0 .. MAX_ENCLAVES - 1
          /\ sched \in -1 .. MAX_ENCLAVES - 1
      BY TeeAssumption DEF Slots, TeeTypes
    <3> QED
      BY <3>1, DistanceIs DEF Distance
  <2> DEFINE D == {Distance(r) : r \in able}
  <2>2. D \in SUBSET Nat /\ D # {}
    BY <1>2, <2>1
  <2>3. PICK d \in D : \A y \in D : <<y, d>> \notin OpToRel(<, Nat)
    BY <2>2, NatLessThanWellFounded, WFMin, Zenon
  <2>4. \A y \in D : d <= y
    <3> HIDE DEF D
    <3>1. \A y \in D : y \in Nat /\ d \in Nat
      BY <2>2
    <3>2. \A y \in D : ~(y < d)
      BY <2>3, <3>1 DEF OpToRel
    <3> QED
      BY <3>1, <3>2
  <2>5. \E s \in able : \A r \in able : Distance(s) <= Distance(r)
    BY <2>4
  <2> HIDE DEF able
  <2>6. NextTurn = CHOOSE s \in able : \A r \in able : Distance(s) <= Distance(r)
    BY <1>2 DEF NextTurn, able
  <2>7. NextTurn \in able /\ \A r \in able : Distance(NextTurn) <= Distance(r)
    BY <2>5, <2>6, Zenon
  <2> QED
    BY <1>2, <2>7 DEF able
<1> QED
  BY <1>1, <1>2

\* A turn brings every other slot that can run nearer by at least the turn it waits.
LEMMA ScheduleInv ==
  ASSUME TeeInv, tee_scheduler_schedule
  PROVE  TeeInv'
<1> DEFINE able == {s \in Slots : CanRun(enclaves[s])}
           t    == NextTurn
<1>1. /\ UNCHANGED <<enclaves, enclave_count, sealed, sealer, surplus>>
      /\ sched' = t
      /\ waited' = [s \in Slots |-> IF s = t \/ ~CanRun(enclaves[s]) THEN 0 ELSE waited[s] + 1]
  BY DEF tee_scheduler_schedule
<1>2. /\ able = {} => t = -1
      /\ able # {} => t \in able /\ \A r \in able : Distance(t) <= Distance(r)
  BY NextTurnIs DEF TeeInv
<1> HIDE DEF t
<1>3. /\ MAX_ENCLAVES \in Nat \ {0} /\ Slots = 0 .. MAX_ENCLAVES - 1
      /\ sched \in -1 .. MAX_ENCLAVES - 1 /\ waited \in [Slots -> Nat]
  BY TeeAssumption DEF Slots, TeeInv, TeeTypes
<1>4. t \in -1 .. MAX_ENCLAVES - 1
  BY <1>2, <1>3
<1>5. TeeTypes'
  BY <1>1, <1>3, <1>4 DEF TeeInv, TeeTypes
<1>6. TurnsBounded'
  <2>1. ASSUME NEW r \in Slots, CanRun(enclaves[r])
        PROVE  waited'[r] + Distance(r)' <= MAX_ENCLAVES - 1
    <3>1. /\ t \in Slots /\ r \in Slots
          /\ Distance(t) <= Distance(r)
      BY <1>2, <2>1
    <3>2. /\ Distance(t) = IF t > sched THEN t - sched - 1 ELSE t - sched - 1 + MAX_ENCLAVES
          /\ Distance(r) = IF r > sched THEN r - sched - 1 ELSE r - sched - 1 + MAX_ENCLAVES
          /\ Distance(r)' = IF r > t THEN r - t - 1 ELSE r - t - 1 + MAX_ENCLAVES
      BY <1>1, <1>3, <1>4, <3>1, DistanceIs DEF Distance
    <3>3. waited[r] + Distance(r) <= MAX_ENCLAVES - 1 /\ waited[r] \in Nat
      BY <1>3, <2>1 DEF TeeInv, TurnsBounded
    <3>4. CASE r = t
      <4>1. waited'[r] = 0
        BY <1>1, <3>4
      <4> QED
        BY <1>3, <3>1, <3>2, <3>4, <4>1
    <3>5. CASE r # t
      <4>1. waited'[r] = waited[r] + 1
        BY <1>1, <2>1, <3>5
      <4> QED
        BY <1>3, <3>1, <3>2, <3>3, <3>5, <4>1, SMTT(30)
    <3> QED
      BY <3>4, <3>5
  <2> QED
    BY <1>1, <2>1 DEF TurnsBounded
<1>7. Occupied' = Occupied
  BY <1>1 DEF Occupied, Free
<1>8. \A r \in Slots : KeyOfIdentity(enclaves[r])'
  BY <1>1 DEF TeeInv, KeyOfIdentity, Free
<1>9. BlobKeyed'
  BY <1>1 DEF TeeInv, BlobKeyed
<1> QED
  BY <1>1, <1>5, <1>6, <1>7, <1>8, <1>9 DEF TeeInv

\* Every operation on the enclaves keeps the invariant.
LEMMA TeeNextInv ==
  ASSUME TeeInv, TeeNext
  PROVE  TeeInv'
<1>1. CASE \E id \in Identities : tee_create_enclave(id)
  BY <1>1, CreateInv
<1>2. CASE \E s \in Slots : tee_init_enclave(s)
  BY <1>2, InitEnclaveInv
<1>3. CASE \E s \in Slots : tee_enter(s)
  BY <1>3, EnterInv
<1>4. CASE \E s \in Slots : tee_destroy(s)
  BY <1>4, DestroyInv
<1>5. CASE \E s \in Slots, policy \in Policies : tee_seal(s, policy)
  BY <1>5, SealInv
<1>6. CASE tee_scheduler_schedule
  BY <1>6, ScheduleInv
<1> QED
  BY <1>1, <1>2, <1>3, <1>4, <1>5, <1>6 DEF TeeNext

\* Where the invariant holds, so does what the module claims of enclaves.
LEMMA TeeInvSuffices ==
  ASSUME TeeInv
  PROVE  EnclavesSound
<1>1. /\ TeeTypes /\ BlobKeyed /\ TurnsBounded
      /\ \A s \in Slots : KeyOfIdentity(enclaves[s])
      /\ enclave_count + surplus = Cardinality(Occupied)
  BY DEF TeeInv
<1>2. EnclavesAccounted
  <2>1. Occupied = {s \in Slots : is_valid_enclave(s)}
    BY DEF Occupied, is_valid_enclave
  <2>2. {s \in Slots : Free(enclaves[s])} = Slots \ Occupied
    BY DEF Occupied
  <2>3. Cardinality(Slots \ Occupied) = Cardinality(Slots) - Cardinality(Slots \cap Occupied)
    BY SlotsCounted, FS_Difference
  <2>4. Slots \cap Occupied = Occupied
    BY DEF Occupied
  <2>5. get_free_enclaves = MAX_ENCLAVES - (enclave_count + surplus)
    BY <1>1, <2>2, <2>3, <2>4, SlotsCounted DEF get_free_enclaves
  <2> QED
    BY <1>1, <2>1, <2>5 DEF EnclavesAccounted
<1>3. SealsFollowIdentity
  <2>1. SUFFICES ASSUME sealer # NoIdentity, NEW s \in Slots
                 PROVE  unseal(s) <=> is_valid_enclave(s) /\ SameOwner(enclaves[s].identity, sealer)
    BY DEF SealsFollowIdentity, SameOwner
  <2>2. sealer \in Identities /\ sealed.key = SealKey(sealer)
    BY <1>1, <2>1 DEF BlobKeyed
  <2>3. SealKey(sealer) # ZeroKey /\ sealed # NoSeal
    BY <2>2, KeysOfOwners DEF NoSeal
  <2>4. KeyOfIdentity(enclaves[s])
    BY <1>1
  <2>5. CASE Free(enclaves[s])
    BY <2>2, <2>3, <2>4, <2>5 DEF KeyOfIdentity, unseal, is_valid_enclave
  <2>6. CASE ~Free(enclaves[s])
    <3>1. enclaves[s].identity \in Identities
          /\ enclaves[s].seal_key = SealKey(enclaves[s].identity)
      BY <2>4, <2>6 DEF KeyOfIdentity
    <3>2. SealKey(enclaves[s].identity) = SealKey(sealer)
            <=> SameOwner(enclaves[s].identity, sealer)
      BY <2>2, <3>1, KeysOfOwners
    <3>3. unseal(s) <=> SealKey(enclaves[s].identity) = SealKey(sealer)
      BY <2>2, <2>3, <3>1 DEF unseal
    <3>4. is_valid_enclave(s)
      BY <2>6 DEF is_valid_enclave
    <3> QED
      BY <3>2, <3>3, <3>4
  <2> QED
    BY <2>5, <2>6
<1>4. TurnsComeRound
  <2>1. ASSUME NEW s \in Slots, CanRun(enclaves[s])
        PROVE  waited[s] < MAX_ENCLAVES
    <3>1. MAX_ENCLAVES \in Nat \ {0} /\ s \in 0 .. MAX_ENCLAVES - 1
          /\ sched \in -1 .. MAX_ENCLAVES - 1 /\ waited[s] \in Nat
      BY <1>1, TeeAssumption DEF TeeTypes, Slots
    <3>2. Distance(s) = IF s > sched THEN s - sched - 1 ELSE s - sched - 1 + MAX_ENCLAVES
      BY <3>1, DistanceIs DEF Distance
    <3>3. waited[s] + Distance(s) <= MAX_ENCLAVES - 1
      BY <1>1, <2>1 DEF TurnsBounded
    <3> QED
      BY <3>1, <3>2, <3>3
  <2> QED
    BY <2>1 DEF TurnsComeRound
<1>5. ReportsSound
  <2>1. SUFFICES ASSUME NEW s \in Slots, CanAttest(enclaves[s])
                 PROVE  /\ verify_report(attest_remote(s))
                        /\ attest_remote(s).identity = NoIdentity <=> Free(enclaves[s])
    BY DEF ReportsSound
  <2>2. verify_report(attest_remote(s))
    BY DEF verify_report, attest_remote
  <2>3. attest_remote(s).identity = NoIdentity <=> Free(enclaves[s])
    <3>1. attest_remote(s).identity = enclaves[s].identity
      BY DEF attest_remote
    <3>2. \A id \in Identities : id # NoIdentity
      BY TeeAssumption DEF NoIdentity
    <3>3. KeyOfIdentity(enclaves[s])
      BY <1>1
    <3> QED
      BY <3>1, <3>2, <3>3 DEF KeyOfIdentity
  <2> QED
    BY <2>2, <2>3
<1> QED
  BY <1>2, <1>3, <1>4, <1>5 DEF EnclavesSound

\* Enclaves keep their count, keys, seals, turns and reports in order through every
\* behaviour of the devices, for every number of slots and every set of identities.
THEOREM EnclavesCorrect == DevSpec => []EnclavesHold
<1>1. DevInit => TeeInv
  BY TeeInitInv DEF DevInit
<1>2. TeeInv /\ [DevNext]_<<part, gte_vars, ws_vars, card_vars, rate_vars, boot_vars, tee_vars>>
        => TeeInv'
  <2> SUFFICES ASSUME TeeInv,
                      [DevNext]_<<part, gte_vars, ws_vars, card_vars, rate_vars, boot_vars, tee_vars>>
               PROVE  TeeInv'
    OBVIOUS
  <2>1. CASE DevNext /\ part = "enclaves"
    <3>1. TeeNext
      BY <2>1 DEF DevNext
    <3> QED
      BY <3>1, TeeNextInv
  <2>2. CASE UNCHANGED tee_vars
    <3>1. UNCHANGED <<enclaves, enclave_count, sched, sealed, sealer, surplus, waited>>
      BY <2>2 DEF tee_vars
    <3>2. Occupied' = Occupied
      BY <3>1 DEF Occupied, Free
    <3>3. TeeTypes' /\ BlobKeyed'
      BY <3>1 DEF TeeInv, TeeTypes, BlobKeyed
    <3>4. TurnsBounded'
      BY <3>1 DEF TeeInv, TurnsBounded, CanRun, Distance
    <3>5. \A s \in Slots : KeyOfIdentity(enclaves[s])'
      BY <3>1 DEF TeeInv, KeyOfIdentity, Free
    <3> QED
      BY <3>1, <3>2, <3>3, <3>4, <3>5 DEF TeeInv
  <2>3. CASE DevNext /\ part # "enclaves"
    <3>1. UNCHANGED tee_vars
      BY <2>3 DEF DevNext, Idle
    <3> QED
      BY <2>2, <3>1
  <2> QED
    BY <2>1, <2>2, <2>3
<1>3. TeeInv => EnclavesHold
  BY TeeInvSuffices DEF EnclavesHold
<1> QED
  BY <1>1, <1>2, <1>3, PTL DEF DevSpec
--------------------------------------------------------------------------------
(* The limiters. *)

Passed == [packets : Seq([before : Nat, time : Nat]), bytes : Nat]

\* room is exactly what may still pass at time now: no interval leaves less, and unless
\* nothing has passed lately some interval leaves no more.
RoomIs(p, room, now) ==
  /\ \A i \in DOMAIN p.packets : Excess(p, i, now) + room <= MAX_BUCKET
  /\ room # MAX_BUCKET => \E i \in DOMAIN p.packets : Excess(p, i, now) + room = MAX_BUCKET

RateTypes ==
  /\ tb \in [current_tokens : 0 .. MAX_BUCKET, last_update : Nat]
  /\ lb \in [current_queue : 0 .. MAX_BUCKET, last_update : Nat]
  /\ passed \in [tb : Passed, lb : Passed]
  /\ went_back \in BOOLEAN

RateInv ==
  /\ RateTypes
  /\ RoomIs(passed.tb, tb.current_tokens, tb.last_update)
  /\ ~went_back => RoomIs(passed.lb, MAX_BUCKET - lb.current_queue, lb.last_update)

\* Each unit of time takes RATE off the excess of every interval.
LEMMA ExcessLater ==
  ASSUME NEW p \in Passed, NEW i \in DOMAIN p.packets, NEW last \in Nat, NEW now \in Nat
  PROVE  /\ Excess(p, i, last) \in Int /\ RATE * (now - last) \in Int
         /\ Excess(p, i, now) = Excess(p, i, last) - RATE * (now - last)
<1>1. /\ p.packets[i].before \in Nat /\ p.packets[i].time \in Nat
      /\ p.bytes \in Nat /\ RATE \in Nat
  <2>1. p.packets \in Seq([before : Nat, time : Nat]) /\ p.bytes \in Nat
    BY DEF Passed
  <2>2. p.packets[i] \in [before : Nat, time : Nat]
    <3>1. i \in 1 .. Len(p.packets)
      BY <2>1
    <3> QED
      BY <2>1, <3>1, ElementOfSeq, Zenon
  <2> QED
    BY <2>1, <2>2, RateAssumption
<1> DEFINE at == p.packets[i].time
<1>2. RATE * (now - at) = RATE * (last - at) + RATE * (now - last)
  BY <1>1
<1>3. RATE * (now - at) \in Int /\ RATE * (last - at) \in Int /\ RATE * (now - last) \in Int
  BY <1>1
<1> HIDE DEF at
<1>4. /\ Excess(p, i, last) = p.bytes - p.packets[i].before - RATE * (last - at)
      /\ Excess(p, i, now) = p.bytes - p.packets[i].before - RATE * (now - at)
  BY DEF Excess, at
<1> DEFINE rn == RATE * (now - at)
           rl == RATE * (last - at)
           rd == RATE * (now - last)
<1> HIDE DEF rn, rl, rd
<1>5. rn = rl + rd /\ rn \in Int /\ rl \in Int /\ rd \in Int
  BY <1>2, <1>3 DEF rn, rl, rd
<1>6. /\ Excess(p, i, last) = p.bytes - p.packets[i].before - rl
      /\ Excess(p, i, now) = p.bytes - p.packets[i].before - rn
  BY <1>4 DEF rn, rl
<1>7. Excess(p, i, last) \in Int /\ Excess(p, i, now) = Excess(p, i, last) - rd
  BY <1>1, <1>5, <1>6
<1> QED
  BY <1>5, <1>7 DEF rd

\* As time passes the room grows by the rate, up to the bucket.
LEMMA RoomLater ==
  ASSUME NEW p \in Passed, NEW room \in 0 .. MAX_BUCKET, NEW last \in Nat, NEW now \in Nat,
         last <= now, RoomIs(p, room, last)
  PROVE  LET later == Least(MAX_BUCKET, room + RATE * (now - last))
         IN  later \in 0 .. MAX_BUCKET /\ RoomIs(p, later, now)
<1> DEFINE d     == RATE * (now - last)
           later == Least(MAX_BUCKET, room + d)
<1>1. MAX_BUCKET \in Nat /\ RATE \in Nat /\ now - last \in Nat
  BY RateAssumption
<1>2. d \in Nat
  BY <1>1
<1>3. \A i \in DOMAIN p.packets :
         /\ Excess(p, i, last) \in Int
         /\ Excess(p, i, now) = Excess(p, i, last) - d
  BY ExcessLater
<1> HIDE DEF d
<1>4. /\ later = MAX_BUCKET \/ later = room + d
      /\ later \in 0 .. MAX_BUCKET /\ later <= room + d
  BY <1>1, <1>2 DEF Least
<1> HIDE DEF later
<1>5. ASSUME NEW i \in DOMAIN p.packets
      PROVE  Excess(p, i, now) + later <= MAX_BUCKET
  <2>1. Excess(p, i, last) + room <= MAX_BUCKET
    BY DEF RoomIs
  <2> QED
    BY <1>1, <1>2, <1>3, <1>4, <2>1
<1>6. ASSUME later # MAX_BUCKET
      PROVE  \E i \in DOMAIN p.packets : Excess(p, i, now) + later = MAX_BUCKET
  <2>1. later = room + d /\ room # MAX_BUCKET
    BY <1>1, <1>2, <1>4, <1>6
  <2>2. PICK i \in DOMAIN p.packets : Excess(p, i, last) + room = MAX_BUCKET
    BY <2>1 DEF RoomIs
  <2>3. Excess(p, i, now) + later = MAX_BUCKET
    BY <1>1, <1>2, <1>3, <2>1, <2>2
  <2> QED
    BY <2>3
<1>7. RoomIs(p, later, now)
  BY <1>5, <1>6 DEF RoomIs
<1> QED
  BY <1>4, <1>7 DEF later, d

\* A packet takes its bytes from the room, and starts an interval of its own.
LEMMA RoomThrough ==
  ASSUME NEW p \in Passed, NEW room \in 0 .. MAX_BUCKET, NEW now \in Nat,
         RoomIs(p, room, now), NEW bytes \in Nat \ {0}, bytes <= room
  PROVE  Through(p, bytes, now) \in Passed /\ RoomIs(Through(p, bytes, now), room - bytes, now)
<1> DEFINE e == [before |-> p.bytes, time |-> now]
           s == p.packets
           q == Through(p, bytes, now)
<1>1. MAX_BUCKET \in Nat /\ RATE \in Nat /\ p.bytes \in Nat /\ RATE * (now - now) = 0
  BY RateAssumption DEF Passed
<1>2. s \in Seq([before : Nat, time : Nat]) /\ e \in [before : Nat, time : Nat]
  BY <1>1 DEF Passed
<1>3. q = [packets |-> Append(s, e), bytes |-> p.bytes + bytes]
  BY DEF Through
<1> HIDE DEF q
<1>4. q.packets = Append(s, e) /\ q.bytes = p.bytes + bytes
  BY <1>3
<1>5. q \in Passed
  BY <1>1, <1>2, <1>3 DEF Passed
<1>6. /\ DOMAIN s = 1 .. Len(s) /\ DOMAIN q.packets = 1 .. Len(s) + 1 /\ Len(s) \in Nat
      /\ \A i \in 1 .. Len(s) : q.packets[i] = s[i]
      /\ q.packets[Len(s) + 1] = e
  BY <1>2, <1>4
<1>7. \A i \in DOMAIN s : Excess(p, i, now) \in Int
  BY ExcessLater
<1>8. ASSUME NEW i \in 1 .. Len(s)
      PROVE  Excess(q, i, now) = Excess(p, i, now) + bytes
  <2>1. s[i].before \in Nat /\ s[i].time \in Nat /\ s[i] = q.packets[i]
    <3>1. s[i] \in [before : Nat, time : Nat]
      BY <1>2, <1>6, ElementOfSeq
    <3> QED
      BY <1>6, <3>1
  <2>2. RATE * (now - s[i].time) \in Int
    BY <1>1, <2>1
  <2> DEFINE r == RATE * (now - s[i].time)
  <2>3. /\ Excess(q, i, now) = q.bytes - s[i].before - r
        /\ Excess(p, i, now) = p.bytes - s[i].before - r
    BY <2>1 DEF Excess
  <2>4. r \in Int
    BY <2>2
  <2> HIDE DEF r
  <2> QED
    BY <1>1, <1>4, <2>1, <2>3, <2>4, SMTT(30)
<1>9. Excess(q, Len(s) + 1, now) = bytes
  <2>1. Excess(q, Len(s) + 1, now) = q.bytes - e.before - RATE * (now - e.time)
    BY <1>6 DEF Excess
  <2>2. e.before = p.bytes /\ e.time = now
    OBVIOUS
  <2> QED
    BY <1>1, <1>4, <2>1, <2>2
<1> HIDE DEF s, e
<1>10. ASSUME NEW i \in DOMAIN q.packets
       PROVE  Excess(q, i, now) + (room - bytes) <= MAX_BUCKET
  <2>1. CASE i \in 1 .. Len(s)
    <3>1. Excess(p, i, now) + room <= MAX_BUCKET
      BY <1>6, <2>1 DEF RoomIs, s
    <3>2. Excess(p, i, now) \in Int
      BY <1>6, <1>7, <2>1
    <3> QED
      BY <1>1, <1>8, <2>1, <3>1, <3>2
  <2>2. CASE i = Len(s) + 1
    BY <1>1, <1>9, <2>2
  <2> QED
    BY <1>6, <2>1, <2>2
<1>11. \E i \in DOMAIN q.packets : Excess(q, i, now) + (room - bytes) = MAX_BUCKET
  <2>1. CASE room = MAX_BUCKET
    <3>1. Len(s) + 1 \in DOMAIN q.packets
      BY <1>6
    <3> QED
      BY <1>1, <1>9, <2>1, <3>1
  <2>2. CASE room # MAX_BUCKET
    <3>1. PICK i \in DOMAIN s : Excess(p, i, now) + room = MAX_BUCKET
      BY <2>2 DEF RoomIs, s
    <3>2. i \in 1 .. Len(s) /\ i \in DOMAIN q.packets /\ Excess(p, i, now) \in Int
      BY <1>6, <1>7, <3>1
    <3>3. Excess(q, i, now) + (room - bytes) = MAX_BUCKET
      BY <1>1, <1>8, <3>1, <3>2
    <3> QED
      BY <3>2, <3>3
  <2> QED
    BY <2>1, <2>2
<1>12. RoomIs(q, room - bytes, now)
  BY <1>10, <1>11 DEF RoomIs
<1> QED
  BY <1>5, <1>12 DEF q

\* What fits the room is what conforms.
LEMMA RoomDecides ==
  ASSUME NEW p \in Passed, NEW room \in 0 .. MAX_BUCKET, NEW now \in Nat,
         RoomIs(p, room, now), NEW bytes \in Nat
  PROVE  bytes <= room <=> Conforms(p, bytes, now)
<1>1. MAX_BUCKET \in Nat /\ \A i \in DOMAIN p.packets : Excess(p, i, now) \in Int
  BY RateAssumption, ExcessLater
<1>2. ASSUME bytes <= room PROVE Conforms(p, bytes, now)
  <2>1. bytes <= MAX_BUCKET
    BY <1>1, <1>2
  <2>2. ASSUME NEW i \in DOMAIN p.packets
        PROVE  Excess(p, i, now) + bytes <= MAX_BUCKET
    <3>1. Excess(p, i, now) + room <= MAX_BUCKET
      BY DEF RoomIs
    <3> QED
      BY <1>1, <1>2, <3>1
  <2> QED
    BY <2>1, <2>2 DEF Conforms
<1>3. ASSUME Conforms(p, bytes, now) PROVE bytes <= room
  <2>1. CASE room = MAX_BUCKET
    BY <1>3, <2>1 DEF Conforms
  <2>2. CASE room # MAX_BUCKET
    <3>1. PICK i \in DOMAIN p.packets : Excess(p, i, now) + room = MAX_BUCKET
      BY <2>2 DEF RoomIs
    <3>2. Excess(p, i, now) + bytes <= MAX_BUCKET
      BY <1>3 DEF Conforms
    <3> QED
      BY <1>1, <3>1, <3>2
  <2> QED
    BY <2>1, <2>2
<1> QED
  BY <1>2, <1>3

\* Refilling the token bucket keeps its room exact, in its own time.
LEMMA RefillIs ==
  ASSUME RateInv, NEW now \in Nat
  PROVE  LET t == token_bucket_update(tb, now)
         IN  /\ t \in [current_tokens : 0 .. MAX_BUCKET, last_update : Nat]
             /\ t.last_update = Largest(now, tb.last_update)
             /\ RoomIs(passed.tb, t.current_tokens, t.last_update)
<1> DEFINE t == token_bucket_update(tb, now)
<1>1. /\ tb \in [current_tokens : 0 .. MAX_BUCKET, last_update : Nat]
      /\ passed.tb \in Passed
      /\ RoomIs(passed.tb, tb.current_tokens, tb.last_update)
  BY DEF RateInv, RateTypes
<1>2. CASE now < tb.last_update
  <2>1. t = tb
    BY <1>2 DEF token_bucket_update
  <2>2. tb.last_update = Largest(now, tb.last_update)
    BY <1>1, <1>2 DEF Largest
  <2> QED
    BY <1>1, <2>1, <2>2
<1>3. CASE ~(now < tb.last_update)
  <2> DEFINE later == Least(MAX_BUCKET, tb.current_tokens + RATE * (now - tb.last_update))
  <2>1. t = [current_tokens |-> later, last_update |-> now]
    BY <1>3 DEF token_bucket_update
  <2>2. tb.last_update <= now /\ tb.current_tokens \in 0 .. MAX_BUCKET /\ tb.last_update \in Nat
    BY <1>1, <1>3
  <2>3. later \in 0 .. MAX_BUCKET /\ RoomIs(passed.tb, later, now)
    BY <1>1, <2>2, RoomLater
  <2>4. now = Largest(now, tb.last_update)
    BY <2>2 DEF Largest
  <2> HIDE DEF later
  <2> QED
    BY <2>1, <2>3, <2>4
<1> QED
  BY <1>2, <1>3

\* Draining the leaky bucket keeps its room exact, unless the time goes back.
LEMMA LeakIs ==
  ASSUME RateInv, NEW now \in Nat
  PROVE  LET l == Leaked(lb, now)
         IN  /\ l \in [current_queue : 0 .. MAX_BUCKET, last_update : Nat]
             /\ l.last_update = now
             /\ ~went_back /\ now >= lb.last_update =>
                  RoomIs(passed.lb, MAX_BUCKET - l.current_queue, now)
<1> DEFINE l     == Leaked(lb, now)
           room  == MAX_BUCKET - lb.current_queue
           d     == RATE * (now - lb.last_update)
           later == Least(MAX_BUCKET, room + d)
<1>1. /\ lb \in [current_queue : 0 .. MAX_BUCKET, last_update : Nat]
      /\ passed.lb \in Passed
      /\ ~went_back => RoomIs(passed.lb, room, lb.last_update)
  BY DEF RateInv, RateTypes
<1>2. MAX_BUCKET \in Nat /\ RATE \in Nat /\ room \in 0 .. MAX_BUCKET
      /\ lb.current_queue \in 0 .. MAX_BUCKET /\ lb.last_update \in Nat
  BY <1>1, RateAssumption
<1>3. CASE now < lb.last_update
  <2>1. l = [current_queue |-> lb.current_queue, last_update |-> now]
    BY <1>3 DEF Leaked
  <2> QED
    BY <1>2, <1>3, <2>1
<1>4. CASE ~(now < lb.last_update)
  <2>1. lb.last_update <= now /\ d \in Nat
    BY <1>2, <1>4
  <2>2. l = [current_queue |-> Largest(0, lb.current_queue - d), last_update |-> now]
    BY <1>4 DEF Leaked
  <2>3. RoomIs(passed.lb, room, lb.last_update) => RoomIs(passed.lb, later, now)
    BY <1>1, <1>2, <2>1, RoomLater
  <2> HIDE DEF d, l
  <2>4. /\ Largest(0, lb.current_queue - d) = MAX_BUCKET - later
        /\ later \in 0 .. MAX_BUCKET
    BY <1>2, <2>1 DEF Largest, Least
  <2> HIDE DEF later
  <2>5. l.current_queue = MAX_BUCKET - later /\ l.last_update = now
        /\ l \in [current_queue : 0 .. MAX_BUCKET, last_update : Nat]
    BY <1>2, <2>2, <2>4
  <2>6. MAX_BUCKET - l.current_queue = later
    BY <1>2, <2>4, <2>5
  <2> QED
    BY <1>1, <2>3, <2>5, <2>6 DEF l
<1> QED
  BY <1>3, <1>4

\* Times are naturals, and sizes of packets positive.
LEMMA TimesNat == Times \subseteq Nat /\ 1 .. MAX_BUCKET + 1 \subseteq Nat \ {0}
BY RateAssumption DEF Times

\* A packet that the token bucket lets through uses up exactly the room it leaves; a
\* packet that it holds back changes nothing but the refill.
LEMMA TokenConsumeInv ==
  ASSUME RateInv, NEW now \in Times, NEW bytes \in 1 .. MAX_BUCKET + 1,
         token_bucket_consume(bytes, now)
  PROVE  RateInv'
<1> DEFINE t == token_bucket_update(tb, now)
<1>1. now \in Nat /\ bytes \in Nat \ {0}
  BY TimesNat
<1>2. /\ t \in [current_tokens : 0 .. MAX_BUCKET, last_update : Nat]
      /\ RoomIs(passed.tb, t.current_tokens, t.last_update)
  BY <1>1, RefillIs
<1>3. /\ passed \in [tb : Passed, lb : Passed]
      /\ lb \in [current_queue : 0 .. MAX_BUCKET, last_update : Nat] /\ went_back \in BOOLEAN
      /\ ~went_back => RoomIs(passed.lb, MAX_BUCKET - lb.current_queue, lb.last_update)
  BY DEF RateInv, RateTypes
<1>4. UNCHANGED <<lb, went_back>>
  BY DEF token_bucket_consume
<1>5. CASE Admits(bytes, now)
  <2>1. /\ tb' = [t EXCEPT !.current_tokens = @ - bytes]
        /\ passed' = [passed EXCEPT !.tb = Through(@, bytes, t.last_update)]
    BY <1>5 DEF token_bucket_consume
  <2>2. t.current_tokens >= bytes
    BY <1>5 DEF Admits
  <2> HIDE DEF t
  <2>3. /\ t.current_tokens \in 0 .. MAX_BUCKET /\ t.last_update \in Nat
        /\ passed.tb \in Passed /\ bytes <= t.current_tokens
    BY <1>1, <1>2, <1>3, <2>2
  <2>4. /\ Through(passed.tb, bytes, t.last_update) \in Passed
        /\ RoomIs(Through(passed.tb, bytes, t.last_update), t.current_tokens - bytes, t.last_update)
    BY <1>1, <1>2, <2>3, RoomThrough
  <2>5. /\ passed'.tb = Through(passed.tb, bytes, t.last_update)
        /\ passed'.lb = passed.lb /\ passed' \in [tb : Passed, lb : Passed]
    BY <1>3, <2>1, <2>4
  <2>6. t.current_tokens - bytes \in 0 .. MAX_BUCKET
    BY <1>1, <2>3, RateAssumption
  <2>7. /\ tb' \in [current_tokens : 0 .. MAX_BUCKET, last_update : Nat]
        /\ tb'.current_tokens = t.current_tokens - bytes /\ tb'.last_update = t.last_update
    BY <1>2, <2>1, <2>6
  <2>8. RateTypes'
    BY <1>3, <1>4, <2>5, <2>7 DEF RateTypes
  <2>9. RoomIs(passed.tb, tb.current_tokens, tb.last_update)'
    BY <2>4, <2>5, <2>7 DEF RoomIs, Excess
  <2>10. ~went_back' => RoomIs(passed.lb, MAX_BUCKET - lb.current_queue, lb.last_update)'
    BY <1>3, <1>4, <2>5 DEF RoomIs, Excess
  <2> QED
    BY <2>8, <2>9, <2>10 DEF RateInv
<1>6. CASE ~Admits(bytes, now)
  <2>1. tb' = t /\ passed' = passed
    BY <1>6 DEF token_bucket_consume
  <2> HIDE DEF t
  <2>2. RateTypes'
    BY <1>2, <1>3, <1>4, <2>1 DEF RateTypes
  <2>3. RoomIs(passed.tb, tb.current_tokens, tb.last_update)'
    BY <1>2, <2>1 DEF RoomIs, Excess
  <2>4. ~went_back' => RoomIs(passed.lb, MAX_BUCKET - lb.current_queue, lb.last_update)'
    BY <1>3, <1>4, <2>1 DEF RoomIs, Excess
  <2> QED
    BY <2>2, <2>3, <2>4 DEF RateInv
<1> QED
  BY <1>5, <1>6

\* A refill alone moves the time on and admits nothing.
LEMMA TokenUpdateInv ==
  ASSUME RateInv, NEW now \in Times, TokenBucketUpdate(now)
  PROVE  RateInv'
<1> DEFINE t == token_bucket_update(tb, now)
<1>1. /\ t \in [current_tokens : 0 .. MAX_BUCKET, last_update : Nat]
      /\ RoomIs(passed.tb, t.current_tokens, t.last_update)
  BY TimesNat, RefillIs
<1>2. tb' = t /\ UNCHANGED <<lb, passed, went_back>>
  BY DEF TokenBucketUpdate
<1> HIDE DEF t
<1>3. RateTypes'
  BY <1>1, <1>2 DEF RateInv, RateTypes
<1>4. RoomIs(passed.tb, tb.current_tokens, tb.last_update)'
  BY <1>1, <1>2 DEF RoomIs, Excess
<1>5. ~went_back' => RoomIs(passed.lb, MAX_BUCKET - lb.current_queue, lb.last_update)'
  BY <1>2 DEF RateInv, RoomIs, Excess
<1> QED
  BY <1>3, <1>4, <1>5 DEF RateInv

\* A packet enqueued when the time goes back ends the claim about the leaky bucket.
LEMMA LeakyEnqueueInv ==
  ASSUME RateInv, NEW now \in Times, NEW bytes \in 1 .. MAX_BUCKET + 1,
         leaky_bucket_enqueue(bytes, now)
  PROVE  RateInv'
<1> DEFINE l == Leaked(lb, now)
<1>1. now \in Nat /\ bytes \in Nat \ {0} /\ MAX_BUCKET \in Nat
  BY TimesNat, RateAssumption
<1>2. /\ l \in [current_queue : 0 .. MAX_BUCKET, last_update : Nat]
      /\ l.last_update = now
      /\ ~went_back /\ now >= lb.last_update =>
            RoomIs(passed.lb, MAX_BUCKET - l.current_queue, now)
  BY <1>1, LeakIs
<1>3. /\ passed \in [tb : Passed, lb : Passed]
      /\ tb \in [current_tokens : 0 .. MAX_BUCKET, last_update : Nat]
      /\ lb.last_update \in Nat /\ went_back \in BOOLEAN
      /\ RoomIs(passed.tb, tb.current_tokens, tb.last_update)
  BY DEF RateInv, RateTypes
<1>4. tb' = tb /\ went_back' = (went_back \/ now < lb.last_update)
  BY DEF leaky_bucket_enqueue
<1>5. ~went_back' => ~went_back /\ now >= lb.last_update
  <2>1. ~went_back' => ~went_back /\ ~(now < lb.last_update)
    BY <1>4, Zenon
  <2>2. ~(now < lb.last_update) => now >= lb.last_update
    BY <1>1, <1>3
  <2> QED
    BY <2>1, <2>2, Zenon
<1>6. went_back' \in BOOLEAN
  BY <1>3, <1>4
<1>7. CASE Fits(bytes, now)
  <2>1. /\ lb' = [l EXCEPT !.current_queue = @ + bytes]
        /\ passed' = [passed EXCEPT !.lb = Through(@, bytes, now)]
    BY <1>7 DEF leaky_bucket_enqueue
  <2>2. l.current_queue + bytes <= MAX_BUCKET
    BY <1>7 DEF Fits
  <2> HIDE DEF l
  <2> DEFINE room == MAX_BUCKET - l.current_queue
  <2>3. room \in 0 .. MAX_BUCKET /\ bytes <= room /\ l.current_queue \in 0 .. MAX_BUCKET
    BY <1>1, <1>2, <2>2
  <2>4. l.current_queue + bytes \in 0 .. MAX_BUCKET
    BY <1>1, <2>2, <2>3
  <2>5. lb' \in [current_queue : 0 .. MAX_BUCKET, last_update : Nat]
        /\ lb'.current_queue = l.current_queue + bytes /\ lb'.last_update = now
    BY <1>2, <2>1, <2>4
  <2>6. Through(passed.lb, bytes, now) \in Passed
    <3>1. /\ passed.lb \in Passed /\ passed.lb.bytes \in Nat
          /\ passed.lb.packets \in Seq([before : Nat, time : Nat])
      BY <1>3 DEF Passed
    <3>2. [before |-> passed.lb.bytes, time |-> now] \in [before : Nat, time : Nat]
      BY <1>1, <3>1
    <3>3. Append(passed.lb.packets, [before |-> passed.lb.bytes, time |-> now])
             \in Seq([before : Nat, time : Nat])
      BY <3>1, <3>2
    <3> QED
      BY <1>1, <3>1, <3>3 DEF Passed, Through
  <2>7. /\ passed'.lb = Through(passed.lb, bytes, now)
        /\ passed'.tb = passed.tb /\ passed' \in [tb : Passed, lb : Passed]
    BY <1>3, <2>1, <2>6
  <2>8. RateTypes'
    BY <1>3, <1>4, <1>6, <2>5, <2>7 DEF RateTypes
  <2>9. RoomIs(passed.tb, tb.current_tokens, tb.last_update)'
    BY <1>3, <1>4, <2>7 DEF RoomIs, Excess
  <2>10. ASSUME ~went_back'
         PROVE  RoomIs(passed.lb, MAX_BUCKET - lb.current_queue, lb.last_update)'
    <3>1. RoomIs(passed.lb, room, now) /\ passed.lb \in Passed
      BY <1>2, <1>3, <1>5, <2>10
    <3> HIDE DEF room
    <3>2. RoomIs(Through(passed.lb, bytes, now), room - bytes, now)
      BY <1>1, <2>3, <3>1, RoomThrough
    <3>3. MAX_BUCKET - lb'.current_queue = room - bytes
      BY <1>1, <2>3, <2>5 DEF room
    <3> QED
      BY <2>5, <2>7, <3>2, <3>3 DEF RoomIs, Excess
  <2> QED
    BY <2>8, <2>9, <2>10 DEF RateInv
<1>8. CASE ~Fits(bytes, now)
  <2>1. lb' = l /\ passed' = passed
    BY <1>8 DEF leaky_bucket_enqueue
  <2> HIDE DEF l
  <2>2. RateTypes'
    BY <1>2, <1>3, <1>4, <1>6, <2>1 DEF RateTypes
  <2>3. RoomIs(passed.tb, tb.current_tokens, tb.last_update)'
    BY <1>3, <1>4, <2>1 DEF RoomIs, Excess
  <2>4. ~went_back' => RoomIs(passed.lb, MAX_BUCKET - lb.current_queue, lb.last_update)'
    BY <1>2, <1>5, <2>1 DEF RoomIs, Excess
  <2> QED
    BY <2>2, <2>3, <2>4 DEF RateInv
<1> QED
  BY <1>7, <1>8

\* The leaky bucket drains by the time that passed and admits nothing.
LEMMA LeakyDequeueInv ==
  ASSUME RateInv, NEW now \in Times, leaky_bucket_dequeue(now)
  PROVE  RateInv'
<1> DEFINE l == Leaked(lb, now)
<1>1. /\ l \in [current_queue : 0 .. MAX_BUCKET, last_update : Nat]
      /\ l.last_update = now
      /\ ~went_back /\ now >= lb.last_update =>
            RoomIs(passed.lb, MAX_BUCKET - l.current_queue, now)
  BY TimesNat, LeakIs
<1>2. now >= lb.last_update /\ lb' = l /\ UNCHANGED <<tb, passed, went_back>>
  BY DEF leaky_bucket_dequeue
<1> HIDE DEF l
<1>3. RateTypes'
  BY <1>1, <1>2 DEF RateInv, RateTypes
<1>4. RoomIs(passed.tb, tb.current_tokens, tb.last_update)'
  BY <1>2 DEF RateInv, RoomIs, Excess
<1>5. ~went_back' => RoomIs(passed.lb, MAX_BUCKET - lb.current_queue, lb.last_update)'
  BY <1>1, <1>2 DEF RoomIs, Excess
<1> QED
  BY <1>3, <1>4, <1>5 DEF RateInv

\* Both limiters start with the room of a whole burst.
LEMMA RateInitInv == RateInit => RateInv
<1> SUFFICES ASSUME RateInit PROVE RateInv
  OBVIOUS
<1>1. MAX_BUCKET \in Nat
  BY RateAssumption
<1>2. /\ tb = [current_tokens |-> MAX_BUCKET, last_update |-> 0]
      /\ lb = [current_queue |-> 0, last_update |-> 0]
      /\ went_back = FALSE
      /\ passed.tb = [packets |-> <<>>, bytes |-> 0]
      /\ passed.lb = [packets |-> <<>>, bytes |-> 0]
      /\ passed = [tb |-> passed.tb, lb |-> passed.lb]
  BY DEF RateInit
<1>3. passed.tb \in Passed /\ passed.lb \in Passed
  BY <1>2 DEF Passed
<1>4. RateTypes
  <2>1. went_back \in BOOLEAN
    BY <1>2, Zenon
  <2>2. /\ tb \in [current_tokens : 0 .. MAX_BUCKET, last_update : Nat]
        /\ lb \in [current_queue : 0 .. MAX_BUCKET, last_update : Nat]
    BY <1>1, <1>2
  <2>3. passed \in [tb : Passed, lb : Passed]
    BY <1>2, <1>3
  <2> QED
    BY <2>1, <2>2, <2>3 DEF RateTypes
<1>5. DOMAIN passed.tb.packets = {} /\ DOMAIN passed.lb.packets = {}
  BY <1>2
<1>6. tb.current_tokens = MAX_BUCKET /\ MAX_BUCKET - lb.current_queue = MAX_BUCKET
  BY <1>1, <1>2
<1>7. /\ RoomIs(passed.tb, tb.current_tokens, tb.last_update)
      /\ RoomIs(passed.lb, MAX_BUCKET - lb.current_queue, lb.last_update)
  BY <1>5, <1>6 DEF RoomIs
<1> QED
  BY <1>4, <1>7 DEF RateInv

\* Every operation of the limiters keeps the invariant.
LEMMA RateNextInv ==
  ASSUME RateInv, TokenNext \/ LeakyNext
  PROVE  RateInv'
<1>1. CASE \E now \in Times, bytes \in 1 .. MAX_BUCKET + 1 : token_bucket_consume(bytes, now)
  BY <1>1, TokenConsumeInv
<1>2. CASE \E now \in Times : TokenBucketUpdate(now)
  BY <1>2, TokenUpdateInv
<1>3. CASE \E now \in Times, bytes \in 1 .. MAX_BUCKET + 1 : leaky_bucket_enqueue(bytes, now)
  BY <1>3, LeakyEnqueueInv
<1>4. CASE \E now \in Times : leaky_bucket_dequeue(now)
  BY <1>4, LeakyDequeueInv
<1> QED
  BY <1>1, <1>2, <1>3, <1>4 DEF TokenNext, LeakyNext

\* A limiter whose room is the burst less the worst excess admits exactly what conforms.
LEMMA RateInvSuffices ==
  ASSUME RateInv
  PROVE  LimitersExact
<1> SUFFICES ASSUME NEW bytes \in 1 .. MAX_BUCKET + 1, NEW now \in Times
             PROVE  /\ Admits(bytes, now) <=>
                         Conforms(passed.tb, bytes, Largest(now, tb.last_update))
                    /\ ~went_back /\ now >= lb.last_update =>
                         (Fits(bytes, now) <=> Conforms(passed.lb, bytes, now))
  BY DEF LimitersExact
<1>1. now \in Nat /\ bytes \in Nat /\ MAX_BUCKET \in Nat
  BY TimesNat, RateAssumption
<1>2. passed.tb \in Passed /\ passed.lb \in Passed
  BY DEF RateInv, RateTypes
<1>3. Admits(bytes, now) <=> Conforms(passed.tb, bytes, Largest(now, tb.last_update))
  <2> DEFINE t == token_bucket_update(tb, now)
  <2>1. /\ t \in [current_tokens : 0 .. MAX_BUCKET, last_update : Nat]
        /\ t.last_update = Largest(now, tb.last_update)
        /\ RoomIs(passed.tb, t.current_tokens, t.last_update)
    BY <1>1, RefillIs
  <2>2. Admits(bytes, now) <=> t.current_tokens >= bytes
    BY DEF Admits
  <2> HIDE DEF t
  <2>3. t.current_tokens \in 0 .. MAX_BUCKET /\ t.last_update \in Nat
    BY <2>1
  <2>4. bytes <= t.current_tokens <=> Conforms(passed.tb, bytes, t.last_update)
    BY <1>1, <1>2, <2>1, <2>3, RoomDecides
  <2>5. t.current_tokens >= bytes <=> bytes <= t.current_tokens
    BY <1>1, <2>3
  <2> QED
    BY <2>1, <2>2, <2>4, <2>5
<1>4. ASSUME ~went_back, now >= lb.last_update
      PROVE  Fits(bytes, now) <=> Conforms(passed.lb, bytes, now)
  <2> DEFINE l    == Leaked(lb, now)
             room == MAX_BUCKET - l.current_queue
  <2>1. /\ l \in [current_queue : 0 .. MAX_BUCKET, last_update : Nat]
        /\ RoomIs(passed.lb, room, now)
    BY <1>1, <1>4, LeakIs
  <2>2. Fits(bytes, now) <=> l.current_queue + bytes <= MAX_BUCKET
    BY DEF Fits
  <2> HIDE DEF l
  <2>3. /\ room \in 0 .. MAX_BUCKET
        /\ l.current_queue + bytes <= MAX_BUCKET <=> bytes <= room
    BY <1>1, <2>1
  <2> HIDE DEF room
  <2>4. bytes <= room <=> Conforms(passed.lb, bytes, now)
    BY <1>1, <1>2, <2>1, <2>3, RoomDecides
  <2> QED
    BY <2>2, <2>3, <2>4
<1> QED
  BY <1>3, <1>4
--------------------------------------------------------------------------------
(* Sums over sequences, and the contents of rings. *)

\* sum is what SumOf holds after each of the first n elements of s.
Summing(s, n, sum) == sum = [k \in 0 .. n |-> IF k = 0 THEN 0 ELSE sum[k - 1] + s[k]]

\* A set of naturals without a least element is empty; used for the loops below.
LEMMA LeastNatural ==
  ASSUME NEW S \in SUBSET Nat, S # {}
  PROVE  \E m \in S : \A n \in S : m <= n
<1>1. PICK x \in S : \A y \in S : <<y, x>> \notin OpToRel(<, Nat)
  BY NatLessThanWellFounded, WFMin, Zenon
<1>2. \A y \in S : ~(y < x)
  BY <1>1 DEF OpToRel
<1> QED
  BY <1>2

\* The loop of SumOf is well defined, for any number of rounds.
LEMMA SummingExists ==
  ASSUME NEW s, NEW n \in Nat
  PROVE  \E sum : Summing(s, n, sum)
<1> DEFINE Stuck == {k \in Nat : ~ \E sum : Summing(s, k, sum)}
<1>1. SUFFICES ASSUME Stuck # {} PROVE FALSE
  OBVIOUS
<1>2. PICK k \in Stuck : \A j \in Stuck : k <= j
  BY <1>1, LeastNatural
<1>3. CASE k = 0
  <2>1. Summing(s, 0, [i \in 0 .. 0 |-> 0])
    BY DEF Summing
  <2> QED
    BY <1>2, <1>3, <2>1
<1>4. CASE k # 0
  <2>1. k - 1 \in Nat /\ k - 1 \notin Stuck
    BY <1>2, <1>4
  <2>2. PICK sum : Summing(s, k - 1, sum)
    BY <2>1
  <2> DEFINE longer == [i \in 0 .. k |-> IF i < k THEN sum[i] ELSE sum[k - 1] + s[k]]
  <2>3. Summing(s, k, longer)
    <3>1. ASSUME NEW i \in 0 .. k
          PROVE  longer[i] = IF i = 0 THEN 0 ELSE longer[i - 1] + s[i]
      <4>1. CASE i = 0
        BY <1>2, <1>4, <2>1, <2>2, <4>1 DEF Summing
      <4>2. CASE i # 0 /\ i < k
        <5>1. i \in 0 .. k - 1 /\ i - 1 \in 0 .. k - 1 /\ i - 1 < k /\ i - 1 \in 0 .. k
          BY <1>2, <4>2
        <5>2. sum[i] = sum[i - 1] + s[i]
          BY <2>2, <4>2, <5>1 DEF Summing
        <5> QED
          BY <4>2, <5>1, <5>2
      <4>3. CASE i = k
        BY <1>2, <1>4, <4>3
      <4> QED
        BY <1>2, <4>1, <4>2, <4>3
    <3>2. longer = [i \in 0 .. k |-> longer[i]]
      OBVIOUS
    <3> HIDE DEF longer
    <3> QED
      BY <3>1, <3>2, Zenon DEF Summing
  <2> QED
    BY <1>2, <2>3
<1> QED
  BY <1>3, <1>4

\* SumOf is the last of its rounds, all of which are integers.
LEMMA SumRounds ==
  ASSUME NEW s \in Seq(Int)
  PROVE  \E sum : /\ sum[0] = 0
                  /\ \A k \in 1 .. Len(s) : sum[k] = sum[k - 1] + s[k]
                  /\ \A k \in 0 .. Len(s) : sum[k] \in Int
                  /\ SumOf(s) = sum[Len(s)]
<1> DEFINE n   == Len(s)
           sum == CHOOSE sum : Summing(s, n, sum)
<1>1. n \in Nat /\ \A k \in 1 .. n : s[k] \in Int
  BY ElementOfSeq
<1>2. SumOf(s) = sum[n]
  BY DEF SumOf, Summing
<1> HIDE DEF n
<1>3. Summing(s, n, sum)
  BY <1>1, SummingExists
<1> HIDE DEF sum
<1>4. sum[0] = 0
  BY <1>1, <1>3 DEF Summing
<1>5. \A k \in 1 .. n : sum[k] = sum[k - 1] + s[k]
  BY <1>1, <1>3 DEF Summing
<1>6. \A k \in 0 .. n : sum[k] \in Int
  <2> DEFINE Bad == {k \in 0 .. n : sum[k] \notin Int}
  <2>1. SUFFICES ASSUME Bad # {} PROVE FALSE
    OBVIOUS
  <2>2. Bad \in SUBSET Nat
    BY <1>1
  <2>3. PICK k \in Bad : \A j \in Bad : k <= j
    BY <2>1, <2>2, LeastNatural
  <2>4. k # 0 /\ k \in 1 .. n
    BY <1>1, <1>4, <2>3
  <2>5. k - 1 \in 0 .. n /\ k - 1 \notin Bad
    BY <1>1, <2>3, <2>4
  <2>6. sum[k - 1] \in Int /\ s[k] \in Int
    BY <1>1, <2>4, <2>5
  <2> QED
    BY <1>5, <2>3, <2>4, <2>6
<1> QED
  BY <1>2, <1>4, <1>5, <1>6 DEF n

\* The sum of two sequences, one after the other, is the sum of their sums.
LEMMA SumOfBoth ==
  ASSUME NEW a \in Seq(Int), NEW b \in Seq(Int)
  PROVE  /\ SumOf(a) \in Int /\ SumOf(b) \in Int
         /\ SumOf(a \o b) = SumOf(a) + SumOf(b)
<1> DEFINE c == a \o b
           m == Len(a)
           n == Len(b)
<1>1. /\ c \in Seq(Int) /\ Len(c) = m + n /\ m \in Nat /\ n \in Nat
      /\ \A k \in 1 .. m : c[k] = a[k]
      /\ \A k \in 1 .. n : c[m + k] = b[k]
      /\ \A k \in 1 .. m : a[k] \in Int
      /\ \A k \in 1 .. n : b[k] \in Int
  BY ElementOfSeq
<1>2. PICK A : /\ A[0] = 0
               /\ \A k \in 1 .. m : A[k] = A[k - 1] + a[k]
               /\ \A k \in 0 .. m : A[k] \in Int
               /\ SumOf(a) = A[m]
  BY SumRounds
<1>3. PICK B : /\ B[0] = 0
               /\ \A k \in 1 .. n : B[k] = B[k - 1] + b[k]
               /\ \A k \in 0 .. n : B[k] \in Int
               /\ SumOf(b) = B[n]
  BY SumRounds
<1> HIDE DEF c
<1>4. PICK C : /\ C[0] = 0
               /\ \A k \in 1 .. Len(c) : C[k] = C[k - 1] + c[k]
               /\ \A k \in 0 .. Len(c) : C[k] \in Int
               /\ SumOf(c) = C[Len(c)]
  BY <1>1, SumRounds
<1> HIDE DEF m, n
<1>5. \A k \in 0 .. m : C[k] = A[k]
  <2> DEFINE Bad == {k \in 0 .. m : C[k] # A[k]}
  <2>1. SUFFICES ASSUME Bad # {} PROVE FALSE
    OBVIOUS
  <2>2. Bad \in SUBSET Nat
    BY <1>1
  <2>3. PICK k \in Bad : \A j \in Bad : k <= j
    BY <2>1, <2>2, LeastNatural
  <2>4. k # 0 /\ k \in 1 .. m
    BY <1>1, <1>2, <1>4, <2>3
  <2>5. k - 1 \in 0 .. m /\ k - 1 \notin Bad
    BY <1>1, <2>3, <2>4
  <2>6. C[k - 1] = A[k - 1] /\ c[k] = a[k] /\ k \in 1 .. Len(c)
    BY <1>1, <2>4, <2>5
  <2>7. C[k] = A[k]
    BY <1>2, <1>4, <2>4, <2>6
  <2> QED
    BY <2>3, <2>7
<1>6. \A k \in 0 .. n : C[m + k] = A[m] + B[k]
  <2> DEFINE Bad == {k \in 0 .. n : C[m + k] # A[m] + B[k]}
  <2>1. SUFFICES ASSUME Bad # {} PROVE FALSE
    OBVIOUS
  <2>2. Bad \in SUBSET Nat
    BY <1>1
  <2>3. PICK k \in Bad : \A j \in Bad : k <= j
    BY <2>1, <2>2, LeastNatural
  <2>4. k \in 1 .. n
    <3>1. A[m] \in Int /\ C[m] = A[m]
      BY <1>1, <1>2, <1>5
    <3>2. CASE k = 0
      BY <1>1, <1>3, <2>3, <3>1, <3>2
    <3> QED
      BY <1>1, <2>3, <3>2
  <2>5. k - 1 \in 0 .. n /\ k - 1 \notin Bad
    BY <1>1, <2>3, <2>4
  <2>6. C[m + (k - 1)] = A[m] + B[k - 1]
    BY <2>5
  <2>7. c[m + k] = b[k] /\ m + k \in 1 .. Len(c) /\ (m + k) - 1 = m + (k - 1)
    BY <1>1, <2>4
  <2>8. C[m + k] = (A[m] + B[k - 1]) + b[k]
    BY <1>4, <2>6, <2>7
  <2>9. A[m] \in Int /\ B[k - 1] \in Int /\ b[k] \in Int /\ B[k] = B[k - 1] + b[k]
    BY <1>1, <1>2, <1>3, <2>4, <2>5
  <2>10. C[m + k] = A[m] + B[k]
    BY <2>8, <2>9
  <2> QED
    BY <2>3, <2>10
<1>7. C[m + n] = A[m] + B[n] /\ A[m] \in Int /\ B[n] \in Int
  BY <1>1, <1>2, <1>3, <1>6
<1> QED
  BY <1>1, <1>2, <1>3, <1>4, <1>7 DEF c

\* The remainder of a place at most one round ahead.
LEMMA Remainder ==
  ASSUME NEW n \in Nat \ {0}, NEW x \in 0 .. 2 * n - 1
  PROVE  x % n = IF x < n THEN x ELSE x - n
OBVIOUS

\* The k-th place of a ring of n, from the head h on.
Place(h, k, n) == (h + k - 1) % n

\* The place of the k-th entry from head, without the remainder.
LEMMA PlaceIs ==
  ASSUME NEW n \in Nat \ {0}, NEW h \in 0 .. n - 1, NEW k \in 1 .. n
  PROVE  /\ Place(h, k, n) \in 0 .. n - 1
         /\ Place(h, k, n) = IF h + k - 1 < n THEN h + k - 1 ELSE h + k - 1 - n
<1>1. h + k - 1 \in 0 .. 2 * n - 1
  OBVIOUS
<1> DEFINE x == h + k - 1
<1>2. x % n = IF x < n THEN x ELSE x - n
  BY <1>1, Remainder
<1> QED
  BY <1>1, <1>2 DEF Place

\* Places at most a round apart differ.
LEMMA PlacesDiffer ==
  ASSUME NEW n \in Nat \ {0}, NEW h \in 0 .. n - 1, NEW j \in 1 .. n, NEW k \in 1 .. n, j # k
  PROVE  Place(h, j, n) # Place(h, k, n)
<1>1. /\ Place(h, j, n) = IF h + j - 1 < n THEN h + j - 1 ELSE h + j - 1 - n
      /\ Place(h, k, n) = IF h + k - 1 < n THEN h + k - 1 ELSE h + k - 1 - n
  BY PlaceIs
<1> QED
  BY <1>1

\* The head moved by one: every place is the next one of before.
LEMMA PlaceNext ==
  ASSUME NEW n \in Nat \ {0}, NEW h \in 0 .. n - 1
  PROVE  /\ Place(h, 1, n) = h
         /\ (h + 1) % n \in 0 .. n - 1
         /\ \A k \in 1 .. n : Place((h + 1) % n, k, n) = Place(h, k + 1, n)
<1> DEFINE g == (h + 1) % n
<1>1. h + 1 \in 0 .. 2 * n - 1
  OBVIOUS
<1>2. g = IF h + 1 < n THEN h + 1 ELSE h + 1 - n
  <2> DEFINE x == h + 1
  <2>1. x % n = IF x < n THEN x ELSE x - n
    BY <1>1, Remainder
  <2> QED
    BY <2>1
<1> HIDE DEF g
<1>3. g \in 0 .. n - 1
  BY <1>2
<1>4. ASSUME NEW k \in 1 .. n
      PROVE  Place(g, k, n) = Place(h, k + 1, n)
  <2>1. Place(g, k, n) = IF g + k - 1 < n THEN g + k - 1 ELSE g + k - 1 - n
    BY <1>3, PlaceIs
  <2> DEFINE x == h + (k + 1) - 1
  <2>2. x = h + k /\ x \in 0 .. 2 * n - 1
    OBVIOUS
  <2> HIDE DEF x
  <2>3. x % n = IF x < n THEN x ELSE x - n
    BY <2>2, Remainder
  <2>4. Place(h, k + 1, n) = x % n
    BY DEF Place, x
  <2> QED
    BY <1>2, <1>3, <2>1, <2>2, <2>3, <2>4
<1>5. Place(h, 1, n) = h
  <2>1. 1 \in 1 .. n
    OBVIOUS
  <2> QED
    BY <2>1, PlaceIs
<1> QED
  BY <1>3, <1>4, <1>5 DEF g

\* The place behind a place.
LEMMA PlaceAfter ==
  ASSUME NEW n \in Nat \ {0}, NEW h \in 0 .. n - 1, NEW k \in 1 .. n
  PROVE  /\ (Place(h, k, n) + 1) % n = Place(h, k + 1, n)
         /\ Place(h, k + 1, n) \in 0 .. n - 1
<1> DEFINE p == Place(h, k, n)
           x == h + (k + 1) - 1
           y == p + 1
<1>1. p \in 0 .. n - 1 /\ p = IF h + k - 1 < n THEN h + k - 1 ELSE h + k - 1 - n
  BY PlaceIs
<1>2. x = h + k /\ x \in 0 .. 2 * n - 1
  OBVIOUS
<1> HIDE DEF p
<1>3. y \in 0 .. 2 * n - 1
  BY <1>1
<1>4. x % n = (IF x < n THEN x ELSE x - n) /\ Place(h, k + 1, n) = x % n
  BY <1>2, Remainder DEF Place
<1> HIDE DEF x
<1>5. y % n = IF y < n THEN y ELSE y - n
  BY <1>3, Remainder
<1>6. y = p + 1
  OBVIOUS
<1> HIDE DEF y
<1>7. y % n = x % n /\ x % n \in 0 .. n - 1
  BY <1>1, <1>2, <1>3, <1>4, <1>5, <1>6
<1> QED
  BY <1>4, <1>7 DEF y, p

\* q is r, of count entries, with b written at the place behind the last.
PutBehind(r, q, n, count, b) ==
  /\ n \in Nat \ {0} /\ count \in 0 .. n - 1 /\ b \in Nat
  /\ r.head \in 0 .. n - 1 /\ r.tail = Place(r.head, count + 1, n)
  /\ r.entries \in [0 .. n - 1 -> Nat]
  /\ q.head = r.head /\ q.entries = [r.entries EXCEPT ![r.tail] = b]

\* Writing at the place behind the last entry appends to the contents.
LEMMA ContentsPut ==
  ASSUME NEW n, NEW r, NEW q, NEW count, NEW b, PutBehind(r, q, n, count, b)
  PROVE  /\ Contents(r, n, count) \in Seq(Nat)
         /\ Contents(q, n, count + 1) = Append(Contents(r, n, count), b)
<1>0. /\ n \in Nat \ {0} /\ count \in 0 .. n - 1 /\ b \in Nat
      /\ r.head \in 0 .. n - 1 /\ r.tail = Place(r.head, count + 1, n)
      /\ r.entries \in [0 .. n - 1 -> Nat]
      /\ q.head = r.head /\ q.entries = [r.entries EXCEPT ![r.tail] = b]
  BY DEF PutBehind
<1> USE <1>0
<1> DEFINE h == r.head
           x == Contents(r, n, count)
           y == Contents(q, n, count + 1)
           z == Append(x, b)
<1>1. /\ x = [k \in 1 .. count |-> r.entries[Place(h, k, n)]]
      /\ y = [k \in 1 .. count + 1 |-> q.entries[Place(h, k, n)]]
  BY DEF Contents, Place
<1>2. \A k \in 1 .. count + 1 : k \in 1 .. n
  OBVIOUS
<1>3. \A k \in 1 .. count + 1 : Place(h, k, n) \in 0 .. n - 1
  BY <1>2, PlaceIs
<1>4. \A k \in 1 .. count : Place(h, k, n) # r.tail
  <2>1. \A k \in 1 .. count : k \in 1 .. n /\ k # count + 1
    OBVIOUS
  <2>2. count + 1 \in 1 .. n
    OBVIOUS
  <2> QED
    BY <2>1, <2>2, PlacesDiffer
<1>5. r.tail \in 0 .. n - 1
  <2>1. count + 1 \in 1 .. count + 1
    OBVIOUS
  <2> QED
    BY <1>3, <2>1
<1> HIDE DEF x, y, h
<1>6. \A k \in 1 .. count : q.entries[Place(h, k, n)] = r.entries[Place(h, k, n)]
  <2>1. \A k \in 1 .. count : Place(h, k, n) \in 0 .. n - 1
    BY <1>3
  <2> QED
    BY <1>4, <2>1
<1>7. q.entries[Place(h, count + 1, n)] = b
  BY <1>5 DEF h
<1>8. \A k \in 1 .. count : r.entries[Place(h, k, n)] \in Nat
  BY <1>3, SMTT(30)
<1>9. \A k \in 1 .. count + 1 : q.entries[Place(h, k, n)] \in Nat
  <2>1. \A k \in 1 .. count + 1 : k \in 1 .. count \/ k = count + 1
    OBVIOUS
  <2> QED
    BY <1>6, <1>7, <1>8, <2>1
<1>10. /\ x \in Seq(Nat) /\ Len(x) = count
       /\ \A k \in 1 .. count : x[k] = r.entries[Place(h, k, n)]
  BY <1>1, <1>8, SMTT(30)
<1>11. /\ y \in Seq(Nat) /\ Len(y) = count + 1
       /\ \A k \in 1 .. count + 1 : y[k] = q.entries[Place(h, k, n)]
  <2> DEFINE m == count + 1
             v(k) == q.entries[Place(h, k, n)]
  <2>1. /\ y = [k \in 1 .. m |-> v(k)] /\ m \in Nat
        /\ \A k \in 1 .. m : v(k) \in Nat
    BY <1>1, <1>9
  <2> HIDE DEF m, v
  <2>2. y \in Seq(Nat) /\ Len(y) = m /\ \A k \in 1 .. m : y[k] = v(k)
    BY <2>1
  <2> QED
    BY <2>2 DEF m, v
<1>12. /\ z \in Seq(Nat) /\ Len(z) = count + 1
       /\ \A k \in 1 .. count : z[k] = x[k]
       /\ z[count + 1] = b
  <2>1. x \in Seq(Nat) /\ b \in Nat /\ Len(x) = count
    BY <1>10
  <2>2. /\ z \in Seq(Nat) /\ Len(z) = Len(x) + 1
        /\ \A k \in 1 .. Len(x) : z[k] = x[k]
        /\ z[Len(x) + 1] = b
    BY <2>1, AppendProperties
  <2> QED
    BY <2>1, <2>2, Zenon
<1> HIDE DEF z
<1>13. \A k \in 1 .. count + 1 : y[k] = z[k]
  <2>1. \A k \in 1 .. count + 1 : k \in 1 .. count \/ k = count + 1
    OBVIOUS
  <2>2. ASSUME NEW k \in 1 .. count PROVE y[k] = z[k]
    <3>1. k \in 1 .. count + 1
      OBVIOUS
    <3>2. y[k] = q.entries[Place(h, k, n)]
      BY <1>11, <3>1
    <3>3. y[k] = x[k]
      BY <1>6, <1>10, <3>2
    <3> QED
      BY <1>12, <3>3
  <2>3. y[count + 1] = z[count + 1]
    BY <1>7, <1>11, <1>12
  <2> QED
    BY <2>1, <2>2, <2>3
<1>14. y = z
  BY <1>11, <1>12, <1>13, SeqEqual
<1> QED
  BY <1>10, <1>14 DEF x, y, z

\* q is r, of count entries, without the one at its head.
TakenFrom(r, q, n, count) ==
  /\ n \in Nat \ {0} /\ count \in 1 .. n
  /\ r.head \in 0 .. n - 1 /\ r.entries \in [0 .. n - 1 -> Nat]
  /\ q.head = (r.head + 1) % n /\ q.entries = r.entries

\* Taking the entry at the head leaves the rest of the contents.
LEMMA ContentsTake ==
  ASSUME NEW n, NEW r, NEW q, NEW count, TakenFrom(r, q, n, count)
  PROVE  /\ Contents(r, n, count) \in Seq(Nat)
         /\ Contents(q, n, count - 1) \in Seq(Nat)
         /\ r.entries[r.head] \in Nat
         /\ Contents(r, n, count) = <<r.entries[r.head]>> \o Contents(q, n, count - 1)
<1>0. /\ n \in Nat \ {0} /\ count \in 1 .. n
      /\ r.head \in 0 .. n - 1 /\ r.entries \in [0 .. n - 1 -> Nat]
      /\ q.head = (r.head + 1) % n /\ q.entries = r.entries
  BY DEF TakenFrom
<1> USE <1>0
<1> DEFINE h == r.head
           g == q.head
           x == Contents(r, n, count)
           y == Contents(q, n, count - 1)
           e == r.entries[h]
           z == <<e>> \o y
<1>1. /\ x = [k \in 1 .. count |-> r.entries[Place(h, k, n)]]
      /\ y = [k \in 1 .. count - 1 |-> r.entries[Place(g, k, n)]]
  BY DEF Contents, Place
<1>2. /\ Place(h, 1, n) = h
      /\ \A k \in 1 .. n - 1 : Place(g, k, n) = Place(h, k + 1, n)
  <2>1. /\ Place(h, 1, n) = h
        /\ \A k \in 1 .. n : Place((h + 1) % n, k, n) = Place(h, k + 1, n)
    BY PlaceNext, Zenon
  <2>2. \A k \in 1 .. n - 1 : k \in 1 .. n
    OBVIOUS
  <2> QED
    BY <2>1, <2>2, Zenon
<1> HIDE DEF x, y, h, g, e
<1>3. \A k \in 1 .. count : r.entries[Place(h, k, n)] \in Nat
  <2>1. \A k \in 1 .. count : k \in 1 .. n /\ h \in 0 .. n - 1
    BY DEF h
  <2>2. \A k \in 1 .. count : Place(h, k, n) \in 0 .. n - 1
    BY <2>1, PlaceIs
  <2> QED
    BY <2>2
<1>4. \A k \in 1 .. count - 1 : Place(g, k, n) = Place(h, k + 1, n) /\ k + 1 \in 1 .. count
  BY <1>2
<1>5. \A k \in 1 .. count - 1 : r.entries[Place(g, k, n)] \in Nat
  BY <1>3, <1>4
<1>6. /\ x \in Seq(Nat) /\ Len(x) = count
      /\ \A k \in 1 .. count : x[k] = r.entries[Place(h, k, n)]
  BY <1>1, <1>3
<1>7. /\ y \in Seq(Nat) /\ Len(y) = count - 1
      /\ \A k \in 1 .. count - 1 : y[k] = r.entries[Place(g, k, n)]
  BY <1>1, <1>5
<1>8. x[1] = e /\ e \in Nat
  <2>1. 1 \in 1 .. count
    OBVIOUS
  <2> QED
    BY <1>2, <1>3, <1>6, <2>1 DEF e
<1>9. \A k \in 1 .. count - 1 : y[k] = x[k + 1]
  BY <1>4, <1>6, <1>7
<1>10. /\ z \in Seq(Nat) /\ Len(z) = count /\ z[1] = e
       /\ \A k \in 1 .. count - 1 : z[k + 1] = y[k]
  <2>1. <<e>> \in Seq(Nat) /\ Len(<<e>>) = 1 /\ <<e>>[1] = e
    BY <1>8
  <2>2. /\ z \in Seq(Nat) /\ Len(z) = Len(<<e>>) + Len(y)
        /\ \A k \in 1 .. Len(<<e>>) + Len(y) :
              z[k] = IF k <= Len(<<e>>) THEN <<e>>[k] ELSE y[k - Len(<<e>>)]
    BY <1>7, <2>1, ConcatProperties, Zenon
  <2>3. Len(z) = count /\ \A k \in 1 .. count : z[k] = IF k <= 1 THEN <<e>>[k] ELSE y[k - 1]
    <3>1. 1 + (count - 1) = count
      OBVIOUS
    <3> QED
      BY <1>7, <2>1, <2>2, <3>1
  <2> HIDE DEF z
  <2>4. 1 \in 1 .. count /\ \A k \in 1 .. count - 1 : k + 1 \in 1 .. count /\ (k + 1) - 1 = k
    OBVIOUS
  <2>5. z[1] = e
    BY <2>1, <2>3, <2>4
  <2>6. ASSUME NEW k \in 1 .. count - 1 PROVE z[k + 1] = y[k]
    <3>1. k + 1 \in 1 .. count /\ ~(k + 1 <= 1) /\ (k + 1) - 1 = k
      OBVIOUS
    <3>2. z[k + 1] = IF k + 1 <= 1 THEN <<e>>[k + 1] ELSE y[(k + 1) - 1]
      BY <2>3, <3>1
    <3>3. z[k + 1] = y[(k + 1) - 1]
      BY <3>1, <3>2, Zenon
    <3> QED
      BY <3>1, <3>3
  <2> QED
    BY <2>2, <2>3, <2>5, <2>6
<1> HIDE DEF z
<1>11. ASSUME NEW k \in 1 .. count PROVE x[k] = z[k]
  <2>1. CASE k = 1
    BY <1>8, <1>10, <2>1
  <2>2. CASE k # 1
    <3>1. k - 1 \in 1 .. count - 1 /\ (k - 1) + 1 = k
      BY <2>2
    <3> QED
      BY <1>9, <1>10, <3>1
  <2> QED
    BY <2>1, <2>2
<1>12. x = z
  BY <1>6, <1>10, <1>11, SeqEqual
<1> QED
  BY <1>6, <1>7, <1>8, <1>12 DEF x, y, z, e, h
--------------------------------------------------------------------------------
(* The card. *)

Rings == [head    : 0 .. NIC_MAX_DESCRIPTORS - 1,
          tail    : 0 .. NIC_MAX_DESCRIPTORS - 1,
          entries : [0 .. NIC_MAX_DESCRIPTORS - 1 -> Nat]]

Queues == [head    : 0 .. RDMA_CQ_DEPTH - 1,
           tail    : 0 .. RDMA_CQ_DEPTH - 1,
           count   : 0 .. RDMA_CQ_DEPTH,
           entries : [0 .. RDMA_CQ_DEPTH - 1 -> Nat]]

\* A ring is its head, the number of its entries, and the tail they give.
LEMMA RingCount ==
  ASSUME NEW r \in Rings
  PROVE  LET n     == NIC_MAX_DESCRIPTORS
             count == (r.tail - r.head + n) % n
         IN  /\ count = IF r.tail < r.head THEN r.tail - r.head + n ELSE r.tail - r.head
             /\ count \in 0 .. n - 1
             /\ r.tail = Place(r.head, count + 1, n)
             /\ Waiting(r) = Contents(r, n, count)
<1> DEFINE n     == NIC_MAX_DESCRIPTORS
           x     == r.tail - r.head + n
           count == x % n
<1>1. n \in Nat \ {0} /\ r.head \in 0 .. n - 1 /\ r.tail \in 0 .. n - 1
  BY CardAssumption DEF Rings
<1> HIDE DEF n
<1>2. x \in 0 .. 2 * n - 1
  BY <1>1
<1>3. x % n = IF x < n THEN x ELSE x - n
  BY <1>1, <1>2, Remainder
<1>4. count = IF r.tail < r.head THEN r.tail - r.head + n ELSE r.tail - r.head
  BY <1>1, <1>3
<1>5. Waiting(r) = Contents(r, n, count)
  BY DEF Waiting, n
<1> HIDE DEF count
<1>6. count \in 0 .. n - 1 /\ count + 1 \in 1 .. n
  BY <1>1, <1>4
<1>7. r.tail = Place(r.head, count + 1, n)
  <2> DEFINE m == count + 1
  <2>1. m \in 1 .. n
    BY <1>6
  <2>2. Place(r.head, m, n) = IF r.head + m - 1 < n THEN r.head + m - 1 ELSE r.head + m - 1 - n
    BY <1>1, <2>1, PlaceIs
  <2> QED
    BY <1>1, <1>4, <1>6, <2>2
<1> QED
  BY <1>4, <1>5, <1>6, <1>7 DEF count, n

\* What a ring that is not full accepts is the last it holds.
LEMMA RingPut ==
  ASSUME NEW r \in Rings, ~RingFull(r), NEW b \in Nat
  PROVE  /\ Enqueued(r, b) \in Rings
         /\ Waiting(r) \in Seq(Nat)
         /\ Waiting(Enqueued(r, b)) = Append(Waiting(r), b)
<1> DEFINE n     == NIC_MAX_DESCRIPTORS
           q     == Enqueued(r, b)
           count == (r.tail - r.head + n) % n
           c2    == (q.tail - q.head + n) % n
<1>1. n \in Nat \ {0} /\ r.head \in 0 .. n - 1 /\ r.tail \in 0 .. n - 1
      /\ r.entries \in [0 .. n - 1 -> Nat]
  BY CardAssumption DEF Rings
<1>2. (r.tail + 1) % n # r.head
  BY DEF RingFull
<1>3. q = [r EXCEPT !.entries[r.tail] = b, !.tail = (r.tail + 1) % n]
  BY DEF Enqueued
<1>4. /\ count = IF r.tail < r.head THEN r.tail - r.head + n ELSE r.tail - r.head
      /\ count \in 0 .. n - 1
      /\ r.tail = Place(r.head, count + 1, n)
      /\ Waiting(r) = Contents(r, n, count)
  BY RingCount
<1>5. /\ (r.tail + 1) % n = IF r.tail + 1 < n THEN r.tail + 1 ELSE r.tail + 1 - n
      /\ (r.tail + 1) % n \in 0 .. n - 1
  <2> DEFINE x == r.tail + 1
  <2>1. x \in 0 .. 2 * n - 1
    BY <1>1
  <2>2. x % n = IF x < n THEN x ELSE x - n
    BY <1>1, <2>1, Remainder
  <2> QED
    BY <1>1, <2>2
<1> DEFINE t2 == (r.tail + 1) % n
<1> HIDE DEF q, t2
<1>6. /\ q.head = r.head /\ q.tail = t2 /\ q.entries = [r.entries EXCEPT ![r.tail] = b]
      /\ q \in Rings
  <2>1. q = [r EXCEPT !.entries[r.tail] = b, !.tail = t2] /\ t2 \in 0 .. n - 1
    BY <1>3, <1>5 DEF t2
  <2> HIDE DEF n
  <2>2. [r.entries EXCEPT ![r.tail] = b] \in [0 .. n - 1 -> Nat]
    BY <1>1
  <2> QED
    BY <2>1, <2>2 DEF Rings, n
<1>7. /\ c2 = IF q.tail < q.head THEN q.tail - q.head + n ELSE q.tail - q.head
      /\ Waiting(q) = Contents(q, n, c2)
  BY <1>6, RingCount
<1>8. c2 = count + 1
  <2>1. t2 # r.head /\ t2 = IF r.tail + 1 < n THEN r.tail + 1 ELSE r.tail + 1 - n
    BY <1>2, <1>5 DEF t2
  <2> HIDE DEF n, count, c2
  <2>2. c2 = IF t2 < r.head THEN t2 - r.head + n ELSE t2 - r.head
    BY <1>6, <1>7
  <2>3. count = IF r.tail < r.head THEN r.tail - r.head + n ELSE r.tail - r.head
    BY <1>4
  <2>4. n \in Nat /\ r.head \in 0 .. n - 1 /\ r.tail \in 0 .. n - 1
    BY <1>1
  <2> DEFINE h == r.head
             u == r.tail
  <2> HIDE DEF h, u, t2, q
  <2>5. /\ t2 # h /\ t2 = IF u + 1 < n THEN u + 1 ELSE u + 1 - n
        /\ c2 = IF t2 < h THEN t2 - h + n ELSE t2 - h
        /\ count = IF u < h THEN u - h + n ELSE u - h
        /\ n \in Nat /\ h \in 0 .. n - 1 /\ u \in 0 .. n - 1
    BY <2>1, <2>2, <2>3, <2>4 DEF h, u
  <2> QED
    BY <2>5
<1> HIDE DEF n, count, c2
<1>9. /\ Contents(r, n, count) \in Seq(Nat)
      /\ Contents(q, n, count + 1) = Append(Contents(r, n, count), b)
  <2>1. PutBehind(r, q, n, count, b)
    BY <1>1, <1>4, <1>6 DEF PutBehind
  <2> QED
    BY <2>1, ContentsPut
<1> QED
  BY <1>4, <1>6, <1>7, <1>8, <1>9 DEF q

\* A drained ring is empty, and so is a new one.
LEMMA RingEmpty ==
  ASSUME NEW r \in Rings, r.head = r.tail
  PROVE  Waiting(r) = <<>>
<1> DEFINE n     == NIC_MAX_DESCRIPTORS
           count == (r.tail - r.head + n) % n
<1>1. /\ count = IF r.tail < r.head THEN r.tail - r.head + n ELSE r.tail - r.head
      /\ Waiting(r) = Contents(r, n, count)
  BY RingCount
<1>2. r.head \in Int /\ r.tail \in Int
  BY CardAssumption DEF Rings
<1> HIDE DEF count
<1>3. count = 0
  BY <1>1, <1>2
<1> QED
  BY <1>1, <1>3 DEF Contents

\* A drained ring is empty.
LEMMA RingDrained ==
  ASSUME NEW r \in Rings
  PROVE  Drained(r) \in Rings /\ Waiting(Drained(r)) = <<>> /\ Waiting(r) \in Seq(Nat)
<1> DEFINE n == NIC_MAX_DESCRIPTORS
           q == Drained(r)
<1>1. q \in Rings /\ q.head = q.tail
  BY DEF Drained, Rings
<1>2. Waiting(q) = <<>>
  BY <1>1, RingEmpty
<1>3. Waiting(r) \in Seq(Nat)
  <2> DEFINE count == (r.tail - r.head + n) % n
  <2>1. count \in 0 .. n - 1 /\ Waiting(r) = Contents(r, n, count)
    BY RingCount
  <2>2. n \in Nat \ {0} /\ r.head \in 0 .. n - 1 /\ r.entries \in [0 .. n - 1 -> Nat]
    BY CardAssumption DEF Rings
  <2> HIDE DEF count, n
  <2>3. \A k \in 1 .. count : k \in 1 .. n
    BY <2>1, <2>2
  <2>4. \A k \in 1 .. count : Place(r.head, k, n) \in 0 .. n - 1
    BY <2>2, <2>3, PlaceIs
  <2> DEFINE v(k) == r.entries[Place(r.head, k, n)]
  <2>5. \A k \in 1 .. count : v(k) \in Nat
    BY <2>2, <2>4
  <2>6. Contents(r, n, count) = [k \in 1 .. count |-> v(k)]
    BY DEF Contents, Place
  <2> HIDE DEF v
  <2>7. count \in Nat
    BY <2>1, <2>2
  <2> QED
    BY <2>1, <2>5, <2>6, <2>7
<1> QED
  BY <1>1, <1>2, <1>3

\* The completion queue is its head and its count, and the tail they give.
TailBehind(q) == q.tail = Place(q.head, q.count + 1, RDMA_CQ_DEPTH)

\* A completion recorded is the last the queue holds.
LEMMA QueuePut ==
  ASSUME NEW q \in Queues, TailBehind(q), q.count < RDMA_CQ_DEPTH, NEW b \in Nat
  PROVE  LET p == Completed(q, b)
         IN  /\ p \in Queues /\ TailBehind(p)
             /\ Contents(q, RDMA_CQ_DEPTH, q.count) \in Seq(Nat)
             /\ Contents(p, RDMA_CQ_DEPTH, p.count)
                  = Append(Contents(q, RDMA_CQ_DEPTH, q.count), b)
<1> DEFINE n  == RDMA_CQ_DEPTH
           p  == Completed(q, b)
           t2 == (q.tail + 1) % n
<1>1. /\ n \in Nat \ {0} /\ q.head \in 0 .. n - 1 /\ q.tail \in 0 .. n - 1
      /\ q.count \in 0 .. n /\ q.entries \in [0 .. n - 1 -> Nat]
  BY CardAssumption DEF Queues
<1>2. q.count \in 0 .. n - 1 /\ q.count + 1 \in 1 .. n
  BY <1>1
<1>3. p = [q EXCEPT !.entries[q.tail] = b, !.tail = t2, !.count = q.count + 1]
  BY DEF Completed
<1> HIDE DEF p
<1>4. t2 = Place(q.head, (q.count + 1) + 1, n) /\ t2 \in 0 .. n - 1
  <2>1. q.tail = Place(q.head, q.count + 1, n)
    BY DEF TailBehind
  <2> DEFINE k == q.count + 1
  <2>2. /\ (Place(q.head, k, n) + 1) % n = Place(q.head, k + 1, n)
        /\ Place(q.head, k + 1, n) \in 0 .. n - 1
    BY <1>1, <1>2, PlaceAfter
  <2> QED
    BY <2>1, <2>2, Zenon
<1> HIDE DEF t2, n
<1> DEFINE es == [q.entries EXCEPT ![q.tail] = b]
<1>5. es \in [0 .. n - 1 -> Nat]
  BY <1>1
<1>6. /\ p.head = q.head /\ p.tail = t2 /\ p.count = q.count + 1
      /\ p.entries = [q.entries EXCEPT ![q.tail] = b]
      /\ p \in Queues
  <2>1. p = [q EXCEPT !.entries = es, !.tail = t2, !.count = q.count + 1]
    BY <1>3
  <2> HIDE DEF es
  <2>2. p \in Queues
    <3>1. p = [head |-> q.head, tail |-> t2, count |-> q.count + 1, entries |-> es]
      BY <2>1 DEF Queues
    <3>2. q.count + 1 \in 0 .. n
      BY <1>1, <1>2
    <3> QED
      BY <1>1, <1>4, <1>5, <3>1, <3>2 DEF Queues, n
  <2>3. p.head = q.head /\ p.tail = t2 /\ p.count = q.count + 1 /\ p.entries = es
    BY <2>1 DEF Queues
  <2> QED
    BY <2>2, <2>3 DEF es
<1>7. TailBehind(p)
  BY <1>4, <1>6 DEF TailBehind, n
<1>8. PutBehind(q, p, n, q.count, b)
  BY <1>1, <1>2, <1>6 DEF PutBehind, TailBehind, n
<1>9. /\ Contents(q, n, q.count) \in Seq(Nat)
      /\ Contents(p, n, q.count + 1) = Append(Contents(q, n, q.count), b)
  BY <1>8, ContentsPut
<1> QED
  BY <1>6, <1>7, <1>9 DEF n, p

\* Polling takes the first completion and leaves the others.
LEMMA QueueTake ==
  ASSUME NEW q \in Queues, TailBehind(q), q.count > 0
  PROVE  LET p == [q EXCEPT !.head = (q.head + 1) % RDMA_CQ_DEPTH, !.count = q.count - 1]
         IN  /\ p \in Queues /\ TailBehind(p)
             /\ q.entries[q.head] \in Nat
             /\ Contents(p, RDMA_CQ_DEPTH, p.count) \in Seq(Nat)
             /\ Contents(q, RDMA_CQ_DEPTH, q.count)
                  = <<q.entries[q.head]>> \o Contents(p, RDMA_CQ_DEPTH, p.count)
<1> DEFINE n  == RDMA_CQ_DEPTH
           h2 == (q.head + 1) % n
           p  == [q EXCEPT !.head = h2, !.count = q.count - 1]
<1>1. /\ n \in Nat \ {0} /\ q.head \in 0 .. n - 1 /\ q.tail \in 0 .. n - 1
      /\ q.count \in 1 .. n /\ q.entries \in [0 .. n - 1 -> Nat]
  BY CardAssumption DEF Queues
<1>2. h2 \in 0 .. n - 1 /\ Place(h2, q.count, n) = Place(q.head, q.count + 1, n)
  BY <1>1, PlaceNext
<1>3. h2 = (q.head + 1) % n
  OBVIOUS
<1> HIDE DEF h2, n
<1>4. q.count - 1 \in 0 .. n /\ (q.count - 1) + 1 = q.count
  BY <1>1
<1>5. /\ p.head = h2 /\ p.tail = q.tail /\ p.count = q.count - 1 /\ p.entries = q.entries
      /\ p \in Queues
  BY <1>2, <1>4 DEF Queues, n
<1> HIDE DEF p
<1>6. TailBehind(p)
  BY <1>2, <1>4, <1>5 DEF TailBehind, n
<1>7. /\ Contents(p, n, q.count - 1) \in Seq(Nat)
      /\ q.entries[q.head] \in Nat
      /\ Contents(q, n, q.count) = <<q.entries[q.head]>> \o Contents(p, n, q.count - 1)
  <2>1. TakenFrom(q, p, n, q.count)
    BY <1>1, <1>3, <1>5 DEF TakenFrom
  <2>2. \A c : TakenFrom(q, p, n, c) =>
           /\ Contents(p, n, c - 1) \in Seq(Nat)
           /\ q.entries[q.head] \in Nat
           /\ Contents(q, n, c) = <<q.entries[q.head]>> \o Contents(p, n, c - 1)
    BY ContentsTake, SMTT(30)
  <2> QED
    BY <2>1, <2>2, Zenon
<1> QED
  BY <1>5, <1>6, <1>7 DEF n, p, h2

NicTypes ==
  /\ nic \in [tx_ring : Rings, rx_ring : Rings,
              dma_engine_active : BOOLEAN, dma_total_bytes : Int,
              interrupts : [tx_complete : BOOLEAN, rx_ready : BOOLEAN]]
  /\ moved \in [tx : Seq(Nat), rx : Seq(Nat), sent : Seq(Nat), received : Seq(Nat)]

NicInv ==
  /\ NicTypes
  /\ moved.tx = moved.sent \o Waiting(nic.tx_ring)
  /\ moved.rx = moved.received \o Waiting(nic.rx_ring)
  /\ nic.dma_total_bytes = SumOf(moved.sent) + SumOf(moved.received)
  /\ nic.interrupts.tx_complete => nic.dma_engine_active

RdmaInv ==
  /\ ctx \in [queue_pairs : Seq(RDMAQPState), cq : Queues]
  /\ polled \in [recorded : Seq(Nat), results : Seq(Nat)]
  /\ TailBehind(ctx.cq)
  /\ polled.recorded = polled.results \o Contents(ctx.cq, RDMA_CQ_DEPTH, ctx.cq.count)

CardInv == NicInv /\ RdmaInv /\ posted \in Nat

\* What leaves the rings and their history alone leaves what is known of them.
LEMMA NicFrame ==
  ASSUME NicInv, nic' = nic, moved' = moved
  PROVE  NicInv'
<1> DEFINE tx == Waiting(nic.tx_ring)
           rx == Waiting(nic.rx_ring)
           total == SumOf(moved.sent) + SumOf(moved.received)
<1>1. NicTypes /\ NicTypes'
  BY DEF NicInv, NicTypes
<1>2. tx' = tx /\ rx' = rx
  BY Zenon DEF Waiting
<1>3. total' = total
  BY Zenon DEF SumOf
<1>4. /\ moved.tx = moved.sent \o tx /\ moved.rx = moved.received \o rx
      /\ nic.dma_total_bytes = total
      /\ nic.interrupts.tx_complete => nic.dma_engine_active
  BY Zenon DEF NicInv
<1> HIDE DEF tx, rx, total
<1>5. /\ (moved.tx = moved.sent \o tx)' /\ (moved.rx = moved.received \o rx)'
      /\ (nic.dma_total_bytes = total)'
      /\ (nic.interrupts.tx_complete => nic.dma_engine_active)'
  BY <1>2, <1>3, <1>4, Zenon
<1> QED
  BY <1>1, <1>5, Zenon DEF NicInv, tx, rx, total

\* What leaves the queue and its history alone leaves what is known of them.
LEMMA RdmaFrame ==
  ASSUME RdmaInv, ctx' = ctx, polled' = polled
  PROVE  RdmaInv'
  BY DEF RdmaInv, TailBehind, Contents

\* An entry may be counted to the sequence before it or to the one behind it.
LEMMA AppendBehind ==
  ASSUME NEW a \in Seq(Nat), NEW w \in Seq(Nat), NEW b \in Nat
  PROVE  Append(a \o w, b) = a \o Append(w, b)
<1>1. a \o w \in Seq(Nat) /\ <<b>> \in Seq(Nat)
  OBVIOUS
<1>2. Append(a \o w, b) = (a \o w) \o <<b>> /\ Append(w, b) = w \o <<b>>
  BY <1>1, AppendIsConcat
<1>3. (a \o w) \o <<b>> = a \o (w \o <<b>>)
  BY <1>1, ConcatAssociative
<1> QED
  BY <1>2, <1>3, Zenon

\* The entry taken from the front of the waiting ones goes to the end of the served.
LEMMA AppendBefore ==
  ASSUME NEW a \in Seq(Nat), NEW w \in Seq(Nat), NEW e \in Nat
  PROVE  a \o (<<e>> \o w) = Append(a, e) \o w
<1>1. <<e>> \in Seq(Nat)
  OBVIOUS
<1>2. Append(a, e) = a \o <<e>>
  BY AppendIsConcat
<1>3. (a \o <<e>>) \o w = a \o (<<e>> \o w)
  BY <1>1, ConcatAssociative
<1> QED
  BY <1>2, <1>3, Zenon

\* nic_tx_enqueue puts its packet behind those that wait to be sent.
LEMMA TxEnqueueInv ==
  ASSUME CardInv, nic_tx_enqueue
  PROVE  CardInv'
<1> DEFINE e == Enqueued(nic.tx_ring, posted')
<1>1. /\ posted' \in Nat /\ UNCHANGED <<ctx, polled>>
      /\ nic' = [nic EXCEPT !.tx_ring = e]
      /\ moved' = [moved EXCEPT !.tx = Append(moved.tx, posted')]
      /\ ~RingFull(nic.tx_ring)
  BY DEF nic_tx_enqueue, Post, CardInv
<1>2. NicInv /\ nic.tx_ring \in Rings
  BY DEF CardInv, NicInv, NicTypes
<1>3. /\ e \in Rings /\ Waiting(nic.tx_ring) \in Seq(Nat)
      /\ Waiting(e) = Append(Waiting(nic.tx_ring), posted')
  BY <1>1, <1>2, RingPut
<1> HIDE DEF e
<1>4. /\ nic'.tx_ring = e /\ nic'.rx_ring = nic.rx_ring
      /\ nic'.dma_total_bytes = nic.dma_total_bytes
      /\ nic'.interrupts = nic.interrupts /\ nic'.dma_engine_active = nic.dma_engine_active
      /\ moved'.tx = Append(moved.tx, posted') /\ moved'.rx = moved.rx
      /\ moved'.sent = moved.sent /\ moved'.received = moved.received
  BY <1>1, <1>2 DEF NicInv, NicTypes
<1>5. moved.tx \in Seq(Nat) /\ moved.sent \in Seq(Nat) /\ Append(moved.tx, posted') \in Seq(Nat)
  <2>1. moved.tx \in Seq(Nat) /\ moved.sent \in Seq(Nat)
    BY <1>2 DEF NicInv, NicTypes
  <2> QED
    BY <1>1, <2>1, AppendProperties
<1>6. NicTypes'
  BY <1>1, <1>2, <1>3, <1>5 DEF NicInv, NicTypes
<1>7. moved'.tx = moved'.sent \o Waiting(nic'.tx_ring)
  <2>1. Append(moved.sent \o Waiting(nic.tx_ring), posted')
          = moved.sent \o Append(Waiting(nic.tx_ring), posted')
    BY <1>1, <1>3, <1>5, AppendBehind
  <2>2. moved.tx = moved.sent \o Waiting(nic.tx_ring)
    BY <1>2 DEF NicInv
  <2> QED
    BY <1>3, <1>4, <2>1, <2>2, Zenon
<1>8. /\ moved'.rx = moved'.received \o Waiting(nic'.rx_ring)
      /\ nic'.dma_total_bytes = SumOf(moved'.sent) + SumOf(moved'.received)
      /\ nic'.interrupts.tx_complete => nic'.dma_engine_active
  BY <1>2, <1>4, Zenon DEF NicInv
<1>9. NicInv'
  BY <1>6, <1>7, <1>8 DEF NicInv, Waiting, SumOf
<1> QED
  BY <1>1, <1>9 DEF CardInv, RdmaInv, TailBehind, Contents

\* nic_rx_enqueue puts its packet behind those that wait to be received.
LEMMA RxEnqueueInv ==
  ASSUME CardInv, nic_rx_enqueue
  PROVE  CardInv'
<1> DEFINE e == Enqueued(nic.rx_ring, posted')
<1>1. /\ posted' \in Nat /\ UNCHANGED <<ctx, polled>>
      /\ nic' = [nic EXCEPT !.rx_ring = e]
      /\ moved' = [moved EXCEPT !.rx = Append(moved.rx, posted')]
      /\ ~RingFull(nic.rx_ring)
  BY DEF nic_rx_enqueue, Post, CardInv
<1>2. NicInv /\ nic.rx_ring \in Rings
  BY DEF CardInv, NicInv, NicTypes
<1>3. /\ e \in Rings /\ Waiting(nic.rx_ring) \in Seq(Nat)
      /\ Waiting(e) = Append(Waiting(nic.rx_ring), posted')
  BY <1>1, <1>2, RingPut
<1> HIDE DEF e
<1>4. /\ nic'.rx_ring = e /\ nic'.tx_ring = nic.tx_ring
      /\ nic'.dma_total_bytes = nic.dma_total_bytes
      /\ nic'.interrupts = nic.interrupts /\ nic'.dma_engine_active = nic.dma_engine_active
      /\ moved'.rx = Append(moved.rx, posted') /\ moved'.tx = moved.tx
      /\ moved'.received = moved.received /\ moved'.sent = moved.sent
  BY <1>1, <1>2 DEF NicInv, NicTypes
<1>5. moved.rx \in Seq(Nat) /\ moved.received \in Seq(Nat) /\ Append(moved.rx, posted') \in Seq(Nat)
  <2>1. moved.rx \in Seq(Nat) /\ moved.received \in Seq(Nat)
    BY <1>2 DEF NicInv, NicTypes
  <2> QED
    BY <1>1, <2>1, AppendProperties
<1>6. NicTypes'
  BY <1>1, <1>2, <1>3, <1>5 DEF NicInv, NicTypes
<1>7. moved'.rx = moved'.received \o Waiting(nic'.rx_ring)
  <2>1. Append(moved.received \o Waiting(nic.rx_ring), posted')
          = moved.received \o Append(Waiting(nic.rx_ring), posted')
    BY <1>1, <1>3, <1>5, AppendBehind
  <2>2. moved.rx = moved.received \o Waiting(nic.rx_ring)
    BY <1>2 DEF NicInv
  <2> QED
    BY <1>3, <1>4, <2>1, <2>2, Zenon
<1>8. /\ moved'.tx = moved'.sent \o Waiting(nic'.tx_ring)
      /\ nic'.dma_total_bytes = SumOf(moved'.sent) + SumOf(moved'.received)
      /\ nic'.interrupts.tx_complete => nic'.dma_engine_active
  BY <1>2, <1>4, Zenon DEF NicInv
<1>9. NicInv'
  BY <1>6, <1>7, <1>8 DEF NicInv, Waiting, SumOf
<1> QED
  BY <1>1, <1>9 DEF CardInv, RdmaInv, TailBehind, Contents

\* Starting the engine moves no packet.
LEMMA StartDmaInv ==
  ASSUME CardInv, StartDma
  PROVE  CardInv'
<1>1. /\ nic' = [nic EXCEPT !.dma_engine_active = TRUE]
      /\ UNCHANGED <<ctx, posted, moved, polled>>
  BY DEF StartDma
<1>2. NicInv
  BY DEF CardInv
<1>3. /\ nic'.tx_ring = nic.tx_ring /\ nic'.rx_ring = nic.rx_ring
      /\ nic'.dma_total_bytes = nic.dma_total_bytes
      /\ nic'.interrupts = nic.interrupts /\ nic'.dma_engine_active = TRUE
  BY <1>1, <1>2 DEF NicInv, NicTypes
<1>4. NicTypes'
  BY <1>1, <1>2 DEF NicInv, NicTypes
<1>5. /\ moved'.tx = moved'.sent \o Waiting(nic'.tx_ring)
      /\ moved'.rx = moved'.received \o Waiting(nic'.rx_ring)
      /\ nic'.dma_total_bytes = SumOf(moved'.sent) + SumOf(moved'.received)
      /\ nic'.interrupts.tx_complete => nic'.dma_engine_active
  BY <1>1, <1>2, <1>3, Zenon DEF NicInv
<1>6. NicInv'
  BY <1>4, <1>5 DEF NicInv, Waiting, SumOf
<1> QED
  BY <1>1, <1>6 DEF CardInv, RdmaInv, TailBehind, Contents

\* Both rings end up empty, and what they held has been transferred and counted.
LEMMA ProcessCardInv ==
  ASSUME CardInv, nic_process
  PROVE  CardInv'
<1> DEFINE tx == Waiting(nic.tx_ring)
           rx == Waiting(nic.rx_ring)
           dt == Drained(nic.tx_ring)
           dr == Drained(nic.rx_ring)
           n  == nic.dma_total_bytes + SumOf(tx) + SumOf(rx)
           ss == moved.sent \o tx
           rr == moved.received \o rx
<1>1. /\ nic.dma_engine_active /\ UNCHANGED <<ctx, posted, polled>>
      /\ nic' = [nic EXCEPT !.tx_ring = dt, !.rx_ring = dr, !.dma_total_bytes = n,
                            !.interrupts.tx_complete = TRUE]
      /\ moved' = [moved EXCEPT !.sent = ss, !.received = rr]
  BY DEF nic_process
<1>2. NicInv /\ nic.tx_ring \in Rings /\ nic.rx_ring \in Rings
  BY DEF CardInv, NicInv, NicTypes
<1>3. /\ dt \in Rings /\ Waiting(dt) = <<>> /\ tx \in Seq(Nat)
      /\ dr \in Rings /\ Waiting(dr) = <<>> /\ rx \in Seq(Nat)
  BY <1>2, RingDrained
<1> HIDE DEF tx, rx, dt, dr
<1>4. /\ moved.sent \in Seq(Nat) /\ moved.received \in Seq(Nat)
      /\ nic.dma_total_bytes = SumOf(moved.sent) + SumOf(moved.received)
      /\ moved.tx = moved.sent \o tx /\ moved.rx = moved.received \o rx
  BY <1>2 DEF NicInv, NicTypes, tx, rx
<1>5. ss \in Seq(Nat) /\ rr \in Seq(Nat)
  BY <1>3, <1>4
<1>6. \A s \in Seq(Nat) : s \in Seq(Int)
  BY SeqMonotonic, Nat \subseteq Int
<1>7. /\ SumOf(moved.sent) \in Int /\ SumOf(tx) \in Int
      /\ SumOf(moved.received) \in Int /\ SumOf(rx) \in Int
      /\ SumOf(ss) = SumOf(moved.sent) + SumOf(tx)
      /\ SumOf(rr) = SumOf(moved.received) + SumOf(rx)
  BY <1>3, <1>4, <1>6, SumOfBoth
<1>8. n \in Int /\ n = SumOf(ss) + SumOf(rr)
  BY <1>4, <1>7
<1> HIDE DEF n, ss, rr
<1>9. [nic.interrupts EXCEPT !.tx_complete = TRUE] \in [tx_complete : BOOLEAN, rx_ready : BOOLEAN]
  BY <1>2 DEF NicInv, NicTypes
<1>10. /\ nic'.tx_ring = dt /\ nic'.rx_ring = dr /\ nic'.dma_total_bytes = n
       /\ nic'.dma_engine_active = nic.dma_engine_active
       /\ nic'.interrupts = [nic.interrupts EXCEPT !.tx_complete = TRUE]
       /\ moved'.tx = moved.tx /\ moved'.rx = moved.rx
       /\ moved'.sent = ss /\ moved'.received = rr
  BY <1>1, <1>2 DEF NicInv, NicTypes
<1>11. NicTypes'
  <2>1. nic' \in [tx_ring : Rings, rx_ring : Rings,
                  dma_engine_active : BOOLEAN, dma_total_bytes : Int,
                  interrupts : [tx_complete : BOOLEAN, rx_ready : BOOLEAN]]
    <3>1. nic' = [tx_ring |-> dt, rx_ring |-> dr, dma_engine_active |-> nic.dma_engine_active,
                  dma_total_bytes |-> n,
                  interrupts |-> [nic.interrupts EXCEPT !.tx_complete = TRUE]]
      BY <1>1, <1>2 DEF NicInv, NicTypes
    <3>2. nic.dma_engine_active \in BOOLEAN
      BY <1>2 DEF NicInv, NicTypes
    <3> QED
      BY <1>3, <1>8, <1>9, <3>1, <3>2
  <2>2. moved' \in [tx : Seq(Nat), rx : Seq(Nat), sent : Seq(Nat), received : Seq(Nat)]
    BY <1>1, <1>2, <1>5 DEF NicInv, NicTypes
  <2> QED
    BY <2>1, <2>2 DEF NicTypes
<1>12. moved'.tx = moved'.sent \o Waiting(nic'.tx_ring)
  <2>1. ss \o <<>> = ss
    BY <1>5, ConcatEmptySeq
  <2>2. ss = moved.tx
    BY <1>4 DEF ss
  <2> QED
    BY <1>3, <1>10, <2>1, <2>2, Zenon
<1>13. moved'.rx = moved'.received \o Waiting(nic'.rx_ring)
  <2>1. rr \o <<>> = rr
    BY <1>5, ConcatEmptySeq
  <2>2. rr = moved.rx
    BY <1>4 DEF rr
  <2> QED
    BY <1>3, <1>10, <2>1, <2>2, Zenon
<1>14. /\ nic'.dma_total_bytes = SumOf(moved'.sent) + SumOf(moved'.received)
       /\ nic'.interrupts.tx_complete => nic'.dma_engine_active
  BY <1>1, <1>8, <1>10, Zenon
<1>15. NicInv'
  BY <1>11, <1>12, <1>13, <1>14 DEF NicInv, Waiting, SumOf
<1> QED
  BY <1>1, <1>15 DEF CardInv, RdmaInv, TailBehind, Contents

\* Setting one flag keeps the other.
LEMMA FlagSet ==
  ASSUME NEW A, NEW f \in [tx_complete : A, rx_ready : A], NEW v \in A
  PROVE  /\ [f EXCEPT !.tx_complete = v] = [tx_complete |-> v, rx_ready |-> f.rx_ready]
         /\ [f EXCEPT !["rx_ready"] = v] = [tx_complete |-> f.tx_complete, rx_ready |-> v]
<1>1. f = [tx_complete |-> f.tx_complete, rx_ready |-> f.rx_ready]
  OBVIOUS
<1>2. /\ f.tx_complete \in A /\ f.rx_ready \in A
      /\ [f EXCEPT !.tx_complete = v] \in [tx_complete : A, rx_ready : A]
      /\ [f EXCEPT !.rx_ready = v] \in [tx_complete : A, rx_ready : A]
  OBVIOUS
<1> DEFINE g == [f EXCEPT !.tx_complete = v]
           h == [f EXCEPT !.rx_ready = v]
<1>3. g = [tx_complete |-> g.tx_complete, rx_ready |-> g.rx_ready]
  BY <1>2
<1>4. h = [tx_complete |-> h.tx_complete, rx_ready |-> h.rx_ready]
  BY <1>2
<1>5. g.tx_complete = v /\ g.rx_ready = f.rx_ready /\ h.tx_complete = f.tx_complete /\ h.rx_ready = v
  BY <1>1
<1>6. [f EXCEPT !["rx_ready"] = v] = h
  OBVIOUS
<1> HIDE DEF g, h
<1> QED
  BY <1>3, <1>4, <1>5, <1>6 DEF g

\* The engine stops only with the completion interrupt, which is then no longer pending.
LEMMA InterruptInv ==
  ASSUME CardInv, NEW irq \in {"tx_complete", "rx_ready"}, nic_interrupt_handler(irq)
  PROVE  CardInv'
<1> DEFINE tc == IF irq = "tx_complete" THEN FALSE ELSE nic.interrupts.tx_complete
           rr == IF irq = "rx_ready" THEN FALSE ELSE nic.interrupts.rx_ready
           ac == IF irq = "tx_complete" THEN FALSE ELSE nic.dma_engine_active
<1>1. NicInv /\ UNCHANGED <<ctx, posted, moved, polled>>
  BY DEF CardInv, nic_interrupt_handler
<1>2. nic' = [nic EXCEPT !.interrupts = [tx_complete |-> tc, rx_ready |-> rr],
                         !.dma_engine_active = ac]
  <2> DEFINE old == nic.interrupts
             new == [tx_complete |-> tc, rx_ready |-> rr]
  <2>a. old \in [tx_complete : BOOLEAN, rx_ready : BOOLEAN]
    BY <1>1 DEF NicInv, NicTypes
  <2>1. CASE irq = "tx_complete"
    <3>1. tc = FALSE /\ rr = old.rx_ready /\ ac = FALSE
      BY <2>1
    <3>2. nic' = [nic EXCEPT !.interrupts = [old EXCEPT !.tx_complete = FALSE],
                             !.dma_engine_active = FALSE]
      BY <2>1 DEF nic_interrupt_handler
    <3> HIDE DEF tc, rr, ac, old
    <3>3. [old EXCEPT !.tx_complete = FALSE] = [tx_complete |-> FALSE, rx_ready |-> old.rx_ready]
      BY <2>a, FlagSet, FALSE \in BOOLEAN, ZenonT(30)
    <3> QED
      BY <3>1, <3>2, <3>3
  <2>2. CASE irq = "rx_ready"
    <3>1. tc = old.tx_complete /\ rr = FALSE /\ ac = nic.dma_engine_active
      BY <2>2
    <3>2. nic' = [nic EXCEPT !.interrupts = [old EXCEPT !["rx_ready"] = FALSE]]
      BY <2>2 DEF nic_interrupt_handler
    <3> HIDE DEF tc, rr, ac, old
    <3>3. [old EXCEPT !["rx_ready"] = FALSE] = [tx_complete |-> old.tx_complete, rx_ready |-> FALSE]
      BY <2>a, FlagSet, FALSE \in BOOLEAN, Zenon
    <3>4. nic' = [nic EXCEPT !.interrupts = new]
      BY <3>1, <3>2, <3>3
    <3> HIDE DEF new
    <3>5. nic' = [nic EXCEPT !.interrupts = new, !.dma_engine_active = nic.dma_engine_active]
      BY <1>1, <3>4 DEF NicInv, NicTypes
    <3> QED
      BY <3>1, <3>5 DEF new
  <2> QED
    BY <2>1, <2>2
<1>3. tc \in BOOLEAN /\ rr \in BOOLEAN /\ ac \in BOOLEAN
  <2>1. /\ nic.interrupts.tx_complete \in BOOLEAN /\ nic.interrupts.rx_ready \in BOOLEAN
        /\ nic.dma_engine_active \in BOOLEAN
    BY <1>1 DEF NicInv, NicTypes
  <2> QED
    BY <2>1, Zenon
<1>4. tc => ac
  BY <1>1, Zenon DEF NicInv
<1> HIDE DEF tc, rr, ac
<1>5. /\ nic'.tx_ring = nic.tx_ring /\ nic'.rx_ring = nic.rx_ring
      /\ nic'.dma_total_bytes = nic.dma_total_bytes
      /\ nic'.interrupts.tx_complete = tc /\ nic'.dma_engine_active = ac
  BY <1>1, <1>2 DEF NicInv, NicTypes
<1>6. NicTypes'
  BY <1>1, <1>2, <1>3 DEF NicInv, NicTypes
<1>7. /\ moved'.tx = moved'.sent \o Waiting(nic'.tx_ring)
      /\ moved'.rx = moved'.received \o Waiting(nic'.rx_ring)
      /\ nic'.dma_total_bytes = SumOf(moved'.sent) + SumOf(moved'.received)
      /\ nic'.interrupts.tx_complete => nic'.dma_engine_active
  BY <1>1, <1>4, <1>5, Zenon DEF NicInv
<1>8. NicInv'
  BY <1>6, <1>7 DEF NicInv, Waiting, SumOf
<1> QED
  BY <1>1, <1>8 DEF CardInv, RdmaInv, TailBehind, Contents

\* A step of the queue pairs alone, or of posted, touches no completion.
LEMMA PairsInv ==
  ASSUME CardInv, NEW pairs \in Seq(RDMAQPState),
         ctx' = [ctx EXCEPT !.queue_pairs = pairs],
         UNCHANGED <<nic, moved, polled>>, posted' \in Nat
  PROVE  CardInv'
<1>1. RdmaInv /\ ctx \in [queue_pairs : Seq(RDMAQPState), cq : Queues]
  BY DEF CardInv, RdmaInv
<1>2. ctx' \in [queue_pairs : Seq(RDMAQPState), cq : Queues] /\ ctx'.cq = ctx.cq
  BY <1>1
<1>3. RdmaInv'
  BY <1>1, <1>2 DEF RdmaInv, TailBehind, Contents
<1>4. NicInv'
  BY NicFrame DEF CardInv
<1> QED
  BY <1>3, <1>4 DEF CardInv

\* A new queue pair touches no completion.
LEMMA CreateQpInv ==
  ASSUME CardInv, NEW state \in RDMAQPState, rdma_create_qp(state)
  PROVE  CardInv'
<1>1. /\ ctx' = [ctx EXCEPT !.queue_pairs = Append(ctx.queue_pairs, state)]
      /\ UNCHANGED <<nic, posted, moved, polled>>
  BY DEF rdma_create_qp
<1>2. ctx.queue_pairs \in Seq(RDMAQPState) /\ posted \in Nat
  BY DEF CardInv, RdmaInv
<1>3. Append(ctx.queue_pairs, state) \in Seq(RDMAQPState)
  BY <1>2, AppendProperties
<1> QED
  BY <1>1, <1>2, <1>3, PairsInv

\* A queue pair in another state touches no completion.
LEMMA ModifyQpInv ==
  ASSUME CardInv, NEW q \in DOMAIN ctx.queue_pairs, NEW state \in RDMAQPState,
         rdma_modify_qp(q, state)
  PROVE  CardInv'
<1> DEFINE pairs == [ctx.queue_pairs EXCEPT ![q] = state]
<1>1. ctx' = [ctx EXCEPT !.queue_pairs = pairs] /\ UNCHANGED <<nic, posted, moved, polled>>
  BY DEF rdma_modify_qp
<1>2. ctx.queue_pairs \in Seq(RDMAQPState) /\ posted \in Nat
  BY DEF CardInv, RdmaInv
<1>3. pairs \in Seq(RDMAQPState)
  BY <1>2, ExceptSeq
<1> HIDE DEF pairs
<1> QED
  BY <1>1, <1>2, <1>3, PairsInv

\* A completion recorded in the queue is recorded behind all others.
LEMMA RecordInv ==
  ASSUME CardInv, ~CqFull, NEW result \in Nat,
         ctx' = [ctx EXCEPT !.cq = Completed(ctx.cq, result)],
         polled' = [polled EXCEPT !.recorded = Append(polled.recorded, result)],
         UNCHANGED <<nic, moved>>, posted' \in Nat
  PROVE  CardInv'
<1> DEFINE q == ctx.cq
           p == Completed(q, result)
           w == Contents(q, RDMA_CQ_DEPTH, q.count)
<1>1. /\ ctx \in [queue_pairs : Seq(RDMAQPState), cq : Queues]
      /\ polled \in [recorded : Seq(Nat), results : Seq(Nat)]
      /\ TailBehind(q) /\ polled.recorded = polled.results \o w
  BY DEF CardInv, RdmaInv
<1>2. q \in Queues
  BY <1>1
<1>3. q.count < RDMA_CQ_DEPTH
  <2>1. ~(q.count >= RDMA_CQ_DEPTH)
    BY DEF CqFull
  <2>2. q.count \in Int /\ RDMA_CQ_DEPTH \in Int
    BY <1>2, CardAssumption DEF Queues
  <2> QED
    BY <2>1, <2>2
<1> HIDE DEF q
<1>4. /\ p \in Queues /\ TailBehind(p) /\ w \in Seq(Nat)
      /\ Contents(p, RDMA_CQ_DEPTH, p.count) = Append(w, result)
  BY <1>1, <1>2, <1>3, QueuePut
<1> HIDE DEF p, w
<1>5. ctx' \in [queue_pairs : Seq(RDMAQPState), cq : Queues] /\ ctx'.cq = p
  <2>1. ctx' = [ctx EXCEPT !.cq = p]
    BY DEF p, q
  <2> QED
    BY <1>1, <1>4, <2>1
<1>6. /\ polled.recorded \in Seq(Nat) /\ polled.results \in Seq(Nat)
  BY <1>1
<1>7. Append(polled.recorded, result) \in Seq(Nat)
  BY <1>6, AppendProperties
<1>8. /\ polled' \in [recorded : Seq(Nat), results : Seq(Nat)]
      /\ polled'.recorded = Append(polled.recorded, result) /\ polled'.results = polled.results
  BY <1>1, <1>7
<1>9. polled'.recorded = polled'.results \o Contents(ctx'.cq, RDMA_CQ_DEPTH, ctx'.cq.count)
  <2>1. Append(polled.results \o w, result) = polled.results \o Append(w, result)
    BY <1>4, <1>6, AppendBehind
  <2> QED
    BY <1>1, <1>4, <1>5, <1>8, <2>1, Zenon
<1>10. RdmaInv'
  BY <1>4, <1>5, <1>8, <1>9 DEF RdmaInv, TailBehind, Contents
<1>11. NicInv'
  BY NicFrame DEF CardInv
<1> QED
  BY <1>10, <1>11 DEF CardInv

\* rdma_post_send records its completion behind all others.
LEMMA PostSendInv ==
  ASSUME CardInv, NEW q, NEW opcode, NEW length \in Lengths, rdma_post_send(q, opcode, length)
  PROVE  CardInv'
<1> DEFINE result == IF opcode = "WRITE" THEN length ELSE 1
<1>1. /\ ~CqFull /\ posted' = posted + 1 /\ UNCHANGED <<nic, moved>>
      /\ ctx' = [ctx EXCEPT !.cq = Completed(ctx.cq, result)]
      /\ polled' = [polled EXCEPT !.recorded = Append(polled.recorded, result)]
  BY DEF rdma_post_send, Post
<1>2. result \in Nat
  BY CardAssumption
<1>3. posted' \in Nat
  BY <1>1 DEF CardInv
<1> HIDE DEF result
<1> QED
  BY <1>1, <1>2, <1>3, RecordInv

\* The write whose completion finds no room leaves the queue as it was.
LEMMA RemoteWriteInv ==
  ASSUME CardInv, NEW q, NEW length \in Lengths, rdma_remote_write(q, length)
  PROVE  CardInv'
<1>1. posted' = posted + 1 /\ UNCHANGED <<nic, moved>>
  BY DEF rdma_remote_write, Post
<1>2. length \in Nat
  BY CardAssumption
<1>3. posted' \in Nat
  BY <1>1 DEF CardInv
<1>4. CASE CqFull
  <2>1. UNCHANGED <<ctx, polled>>
    BY <1>4 DEF rdma_remote_write
  <2> QED
    BY <1>1, <1>3, <2>1, NicFrame, RdmaFrame DEF CardInv
<1>5. CASE ~CqFull
  <2>1. /\ ctx' = [ctx EXCEPT !.cq = Completed(ctx.cq, length)]
        /\ polled' = [polled EXCEPT !.recorded = Append(polled.recorded, length)]
    BY <1>5 DEF rdma_remote_write
  <2> QED
    BY <1>1, <1>2, <1>3, <1>5, <2>1, RecordInv
<1> QED
  BY <1>4, <1>5

\* rdma_poll_cq returns the oldest completion and removes it.
LEMMA PollInv ==
  ASSUME CardInv, rdma_poll_cq
  PROVE  CardInv'
<1> DEFINE q == ctx.cq
           e == q.entries[q.head]
           p == [q EXCEPT !.head = (q.head + 1) % RDMA_CQ_DEPTH, !.count = q.count - 1]
           v == Contents(p, RDMA_CQ_DEPTH, p.count)
<1>1. /\ ctx \in [queue_pairs : Seq(RDMAQPState), cq : Queues]
      /\ polled \in [recorded : Seq(Nat), results : Seq(Nat)]
      /\ TailBehind(q) /\ polled.recorded = polled.results \o Contents(q, RDMA_CQ_DEPTH, q.count)
  BY DEF CardInv, RdmaInv
<1>2. q \in Queues
  BY <1>1
<1>3. /\ q.count > 0 /\ UNCHANGED <<nic, posted, moved>>
      /\ polled' = [polled EXCEPT !.results = Append(polled.results, e)]
  BY DEF rdma_poll_cq
<1>4. ctx' = [ctx EXCEPT !.cq = p]
  BY <1>1, <1>2 DEF rdma_poll_cq, Queues
<1> HIDE DEF q
<1>5. /\ p \in Queues /\ TailBehind(p) /\ e \in Nat /\ v \in Seq(Nat)
      /\ Contents(q, RDMA_CQ_DEPTH, q.count) = <<e>> \o v
  BY <1>1, <1>2, <1>3, QueueTake
<1> HIDE DEF p, e, v
<1>6. ctx' \in [queue_pairs : Seq(RDMAQPState), cq : Queues] /\ ctx'.cq = p
  BY <1>1, <1>4, <1>5
<1>7. polled.results \in Seq(Nat)
  BY <1>1
<1>8. Append(polled.results, e) \in Seq(Nat)
  BY <1>5, <1>7, AppendProperties
<1>9. /\ polled' \in [recorded : Seq(Nat), results : Seq(Nat)]
      /\ polled'.recorded = polled.recorded /\ polled'.results = Append(polled.results, e)
  BY <1>1, <1>3, <1>8
<1>10. polled'.recorded = polled'.results \o Contents(ctx'.cq, RDMA_CQ_DEPTH, ctx'.cq.count)
  <2>1. polled.results \o (<<e>> \o v) = Append(polled.results, e) \o v
    BY <1>5, <1>7, AppendBefore
  <2>2. Contents(ctx'.cq, RDMA_CQ_DEPTH, ctx'.cq.count) = v
    BY <1>6 DEF v
  <2> QED
    BY <1>1, <1>5, <1>9, <2>1, <2>2, Zenon
<1>11. RdmaInv'
  BY <1>5, <1>6, <1>9, <1>10 DEF RdmaInv, TailBehind, Contents
<1>12. NicInv' /\ posted' \in Nat
  BY <1>3, NicFrame DEF CardInv
<1> QED
  BY <1>11, <1>12 DEF CardInv

\* Rings and completion queue start empty, and nothing has moved.
LEMMA CardInitInv == CardInit => CardInv
<1> SUFFICES ASSUME CardInit PROVE CardInv
  OBVIOUS
<1>1. /\ NIC_MAX_DESCRIPTORS \in Nat \ {0} /\ RDMA_CQ_DEPTH \in Nat \ {0}
  BY CardAssumption
<1> DEFINE r == Ring(NIC_MAX_DESCRIPTORS)
           q == [head |-> 0, tail |-> 0, count |-> 0,
                 entries |-> [i \in 0 .. RDMA_CQ_DEPTH - 1 |-> 0]]
<1>2. r \in Rings /\ r.head = r.tail
  BY <1>1 DEF Ring, Rings
<1>3. Waiting(r) = <<>>
  BY <1>2, RingEmpty
<1>4. q \in Queues
  BY <1>1 DEF Queues
<1>5. TailBehind(q)
  <2>1. Place(0, 1, RDMA_CQ_DEPTH) = 0
    BY <1>1, PlaceNext
  <2> QED
    BY <2>1 DEF TailBehind
<1>6. Contents(q, RDMA_CQ_DEPTH, q.count) = <<>>
  BY DEF Contents
<1>7. /\ nic = [tx_ring |-> r, rx_ring |-> r, dma_engine_active |-> FALSE, dma_total_bytes |-> 0,
                interrupts |-> [tx_complete |-> FALSE, rx_ready |-> FALSE]]
      /\ ctx = [queue_pairs |-> <<>>, cq |-> q]
      /\ posted = 0
      /\ moved = [tx |-> <<>>, rx |-> <<>>, sent |-> <<>>, received |-> <<>>]
      /\ polled = [recorded |-> <<>>, results |-> <<>>]
  BY DEF CardInit
<1> HIDE DEF r, q
<1>8. /\ nic.tx_ring = r /\ nic.rx_ring = r /\ nic.dma_total_bytes = 0
      /\ nic.interrupts = [tx_complete |-> FALSE, rx_ready |-> FALSE]
      /\ moved.tx = <<>> /\ moved.rx = <<>> /\ moved.sent = <<>> /\ moved.received = <<>>
      /\ ctx.cq = q /\ polled.recorded = <<>> /\ polled.results = <<>>
  BY <1>7
<1>9. nic.interrupts.tx_complete = FALSE
  <2> DEFINE flags == [tx_complete |-> FALSE, rx_ready |-> FALSE]
  <2>1. flags.tx_complete = FALSE
    OBVIOUS
  <2> HIDE DEF flags
  <2>2. nic.interrupts = flags
    BY <1>8 DEF flags
  <2> QED
    BY <2>1, <2>2, Zenon
<1>10. NicTypes
  <2>1. [tx_complete |-> FALSE, rx_ready |-> FALSE] \in [tx_complete : BOOLEAN, rx_ready : BOOLEAN]
    OBVIOUS
  <2>2. nic \in [tx_ring : Rings, rx_ring : Rings,
                 dma_engine_active : BOOLEAN, dma_total_bytes : Int,
                 interrupts : [tx_complete : BOOLEAN, rx_ready : BOOLEAN]]
    BY <1>2, <1>7, <2>1
  <2>3. moved \in [tx : Seq(Nat), rx : Seq(Nat), sent : Seq(Nat), received : Seq(Nat)]
    BY <1>7
  <2> QED
    BY <2>2, <2>3 DEF NicTypes
<1>11. <<>> \o <<>> = <<>>
  OBVIOUS
<1>12. SumOf(<<>>) = 0
  <2>1. <<>> \in Seq(Int) /\ Len(<<>>) = 0
    OBVIOUS
  <2> DEFINE s == <<>>
  <2> HIDE DEF s
  <2>2. s \in Seq(Int) /\ Len(s) = 0
    BY <2>1 DEF s
  <2>3. SumOf(s) = 0
    BY <2>2, SumRounds
  <2> QED
    BY <2>3 DEF s
<1>13. NicInv
  <2>1. nic.dma_total_bytes = SumOf(moved.sent) + SumOf(moved.received)
    BY <1>8, <1>12
  <2>2. /\ moved.tx = moved.sent \o Waiting(nic.tx_ring)
        /\ moved.rx = moved.received \o Waiting(nic.rx_ring)
    BY <1>3, <1>8, <1>11, Zenon
  <2> QED
    BY <1>9, <1>10, <2>1, <2>2 DEF NicInv
<1>14. RdmaInv
  <2>1. ctx \in [queue_pairs : Seq(RDMAQPState), cq : Queues]
    BY <1>4, <1>7
  <2>2. polled \in [recorded : Seq(Nat), results : Seq(Nat)]
    BY <1>7
  <2>3. polled.recorded = polled.results \o Contents(ctx.cq, RDMA_CQ_DEPTH, ctx.cq.count)
    BY <1>6, <1>8, <1>11, Zenon
  <2> QED
    BY <1>5, <1>8, <2>1, <2>2, <2>3 DEF RdmaInv
<1> QED
  BY <1>7, <1>13, <1>14 DEF CardInv

\* Every operation of the card and of the queue pairs keeps the invariant.
LEMMA CardNextInv ==
  ASSUME CardInv, NicNext \/ RdmaNext
  PROVE  CardInv'
<1>1. CASE NicNext
  BY <1>1, TxEnqueueInv, RxEnqueueInv, StartDmaInv, ProcessCardInv, InterruptInv DEF NicNext
<1>2. CASE RdmaNext
  BY <1>2, CreateQpInv, ModifyQpInv, PostSendInv, RemoteWriteInv, PollInv DEF RdmaNext
<1> QED
  BY <1>1, <1>2

\* Rings and completion queue lose, repeat and reorder nothing, and the limiters let
\* through exactly what conforms, for every size of ring and queue, every rate and burst
\* and any times the callers pass.
THEOREM TrafficCorrect == DevSpec => []TrafficSound
<1> DEFINE Inv == CardInv /\ RateInv
<1>1. DevInit => Inv
  BY CardInitInv, RateInitInv DEF DevInit
<1>2. Inv /\ [DevNext]_<<part, gte_vars, ws_vars, card_vars, rate_vars, boot_vars, tee_vars>>
        => Inv'
  <2> SUFFICES ASSUME CardInv, RateInv,
                      [DevNext]_<<part, gte_vars, ws_vars, card_vars, rate_vars, boot_vars, tee_vars>>
               PROVE  Inv'
    OBVIOUS
  <2>1. UNCHANGED card_vars => CardInv'
    BY NicFrame, RdmaFrame DEF card_vars, CardInv
  <2>2. UNCHANGED rate_vars => RateInv'
    BY DEF rate_vars, RateInv, RateTypes, RoomIs, Excess
  <2>3. CASE UNCHANGED <<part, gte_vars, ws_vars, card_vars, rate_vars, boot_vars, tee_vars>>
    BY <2>1, <2>2, <2>3
  <2>4. CASE DevNext
    <3>1. CardInv'
      <4>1. CASE part \in {"rings", "rdma"}
        <5>1. NicNext \/ RdmaNext
          BY <2>4, <4>1 DEF DevNext
        <5> QED
          BY <5>1, CardNextInv
      <4>2. CASE part \notin {"rings", "rdma"}
        BY <2>1, <2>4, <4>2 DEF DevNext
      <4> QED
        BY <4>1, <4>2
    <3>2. RateInv'
      <4>1. CASE part \in {"token", "leaky"}
        <5>1. TokenNext \/ LeakyNext
          BY <2>4, <4>1 DEF DevNext
        <5> QED
          BY <5>1, RateNextInv
      <4>2. CASE part \notin {"token", "leaky"}
        BY <2>2, <2>4, <4>2 DEF DevNext
      <4> QED
        BY <4>1, <4>2
    <3> QED
      BY <3>1, <3>2
  <2> QED
    BY <2>3, <2>4
<1>3. Inv => TrafficSound
  <2> SUFFICES ASSUME CardInv, RateInv PROVE TrafficSound
    OBVIOUS
  <2>1. QueuesKeepOrder
    BY DEF CardInv, NicInv, RdmaInv, QueuesKeepOrder
  <2>2. LimitersExact
    BY RateInvSuffices
  <2> QED
    BY <2>1, <2>2 DEF TrafficSound
<1> QED
  BY <1>1, <1>2, <1>3, PTL DEF DevSpec
--------------------------------------------------------------------------------
(* Measured boot: loops over a log and over the stages. *)

\* What holds of round 0 and of each round after one of which it holds, holds of all.
LEMMA RoundsKeep ==
  ASSUME NEW P, NEW n \in Nat, 0 \in P, \A k \in 1 .. n : k - 1 \in P => k \in P
  PROVE  \A k \in 0 .. n : k \in P
<1> DEFINE Bad == {k \in 0 .. n : k \notin P}
<1>1. SUFFICES ASSUME Bad # {} PROVE FALSE
  OBVIOUS
<1>2. Bad \in SUBSET Nat
  OBVIOUS
<1>3. PICK k \in Bad : \A j \in Bad : k <= j
  BY <1>1, <1>2, LeastNatural
<1>4. k # 0 /\ k \in 1 .. n /\ k - 1 \in 0 .. n
  BY <1>3
<1>5. k - 1 \in P
  BY <1>3, <1>4
<1> QED
  BY <1>3, <1>4, <1>5

\* f takes S to S in every round; rec holds n rounds of f from a.
Stepper(S, f) == \A k \in Nat, s \in S : f[k][s] \in S

Loop(S, a, f, n, rec) ==
  /\ rec \in [0 .. n -> S]
  /\ rec[0] = a
  /\ \A k \in 1 .. n : rec[k] = f[k][rec[k - 1]]

\* A loop is well defined.
LEMMA LoopExists ==
  ASSUME NEW S, NEW a \in S, NEW f, Stepper(S, f), NEW n \in Nat
  PROVE  \E rec : Loop(S, a, f, n, rec)
<1> DEFINE P == {m \in Nat : \E rec : Loop(S, a, f, m, rec)}
<1>1. 0 \in P
  <2>1. Loop(S, a, f, 0, [k \in 0 .. 0 |-> a])
    BY DEF Loop
  <2> QED
    BY <2>1
<1>2. ASSUME NEW m \in 1 .. n, m - 1 \in P
      PROVE  m \in P
  <2>1. PICK rec : Loop(S, a, f, m - 1, rec)
    BY <1>2
  <2> DEFINE last   == f[m][rec[m - 1]]
             longer == [k \in 0 .. m |-> IF k < m THEN rec[k] ELSE last]
  <2>2. m \in Nat /\ m - 1 \in Nat /\ m - 1 \in 0 .. m - 1
    OBVIOUS
  <2>3. rec \in [0 .. m - 1 -> S] /\ rec[m - 1] \in S /\ rec[0] = a
    BY <2>1, <2>2 DEF Loop
  <2>4. last \in S
    BY <2>2, <2>3 DEF Stepper
  <2> HIDE DEF last
  <2>5. longer \in [0 .. m -> S]
    <3>1. ASSUME NEW k \in 0 .. m, k < m
          PROVE  rec[k] \in S
      <4>1. k \in 0 .. m - 1
        BY <3>1
      <4> QED
        BY <2>3, <4>1
    <3> QED
      BY <2>4, <3>1
  <2>6. longer[0] = a
    BY <2>2, <2>3
  <2>7. ASSUME NEW k \in 1 .. m
        PROVE  longer[k] = f[k][longer[k - 1]]
    <3>1. k - 1 \in 0 .. m /\ k \in 0 .. m /\ k - 1 < m
      OBVIOUS
    <3>2. longer[k - 1] = rec[k - 1]
      BY <3>1
    <3>3. CASE k < m
      <4>1. k \in 1 .. m - 1 /\ longer[k] = rec[k]
        BY <3>1, <3>3
      <4>2. rec[k] = f[k][rec[k - 1]]
        BY <2>1, <4>1 DEF Loop
      <4> HIDE DEF longer
      <4> QED
        BY <3>2, <4>1, <4>2, Zenon
    <3>4. CASE k = m
      <4>1. longer[m] = last
        OBVIOUS
      <4> HIDE DEF longer
      <4> QED
        BY <3>2, <3>4, <4>1, Zenon DEF last
    <3> QED
      BY <3>3, <3>4
  <2> HIDE DEF longer
  <2>8. Loop(S, a, f, m, longer)
    BY <2>5, <2>6, <2>7 DEF Loop
  <2> QED
    BY <2>2, <2>8
<1> HIDE DEF P
<1>3. \A m \in 1 .. n : m - 1 \in P => m \in P
  BY <1>2
<1>4. n \in P
  BY <1>1, <1>3, RoundsKeep
<1> QED
  BY <1>4 DEF P

\* Two loops that start alike and step alike agree.
LEMMA LoopsAgree ==
  ASSUME NEW g, NEW h, NEW n \in Nat, g[0] = h[0],
         \A k \in 1 .. n : g[k - 1] = h[k - 1] => g[k] = h[k]
  PROVE  \A k \in 0 .. n : g[k] = h[k]
<1> DEFINE P == {k \in 0 .. n : g[k] = h[k]}
<1>1. 0 \in P /\ \A k \in 1 .. n : k - 1 \in P => k \in P
  OBVIOUS
<1> HIDE DEF P
<1>2. \A k \in 0 .. n : k \in P
  BY <1>1, RoundsKeep
<1> QED
  BY <1>2 DEF P

PcrValues == [PCRs -> Seq(Seq(Nat))]

\* Events of the log.
EventTypes == {"PCR_EXTEND", "STAGE_VERIFY", "STAGE_LAUNCH", "SECURITY_ALERT"}

BootEvents == [type : EventTypes, pcr_index : PCRs, digest : Seq(Nat), stage_id : Nat]

\* A query is the last of its rounds.
LEMMA QueryRounds ==
  ASSUME NEW l \in Seq(BootEvents), NEW type
  PROVE  \E found : /\ found[0] = <<>>
                    /\ \A k \in 1 .. Len(l) :
                         found[k] = IF l[k].type = type THEN Append(found[k - 1], l[k]) ELSE found[k - 1]
                    /\ \A k \in 0 .. Len(l) : found[k] \in Seq(BootEvents)
                    /\ event_log_query(l, type) = found[Len(l)]
<1> DEFINE n == Len(l)
           S == Seq(BootEvents)
           Next(k, s) == IF l[k].type = type THEN Append(s, l[k]) ELSE s
           f == [k \in Nat |-> [s \in S |-> IF k \in 1 .. n THEN Next(k, s) ELSE s]]
           Is(found) == found = [k \in 0 .. n |-> IF k = 0 THEN <<>> ELSE Next(k, found[k - 1])]
           g == CHOOSE found : Is(found)
<1>1. n \in Nat /\ \A k \in 1 .. n : l[k] \in BootEvents
  BY ElementOfSeq
<1>2. \A k \in 1 .. n, s \in S : Next(k, s) \in S
  BY <1>1, AppendProperties
<1> HIDE DEF n, Next
<1>3. f \in [Nat -> [S -> S]] /\ <<>> \in S
  BY <1>2
<1>4. \A k \in 1 .. n, s \in S : f[k][s] = Next(k, s)
  BY <1>1
<1> HIDE DEF f, S
<1>5. PICK rec : rec \in [0 .. n -> S] /\ rec[0] = <<>> /\ \A k \in 1 .. n : rec[k] = f[k][rec[k - 1]]
  <2>1. Stepper(S, f)
    BY <1>3 DEF Stepper
  <2>2. \E rec : Loop(S, <<>>, f, n, rec)
    BY <1>1, <1>3, <2>1, LoopExists, Zenon
  <2> QED
    BY <2>2 DEF Loop
<1>6. \A k \in 1 .. n : rec[k] = Next(k, rec[k - 1])
  BY <1>1, <1>4, <1>5
<1>7. Is(rec)
  <2>1. \A k \in 0 .. n : rec[k] = IF k = 0 THEN <<>> ELSE Next(k, rec[k - 1])
    BY <1>1, <1>5, <1>6
  <2> QED
    BY <1>5, <2>1
<1>8. Is(g)
  BY <1>7
<1>9. event_log_query(l, type) = g[n]
  BY DEF event_log_query, n, Next
<1> HIDE DEF g
<1>10. g[0] = <<>> /\ \A k \in 1 .. n : g[k] = Next(k, g[k - 1])
  BY <1>1, <1>8
<1>11. \A k \in 0 .. n : g[k] = rec[k]
  <2>1. g[0] = rec[0] /\ \A k \in 1 .. n : g[k - 1] = rec[k - 1] => g[k] = rec[k]
    BY <1>5, <1>6, <1>10
  <2>2. n \in Nat
    BY <1>1
  <2> QED
    BY <2>1, <2>2, LoopsAgree, Zenon
<1>12. \A k \in 0 .. n : g[k] \in S
  BY <1>5, <1>11
<1> QED
  BY <1>9, <1>10, <1>12 DEF n, Next, S

\* A query of a longer log finds one event more, or the same ones.
LEMMA QueryAppend ==
  ASSUME NEW l \in Seq(BootEvents), NEW e \in BootEvents, NEW type
  PROVE  /\ event_log_query(l, type) \in Seq(BootEvents)
         /\ event_log_query(Append(l, e), type) =
              IF e.type = type THEN Append(event_log_query(l, type), e) ELSE event_log_query(l, type)
<1> DEFINE m == Append(l, e)
           n == Len(l)
<1>1. /\ m \in Seq(BootEvents) /\ Len(m) = n + 1 /\ m[n + 1] = e /\ n \in Nat
      /\ \A k \in 1 .. n : m[k] = l[k]
  BY AppendProperties
<1>2. PICK g : /\ g[0] = <<>>
               /\ \A k \in 1 .. Len(l) :
                    g[k] = IF l[k].type = type THEN Append(g[k - 1], l[k]) ELSE g[k - 1]
               /\ \A k \in 0 .. Len(l) : g[k] \in Seq(BootEvents)
               /\ event_log_query(l, type) = g[Len(l)]
  BY QueryRounds, Zenon
<1> HIDE DEF m
<1>3. PICK h : /\ h[0] = <<>>
               /\ \A k \in 1 .. Len(m) :
                    h[k] = IF m[k].type = type THEN Append(h[k - 1], m[k]) ELSE h[k - 1]
               /\ \A k \in 0 .. Len(m) : h[k] \in Seq(BootEvents)
               /\ event_log_query(m, type) = h[Len(m)]
  BY <1>1, QueryRounds, Zenon
<1>4. g[0] = h[0] /\ \A k \in 1 .. n : g[k - 1] = h[k - 1] => g[k] = h[k]
  <2>1. ASSUME NEW k \in 1 .. n, g[k - 1] = h[k - 1]
        PROVE  g[k] = h[k]
    <3>1. k \in 1 .. Len(m) /\ m[k] = l[k]
      BY <1>1
    <3>2. h[k] = IF l[k].type = type THEN Append(h[k - 1], l[k]) ELSE h[k - 1]
      BY <1>3, <3>1
    <3> QED
      BY <1>2, <2>1, <3>2
  <2> QED
    BY <1>2, <1>3, <2>1
<1>5. g[n] = h[n]
  <2>1. \A k \in 0 .. n : g[k] = h[k]
    BY <1>1, <1>4, LoopsAgree, Zenon
  <2> QED
    BY <1>1, <2>1
<1>6. h[n + 1] = IF e.type = type THEN Append(h[n], e) ELSE h[n]
  <2>1. n + 1 \in 1 .. Len(m) /\ (n + 1) - 1 = n
    BY <1>1
  <2>2. h[n + 1] = IF m[n + 1].type = type THEN Append(h[(n + 1) - 1], m[n + 1]) ELSE h[(n + 1) - 1]
    BY <1>3, <2>1
  <2> QED
    BY <1>1, <2>1, <2>2
<1>7. event_log_query(l, type) = g[n] /\ event_log_query(m, type) = h[n + 1] /\ g[n] \in Seq(BootEvents)
  BY <1>1, <1>2, <1>3
<1> QED
  BY <1>5, <1>6, <1>7 DEF m

\* The registers a verifier computes from extensions.
ReplayedFrom(events) ==
  LET pcrs[n \in 0 .. Len(events)] ==
        IF n = 0 THEN [p \in PCRs |-> <<>>]
        ELSE [pcrs[n - 1] EXCEPT ![events[n].pcr_index] = Append(@, events[n].digest)]
  IN  pcrs[Len(events)]

\* One extension more, to register p.
OneMore(pcrs, p, digest) == [pcrs EXCEPT ![p] = Append(@, digest)]

LEMMA OneMoreIs ==
  ASSUME NEW pcrs \in PcrValues, NEW p \in PCRs, NEW digest \in Seq(Nat)
  PROVE  /\ OneMore(pcrs, p, digest) \in PcrValues
         /\ OneMore(pcrs, p, digest)[p] = Append(pcrs[p], digest)
         /\ \A q \in PCRs : q # p => OneMore(pcrs, p, digest)[q] = pcrs[q]
<1>1. pcrs[p] \in Seq(Seq(Nat))
  BY DEF PcrValues
<1>2. Append(pcrs[p], digest) \in Seq(Seq(Nat))
  BY <1>1, AppendProperties
<1> QED
  BY <1>2 DEF OneMore, PcrValues

\* A replay is the last of its rounds.
LEMMA ReplayRounds ==
  ASSUME NEW l \in Seq(BootEvents)
  PROVE  \E pcrs : /\ pcrs[0] = [p \in PCRs |-> <<>>]
                   /\ \A k \in 1 .. Len(l) : pcrs[k] = OneMore(pcrs[k - 1], l[k].pcr_index, l[k].digest)
                   /\ \A k \in 0 .. Len(l) : pcrs[k] \in PcrValues
                   /\ ReplayedFrom(l) = pcrs[Len(l)]
<1> DEFINE n == Len(l)
           zero == [p \in PCRs |-> <<>>]
           Next(k, s) == OneMore(s, l[k].pcr_index, l[k].digest)
           f == [k \in Nat |-> [s \in PcrValues |-> IF k \in 1 .. n THEN Next(k, s) ELSE s]]
           Is(pcrs) == pcrs = [k \in 0 .. n |-> IF k = 0 THEN zero ELSE Next(k, pcrs[k - 1])]
           g == CHOOSE pcrs : Is(pcrs)
<1>1. n \in Nat /\ \A k \in 1 .. n : l[k] \in BootEvents
  BY ElementOfSeq
<1>2. \A k \in 1 .. n, s \in PcrValues : Next(k, s) \in PcrValues
  <2> TAKE k \in 1 .. n, s \in PcrValues
  <2>1. l[k].pcr_index \in PCRs /\ l[k].digest \in Seq(Nat)
    BY <1>1 DEF BootEvents
  <2> QED
    BY <2>1, OneMoreIs
<1>3. zero \in PcrValues
  BY DEF PcrValues
<1> HIDE DEF n, Next, zero
<1>4. Stepper(PcrValues, f)
  BY <1>2 DEF Stepper
<1>5. \A k \in 1 .. n, s \in PcrValues : f[k][s] = Next(k, s)
  BY <1>1
<1> HIDE DEF f
<1>6. PICK rec : rec \in [0 .. n -> PcrValues] /\ rec[0] = zero
                 /\ \A k \in 1 .. n : rec[k] = f[k][rec[k - 1]]
  <2>1. \E rec : Loop(PcrValues, zero, f, n, rec)
    BY <1>1, <1>3, <1>4, LoopExists, Zenon
  <2> QED
    BY <2>1 DEF Loop
<1>7. \A k \in 1 .. n : rec[k] = Next(k, rec[k - 1])
  BY <1>1, <1>5, <1>6
<1>8. Is(rec)
  <2>1. \A k \in 0 .. n : rec[k] = IF k = 0 THEN zero ELSE Next(k, rec[k - 1])
    BY <1>1, <1>6, <1>7
  <2> QED
    BY <1>6, <2>1
<1>9. Is(g)
  BY <1>8
<1>10. ReplayedFrom(l) = g[n]
  BY DEF ReplayedFrom, n, Next, zero, OneMore
<1> HIDE DEF g
<1>11. g[0] = zero /\ \A k \in 1 .. n : g[k] = Next(k, g[k - 1])
  BY <1>1, <1>9
<1>12. \A k \in 0 .. n : g[k] = rec[k]
  <2>1. g[0] = rec[0] /\ \A k \in 1 .. n : g[k - 1] = rec[k - 1] => g[k] = rec[k]
    BY <1>6, <1>7, <1>11
  <2>2. n \in Nat
    BY <1>1
  <2> QED
    BY <2>1, <2>2, LoopsAgree, Zenon
<1>13. \A k \in 0 .. n : g[k] \in PcrValues
  BY <1>6, <1>12
<1> QED
  BY <1>10, <1>11, <1>13 DEF n, Next, zero

\* Replaying one extension more extends its register.
LEMMA ReplayAppend ==
  ASSUME NEW l \in Seq(BootEvents), NEW e \in BootEvents
  PROVE  /\ ReplayedFrom(l) \in PcrValues
         /\ ReplayedFrom(Append(l, e)) = OneMore(ReplayedFrom(l), e.pcr_index, e.digest)
<1> DEFINE m == Append(l, e)
           n == Len(l)
<1>1. /\ m \in Seq(BootEvents) /\ Len(m) = n + 1 /\ m[n + 1] = e /\ n \in Nat
      /\ \A k \in 1 .. n : m[k] = l[k]
  BY AppendProperties
<1>2. PICK g : /\ g[0] = [p \in PCRs |-> <<>>]
               /\ \A k \in 1 .. Len(l) : g[k] = OneMore(g[k - 1], l[k].pcr_index, l[k].digest)
               /\ \A k \in 0 .. Len(l) : g[k] \in PcrValues
               /\ ReplayedFrom(l) = g[Len(l)]
  BY ReplayRounds, Zenon
<1> HIDE DEF m
<1>3. PICK h : /\ h[0] = [p \in PCRs |-> <<>>]
               /\ \A k \in 1 .. Len(m) : h[k] = OneMore(h[k - 1], m[k].pcr_index, m[k].digest)
               /\ \A k \in 0 .. Len(m) : h[k] \in PcrValues
               /\ ReplayedFrom(m) = h[Len(m)]
  BY <1>1, ReplayRounds, Zenon
<1>4. g[0] = h[0] /\ \A k \in 1 .. n : g[k - 1] = h[k - 1] => g[k] = h[k]
  <2>1. ASSUME NEW k \in 1 .. n, g[k - 1] = h[k - 1]
        PROVE  g[k] = h[k]
    <3>1. k \in 1 .. Len(m) /\ m[k] = l[k]
      BY <1>1
    <3>2. h[k] = OneMore(h[k - 1], l[k].pcr_index, l[k].digest)
      BY <1>3, <3>1
    <3> QED
      BY <1>2, <2>1, <3>2
  <2> QED
    BY <1>2, <1>3, <2>1
<1>5. g[n] = h[n]
  <2>1. \A k \in 0 .. n : g[k] = h[k]
    BY <1>1, <1>4, LoopsAgree, Zenon
  <2> QED
    BY <1>1, <2>1
<1>6. h[n + 1] = OneMore(h[n], e.pcr_index, e.digest)
  <2>1. n + 1 \in 1 .. Len(m) /\ (n + 1) - 1 = n
    BY <1>1
  <2>2. h[n + 1] = OneMore(h[(n + 1) - 1], m[n + 1].pcr_index, m[n + 1].digest)
    BY <1>3, <2>1
  <2> QED
    BY <1>1, <2>1, <2>2
<1>7. ReplayedFrom(l) = g[n] /\ ReplayedFrom(m) = h[n + 1] /\ g[n] \in PcrValues
  BY <1>1, <1>2, <1>3
<1> QED
  BY <1>5, <1>6, <1>7 DEF m

\* A replay of a longer log: an extension extends its register, any other event leaves
\* the registers alone; nothing is replayed from an empty log.
LEMMA ReplayIs ==
  ASSUME NEW l \in Seq(BootEvents), NEW e \in BootEvents
  PROVE  /\ Replay(l) \in PcrValues
         /\ Replay(Append(l, e)) = IF e.type = "PCR_EXTEND" THEN OneMore(Replay(l), e.pcr_index, e.digest)
                                   ELSE Replay(l)
<1> DEFINE q(s) == event_log_query(s, "PCR_EXTEND")
<1>1. \A s : Replay(s) = ReplayedFrom(q(s))
  BY DEF Replay, ReplayedFrom
<1>2. /\ q(l) \in Seq(BootEvents)
      /\ q(Append(l, e)) = IF e.type = "PCR_EXTEND" THEN Append(q(l), e) ELSE q(l)
  BY QueryAppend, Zenon
<1> HIDE DEF q
<1>3. /\ ReplayedFrom(q(l)) \in PcrValues
      /\ ReplayedFrom(Append(q(l), e)) = OneMore(ReplayedFrom(q(l)), e.pcr_index, e.digest)
  BY <1>2, ReplayAppend, Zenon
<1> QED
  BY <1>1, <1>2, <1>3, Zenon

LEMMA ReplayNothing == Replay(<<>>) = [p \in PCRs |-> <<>>]
<1> DEFINE l == <<>>
<1>1. l \in Seq(BootEvents) /\ Len(l) = 0
  OBVIOUS
<1> HIDE DEF l
<1>2. event_log_query(l, "PCR_EXTEND") = l
  <2>1. PICK found : /\ found[0] = <<>>
                     /\ \A k \in 1 .. Len(l) :
                          found[k] = IF l[k].type = "PCR_EXTEND" THEN Append(found[k - 1], l[k])
                                     ELSE found[k - 1]
                     /\ \A k \in 0 .. Len(l) : found[k] \in Seq(BootEvents)
                     /\ event_log_query(l, "PCR_EXTEND") = found[Len(l)]
    BY <1>1, QueryRounds, Zenon
  <2>2. found[Len(l)] = found[0]
    BY <1>1
  <2> QED
    BY <2>1, <2>2 DEF l
<1>3. ReplayedFrom(l) = [p \in PCRs |-> <<>>]
  BY <1>1, ReplayRounds
<1>4. Replay(l) = ReplayedFrom(event_log_query(l, "PCR_EXTEND"))
  BY DEF Replay, ReplayedFrom
<1> QED
  BY <1>2, <1>3, <1>4 DEF l
--------------------------------------------------------------------------------
(* Measured boot: what the log says of the registers. *)

\* A prefix, element by element.
LEMMA PrefixIs ==
  ASSUME NEW S, NEW s \in Seq(S), NEW t \in Seq(S)
  PROVE  IsPrefix(s, t) <=> Len(s) <= Len(t) /\ \A i \in 1 .. Len(s) : s[i] = t[i]
<1>1. Len(s) \in Nat /\ Len(t) \in Nat
  OBVIOUS
<1>2. SubSeq(s, 1, Len(s)) = [i \in 1 .. Len(s) |-> s[i]]
  BY <1>1
<1>3. ASSUME Len(s) <= Len(t)
      PROVE  SubSeq(t, 1, Len(s)) = [i \in 1 .. Len(s) |-> t[i]]
  BY <1>1, <1>3
<1> QED
  BY <1>1, <1>2, <1>3 DEF IsPrefix

\* A sequence is a prefix of itself and of what extends it.
LEMMA PrefixLonger ==
  ASSUME NEW S, NEW s \in Seq(S), NEW t \in Seq(S), NEW x \in S
  PROVE  /\ IsPrefix(s, s)
         /\ IsPrefix(s, t) => IsPrefix(s, Append(t, x))
<1>1. /\ Append(t, x) \in Seq(S) /\ Len(Append(t, x)) = Len(t) + 1
      /\ \A i \in 1 .. Len(t) : Append(t, x)[i] = t[i]
      /\ Len(s) \in Nat /\ Len(t) \in Nat
  BY AppendProperties
<1>2. IsPrefix(s, s)
  BY <1>1, PrefixIs
<1>3. ASSUME IsPrefix(s, t) PROVE IsPrefix(s, Append(t, x))
  <2>1. Len(s) <= Len(t) /\ \A i \in 1 .. Len(s) : s[i] = t[i]
    BY <1>3, PrefixIs
  <2>2. Len(s) <= Len(Append(t, x)) /\ \A i \in 1 .. Len(s) : s[i] = Append(t, x)[i]
    BY <1>1, <2>1
  <2> QED
    BY <1>1, <2>2, PrefixIs
<1> QED
  BY <1>2, <1>3

TPMs == [pcrs : PcrValues, storage_root_key : Nat, initialized : BOOLEAN]

BootLogs == {l \in Seq(BootEvents) : Len(l) <= MAX_EVENTS}

\* Replaying log l gives the start of each register of t, all of it while l has room.
Explains(t, l) ==
  /\ \A p \in PCRs : IsPrefix(Replay(l)[p], t.pcrs[p])
  /\ Len(l) < MAX_EVENTS => Replay(l) = t.pcrs

\* From t to u each register is what it was or has become longer.
Grown(t, u) ==
  /\ u.storage_root_key = t.storage_root_key /\ u.initialized = t.initialized
  /\ \A p \in PCRs : u.pcrs[p] = t.pcrs[p] \/ Len(u.pcrs[p]) > Len(t.pcrs[p])

LEMMA ExtendIs ==
  ASSUME NEW t \in TPMs, NEW p \in PCRs, NEW digest \in Seq(Nat)
  PROVE  /\ tpm_extend(t, p, digest) \in TPMs
         /\ tpm_extend(t, p, digest).storage_root_key = t.storage_root_key
         /\ tpm_extend(t, p, digest).initialized = t.initialized
         /\ tpm_extend(t, p, digest).pcrs = IF t.initialized THEN OneMore(t.pcrs, p, digest) ELSE t.pcrs
         /\ Grown(t, tpm_extend(t, p, digest))
<1> DEFINE u == tpm_extend(t, p, digest)
           more == OneMore(t.pcrs, p, digest)
<1>1. t.pcrs \in PcrValues
  BY DEF TPMs
<1>2. more \in PcrValues /\ more[p] = Append(t.pcrs[p], digest) /\ \A q \in PCRs : q # p => more[q] = t.pcrs[q]
  BY <1>1, OneMoreIs
<1>3. u = IF t.initialized THEN [t EXCEPT !.pcrs = more] ELSE t
  BY DEF tpm_extend, OneMore
<1> HIDE DEF u, more
<1>4. /\ u \in TPMs /\ u.storage_root_key = t.storage_root_key /\ u.initialized = t.initialized
      /\ u.pcrs = IF t.initialized THEN more ELSE t.pcrs
  BY <1>2, <1>3 DEF TPMs
<1>5. Len(Append(t.pcrs[p], digest)) > Len(t.pcrs[p])
  <2>1. t.pcrs[p] \in Seq(Seq(Nat))
    BY <1>1 DEF PcrValues
  <2> QED
    BY <2>1, AppendProperties
<1>6. Grown(t, u)
  BY <1>2, <1>4, <1>5 DEF Grown
<1> QED
  BY <1>4, <1>6 DEF u, more

\* Growing twice is growing.
LEMMA GrownTwice ==
  ASSUME NEW t \in TPMs, NEW u \in TPMs, NEW v \in TPMs, Grown(t, u), Grown(u, v)
  PROVE  Grown(t, v)
<1>1. \A w \in TPMs : w.pcrs \in PcrValues
  BY DEF TPMs
<1>2. ASSUME NEW p \in PCRs
      PROVE  v.pcrs[p] = t.pcrs[p] \/ Len(v.pcrs[p]) > Len(t.pcrs[p])
  <2>1. Len(t.pcrs[p]) \in Nat /\ Len(u.pcrs[p]) \in Nat /\ Len(v.pcrs[p]) \in Nat
    BY <1>1 DEF PcrValues
  <2> QED
    BY <2>1 DEF Grown
<1> QED
  BY <1>2 DEF Grown

EventOf(type, p, digest, i) == [type |-> type, pcr_index |-> p, digest |-> digest, stage_id |-> i]

\* An event of any kind is recorded at the end, or dropped by a full log.
LEMMA RecordIs ==
  ASSUME NEW l \in BootLogs, NEW p \in PCRs, NEW digest \in Seq(Nat), NEW i \in Nat,
         NEW type \in EventTypes
  PROVE  /\ EventOf(type, p, digest, i) \in BootEvents /\ l \in Seq(BootEvents)
         /\ event_log_record(l, type, p, digest, i) \in BootLogs
         /\ Len(l) < MAX_EVENTS  =>
               /\ event_log_record(l, type, p, digest, i) = Append(l, EventOf(type, p, digest, i))
               /\ Len(event_log_record(l, type, p, digest, i)) = Len(l) + 1
         /\ Len(l) >= MAX_EVENTS => event_log_record(l, type, p, digest, i) = l
<1> DEFINE e == EventOf(type, p, digest, i)
           k == event_log_record(l, type, p, digest, i)
<1>1. e \in BootEvents
  BY DEF BootEvents, EventOf
<1>2. k = IF Len(l) >= MAX_EVENTS THEN l ELSE Append(l, e)
  BY DEF event_log_record, EventOf
<1> HIDE DEF e, k
<1>3. l \in Seq(BootEvents) /\ Len(l) \in Nat /\ Len(l) <= MAX_EVENTS /\ MAX_EVENTS \in Nat
  BY BootAssumption DEF BootLogs
<1>4. Append(l, e) \in Seq(BootEvents) /\ Len(Append(l, e)) = Len(l) + 1
  BY <1>1, <1>3, AppendProperties
<1>5. k \in BootLogs
  BY <1>2, <1>3, <1>4 DEF BootLogs
<1>6. /\ Len(l) < MAX_EVENTS  => k = Append(l, e) /\ Len(k) = Len(l) + 1
      /\ Len(l) >= MAX_EVENTS => k = l
  BY <1>2, <1>3, <1>4
<1> QED
  BY <1>1, <1>3, <1>5, <1>6 DEF e, k

\* Events other than extensions explain no more and no less.
LEMMA NoteExplains ==
  ASSUME NEW l \in BootLogs, NEW p \in PCRs, NEW digest \in Seq(Nat), NEW i \in Nat,
         NEW type \in EventTypes, type # "PCR_EXTEND",
         NEW t \in TPMs, Explains(t, l)
  PROVE  Explains(t, event_log_record(l, type, p, digest, i))
<1> DEFINE e == EventOf(type, p, digest, i)
           k == event_log_record(l, type, p, digest, i)
<1>1. /\ e \in BootEvents /\ l \in Seq(BootEvents)
      /\ Len(l) < MAX_EVENTS  => k = Append(l, e)
      /\ Len(l) >= MAX_EVENTS => k = l
  BY RecordIs
<1>2. e.type # "PCR_EXTEND"
  BY DEF EventOf
<1> HIDE DEF e, k
<1>3. Replay(Append(l, e)) = Replay(l)
  BY <1>1, <1>2, ReplayIs
<1>4. Len(l) \in Nat /\ MAX_EVENTS \in Nat
  BY BootAssumption DEF BootLogs
<1>5. CASE Len(l) < MAX_EVENTS
  <2>1. Replay(k) = Replay(l)
    BY <1>1, <1>3, <1>5
  <2> QED
    BY <1>5, <2>1 DEF Explains, k
<1>6. CASE Len(l) >= MAX_EVENTS
  BY <1>1, <1>6 DEF k
<1> QED
  BY <1>4, <1>5, <1>6

\* Measuring extends a register and logs it, so the log goes on to explain the registers.
LEMMA MeasureExplains ==
  ASSUME NEW l \in BootLogs, NEW p \in PCRs, NEW digest \in Seq(Nat),
         NEW t \in TPMs, t.initialized, Explains(t, l)
  PROVE  Explains(tpm_extend(t, p, digest), event_log_record(l, "PCR_EXTEND", p, digest, 0))
<1> DEFINE e == EventOf("PCR_EXTEND", p, digest, 0)
           k == event_log_record(l, "PCR_EXTEND", p, digest, 0)
           u == tpm_extend(t, p, digest)
           R == Replay(l)
<1>1. /\ e \in BootEvents /\ l \in Seq(BootEvents) /\ k \in BootLogs
      /\ Len(l) < MAX_EVENTS  => k = Append(l, e) /\ Len(k) = Len(l) + 1
      /\ Len(l) >= MAX_EVENTS => k = l
  <2>1. "PCR_EXTEND" \in EventTypes
    BY DEF EventTypes
  <2> QED
    BY <2>1, RecordIs
<1>2. e.type = "PCR_EXTEND" /\ e.pcr_index = p /\ e.digest = digest
  BY DEF EventOf
<1>3. u.pcrs = OneMore(t.pcrs, p, digest) /\ u \in TPMs
  BY ExtendIs
<1> HIDE DEF e, k, u
<1>4. R \in PcrValues /\ Replay(Append(l, e)) = OneMore(R, p, digest)
  BY <1>1, <1>2, ReplayIs
<1> HIDE DEF R
<1>5. t.pcrs \in PcrValues
  BY DEF TPMs
<1>6. /\ u.pcrs \in PcrValues
      /\ u.pcrs[p] = Append(t.pcrs[p], digest) /\ \A q \in PCRs : q # p => u.pcrs[q] = t.pcrs[q]
  BY <1>3, <1>5, OneMoreIs
<1>7. Len(l) \in Nat /\ MAX_EVENTS \in Nat
  BY BootAssumption DEF BootLogs
<1>8. CASE Len(l) < MAX_EVENTS
  <2>1. R = t.pcrs
    BY <1>8 DEF Explains, R
  <2>2. Replay(k) = u.pcrs
    BY <1>1, <1>3, <1>4, <1>8, <2>1
  <2>3. \A q \in PCRs : u.pcrs[q] \in Seq(Seq(Nat))
    BY <1>6 DEF PcrValues
  <2>4. \A q \in PCRs : IsPrefix(u.pcrs[q], u.pcrs[q])
    <3> TAKE q \in PCRs
    <3> DEFINE s == u.pcrs[q]
    <3>1. s \in Seq(Seq(Nat)) /\ <<>> \in Seq(Nat)
      BY <2>3
    <3> HIDE DEF s
    <3>2. IsPrefix(s, s)
      BY <3>1, PrefixLonger
    <3> QED
      BY <3>2 DEF s
  <2> QED
    BY <2>2, <2>4 DEF Explains, k, u
<1>9. CASE Len(l) >= MAX_EVENTS
  <2>1. k = l /\ ~(Len(k) < MAX_EVENTS)
    BY <1>1, <1>7, <1>9
  <2>2. ASSUME NEW q \in PCRs
        PROVE  IsPrefix(R[q], u.pcrs[q])
    <3> DEFINE s == R[q]
               w == t.pcrs[q]
    <3>1. s \in Seq(Seq(Nat)) /\ w \in Seq(Seq(Nat))
      BY <1>4, <1>5 DEF PcrValues
    <3>2. IsPrefix(s, w)
      BY DEF Explains, R
    <3> HIDE DEF s, w
    <3>3. IsPrefix(s, Append(w, digest))
      BY <3>1, <3>2, PrefixLonger
    <3>4. u.pcrs[q] = w \/ u.pcrs[q] = Append(w, digest)
      BY <1>6 DEF w
    <3> QED
      BY <3>2, <3>3, <3>4, Zenon DEF s
  <2> QED
    BY <2>1, <2>2 DEF Explains, k, u, R
<1> QED
  BY <1>7, <1>8, <1>9
--------------------------------------------------------------------------------
(* Measured boot: what a run of the chain leaves in the log. *)

\* Register p was logged after the first b events, or the log is full.
LoggedSince(b, l, p) ==
  Len(l) < MAX_EVENTS =>
     \E j \in b + 1 .. Len(l) : l[j].type = "PCR_EXTEND" /\ l[j].pcr_index = p

LaunchedSince(b, l, s) == \E j \in b + 1 .. Len(l) : l[j].type = "STAGE_LAUNCH" /\ l[j].stage_id = s

\* After the first b events launches are of stages below n, each after its measurement.
Trail(b, l, n) ==
  /\ b <= Len(l)
  /\ \A k \in b + 1 .. Len(l) : l[k].type = "STAGE_LAUNCH" =>
        /\ l[k].stage_id < n
        /\ \E j \in b + 1 .. k - 1 : l[j].type = "PCR_EXTEND" /\ l[j].pcr_index = l[k].pcr_index

\* The stages below n are launched, as long as the log has room.
AllLaunched(b, l, n) == Len(l) < MAX_EVENTS => \A s \in 0 .. n - 1 : LaunchedSince(b, l, s)

\* One event more on the trail.
LEMMA TrailAppend ==
  ASSUME NEW l \in Seq(BootEvents), NEW e \in BootEvents, NEW b \in Nat, NEW n \in Nat, Trail(b, l, n),
         e.type = "STAGE_LAUNCH" =>
            /\ e.stage_id < n
            /\ \E j \in b + 1 .. Len(l) : l[j].type = "PCR_EXTEND" /\ l[j].pcr_index = e.pcr_index
  PROVE  Trail(b, Append(l, e), n)
<1> DEFINE m == Append(l, e)
<1>1. /\ Len(m) = Len(l) + 1 /\ Len(l) \in Nat /\ m[Len(l) + 1] = e
      /\ \A k \in 1 .. Len(l) : m[k] = l[k]
  BY AppendProperties
<1> DEFINE x == Len(l)
<1>2. x \in Nat /\ Len(m) = x + 1 /\ m[x + 1] = e /\ \A k \in 1 .. x : m[k] = l[k]
  BY <1>1
<1>3. b <= x
  BY DEF Trail
<1> HIDE DEF m, x
<1>4. ASSUME NEW k \in b + 1 .. x + 1, m[k].type = "STAGE_LAUNCH"
      PROVE  /\ m[k].stage_id < n
             /\ \E j \in b + 1 .. k - 1 : m[j].type = "PCR_EXTEND" /\ m[j].pcr_index = m[k].pcr_index
  <2>1. CASE k = x + 1
    <3>1. m[k] = e
      BY <1>2, <2>1
    <3>2. e.type = "STAGE_LAUNCH"
      BY <1>4, <3>1, Zenon
    <3>3. PICK j \in b + 1 .. x : l[j].type = "PCR_EXTEND" /\ l[j].pcr_index = e.pcr_index
      BY <3>2 DEF x
    <3>4. j \in b + 1 .. k - 1 /\ m[j] = l[j]
      BY <1>2, <2>1, <3>3
    <3> QED
      BY <3>1, <3>2, <3>3, <3>4
  <2>2. CASE k # x + 1
    <3>1. k \in b + 1 .. x /\ m[k] = l[k]
      BY <1>2, <2>2
    <3>2. l[k].type = "STAGE_LAUNCH"
      BY <1>4, <3>1, Zenon
    <3>3. l[k].stage_id < n /\ \E j \in b + 1 .. k - 1 : l[j].type = "PCR_EXTEND" /\ l[j].pcr_index = l[k].pcr_index
      BY <3>1, <3>2 DEF Trail, x
    <3>4. PICK j \in b + 1 .. k - 1 : l[j].type = "PCR_EXTEND" /\ l[j].pcr_index = l[k].pcr_index
      BY <3>3
    <3>5. m[j] = l[j]
      BY <1>2, <3>1, <3>4
    <3> QED
      BY <3>1, <3>3, <3>4, <3>5
  <2> QED
    BY <2>1, <2>2
<1> QED
  BY <1>2, <1>3, <1>4 DEF Trail, m

\* What an event does to the trail, whether there is room for it or not.
LEMMA RecordTrail ==
  ASSUME NEW l \in BootLogs, NEW p \in PCRs, NEW digest \in Seq(Nat), NEW i \in Nat,
         NEW type \in EventTypes, NEW b \in Nat, NEW n \in Nat, Trail(b, l, n),
         type = "STAGE_LAUNCH" => LoggedSince(b, l, p) /\ i < n
  PROVE  /\ Trail(b, event_log_record(l, type, p, digest, i), n)
         /\ \A q \in PCRs : LoggedSince(b, l, q) => LoggedSince(b, event_log_record(l, type, p, digest, i), q)
         /\ type = "PCR_EXTEND" => LoggedSince(b, event_log_record(l, type, p, digest, i), p)
         /\ AllLaunched(b, l, n) => AllLaunched(b, event_log_record(l, type, p, digest, i), n)
         /\ type = "STAGE_LAUNCH" => (Len(event_log_record(l, type, p, digest, i)) < MAX_EVENTS =>
                                        LaunchedSince(b, event_log_record(l, type, p, digest, i), i))
<1> DEFINE e == EventOf(type, p, digest, i)
           k == event_log_record(l, type, p, digest, i)
           x == Len(l)
<1>1. /\ e \in BootEvents /\ l \in Seq(BootEvents) /\ k \in BootLogs
      /\ Len(l) < MAX_EVENTS  => k = Append(l, e) /\ Len(k) = Len(l) + 1
      /\ Len(l) >= MAX_EVENTS => k = l
  BY RecordIs
<1>2. e.type = type /\ e.pcr_index = p /\ e.stage_id = i
  BY DEF EventOf
<1> HIDE DEF e, k
<1>3. x \in Nat /\ MAX_EVENTS \in Nat /\ b <= x
  BY BootAssumption DEF BootLogs, Trail
<1>4. CASE x >= MAX_EVENTS
  <2>1. k = l
    BY <1>1, <1>4
  <2>2. Trail(b, k, n)
    BY <2>1, Zenon
  <2>3. ~(Len(k) < MAX_EVENTS)
    BY <1>3, <1>4, <2>1
  <2> QED
    BY <2>2, <2>3 DEF LoggedSince, AllLaunched, k
<1>5. CASE x < MAX_EVENTS
  <2>1. k = Append(l, e) /\ Len(k) = x + 1 /\ k[x + 1] = e /\ \A j \in 1 .. x : k[j] = l[j]
    <3>1. k = Append(l, e)
      BY <1>1, <1>5
    <3> DEFINE m == Append(l, e)
    <3>2. Len(m) = Len(l) + 1 /\ m[Len(l) + 1] = e /\ \A j \in 1 .. Len(l) : m[j] = l[j]
      BY <1>1, AppendProperties
    <3> HIDE DEF m
    <3>3. k = m
      BY <3>1 DEF m
    <3> QED
      BY <3>1, <3>2, <3>3
  <2>2. Trail(b, k, n)
    <3>1. type = "STAGE_LAUNCH" => \E j \in b + 1 .. x : l[j].type = "PCR_EXTEND" /\ l[j].pcr_index = p
      BY <1>5 DEF LoggedSince
    <3> HIDE DEF x
    <3>2. e.type = "STAGE_LAUNCH" =>
            /\ e.stage_id < n
            /\ \E j \in b + 1 .. Len(l) : l[j].type = "PCR_EXTEND" /\ l[j].pcr_index = e.pcr_index
      BY <1>2, <3>1 DEF x
    <3>3. Trail(b, Append(l, e), n)
      BY <1>1, <3>2, TrailAppend
    <3> QED
      BY <2>1, <3>3, Zenon
  <2> HIDE DEF x
  <2>3. \A j \in b + 1 .. x : j \in b + 1 .. x + 1 /\ k[j] = l[j]
    BY <1>3, <2>1
  <2>4. ASSUME NEW q \in PCRs, LoggedSince(b, l, q)
        PROVE  LoggedSince(b, k, q)
    <3>1. PICK j \in b + 1 .. x : l[j].type = "PCR_EXTEND" /\ l[j].pcr_index = q
      BY <1>5, <2>4 DEF LoggedSince, x
    <3>2. j \in b + 1 .. x + 1 /\ k[j].type = "PCR_EXTEND" /\ k[j].pcr_index = q
      BY <2>3, <3>1
    <3> QED
      BY <2>1, <3>2 DEF LoggedSince
  <2>5. x + 1 \in b + 1 .. x + 1
    BY <1>3
  <2>6. type = "PCR_EXTEND" => LoggedSince(b, k, p)
    BY <1>2, <2>1, <2>5 DEF LoggedSince
  <2>7. ASSUME AllLaunched(b, l, n)
        PROVE  AllLaunched(b, k, n)
    <3>1. ASSUME NEW s \in 0 .. n - 1
          PROVE  LaunchedSince(b, k, s)
      <4>1. LaunchedSince(b, l, s)
        BY <1>5, <2>7 DEF AllLaunched, x
      <4>2. PICK j \in b + 1 .. x : l[j].type = "STAGE_LAUNCH" /\ l[j].stage_id = s
        BY <4>1 DEF LaunchedSince, x
      <4>3. j \in b + 1 .. x + 1 /\ k[j].type = "STAGE_LAUNCH" /\ k[j].stage_id = s
        BY <2>3, <4>2
      <4> QED
        BY <2>1, <4>3 DEF LaunchedSince
    <3> QED
      BY <3>1 DEF AllLaunched
  <2>8. type = "STAGE_LAUNCH" => LaunchedSince(b, k, i)
    BY <1>2, <2>1, <2>5 DEF LaunchedSince
  <2> QED
    BY <2>2, <2>4, <2>6, <2>7, <2>8 DEF k
<1> QED
  BY <1>3, <1>4, <1>5
--------------------------------------------------------------------------------
(* Measured boot: one stage, and the chain. *)

BootImages == [Stages -> BootImage]

Machines ==
  [tpm : TPMs, log : BootLogs, images : BootImages, running : BOOLEAN, failed_stage : Nat]

MachineOf(t, l, images, running, failed) ==
  [tpm |-> t, log |-> l, images |-> images, running |-> running, failed_stage |-> failed]

\* An image is refused as too old under every policy, and unverified under ENFORCE.
TooOld(image, i) == config.min_version[i] > 0 /\ image.version < config.min_version[i]

Refused(image, i, policy) == TooOld(image, i) \/ (~Verified(image) /\ policy = "ENFORCE")

Signed(images, i) == [images EXCEPT ![i].signature_valid = TRUE]

\* The machine a stage leaves, case by case.
LEMMA StageCases ==
  ASSUME NEW m \in Machines, NEW i \in Stages, NEW policy
  PROVE  LET h       == m.images[i].hash
             R(type, l) == event_log_record(l, type, i, h, i)
             t       == tpm_extend(m.tpm, i, sha256(h))
             l1      == event_log_record(m.log, "PCR_EXTEND", i, sha256(h), 0)
             image   == m.images[i]
         IN  RunStage(m, i, policy) =
               IF TooOld(image, i) THEN MachineOf(t, R("SECURITY_ALERT", l1), m.images, FALSE, i)
               ELSE IF Verified(image)
               THEN MachineOf(t, R("STAGE_LAUNCH", R("STAGE_VERIFY", l1)), Signed(m.images, i),
                              m.running, m.failed_stage)
               ELSE IF policy = "ENFORCE" THEN MachineOf(t, R("STAGE_VERIFY", l1), m.images, FALSE, i)
               ELSE MachineOf(t, R("STAGE_LAUNCH", R("STAGE_VERIFY", R("STAGE_VERIFY", l1))), m.images,
                              m.running, m.failed_stage)
<1> DEFINE h       == m.images[i].hash
           R(type, l) == event_log_record(l, type, i, h, i)
           t       == tpm_extend(m.tpm, i, sha256(h))
           l1      == event_log_record(m.log, "PCR_EXTEND", i, sha256(h), 0)
           image   == m.images[i]
           done    == Measure(m, i, h)
           signed  == [done EXCEPT !.images[i].signature_valid = TRUE]
<1>1. m = MachineOf(m.tpm, m.log, m.images, m.running, m.failed_stage)
  BY DEF Machines, MachineOf
<1>2. m.images \in BootImages
  BY DEF Machines
<1>3. done = MachineOf(t, l1, m.images, m.running, m.failed_stage)
  <2>1. done = [m EXCEPT !.tpm = t, !.log = l1]
    BY DEF Measure
  <2> HIDE DEF done, t, l1
  <2> QED
    BY <2>1 DEF MachineOf, Machines
<1>4. signed = MachineOf(t, l1, Signed(m.images, i), m.running, m.failed_stage)
  <2> HIDE DEF t, l1
  <2>1. done \in [tpm : {t}, log : {l1}, images : {m.images}, running : {m.running}, failed_stage : {m.failed_stage}]
    BY <1>3 DEF MachineOf
  <2> HIDE DEF done
  <2>2. signed = [done EXCEPT !.images = Signed(m.images, i)]
    BY <2>1 DEF Signed
  <2> QED
    BY <1>3, <2>2 DEF MachineOf
<1>5. Signed(m.images, i)[i].hash = h
  BY <1>2 DEF Signed, BootImages, BootImage
<1> HIDE DEF done, signed, t, l1
<1>6. ASSUME NEW l, NEW images, images[i].hash = h, NEW running, NEW failed, NEW type
      PROVE  Noted(MachineOf(t, l, images, running, failed), i, type)
               = MachineOf(t, R(type, l), images, running, failed)
  <2> DEFINE n == MachineOf(t, l, images, running, failed)
             k == event_log_record(l, type, i, h, i)
  <2>1. n.log = l /\ n.images = images
    BY DEF MachineOf
  <2>2. Noted(n, i, type) = [n EXCEPT !.log = k]
    BY <1>6, <2>1 DEF Noted
  <2> HIDE DEF k
  <2> QED
    BY <2>2 DEF MachineOf, k
<1>7. ASSUME NEW l, NEW type
      PROVE  Failed(MachineOf(t, l, m.images, m.running, m.failed_stage), i, type)
               = MachineOf(t, R(type, l), m.images, FALSE, i)
  <2> DEFINE k == R(type, l)
  <2>1. Noted(MachineOf(t, l, m.images, m.running, m.failed_stage), i, type)
          = MachineOf(t, k, m.images, m.running, m.failed_stage)
    BY <1>6
  <2> HIDE DEF k
  <2>2. Failed(MachineOf(t, l, m.images, m.running, m.failed_stage), i, type)
          = [MachineOf(t, k, m.images, m.running, m.failed_stage) EXCEPT !.running = FALSE, !.failed_stage = i]
    BY <2>1 DEF Failed
  <2> QED
    BY <2>2 DEF MachineOf, k
<1>8. ASSUME NEW l, NEW images, images[i].hash = h
      PROVE  Launched(MachineOf(t, l, images, m.running, m.failed_stage), i)
               = MachineOf(t, R("STAGE_LAUNCH", R("STAGE_VERIFY", l)), images, m.running, m.failed_stage)
  <2> DEFINE k == R("STAGE_VERIFY", l)
  <2>1. Noted(MachineOf(t, l, images, m.running, m.failed_stage), i, "STAGE_VERIFY")
          = MachineOf(t, k, images, m.running, m.failed_stage)
    BY <1>6, <1>8
  <2> HIDE DEF k
  <2>2. Noted(MachineOf(t, k, images, m.running, m.failed_stage), i, "STAGE_LAUNCH")
          = MachineOf(t, R("STAGE_LAUNCH", k), images, m.running, m.failed_stage)
    BY <1>6, <1>8
  <2> QED
    BY <2>1, <2>2, Zenon DEF Launched, k
<1>9. RunStage(m, i, policy) =
        IF TooOld(image, i) THEN Failed(done, i, "SECURITY_ALERT")
        ELSE IF Verified(image) THEN Launched(signed, i)
        ELSE IF policy = "ENFORCE" THEN Failed(done, i, "STAGE_VERIFY")
        ELSE Launched(Noted(done, i, "STAGE_VERIFY"), i)
  BY Zenon DEF RunStage, TooOld, rollback_detect, done, signed, h, image
<1>10. Failed(done, i, "SECURITY_ALERT") = MachineOf(t, R("SECURITY_ALERT", l1), m.images, FALSE, i)
  BY <1>3, <1>7
<1>11. Failed(done, i, "STAGE_VERIFY") = MachineOf(t, R("STAGE_VERIFY", l1), m.images, FALSE, i)
  BY <1>3, <1>7
<1>12. Launched(signed, i) = MachineOf(t, R("STAGE_LAUNCH", R("STAGE_VERIFY", l1)), Signed(m.images, i),
                                       m.running, m.failed_stage)
  BY <1>4, <1>5, <1>8
<1>13. Launched(Noted(done, i, "STAGE_VERIFY"), i)
         = MachineOf(t, R("STAGE_LAUNCH", R("STAGE_VERIFY", R("STAGE_VERIFY", l1))), m.images,
                     m.running, m.failed_stage)
  <2> DEFINE k == R("STAGE_VERIFY", l1)
  <2>1. Noted(done, i, "STAGE_VERIFY") = MachineOf(t, k, m.images, m.running, m.failed_stage)
    BY <1>3, <1>6
  <2> HIDE DEF k
  <2>2. Launched(MachineOf(t, k, m.images, m.running, m.failed_stage), i)
          = MachineOf(t, R("STAGE_LAUNCH", R("STAGE_VERIFY", k)), m.images, m.running, m.failed_stage)
    BY <1>8
  <2> QED
    BY <2>1, <2>2, Zenon DEF k
<1> HIDE DEF R
<1> QED
  BY <1>9, <1>10, <1>11, <1>12, <1>13, Zenon DEF t, l1, R

\* What a stage leaves: the register extended, refused or launched, and the log with the
\* measurement before the launch.
LEMMA StageRuns ==
  ASSUME NEW m \in Machines, m.running, NEW i \in Stages, NEW policy, NEW b \in Nat,
         config.min_version \in [Stages -> Nat],
         Trail(b, m.log, i), AllLaunched(b, m.log, i)
  PROVE  /\ RunStage(m, i, policy) \in Machines
         /\ RunStage(m, i, policy).tpm = tpm_extend(m.tpm, i, sha256(m.images[i].hash))
         /\ RunStage(m, i, policy).running <=> ~Refused(m.images[i], i, policy)
         /\ Refused(m.images[i], i, policy) => RunStage(m, i, policy).failed_stage = i
         /\ \A j \in Stages \ {i} : RunStage(m, i, policy).images[j] = m.images[j]
         /\ m.tpm.initialized /\ Explains(m.tpm, m.log) =>
               Explains(RunStage(m, i, policy).tpm, RunStage(m, i, policy).log)
         /\ RunStage(m, i, policy).running =>
               /\ Trail(b, RunStage(m, i, policy).log, i + 1)
               /\ AllLaunched(b, RunStage(m, i, policy).log, i + 1)
         /\ ~RunStage(m, i, policy).running => Trail(b, RunStage(m, i, policy).log, i)
<1> DEFINE image == m.images[i]
           h     == image.hash
           R(type, l) == event_log_record(l, type, i, h, i)
           t     == tpm_extend(m.tpm, i, sha256(h))
           l1    == event_log_record(m.log, "PCR_EXTEND", i, sha256(h), 0)
           k     == RunStage(m, i, policy)
           old   == TooOld(image, i)
           ok    == Verified(image)
           E(l)  == m.tpm.initialized /\ Explains(m.tpm, m.log) => Explains(t, l)
           Good(l, n) == l \in BootLogs /\ Trail(b, l, n) /\ LoggedSince(b, l, i) /\ E(l)
<1>1. /\ m.tpm \in TPMs /\ m.log \in BootLogs /\ m.images \in BootImages
      /\ m.running \in BOOLEAN /\ m.failed_stage \in Nat
  BY DEF Machines
<1>2. image \in BootImage /\ h \in Seq(Nat) /\ sha256(h) \in Seq(Nat)
  <2>1. image \in BootImage /\ h \in Seq(Nat)
    BY <1>1 DEF BootImages, BootImage
  <2>2. <<0>> \in Seq(Nat)
    OBVIOUS
  <2> QED
    BY <2>1, <2>2, ConcatProperties DEF sha256
<1>3. i \in PCRs /\ i \in Nat /\ i + 1 \in Nat /\ 0 \in Nat
  BY BootAssumption DEF Stages
<1>4. /\ "PCR_EXTEND" \in EventTypes /\ "STAGE_VERIFY" \in EventTypes
      /\ "STAGE_LAUNCH" \in EventTypes /\ "SECURITY_ALERT" \in EventTypes
  BY DEF EventTypes
<1>5. t \in TPMs
  BY <1>1, <1>2, <1>3, ExtendIs
<1>6. k = IF old THEN MachineOf(t, R("SECURITY_ALERT", l1), m.images, FALSE, i)
          ELSE IF ok
          THEN MachineOf(t, R("STAGE_LAUNCH", R("STAGE_VERIFY", l1)), Signed(m.images, i),
                         m.running, m.failed_stage)
          ELSE IF policy = "ENFORCE" THEN MachineOf(t, R("STAGE_VERIFY", l1), m.images, FALSE, i)
          ELSE MachineOf(t, R("STAGE_LAUNCH", R("STAGE_VERIFY", R("STAGE_VERIFY", l1))), m.images,
                         m.running, m.failed_stage)
  BY StageCases, Zenon
<1> HIDE DEF image, h, t, k, old, ok
<1>7. Good(l1, i) /\ AllLaunched(b, l1, i)
  <2> DEFINE d == sha256(h)
  <2> HIDE DEF d
  <2>1. d \in Seq(Nat)
    BY <1>2 DEF d
  <2>2. /\ event_log_record(m.log, "PCR_EXTEND", i, d, 0) \in BootLogs
    BY <1>1, <1>3, <1>4, <2>1, RecordIs
  <2>3. /\ Trail(b, event_log_record(m.log, "PCR_EXTEND", i, d, 0), i)
        /\ LoggedSince(b, event_log_record(m.log, "PCR_EXTEND", i, d, 0), i)
        /\ AllLaunched(b, event_log_record(m.log, "PCR_EXTEND", i, d, 0), i)
    BY <1>1, <1>3, <1>4, <2>1, RecordTrail
  <2>4. E(l1)
    BY <1>1, <1>2, <1>3, MeasureExplains DEF t
  <2> QED
    BY <2>2, <2>3, <2>4 DEF d
<1> HIDE DEF l1
<1>8. ASSUME NEW l \in BootLogs, Good(l, i), NEW type \in EventTypes,
             type \in {"STAGE_VERIFY", "SECURITY_ALERT"}
      PROVE  Good(R(type, l), i) /\ (AllLaunched(b, l, i) => AllLaunched(b, R(type, l), i))
  <2>1. type # "PCR_EXTEND" /\ type # "STAGE_LAUNCH"
    BY <1>8
  <2>2. R(type, l) \in BootLogs
    BY <1>2, <1>3, <1>8, RecordIs
  <2>3. /\ Trail(b, R(type, l), i)
        /\ LoggedSince(b, R(type, l), i)
        /\ (AllLaunched(b, l, i) => AllLaunched(b, R(type, l), i))
    BY <1>2, <1>3, <1>8, <2>1, RecordTrail
  <2>4. E(R(type, l))
    BY <1>2, <1>3, <1>5, <1>8, <2>1, NoteExplains
  <2> QED
    BY <2>2, <2>3, <2>4
<1>9. ASSUME NEW l \in BootLogs, Good(l, i), AllLaunched(b, l, i)
      PROVE  Good(R("STAGE_LAUNCH", l), i + 1) /\ AllLaunched(b, R("STAGE_LAUNCH", l), i + 1)
  <2> DEFINE z == R("STAGE_LAUNCH", l)
             n == i + 1
  <2>1. Trail(b, l, n)
    <3>1. \A e \in BootEvents : e.stage_id \in Nat
      BY DEF BootEvents
    <3>2. l \in Seq(BootEvents) /\ b <= Len(l)
      BY <1>9 DEF BootLogs, Trail
    <3>3. ASSUME NEW j \in b + 1 .. Len(l), l[j].type = "STAGE_LAUNCH"
          PROVE  l[j].stage_id < n
      <4>1. l[j] \in BootEvents
        BY <3>2, <3>3
      <4>2. l[j].stage_id < i
        BY <1>9, <3>3 DEF Trail
      <4> QED
        BY <1>3, <3>1, <4>1, <4>2
    <3> QED
      BY <1>9, <3>2, <3>3 DEF Trail
  <2>2. n \in Nat /\ i < n /\ \A s \in 0 .. n - 1 : s \in 0 .. i - 1 \/ s = i
    BY <1>3
  <2> HIDE DEF n
  <2>3. z \in BootLogs
    BY <1>2, <1>3, <1>4, <1>9, RecordIs
  <2>4. /\ Trail(b, z, n)
        /\ LoggedSince(b, z, i)
        /\ Len(z) < MAX_EVENTS => LaunchedSince(b, z, i)
    BY <1>2, <1>3, <1>4, <1>9, <2>1, <2>2, RecordTrail
  <2>5. Trail(b, l, i) /\ AllLaunched(b, l, i)
    BY <1>9
  <2>6. Len(z) < MAX_EVENTS => \A s \in 0 .. i - 1 : LaunchedSince(b, z, s)
    <3>1. ASSUME Len(z) < MAX_EVENTS, NEW s \in 0 .. i - 1
          PROVE  LaunchedSince(b, z, s)
      <4>1. /\ Len(l) < MAX_EVENTS  => z = Append(l, EventOf("STAGE_LAUNCH", i, h, i))
            /\ Len(l) >= MAX_EVENTS => z = l
        BY <1>2, <1>3, <1>4, <1>9, RecordIs
      <4>2. Len(l) \in Nat /\ MAX_EVENTS \in Nat /\ l \in Seq(BootEvents)
        BY <1>9, BootAssumption DEF BootLogs
      <4>3. Len(l) < MAX_EVENTS
        BY <3>1, <4>1, <4>2
      <4>4. PICK j \in b + 1 .. Len(l) : l[j].type = "STAGE_LAUNCH" /\ l[j].stage_id = s
        BY <1>9, <4>3 DEF AllLaunched, LaunchedSince
      <4>5. EventOf("STAGE_LAUNCH", i, h, i) \in BootEvents
        BY <1>2, <1>3, <1>4, <1>9, RecordIs
      <4>6. z[j] = l[j] /\ j \in b + 1 .. Len(z)
        <5> DEFINE e == EventOf("STAGE_LAUNCH", i, h, i)
        <5>1. e \in BootEvents
          BY <4>5
        <5> HIDE DEF e
        <5>2. Len(Append(l, e)) = Len(l) + 1 /\ \A x \in 1 .. Len(l) : Append(l, e)[x] = l[x]
          BY <4>2, <5>1, AppendProperties
        <5>3. j \in 1 .. Len(l) /\ j \in b + 1 .. Len(l) + 1
          BY <4>2
        <5>4. z = Append(l, e)
          BY <4>1, <4>3 DEF e
        <5> HIDE DEF z
        <5> QED
          BY <5>2, <5>3, <5>4
      <4> QED
        BY <4>4, <4>6 DEF LaunchedSince
    <3> QED
      BY <3>1
  <2>7. AllLaunched(b, z, n)
    BY <2>2, <2>4, <2>6 DEF AllLaunched
  <2>8. E(z)
    BY <1>2, <1>3, <1>4, <1>5, <1>9, NoteExplains
  <2> QED
    BY <2>3, <2>4, <2>7, <2>8 DEF n
<1> DEFINE v == R("STAGE_VERIFY", l1)
           a == R("SECURITY_ALERT", l1)
           w == R("STAGE_VERIFY", v)
<1>10. l1 \in BootLogs
  BY <1>7
<1>11. Good(a, i) /\ Good(v, i) /\ AllLaunched(b, v, i)
  BY <1>4, <1>7, <1>8, <1>10
<1>12. Good(w, i) /\ AllLaunched(b, w, i)
  <2> HIDE DEF v
  <2>1. v \in BootLogs
    BY <1>11
  <2> QED
    BY <1>4, <1>8, <1>11, <2>1
<1> DEFINE x == R("STAGE_LAUNCH", v)
           y == R("STAGE_LAUNCH", w)
<1>13. Good(x, i + 1) /\ AllLaunched(b, x, i + 1)
  <2> HIDE DEF v
  <2>1. v \in BootLogs
    BY <1>11
  <2> QED
    BY <1>9, <1>11, <2>1
<1>14. Good(y, i + 1) /\ AllLaunched(b, y, i + 1)
  <2> HIDE DEF w
  <2>1. w \in BootLogs
    BY <1>12
  <2> QED
    BY <1>9, <1>12, <2>1
<1>15. k = IF old THEN MachineOf(t, a, m.images, FALSE, i)
           ELSE IF ok THEN MachineOf(t, x, Signed(m.images, i), m.running, m.failed_stage)
           ELSE IF policy = "ENFORCE" THEN MachineOf(t, v, m.images, FALSE, i)
           ELSE MachineOf(t, y, m.images, m.running, m.failed_stage)
  BY <1>6
<1>16. Signed(m.images, i) \in BootImages /\ \A j \in Stages \ {i} : Signed(m.images, i)[j] = m.images[j]
  <2>1. [m.images[i] EXCEPT !.signature_valid = TRUE] \in BootImage
    BY <1>2 DEF BootImage, image
  <2> QED
    BY <1>1, <2>1 DEF Signed, BootImages
<1>17. Refused(image, i, policy) <=> old \/ (~ok /\ policy = "ENFORCE")
  BY DEF Refused, old, ok
<1> HIDE DEF v, a, w, x, y
<1> DEFINE images == Signed(m.images, i)
<1> HIDE DEF images
<1>18. CASE old
  <2>1. k = MachineOf(t, a, m.images, FALSE, i)
    BY <1>15, <1>18
  <2>2. /\ k.tpm = t /\ k.log = a /\ k.images = m.images /\ k.running = FALSE
        /\ k.failed_stage = i
    BY <2>1 DEF MachineOf
  <2>3. k \in Machines
    BY <1>1, <1>3, <1>5, <1>11, <2>1 DEF MachineOf, Machines
  <2>4. Refused(image, i, policy)
    BY <1>17, <1>18
  <2>5. Trail(b, k.log, i) /\ E(k.log)
    BY <1>11, <2>2
  <2> QED
    BY <2>2, <2>3, <2>4, <2>5, Zenon DEF k, image, h, t
<1>19. CASE ~old /\ ok
  <2>1. k = MachineOf(t, x, images, m.running, m.failed_stage)
    BY <1>15, <1>19 DEF images
  <2>2. images \in BootImages /\ \A j \in Stages \ {i} : images[j] = m.images[j]
    BY <1>16 DEF images
  <2>3. /\ k.tpm = t /\ k.log = x /\ k.images = images /\ k.running = m.running
        /\ k.failed_stage = m.failed_stage
    BY <2>1 DEF MachineOf
  <2>4. k \in Machines
    BY <1>1, <1>5, <1>13, <2>1, <2>2 DEF MachineOf, Machines
  <2>5. ~Refused(image, i, policy)
    BY <1>17, <1>19
  <2>6. Trail(b, x, i + 1) /\ AllLaunched(b, x, i + 1) /\ E(x)
    BY <1>13
  <2>7. k.running /\ \A j \in Stages \ {i} : k.images[j] = m.images[j]
    BY <2>2, <2>3
  <2>8. Trail(b, k.log, i + 1) /\ AllLaunched(b, k.log, i + 1) /\ E(k.log)
    BY <2>3, <2>6
  <2> QED
    BY <2>3, <2>4, <2>5, <2>7, <2>8, Zenon DEF k, image, h, t
<1>20. CASE ~old /\ ~ok /\ policy = "ENFORCE"
  <2>1. k = MachineOf(t, v, m.images, FALSE, i)
    BY <1>15, <1>20
  <2>2. /\ k.tpm = t /\ k.log = v /\ k.images = m.images /\ k.running = FALSE
        /\ k.failed_stage = i
    BY <2>1 DEF MachineOf
  <2>3. k \in Machines
    BY <1>1, <1>3, <1>5, <1>11, <2>1 DEF MachineOf, Machines
  <2>4. Refused(image, i, policy)
    BY <1>17, <1>20
  <2>5. Trail(b, k.log, i) /\ E(k.log)
    BY <1>11, <2>2
  <2> QED
    BY <2>2, <2>3, <2>4, <2>5, Zenon DEF k, image, h, t
<1>21. CASE ~old /\ ~ok /\ policy # "ENFORCE"
  <2>1. k = MachineOf(t, y, m.images, m.running, m.failed_stage)
    BY <1>15, <1>21
  <2> QED
    BY <1>1, <1>3, <1>5, <1>14, <1>17, <1>21, <2>1 DEF MachineOf, Machines, k, image, h, t
<1> QED
  BY <1>18, <1>19, <1>20, <1>21

\* A stage leaves a machine.
LEMMA StageType ==
  ASSUME NEW m \in Machines, NEW i \in Stages, NEW policy
  PROVE  RunStage(m, i, policy) \in Machines
<1> DEFINE image == m.images[i]
           h     == image.hash
           R(type, l) == event_log_record(l, type, i, h, i)
           t     == tpm_extend(m.tpm, i, sha256(h))
           l1    == event_log_record(m.log, "PCR_EXTEND", i, sha256(h), 0)
           k     == RunStage(m, i, policy)
           old   == TooOld(image, i)
           ok    == Verified(image)
<1>1. /\ m.tpm \in TPMs /\ m.log \in BootLogs /\ m.images \in BootImages
      /\ m.running \in BOOLEAN /\ m.failed_stage \in Nat
  BY DEF Machines
<1>2. image \in BootImage /\ h \in Seq(Nat) /\ sha256(h) \in Seq(Nat)
  <2>1. image \in BootImage /\ h \in Seq(Nat)
    BY <1>1 DEF BootImages, BootImage
  <2>2. <<0>> \in Seq(Nat)
    OBVIOUS
  <2> QED
    BY <2>1, <2>2, ConcatProperties DEF sha256
<1>3. i \in PCRs /\ i \in Nat /\ 0 \in Nat
  BY BootAssumption DEF Stages
<1>4. /\ "PCR_EXTEND" \in EventTypes /\ "STAGE_VERIFY" \in EventTypes
      /\ "STAGE_LAUNCH" \in EventTypes /\ "SECURITY_ALERT" \in EventTypes
  BY DEF EventTypes
<1>5. t \in TPMs
  BY <1>1, <1>2, <1>3, ExtendIs
<1>6. k = IF old THEN MachineOf(t, R("SECURITY_ALERT", l1), m.images, FALSE, i)
          ELSE IF ok
          THEN MachineOf(t, R("STAGE_LAUNCH", R("STAGE_VERIFY", l1)), Signed(m.images, i),
                         m.running, m.failed_stage)
          ELSE IF policy = "ENFORCE" THEN MachineOf(t, R("STAGE_VERIFY", l1), m.images, FALSE, i)
          ELSE MachineOf(t, R("STAGE_LAUNCH", R("STAGE_VERIFY", R("STAGE_VERIFY", l1))), m.images,
                         m.running, m.failed_stage)
  BY StageCases, Zenon
<1>7. Signed(m.images, i) \in BootImages
  <2>1. [m.images[i] EXCEPT !.signature_valid = TRUE] \in BootImage
    BY <1>2 DEF BootImage, image
  <2> QED
    BY <1>1, <2>1 DEF Signed, BootImages
<1> HIDE DEF image, h, t, k, old, ok
<1>8. l1 \in BootLogs
  BY <1>1, <1>2, <1>3, <1>4, RecordIs
<1> HIDE DEF l1
<1>9. \A l \in BootLogs, type \in EventTypes : R(type, l) \in BootLogs
  BY <1>2, <1>3, RecordIs
<1> HIDE DEF R
<1>10. \A l \in BootLogs, images \in BootImages :
          /\ MachineOf(t, l, images, FALSE, i) \in Machines
          /\ MachineOf(t, l, images, m.running, m.failed_stage) \in Machines
  BY <1>1, <1>3, <1>5 DEF MachineOf, Machines
<1>11. k \in Machines
  BY <1>1, <1>4, <1>6, <1>7, <1>8, <1>9, <1>10
<1> QED
  BY <1>11 DEF k

BootTypes ==
  /\ config.min_version \in [Stages -> Nat]
  /\ chain \in [images : BootImages, boot_successful : BOOLEAN, failed_stage : Nat]
  /\ tpm \in TPMs /\ log \in BootLogs

\* A run of the chain is the last of its rounds.
LEMMA ChainRounds ==
  ASSUME BootTypes, NEW policy
  PROVE  \E run : /\ run[0] = Started
                  /\ \A n \in 1 .. STAGES :
                       run[n] = IF run[n - 1].running THEN RunStage(run[n - 1], n - 1, policy)
                                ELSE run[n - 1]
                  /\ \A n \in 0 .. STAGES : run[n] \in Machines
                  /\ execute_chain(policy) = run[STAGES]
<1> DEFINE Next(k, s) == IF s.running THEN RunStage(s, k - 1, policy) ELSE s
           f == [k \in Nat |-> [s \in Machines |-> IF k \in 1 .. STAGES THEN Next(k, s) ELSE s]]
           Is(run) == run = [k \in 0 .. STAGES |-> IF k = 0 THEN Started ELSE Next(k, run[k - 1])]
           g == CHOOSE run : Is(run)
<1>1. STAGES \in Nat
  BY BootAssumption
<1>2. \A k \in 1 .. STAGES, s \in Machines : Next(k, s) \in Machines
  <2> TAKE k \in 1 .. STAGES, s \in Machines
  <2>1. k - 1 \in Stages
    BY <1>1 DEF Stages
  <2>2. RunStage(s, k - 1, policy) \in Machines
    <3> DEFINE i == k - 1
    <3> HIDE DEF i
    <3>1. i \in Stages
      BY <2>1 DEF i
    <3>2. RunStage(s, i, policy) \in Machines
      BY <3>1, StageType, Zenon
    <3> QED
      BY <3>2 DEF i
  <2> QED
    BY <2>2
<1>3. Started \in Machines
  BY DEF Started, Machines, BootTypes
<1> HIDE DEF Next
<1>4. Stepper(Machines, f)
  BY <1>2 DEF Stepper
<1>5. \A k \in 1 .. STAGES, s \in Machines : f[k][s] = Next(k, s)
  BY <1>1
<1> HIDE DEF f
<1>6. PICK rec : rec \in [0 .. STAGES -> Machines] /\ rec[0] = Started
                 /\ \A k \in 1 .. STAGES : rec[k] = f[k][rec[k - 1]]
  <2>1. \E rec : Loop(Machines, Started, f, STAGES, rec)
    BY <1>1, <1>3, <1>4, LoopExists, Zenon
  <2> QED
    BY <2>1 DEF Loop
<1>7. \A k \in 1 .. STAGES : rec[k] = Next(k, rec[k - 1])
  BY <1>1, <1>5, <1>6
<1>8. Is(rec)
  <2>1. \A k \in 0 .. STAGES : rec[k] = IF k = 0 THEN Started ELSE Next(k, rec[k - 1])
    BY <1>1, <1>6, <1>7
  <2> QED
    BY <1>6, <2>1
<1>9. Is(g)
  BY <1>8
<1>10. execute_chain(policy) = g[STAGES]
  BY DEF execute_chain, Next
<1> HIDE DEF g
<1>11. g[0] = Started /\ \A k \in 1 .. STAGES : g[k] = Next(k, g[k - 1])
  BY <1>1, <1>9
<1>12. \A k \in 0 .. STAGES : g[k] = rec[k]
  <2>1. g[0] = rec[0] /\ \A k \in 1 .. STAGES : g[k - 1] = rec[k - 1] => g[k] = rec[k]
    BY <1>6, <1>7, <1>11
  <2> QED
    BY <1>1, <2>1, LoopsAgree, Zenon
<1>13. \A k \in 0 .. STAGES : g[k] \in Machines
  BY <1>6, <1>12
<1> QED
  BY <1>10, <1>11, <1>13 DEF Next

\* The stages measured and launched when n rounds have been run.
Reached(n, m) == IF m.running THEN n ELSE m.failed_stage + 1

Accepted(n, m) == IF m.running THEN n ELSE m.failed_stage

\* The machine m after n rounds under a policy.
Ran(policy, n, m) ==
  /\ m \in Machines
  /\ Grown(tpm, m.tpm)
  /\ tpm.initialized /\ Explains(tpm, log) => Explains(m.tpm, m.log)
  /\ Trail(Len(log), m.log, Accepted(n, m))
  /\ m.running => AllLaunched(Len(log), m.log, n)
  /\ ~m.running => m.failed_stage \in 0 .. n - 1
                   /\ Refused(chain.images[m.failed_stage], m.failed_stage, policy)
  /\ tpm.initialized =>
        \A j \in Stages : m.tpm.pcrs[j] # tpm.pcrs[j] <=> j < Reached(n, m)
  /\ \A j \in Stages : j >= n => m.images[j] = chain.images[j]
  /\ \A j \in Stages : j < Accepted(n, m) => ~Refused(chain.images[j], j, policy)

LEMMA RanNothing ==
  ASSUME BootTypes, NEW policy
  PROVE  Ran(policy, 0, Started)
<1>1. Started \in Machines /\ Started.running /\ Started.tpm = tpm /\ Started.log = log
      /\ Started.images = chain.images
  BY DEF Started, Machines, BootTypes
<1> DEFINE m == Started
<1> HIDE DEF m
<1>2. m \in Machines /\ m.running /\ m.tpm = tpm /\ m.log = log /\ m.images = chain.images
  BY <1>1 DEF m
<1>3. Accepted(0, m) = 0 /\ Reached(0, m) = 0
  BY <1>2 DEF Accepted, Reached
<1>4. Len(log) \in Nat
  BY DEF BootTypes, BootLogs
<1>5. Trail(Len(log), log, 0) /\ AllLaunched(Len(log), log, 0)
  BY <1>4 DEF Trail, AllLaunched
<1>6. Grown(tpm, tpm)
  BY DEF Grown
<1>7. \A j \in Stages : ~(j < 0)
  BY BootAssumption DEF Stages
<1>8. Ran(policy, 0, m)
  BY <1>2, <1>3, <1>5, <1>6, <1>7 DEF Ran
<1> QED
  BY <1>8 DEF m

\* One round more.
LEMMA RanOneMore ==
  ASSUME BootTypes, NEW policy, NEW n \in Stages, NEW m \in Machines, Ran(policy, n, m)
  PROVE  Ran(policy, n + 1, IF m.running THEN RunStage(m, n, policy) ELSE m)
<1>1. n \in Nat /\ n \in PCRs /\ Stages \subseteq Nat /\ \A j \in Stages : j \in PCRs
  BY BootAssumption DEF Stages
<1>2. m.failed_stage \in Nat /\ m.running \in BOOLEAN
  BY DEF Machines
<1>3. CASE ~m.running
  <2>1. Accepted(n + 1, m) = Accepted(n, m) /\ Reached(n + 1, m) = Reached(n, m)
    BY <1>3 DEF Accepted, Reached
  <2>2. m.failed_stage \in 0 .. (n + 1) - 1
    BY <1>1, <1>3 DEF Ran
  <2>3. \A j \in Stages : j >= n + 1 => j >= n
    BY <1>1
  <2>4. Ran(policy, n + 1, m)
    BY <1>3, <2>1, <2>2, <2>3 DEF Ran
  <2> QED
    BY <1>3, <2>4
<1>4. CASE m.running
  <2> DEFINE k == RunStage(m, n, policy)
             b == Len(log)
             image == m.images[n]
             d == sha256(image.hash)
             t == tpm_extend(m.tpm, n, d)
  <2>1. /\ Grown(tpm, m.tpm)
        /\ tpm.initialized /\ Explains(tpm, log) => Explains(m.tpm, m.log)
        /\ Trail(b, m.log, n) /\ AllLaunched(b, m.log, n)
        /\ tpm.initialized => \A j \in Stages : m.tpm.pcrs[j] # tpm.pcrs[j] <=> j < n
        /\ \A j \in Stages : j >= n => m.images[j] = chain.images[j]
        /\ \A j \in Stages : j < n => ~Refused(chain.images[j], j, policy)
    BY <1>4 DEF Ran, Accepted, Reached
  <2>2. image = chain.images[n]
    BY <1>1, <2>1
  <2>3. b \in Nat /\ config.min_version \in [Stages -> Nat]
    BY DEF BootTypes, BootLogs
  <2> HIDE DEF b
  <2>4. /\ k \in Machines /\ k.tpm = t
        /\ k.running <=> ~Refused(image, n, policy)
        /\ Refused(image, n, policy) => k.failed_stage = n
        /\ \A j \in Stages \ {n} : k.images[j] = m.images[j]
        /\ m.tpm.initialized /\ Explains(m.tpm, m.log) => Explains(k.tpm, k.log)
        /\ k.running => Trail(b, k.log, n + 1) /\ AllLaunched(b, k.log, n + 1)
        /\ ~k.running => Trail(b, k.log, n)
    BY <1>4, <2>1, <2>3, StageRuns
  <2>5. m.tpm \in TPMs /\ tpm \in TPMs
    BY DEF Machines, BootTypes
  <2>6. d \in Seq(Nat)
    <3>1. image.hash \in Seq(Nat)
      BY DEF Machines, BootImages, BootImage
    <3>2. <<0>> \in Seq(Nat)
      OBVIOUS
    <3> QED
      BY <3>1, <3>2, ConcatProperties DEF sha256
  <2> HIDE DEF k, image, d
  <2>7. /\ t \in TPMs /\ Grown(m.tpm, t) /\ t.initialized = m.tpm.initialized
        /\ t.pcrs = IF m.tpm.initialized THEN OneMore(m.tpm.pcrs, n, d) ELSE m.tpm.pcrs
    BY <1>1, <2>5, <2>6, ExtendIs
  <2> HIDE DEF t
  <2>8. Grown(tpm, k.tpm)
    BY <2>1, <2>4, <2>5, <2>7, GrownTwice
  <2>9. tpm.initialized /\ Explains(tpm, log) => Explains(k.tpm, k.log)
    BY <2>1, <2>4 DEF Grown
  <2>10. /\ Accepted(n + 1, k) = IF k.running THEN n + 1 ELSE n
         /\ Reached(n + 1, k) = n + 1
    BY <2>4 DEF Accepted, Reached
  <2>11. ASSUME tpm.initialized, NEW j \in Stages
         PROVE  k.tpm.pcrs[j] # tpm.pcrs[j] <=> j < n + 1
    <3>1. m.tpm.initialized
      BY <2>1, <2>11 DEF Grown
    <3>2. m.tpm.pcrs \in PcrValues /\ tpm.pcrs \in PcrValues
      BY <2>5 DEF TPMs
    <3>3. t.pcrs = OneMore(m.tpm.pcrs, n, d)
      BY <2>7, <3>1
    <3>4. /\ t.pcrs[n] = Append(m.tpm.pcrs[n], d)
          /\ \A q \in PCRs : q # n => t.pcrs[q] = m.tpm.pcrs[q]
      <4> DEFINE old == m.tpm.pcrs
      <4>1. old \in PcrValues
        BY <3>2
      <4> HIDE DEF old
      <4>2. /\ OneMore(old, n, d)[n] = Append(old[n], d)
            /\ \A q \in PCRs : q # n => OneMore(old, n, d)[q] = old[q]
        BY <1>1, <2>6, <4>1, OneMoreIs
      <4>3. t.pcrs = OneMore(old, n, d)
        BY <3>3 DEF old
      <4> QED
        BY <4>2, <4>3, Zenon DEF old
    <3>5. CASE j = n
      <4>1. m.tpm.pcrs[n] = tpm.pcrs[n]
        BY <1>1, <2>1, <2>11
      <4>2. Len(t.pcrs[n]) = Len(tpm.pcrs[n]) + 1 /\ Len(tpm.pcrs[n]) \in Nat
        <5> DEFINE s == tpm.pcrs[n]
        <5>1. s \in Seq(Seq(Nat))
          BY <1>1, <3>2 DEF PcrValues
        <5> HIDE DEF s
        <5>2. Len(Append(s, d)) = Len(s) + 1 /\ Len(s) \in Nat
          BY <2>6, <5>1, AppendProperties
        <5> QED
          BY <3>4, <4>1, <5>2 DEF s
      <4>3. t.pcrs[n] # tpm.pcrs[n]
        BY <4>2
      <4> QED
        BY <1>1, <2>4, <3>5, <4>3
    <3>6. CASE j # n
      <4>1. t.pcrs[j] = m.tpm.pcrs[j]
        BY <1>1, <3>4, <3>6
      <4>2. m.tpm.pcrs[j] # tpm.pcrs[j] <=> j < n
        BY <2>1, <2>11
      <4>3. j < n <=> j < n + 1
        BY <1>1, <3>6
      <4> QED
        BY <2>4, <4>1, <4>2, <4>3
    <3> QED
      BY <3>5, <3>6
  <2>12. \A j \in Stages : j >= n + 1 => k.images[j] = chain.images[j]
    <3>1. \A j \in Stages : j >= n + 1 => j # n /\ j >= n
      BY <1>1
    <3> QED
      BY <2>1, <2>4, <3>1
  <2>13. CASE k.running
    <3>1. ~Refused(image, n, policy)
      BY <2>4, <2>13
    <3>2. \A j \in Stages : j < n + 1 => j < n \/ j = n
      BY <1>1
    <3>3. \A j \in Stages : j < n + 1 => ~Refused(chain.images[j], j, policy)
      BY <2>1, <2>2, <3>1, <3>2
    <3>4. Ran(policy, n + 1, k)
      BY <2>4, <2>8, <2>9, <2>10, <2>11, <2>12, <2>13, <3>3 DEF Ran, b
    <3> QED
      BY <1>4, <3>4 DEF k
  <2>14. CASE ~k.running
    <3>1. Refused(chain.images[n], n, policy) /\ k.failed_stage = n
      BY <2>2, <2>4, <2>14
    <3>2. k.failed_stage \in 0 .. (n + 1) - 1
      BY <1>1, <3>1
    <3>3. Accepted(n + 1, k) = n /\ Trail(b, k.log, n)
      BY <2>4, <2>10, <2>14
    <3>4. Ran(policy, n + 1, k)
      BY <2>1, <2>4, <2>8, <2>9, <2>10, <2>11, <2>12, <2>14, <3>1, <3>2, <3>3 DEF Ran, b
    <3> QED
      BY <1>4, <3>4 DEF k
  <2> QED
    BY <2>13, <2>14
<1> QED
  BY <1>2, <1>3, <1>4

\* The whole chain.
LEMMA ChainRan ==
  ASSUME BootTypes, NEW policy
  PROVE  Ran(policy, STAGES, execute_chain(policy))
<1>1. PICK run : /\ run[0] = Started
                 /\ \A n \in 1 .. STAGES :
                      run[n] = IF run[n - 1].running THEN RunStage(run[n - 1], n - 1, policy)
                               ELSE run[n - 1]
                 /\ \A n \in 0 .. STAGES : run[n] \in Machines
                 /\ execute_chain(policy) = run[STAGES]
  BY ChainRounds, Zenon
<1> DEFINE P == {n \in 0 .. STAGES : Ran(policy, n, run[n])}
<1>2. STAGES \in Nat
  BY BootAssumption
<1>3. 0 \in P
  BY <1>1, <1>2, RanNothing
<1>4. ASSUME NEW n \in 1 .. STAGES, n - 1 \in P
      PROVE  n \in P
  <2> DEFINE i == n - 1
             m == run[i]
  <2>1. Ran(policy, i, m) /\ i \in Stages /\ m \in Machines /\ n \in 0 .. STAGES /\ i + 1 = n
    BY <1>1, <1>2, <1>4 DEF Stages
  <2>2. run[n] = IF m.running THEN RunStage(m, i, policy) ELSE m
    BY <1>1
  <2> HIDE DEF i, m
  <2>3. Ran(policy, i + 1, IF m.running THEN RunStage(m, i, policy) ELSE m)
    BY <2>1, RanOneMore
  <2>4. Ran(policy, n, run[n])
    BY <2>1, <2>2, <2>3, Zenon
  <2> QED
    BY <2>1, <2>4
<1> HIDE DEF P
<1>5. STAGES \in P
  <2>1. \A n \in 1 .. STAGES : n - 1 \in P => n \in P
    BY <1>4
  <2> QED
    BY <1>2, <1>3, <2>1, RoundsKeep
<1> QED
  BY <1>1, <1>5, Zenon DEF P

\* A boot obeys its policy, whatever came before it.
LEMMA BootHonours == ASSUME BootTypes PROVE BootHonoursPolicy
<1> SUFFICES ASSUME NEW policy \in BootPolicy
             PROVE  LET m        == execute_chain(policy)
                        measured == {i \in Stages : m.tpm.pcrs[i] # tpm.pcrs[i]}
                        events   == SubSeq(m.log, Len(log) + 1, Len(m.log))
                        launched == {i \in Stages : \E k \in DOMAIN events :
                                        events[k].type = "STAGE_LAUNCH" /\ events[k].stage_id = i}
                    IN  /\ tpm.initialized => measured = IF m.running THEN Stages ELSE 0 .. m.failed_stage
                        /\ ~m.running => launched \subseteq 0 .. m.failed_stage - 1
                        /\ m.running /\ Len(m.log) < MAX_EVENTS => launched = Stages
                        /\ \A k \in DOMAIN events : events[k].type = "STAGE_LAUNCH" =>
                              \E j \in 1 .. k - 1 : events[j].type = "PCR_EXTEND"
                                                    /\ events[j].pcr_index = events[k].pcr_index
                        /\ policy = "ENFORCE" =>
                              /\ m.running <=> \A i \in Stages : Acceptable(i)
                              /\ ~m.running => /\ ~Acceptable(m.failed_stage)
                                               /\ \A i \in 0 .. m.failed_stage - 1 : Acceptable(i)
  BY DEF BootHonoursPolicy
<1> DEFINE m        == execute_chain(policy)
           b        == Len(log)
           l        == m.log
           measured == {i \in Stages : m.tpm.pcrs[i] # tpm.pcrs[i]}
           events   == SubSeq(l, b + 1, Len(l))
           launched == {i \in Stages : \E k \in DOMAIN events :
                           events[k].type = "STAGE_LAUNCH" /\ events[k].stage_id = i}
<1>1. Ran(policy, STAGES, m)
  BY ChainRan
<1> HIDE DEF m
<1>2. /\ STAGES \in Nat /\ Stages = 0 .. STAGES - 1
  BY BootAssumption DEF Stages
<1>3. /\ m.failed_stage \in Nat /\ m.running \in BOOLEAN /\ l \in Seq(BootEvents) /\ l \in BootLogs
  BY <1>1 DEF Ran, Machines, BootLogs
<1>4. /\ b \in Nat /\ Len(l) \in Nat /\ b <= Len(l)
  BY <1>1, <1>3 DEF Ran, Trail, BootTypes, BootLogs
<1> DEFINE x == Len(l)
<1> HIDE DEF l, b
<1>5. DOMAIN events = 1 .. x - b /\ \A k \in 1 .. x - b : events[k] = l[b + k]
  BY <1>3, <1>4
<1>6. \A k \in 1 .. x - b : b + k \in b + 1 .. x
  BY <1>4
<1>7. \A j \in b + 1 .. x : j - b \in 1 .. x - b /\ b + (j - b) = j
  BY <1>4
<1> HIDE DEF events, x
<1>8. ~m.running => m.failed_stage \in 0 .. STAGES - 1
  BY <1>1 DEF Ran
<1>9. /\ m.running => Accepted(STAGES, m) = STAGES /\ Reached(STAGES, m) = STAGES
      /\ ~m.running => Accepted(STAGES, m) = m.failed_stage /\ Reached(STAGES, m) = m.failed_stage + 1
  BY DEF Accepted, Reached
<1>10. tpm.initialized => measured = IF m.running THEN Stages ELSE 0 .. m.failed_stage
  <2> SUFFICES ASSUME tpm.initialized
               PROVE  measured = IF m.running THEN Stages ELSE 0 .. m.failed_stage
    OBVIOUS
  <2>1. \A j \in Stages : m.tpm.pcrs[j] # tpm.pcrs[j] <=> j < Reached(STAGES, m)
    BY <1>1 DEF Ran
  <2>2. measured = {j \in Stages : j < Reached(STAGES, m)}
    BY <2>1
  <2> HIDE DEF measured
  <2>3. CASE m.running
    BY <1>2, <1>9, <2>2, <2>3
  <2>4. CASE ~m.running
    BY <1>2, <1>3, <1>8, <1>9, <2>2, <2>4
  <2> QED
    BY <2>3, <2>4
<1>11. \A k \in 1 .. x - b : events[k].type = "STAGE_LAUNCH" =>
          /\ events[k].stage_id < Accepted(STAGES, m)
          /\ \E j \in 1 .. k - 1 : events[j].type = "PCR_EXTEND" /\ events[j].pcr_index = events[k].pcr_index
  <2> SUFFICES ASSUME NEW k \in 1 .. x - b, events[k].type = "STAGE_LAUNCH"
               PROVE  /\ events[k].stage_id < Accepted(STAGES, m)
                      /\ \E j \in 1 .. k - 1 : events[j].type = "PCR_EXTEND"
                                               /\ events[j].pcr_index = events[k].pcr_index
    OBVIOUS
  <2>1. Trail(b, l, Accepted(STAGES, m))
    BY <1>1 DEF Ran, l, b
  <2> DEFINE y == b + k
  <2>2. y \in b + 1 .. Len(l) /\ events[k] = l[y]
    BY <1>5, <1>6 DEF x
  <2>3. l[y].type = "STAGE_LAUNCH"
    BY <2>2, Zenon
  <2> HIDE DEF y
  <2>4. l[y].stage_id < Accepted(STAGES, m)
    BY <2>1, <2>2, <2>3 DEF Trail
  <2>5. PICK j \in b + 1 .. y - 1 : l[j].type = "PCR_EXTEND" /\ l[j].pcr_index = l[y].pcr_index
    BY <2>1, <2>2, <2>3 DEF Trail
  <2> DEFINE i == j - b
  <2>6. i \in 1 .. k - 1 /\ i \in 1 .. x - b /\ b + i = j
    BY <1>4, <2>2 DEF y, x
  <2>7. events[i] = l[j]
    BY <1>5, <2>6
  <2> HIDE DEF i
  <2>8. events[i].type = "PCR_EXTEND" /\ events[i].pcr_index = events[k].pcr_index
    BY <2>2, <2>5, <2>7, Zenon
  <2> QED
    BY <2>2, <2>4, <2>6, <2>8
<1>12. ~m.running => launched \subseteq 0 .. m.failed_stage - 1
  <2> SUFFICES ASSUME ~m.running, NEW i \in launched
               PROVE  i \in 0 .. m.failed_stage - 1
    OBVIOUS
  <2>1. PICK k \in 1 .. x - b : events[k].type = "STAGE_LAUNCH" /\ events[k].stage_id = i
    BY <1>5
  <2>2. i < m.failed_stage /\ i \in Nat
    BY <1>2, <1>9, <1>11, <2>1
  <2> QED
    BY <1>3, <2>2
<1>13. m.running /\ Len(l) < MAX_EVENTS => launched = Stages
  <2> SUFFICES ASSUME m.running, Len(l) < MAX_EVENTS, NEW i \in Stages
               PROVE  i \in launched
    OBVIOUS
  <2>1. LaunchedSince(b, l, i)
    BY <1>1, <1>2 DEF Ran, AllLaunched, l, b
  <2>2. PICK j \in b + 1 .. x : l[j].type = "STAGE_LAUNCH" /\ l[j].stage_id = i
    BY <2>1 DEF LaunchedSince, x
  <2>3. j - b \in 1 .. x - b /\ events[j - b] = l[j]
    BY <1>5, <1>7, <2>2
  <2> DEFINE k == j - b
  <2> HIDE DEF k
  <2>4. k \in DOMAIN events /\ events[k].type = "STAGE_LAUNCH" /\ events[k].stage_id = i
    BY <1>5, <2>2, <2>3 DEF k
  <2> QED
    BY <2>4
<1>14. ASSUME policy = "ENFORCE", NEW i \in Stages
       PROVE  Refused(chain.images[i], i, policy) <=> ~Acceptable(i)
  <2>1. chain.images[i].version \in Nat /\ config.min_version[i] \in Nat
    BY DEF BootTypes, BootImages, BootImage
  <2> QED
    BY <1>14, <2>1 DEF Refused, TooOld, Acceptable
<1>15. ASSUME policy = "ENFORCE"
       PROVE  /\ m.running <=> \A i \in Stages : Acceptable(i)
              /\ ~m.running => /\ ~Acceptable(m.failed_stage)
                               /\ \A i \in 0 .. m.failed_stage - 1 : Acceptable(i)
  <2>1. \A j \in Stages : j < Accepted(STAGES, m) => Acceptable(j)
    BY <1>1, <1>14, <1>15 DEF Ran
  <2>2. CASE m.running
    <3>1. \A j \in Stages : j < STAGES
      BY <1>2
    <3> QED
      BY <1>9, <2>1, <2>2, <3>1
  <2>3. CASE ~m.running
    <3>1. m.failed_stage \in Stages /\ Refused(chain.images[m.failed_stage], m.failed_stage, policy)
      BY <1>1, <1>2, <1>8, <2>3 DEF Ran
    <3>2. ~Acceptable(m.failed_stage)
      BY <1>14, <1>15, <3>1
    <3>3. \A i \in 0 .. m.failed_stage - 1 : i \in Stages /\ i < m.failed_stage
      BY <1>2, <1>3, <1>8, <2>3
    <3>4. \A i \in 0 .. m.failed_stage - 1 : Acceptable(i)
      BY <1>9, <2>1, <2>3, <3>3
    <3> QED
      BY <2>3, <3>1, <3>2, <3>4
  <2> QED
    BY <2>2, <2>3
<1>16. \A k \in DOMAIN events : events[k].type = "STAGE_LAUNCH" =>
          \E j \in 1 .. k - 1 : events[j].type = "PCR_EXTEND" /\ events[j].pcr_index = events[k].pcr_index
  BY <1>5, <1>11
<1> QED
  BY <1>10, <1>12, <1>13, <1>15, <1>16, Zenon DEF events, l, b, m
--------------------------------------------------------------------------------
(* Measured boot: the invariant. *)

\* A quote shows the registers that were not touched since.
QuoteShows ==
  quote # NoQuote =>
     /\ quote.pcr_select \subseteq PCRs
     /\ quote.composite \in [quote.pcr_select -> Seq(Seq(Nat))]
     /\ \A p \in quote.pcr_select \ touched : quote.composite[p] = tpm.pcrs[p]

\* As long as nothing but extensions happened to the TPM that was quoted, its touched
\* registers have become longer.
QuoteOutgrown ==
  /\ quoted \in Nat /\ quoted <= lives
  /\ quote # NoQuote /\ quoted = lives /\ ~unlogged =>
        \A p \in quote.pcr_select \cap touched : Len(tpm.pcrs[p]) > Len(quote.composite[p])

\* Since a blob was sealed, its touched registers have become longer, and a TPM with
\* another key has all registers touched.
BlobHolds ==
  /\ blob.key \in Int /\ blob.key <= lives
  /\ blob.key > 0 =>
        /\ blob.mask \subseteq PCRs /\ blob.mask # {}
        /\ blob.composite \in [blob.mask -> Seq(Seq(Nat))]
        /\ tpm.storage_root_key # blob.key => PCRs \subseteq touched
        /\ tpm.storage_root_key = blob.key =>
              \A p \in blob.mask :
                 IF p \in touched THEN Len(tpm.pcrs[p]) > Len(blob.composite[p])
                 ELSE tpm.pcrs[p] = blob.composite[p]

TakenHold == QuoteShows /\ QuoteOutgrown /\ BlobHolds /\ (NothingTaken => touched = {})

BootInv ==
  /\ BootTypes
  /\ lives \in Nat /\ lives > 0 /\ tpm.storage_root_key <= lives
  /\ ~unlogged => Explains(tpm, log)
  /\ TakenHold

\* Registers that grow, and are noted as touched, keep the quote and the blob explained.
LEMMA TouchedHold ==
  ASSUME BootInv, tpm' \in TPMs, Grown(tpm, tpm'), Touch(Extended(tpm')),
         UNCHANGED <<quote, blob, quoted, lives>>, ~unlogged' => ~unlogged
  PROVE  TakenHold'
<1>1. /\ tpm \in TPMs /\ tpm.pcrs \in PcrValues /\ tpm'.pcrs \in PcrValues
      /\ quote' = quote /\ blob' = blob /\ quoted' = quoted /\ lives' = lives
      /\ NothingTaken' <=> NothingTaken
  BY DEF BootInv, BootTypes, TPMs, NothingTaken
<1>2. touched' = IF NothingTaken THEN {} ELSE touched \cup Extended(tpm')
  BY DEF Touch
<1>3. \A p \in PCRs : p \notin Extended(tpm') => tpm'.pcrs[p] = tpm.pcrs[p]
  BY DEF Extended
<1>4. \A p \in PCRs : /\ Len(tpm.pcrs[p]) \in Nat /\ Len(tpm'.pcrs[p]) \in Nat
                      /\ Len(tpm'.pcrs[p]) >= Len(tpm.pcrs[p])
                      /\ p \in Extended(tpm') => Len(tpm'.pcrs[p]) > Len(tpm.pcrs[p])
  <2> TAKE p \in PCRs
  <2>1. Len(tpm.pcrs[p]) \in Nat /\ Len(tpm'.pcrs[p]) \in Nat
    BY <1>1 DEF PcrValues
  <2> QED
    BY <2>1 DEF Grown, Extended
<1>5. NothingTaken' => touched' = {}
  BY <1>1, <1>2
<1>6. QuoteShows'
  <2> SUFFICES ASSUME quote # NoQuote PROVE QuoteShows'
    BY <1>1 DEF QuoteShows
  <2>1. /\ quote.pcr_select \subseteq PCRs
        /\ quote.composite \in [quote.pcr_select -> Seq(Seq(Nat))]
        /\ \A p \in quote.pcr_select \ touched : quote.composite[p] = tpm.pcrs[p]
    BY DEF BootInv, TakenHold, QuoteShows
  <2>2. touched' = touched \cup Extended(tpm')
    BY <1>2 DEF NothingTaken
  <2>3. \A p \in quote.pcr_select \ touched' : quote.composite[p] = tpm'.pcrs[p]
    BY <1>3, <2>1, <2>2
  <2> QED
    BY <1>1, <2>1, <2>3 DEF QuoteShows
<1>7. BlobHolds'
  <2>1. blob.key \in Int /\ blob.key <= lives
    BY DEF BootInv, TakenHold, BlobHolds
  <2>2. CASE ~(blob.key > 0)
    BY <1>1, <2>1, <2>2 DEF BlobHolds
  <2>3. CASE blob.key > 0
    <3>1. /\ blob.mask \subseteq PCRs /\ blob.mask # {}
          /\ blob.composite \in [blob.mask -> Seq(Seq(Nat))]
          /\ tpm.storage_root_key # blob.key => PCRs \subseteq touched
          /\ tpm.storage_root_key = blob.key =>
                \A p \in blob.mask :
                   IF p \in touched THEN Len(tpm.pcrs[p]) > Len(blob.composite[p])
                   ELSE tpm.pcrs[p] = blob.composite[p]
      BY <2>3 DEF BootInv, TakenHold, BlobHolds
    <3>2. touched' = touched \cup Extended(tpm')
      <4>1. blob # NoBlob
        BY <2>3 DEF NoBlob
      <4> QED
        BY <1>2, <4>1 DEF NothingTaken
    <3>3. tpm'.storage_root_key = tpm.storage_root_key
      BY DEF Grown
    <3>4. ASSUME tpm.storage_root_key = blob.key, NEW p \in blob.mask
          PROVE  IF p \in touched' THEN Len(tpm'.pcrs[p]) > Len(blob.composite[p])
                 ELSE tpm'.pcrs[p] = blob.composite[p]
      <4>1. p \in PCRs /\ Len(blob.composite[p]) \in Nat
        BY <3>1
      <4>2. CASE p \in touched
        BY <1>4, <3>1, <3>2, <3>4, <4>1, <4>2, SMTT(30)
      <4>3. CASE p \notin touched
        BY <1>3, <1>4, <3>1, <3>2, <3>4, <4>1, <4>3
      <4> QED
        BY <4>2, <4>3
    <3> QED
      BY <1>1, <2>1, <3>1, <3>2, <3>3, <3>4 DEF BlobHolds
  <2> QED
    BY <2>1, <2>2, <2>3
<1>8. QuoteOutgrown'
  <2> SUFFICES ASSUME quote # NoQuote, quoted = lives, ~unlogged',
                      NEW p \in quote.pcr_select \cap touched'
               PROVE  Len(tpm'.pcrs[p]) > Len(quote.composite[p])
    BY <1>1 DEF BootInv, TakenHold, QuoteOutgrown
  <2>1. /\ quote.pcr_select \subseteq PCRs
        /\ quote.composite \in [quote.pcr_select -> Seq(Seq(Nat))]
        /\ p \notin touched => quote.composite[p] = tpm.pcrs[p]
        /\ p \in touched => Len(tpm.pcrs[p]) > Len(quote.composite[p])
    BY DEF BootInv, TakenHold, QuoteShows, QuoteOutgrown
  <2>2. p \in PCRs /\ Len(quote.composite[p]) \in Nat
    BY <2>1
  <2>3. p \in touched \/ p \in Extended(tpm')
    BY <1>2 DEF NothingTaken
  <2> QED
    BY <1>4, <2>1, <2>2, <2>3
<1> QED
  BY <1>5, <1>6, <1>7, <1>8 DEF TakenHold

\* A TPM with all registers new, under a key no blob has or with a blob sealed to no key.
LEMMA ResetHold ==
  ASSUME BootInv, tpm' \in TPMs, touched' = IF NothingTaken THEN {} ELSE touched \cup PCRs,
         UNCHANGED <<quote, blob, quoted>>, lives' \in Nat, lives <= lives',
         unlogged' \/ lives < lives',
         tpm'.storage_root_key = 0 \/ tpm'.storage_root_key > lives
  PROVE  TakenHold'
<1>1. /\ quote' = quote /\ blob' = blob /\ quoted' = quoted /\ (NothingTaken' <=> NothingTaken)
  BY DEF NothingTaken
<1>2. QuoteShows'
  <2> SUFFICES ASSUME quote # NoQuote PROVE QuoteShows'
    BY <1>1 DEF QuoteShows
  <2>1. /\ quote.pcr_select \subseteq PCRs
        /\ quote.composite \in [quote.pcr_select -> Seq(Seq(Nat))]
    BY DEF BootInv, TakenHold, QuoteShows
  <2>2. touched' = touched \cup PCRs
    BY DEF NothingTaken
  <2> QED
    BY <1>1, <2>1, <2>2 DEF QuoteShows
<1>3. BlobHolds'
  <2>1. blob.key \in Int /\ blob.key <= lives' /\ lives \in Nat /\ blob.key <= lives
    BY DEF BootInv, TakenHold, BlobHolds
  <2>2. CASE ~(blob.key > 0)
    BY <1>1, <2>1, <2>2 DEF BlobHolds
  <2>3. CASE blob.key > 0
    <3>1. /\ blob.mask \subseteq PCRs /\ blob.mask # {}
          /\ blob.composite \in [blob.mask -> Seq(Seq(Nat))]
      BY <2>3 DEF BootInv, TakenHold, BlobHolds
    <3>2. touched' = touched \cup PCRs
      <4>1. blob # NoBlob
        BY <2>3 DEF NoBlob
      <4> QED
        BY <4>1 DEF NothingTaken
    <3>3. tpm'.storage_root_key # blob.key
      BY <2>1, <2>3
    <3> QED
      BY <1>1, <2>1, <3>1, <3>2, <3>3 DEF BlobHolds
  <2> QED
    BY <2>1, <2>2, <2>3
<1>4. QuoteOutgrown'
  BY <1>1 DEF BootInv, TakenHold, QuoteOutgrown
<1> QED
  BY <1>1, <1>2, <1>3, <1>4 DEF TakenHold

\* Without a move of the TPM, the quote, the blob and the history, all stay.
LEMMA BootStays ==
  ASSUME BootInv, BootTypes', UNCHANGED <<tpm, log, quote, blob, unlogged, touched, quoted, lives>>
  PROVE  BootInv'
  BY DEF BootInv, TakenHold, QuoteShows, QuoteOutgrown, BlobHolds, NothingTaken, Explains

\* A new TPM has empty registers, which an empty log explains.
LEMMA FreshTpm ==
  ASSUME NEW life \in Nat
  PROVE  /\ tpm_init(life) \in TPMs
         /\ tpm_init(life).storage_root_key = life
         /\ Explains(tpm_init(life), <<>>)
         /\ <<>> \in BootLogs
<1> DEFINE t == tpm_init(life)
           zero == [p \in PCRs |-> <<>>]
<1>1. zero \in PcrValues /\ \A p \in PCRs : zero[p] = <<>>
  BY DEF PcrValues
<1>2. t = [pcrs |-> zero, storage_root_key |-> life, initialized |-> TRUE]
  BY DEF tpm_init
<1> HIDE DEF t, zero
<1>3. t \in TPMs /\ t.storage_root_key = life /\ t.pcrs = zero
  BY <1>1, <1>2 DEF TPMs
<1>4. <<>> \in BootLogs
  BY BootAssumption DEF BootLogs
<1>5. Replay(<<>>) = zero
  BY ReplayNothing DEF zero
<1>6. IsPrefix(<<>>, <<>>)
  BY DEF IsPrefix
<1>7. Explains(t, <<>>)
  BY <1>1, <1>3, <1>5, <1>6 DEF Explains
<1> QED
  BY <1>3, <1>4, <1>7 DEF t

LEMMA BootInitInv == BootInit => BootInv
<1> SUFFICES ASSUME BootInit PROVE BootInv
  OBVIOUS
<1>1. /\ tpm = tpm_init(1) /\ log = <<>> /\ quote = NoQuote /\ blob = NoBlob
      /\ unlogged = FALSE /\ touched = {} /\ quoted = 0 /\ lives = 1
      /\ config.min_version = [i \in Stages |-> 0]
  BY DEF BootInit
<1>2. chain \in [images : BootImages, boot_successful : BOOLEAN, failed_stage : Nat]
  BY CallersAssumption DEF BootInit, BootImages
<1>3. tpm \in TPMs /\ tpm.storage_root_key = 1 /\ Explains(tpm, log) /\ log \in BootLogs
  BY <1>1, FreshTpm
<1>4. BootTypes
  BY <1>1, <1>2, <1>3 DEF BootTypes
<1>5. TakenHold
  BY <1>1 DEF TakenHold, QuoteShows, QuoteOutgrown, BlobHolds, NoBlob
<1> QED
  BY <1>1, <1>3, <1>4, <1>5 DEF BootInv

LEMMA SbInitInv ==
  ASSUME BootInv, sb_init
  PROVE  BootInv'
<1>1. /\ tpm' = tpm_init(lives + 1) /\ log' = <<>> /\ unlogged' = FALSE /\ lives' = lives + 1
      /\ config'.min_version = [i \in Stages |-> 0]
      /\ touched' = IF NothingTaken THEN {} ELSE touched \cup PCRs
      /\ UNCHANGED <<chain, quote, blob, quoted>>
  BY DEF sb_init, Touch
<1>2. lives \in Nat /\ lives + 1 \in Nat
  BY DEF BootInv, BootTypes
<1> DEFINE life == lives + 1
<1> HIDE DEF life
<1>3. life \in Nat /\ tpm' = tpm_init(life)
  BY <1>1, <1>2 DEF life
<1>4. tpm' \in TPMs /\ tpm'.storage_root_key = life /\ Explains(tpm', log') /\ log' \in BootLogs
  BY <1>1, <1>3, FreshTpm
<1>5. BootTypes'
  BY <1>1, <1>2, <1>4 DEF BootInv, BootTypes
<1>6. TakenHold'
  BY <1>1, <1>2, <1>4, ResetHold DEF life
<1> QED
  BY <1>1, <1>2, <1>4, <1>5, <1>6 DEF BootInv, life

LEMMA ConfigureInv ==
  ASSUME BootInv, NEW c \in Setups, Configure(c)
  PROVE  BootInv'
<1>1. config'.min_version = [i \in Stages |-> c.version] /\ c.version \in Nat
  BY CallersAssumption DEF Configure
<1>2. BootTypes'
  BY <1>1 DEF Configure, BootInv, BootTypes
<1> QED
  BY <1>2, BootStays DEF Configure

LEMMA VerifyImageInv ==
  ASSUME BootInv, NEW i \in Stages, NEW key, sb_verify_image(i, key)
  PROVE  BootInv'
<1>1. chain.images \in BootImages
  BY DEF BootInv, BootTypes
<1> DEFINE ok == chain.images[i].matches /\ key \notin revoked
           images == [chain.images EXCEPT ![i] = [@ EXCEPT !.signature_valid = ok]]
<1>2. images \in BootImages
  <2>1. chain.images[i] \in BootImage
    BY <1>1 DEF BootImages
  <2>2. ok \in BOOLEAN
    BY <2>1 DEF BootImage
  <2> HIDE DEF ok
  <2>3. [chain.images[i] EXCEPT !.signature_valid = ok] \in BootImage
    BY <2>1, <2>2 DEF BootImage
  <2> QED
    BY <1>1, <2>3 DEF BootImages
<1>3. chain' = [chain EXCEPT !.images = images]
  BY DEF sb_verify_image
<1> HIDE DEF images
<1>4. chain' \in [images : BootImages, boot_successful : BOOLEAN, failed_stage : Nat]
  BY <1>2, <1>3 DEF BootInv, BootTypes
<1>5. BootTypes'
  BY <1>4 DEF sb_verify_image, BootInv, BootTypes
<1> QED
  BY <1>5, BootStays DEF sb_verify_image

LEMMA RevokeInv ==
  ASSUME BootInv, NEW key, key_revoke(key)
  PROVE  BootInv'
<1>1. BootTypes'
  BY DEF key_revoke, BootInv, BootTypes
<1> QED
  BY <1>1, BootStays DEF key_revoke

LEMMA ExecuteChainInv ==
  ASSUME BootInv, sb_execute_chain
  PROVE  BootInv'
<1> DEFINE m == execute_chain(config.policy)
<1>1. BootTypes
  BY DEF BootInv
<1>2. Ran(config.policy, STAGES, m)
  <2> DEFINE policy == config.policy
  <2> HIDE DEF policy
  <2>1. Ran(policy, STAGES, execute_chain(policy))
    BY <1>1, ChainRan
  <2> QED
    BY <2>1 DEF policy
<1>3. /\ tpm' = m.tpm /\ log' = m.log
      /\ chain' = [images |-> m.images, boot_successful |-> m.running,
                   failed_stage |-> m.failed_stage]
      /\ unlogged' = (unlogged \/ ~tpm.initialized)
      /\ Touch(Extended(m.tpm))
      /\ UNCHANGED <<config, quote, blob, quoted, lives>>
  BY DEF sb_execute_chain
<1> HIDE DEF m
<1>4. /\ m \in Machines /\ Grown(tpm, m.tpm)
      /\ tpm.initialized /\ Explains(tpm, log) => Explains(m.tpm, m.log)
  BY <1>2 DEF Ran
<1>5. /\ tpm' \in TPMs /\ log' \in BootLogs /\ Grown(tpm, tpm')
      /\ chain' \in [images : BootImages, boot_successful : BOOLEAN, failed_stage : Nat]
  BY <1>3, <1>4 DEF Machines
<1>6. BootTypes'
  BY <1>1, <1>3, <1>5 DEF BootTypes
<1>7. ~unlogged' => Explains(tpm', log')
  BY <1>3, <1>4 DEF BootInv
<1>8. Touch(Extended(tpm'))
  BY <1>3
<1>9. TakenHold'
  BY <1>3, <1>5, <1>8, TouchedHold
<1> QED
  BY <1>3, <1>5, <1>6, <1>7, <1>9 DEF BootInv, Grown

\* The digests callers extend registers with.
LEMMA CallersDigest == sha256(<< 9 >>) \in Seq(Nat)
<1>1. <<0>> \in Seq(Nat) /\ << 9 >> \in Seq(Nat)
  OBVIOUS
<1> QED
  BY <1>1, ConcatProperties DEF sha256

LEMMA SbMeasureInv ==
  ASSUME BootInv, NEW p \in PCRs, sb_measure(p, << 9 >>)
  PROVE  BootInv'
<1> DEFINE d == sha256(<< 9 >>)
           s == [tpm |-> tpm, log |-> log]
           m == Measure(s, p, << 9 >>)
<1>1. d \in Seq(Nat)
  BY CallersDigest
<1>2. /\ tpm' = m.tpm /\ log' = m.log
      /\ unlogged' = (unlogged \/ ~tpm.initialized)
      /\ Touch(Extended(m.tpm))
      /\ UNCHANGED <<config, chain, quote, blob, quoted, lives>>
  BY DEF sb_measure
<1>3. m = [s EXCEPT !.tpm = tpm_extend(s.tpm, p, d), !.log = event_log_record(s.log, "PCR_EXTEND", p, d, 0)]
  BY DEF Measure
<1> HIDE DEF d, m
<1>4. /\ m.tpm = tpm_extend(tpm, p, d)
      /\ m.log = event_log_record(log, "PCR_EXTEND", p, d, 0)
  BY <1>3
<1>5. /\ tpm \in TPMs /\ log \in BootLogs /\ "PCR_EXTEND" \in EventTypes
      /\ ~unlogged => Explains(tpm, log)
  BY DEF BootInv, BootTypes, EventTypes
<1>6. m.tpm \in TPMs /\ Grown(tpm, m.tpm)
  BY <1>1, <1>4, <1>5, ExtendIs
<1>7. m.log \in BootLogs
  BY <1>1, <1>4, <1>5, RecordIs
<1>8. ~unlogged /\ tpm.initialized => Explains(m.tpm, m.log)
  BY <1>1, <1>4, <1>5, MeasureExplains
<1>9. BootTypes'
  BY <1>2, <1>6, <1>7 DEF BootInv, BootTypes
<1>10. TakenHold'
  <2>1. tpm' \in TPMs /\ Grown(tpm, tpm') /\ Touch(Extended(tpm'))
    BY <1>2, <1>6
  <2> QED
    BY <1>2, <2>1, TouchedHold
<1>11. ~unlogged' => Explains(tpm', log')
  BY <1>2, <1>8
<1> QED
  BY <1>2, <1>6, <1>9, <1>10, <1>11 DEF BootInv, Grown

LEMMA TpmExtendInv ==
  ASSUME BootInv, NEW p \in PCRs, TpmExtend(p, << 9 >>)
  PROVE  BootInv'
<1> DEFINE d == sha256(<< 9 >>)
<1>1. d \in Seq(Nat)
  BY CallersDigest
<1>2. /\ tpm' = tpm_extend(tpm, p, d) /\ log' = log
      /\ unlogged' = (unlogged \/ tpm.initialized)
      /\ Touch(Extended(tpm'))
      /\ UNCHANGED <<config, chain, quote, blob, quoted, lives>>
  BY DEF TpmExtend
<1> HIDE DEF d
<1>3. tpm \in TPMs /\ (~unlogged => Explains(tpm, log))
  BY DEF BootInv, BootTypes
<1>4. tpm' \in TPMs /\ Grown(tpm, tpm') /\ (~tpm.initialized => tpm'.pcrs = tpm.pcrs)
  BY <1>1, <1>2, <1>3, ExtendIs
<1>5. BootTypes'
  BY <1>2, <1>4 DEF BootInv, BootTypes
<1>6. TakenHold'
  BY <1>2, <1>4, TouchedHold
<1>7. ~unlogged' => Explains(tpm', log')
  BY <1>2, <1>3, <1>4 DEF Explains
<1> QED
  BY <1>2, <1>4, <1>5, <1>6, <1>7 DEF BootInv, Grown

LEMMA ClearInv ==
  ASSUME BootInv, tpm_clear
  PROVE  BootInv'
<1> DEFINE t == tpm_init(0)
           u == [t EXCEPT !.initialized = FALSE]
<1>1. /\ tpm' = u /\ unlogged' = TRUE
      /\ IF u = tpm THEN UNCHANGED touched ELSE Touch(PCRs)
      /\ UNCHANGED <<config, chain, log, quote, blob, quoted, lives>>
  BY DEF tpm_clear
<1>2. t \in TPMs /\ t.storage_root_key = 0
  BY FreshTpm
<1> HIDE DEF t
<1>3. u \in TPMs /\ u.storage_root_key = 0
  BY <1>2 DEF TPMs
<1> HIDE DEF u
<1>4. BootTypes'
  BY <1>1, <1>3 DEF BootInv, BootTypes
<1>5. TakenHold'
  <2>1. CASE u = tpm
    BY <1>1, <2>1 DEF BootInv, TakenHold, QuoteShows, QuoteOutgrown, BlobHolds, NothingTaken
  <2>2. CASE u # tpm
    <3>1. touched' = IF NothingTaken THEN {} ELSE touched \cup PCRs
      BY <1>1, <2>2 DEF Touch
    <3>2. lives' \in Nat /\ lives <= lives'
      BY <1>1 DEF BootInv
    <3> QED
      BY <1>1, <1>3, <3>1, <3>2, ResetHold
  <2> QED
    BY <2>1, <2>2
<1> QED
  BY <1>1, <1>3, <1>4, <1>5 DEF BootInv

\* The selected registers, as a function on the selection.
LEMMA CompositeIs ==
  ASSUME NEW pcrs \in PcrValues, NEW mask, mask \subseteq PCRs
  PROVE  /\ Composite(pcrs, mask) \in [mask -> Seq(Seq(Nat))]
         /\ \A p \in mask : Composite(pcrs, mask)[p] = pcrs[p]
  BY DEF Composite, PcrValues

LEMMA QuoteInv ==
  ASSUME BootInv, NEW mask \in Masks, tpm_quote(mask, 1)
  PROVE  BootInv'
<1>1. /\ quote' = [pcr_select |-> mask, composite |-> Composite(tpm.pcrs, mask), nonce |-> 1]
      /\ UNCHANGED <<config, chain, tpm, log, blob, unlogged, touched, lives>>
      /\ quoted' = lives
      /\ blob = NoBlob
  BY DEF tpm_quote, NothingTaken
<1>2. mask \subseteq PCRs /\ tpm.pcrs \in PcrValues
  BY CallersAssumption DEF BootInv, BootTypes, TPMs
<1> DEFINE c == Composite(tpm.pcrs, mask)
<1>3. c \in [mask -> Seq(Seq(Nat))] /\ \A p \in mask : c[p] = tpm.pcrs[p]
  BY <1>2, CompositeIs
<1> HIDE DEF c
<1>4. quote'.pcr_select = mask /\ quote'.composite = c /\ quote'.nonce = 1
  BY <1>1 DEF c
<1>5. QuoteShows'
  BY <1>1, <1>2, <1>3, <1>4 DEF QuoteShows
<1>6. ~NothingTaken'
  BY <1>4 DEF NothingTaken, NoQuote
<1>7. BlobHolds'
  BY <1>1 DEF BootInv, TakenHold, BlobHolds
<1>8. QuoteOutgrown'
  BY <1>1 DEF BootInv, TakenHold, NothingTaken, QuoteOutgrown, tpm_quote
<1> QED
  BY <1>1, <1>5, <1>6, <1>7, <1>8 DEF BootInv, BootTypes, TakenHold, Explains

LEMMA SealBlobInv ==
  ASSUME BootInv, NEW mask \in Masks, tpm_seal(mask)
  PROVE  BootInv'
<1>1. /\ blob' = [mask |-> mask, composite |-> Composite(tpm.pcrs, mask), key |-> tpm.storage_root_key]
      /\ UNCHANGED <<config, chain, tpm, log, quote, unlogged, touched, quoted, lives>>
      /\ quote = NoQuote /\ touched = {}
  BY DEF tpm_seal, NothingTaken, BootInv, TakenHold
<1>2. mask \subseteq PCRs /\ mask # {} /\ tpm.pcrs \in PcrValues /\ tpm.storage_root_key \in Nat
      /\ tpm.storage_root_key <= lives
  BY CallersAssumption DEF BootInv, BootTypes, TPMs
<1> DEFINE c == Composite(tpm.pcrs, mask)
<1>3. c \in [mask -> Seq(Seq(Nat))] /\ \A p \in mask : c[p] = tpm.pcrs[p]
  BY <1>2, CompositeIs
<1> HIDE DEF c
<1>4. blob'.mask = mask /\ blob'.composite = c /\ blob'.key = tpm.storage_root_key
  BY <1>1 DEF c
<1>5. QuoteShows'
  BY <1>1 DEF QuoteShows
<1>6. ~NothingTaken'
  <2>1. NoBlob.key = -1
    BY DEF NoBlob
  <2>2. blob' # NoBlob
    BY <1>2, <1>4, <2>1
  <2> QED
    BY <2>2 DEF NothingTaken
<1>7. BlobHolds'
  BY <1>1, <1>2, <1>3, <1>4 DEF BlobHolds
<1>8. QuoteOutgrown'
  BY <1>1 DEF BootInv, TakenHold, QuoteOutgrown
<1> QED
  BY <1>1, <1>5, <1>6, <1>7, <1>8 DEF BootInv, BootTypes, TakenHold, Explains

\* Every operation of the boot chain and the TPM keeps the invariant.
LEMMA BootNextInv ==
  ASSUME BootInv, BootNext
  PROVE  BootInv'
  BY SbInitInv, ExecuteChainInv, ClearInv, ConfigureInv, VerifyImageInv, RevokeInv, SbMeasureInv,
     TpmExtendInv, QuoteInv, SealBlobInv DEF BootNext

LEMMA BootInvSuffices ==
  ASSUME BootInv
  PROVE  LogExplainsRegisters /\ BootHonoursPolicy
<1>1. BootHonoursPolicy
  BY BootHonours DEF BootInv
<1>2. ASSUME ~unlogged
      PROVE  /\ \A p \in PCRs : IsPrefix(Replayed[p], tpm.pcrs[p])
             /\ Len(log) < MAX_EVENTS =>
                   /\ Replayed = tpm.pcrs
                   /\ quote # NoQuote /\ quoted = lives =>
                         (quote_verify(quote, Replayed, quote.pcr_select, quote.nonce)
                             <=> quote.pcr_select \cap touched = {})
  <2>1. Explains(tpm, log)
    BY <1>2 DEF BootInv
  <2>2. ASSUME quote # NoQuote, quoted = lives
        PROVE  quote_verify(quote, tpm.pcrs, quote.pcr_select, quote.nonce)
                  <=> quote.pcr_select \cap touched = {}
    <3>1. /\ quote.pcr_select \subseteq PCRs
          /\ quote.composite \in [quote.pcr_select -> Seq(Seq(Nat))]
          /\ \A p \in quote.pcr_select \ touched : quote.composite[p] = tpm.pcrs[p]
          /\ \A p \in quote.pcr_select \cap touched : Len(tpm.pcrs[p]) > Len(quote.composite[p])
      BY <1>2, <2>2 DEF BootInv, TakenHold, QuoteShows, QuoteOutgrown
    <3>2. tpm.pcrs \in PcrValues
      BY DEF BootInv, BootTypes, TPMs
    <3>3. quote_verify(quote, tpm.pcrs, quote.pcr_select, quote.nonce)
             <=> quote.composite = Composite(tpm.pcrs, quote.pcr_select)
      BY <2>2 DEF quote_verify
    <3>4. CASE quote.pcr_select \cap touched = {}
      BY <3>1, <3>3, <3>4 DEF Composite
    <3>5. CASE quote.pcr_select \cap touched # {}
      <4>1. PICK p \in quote.pcr_select : p \in touched
        BY <3>5
      <4>2. /\ Len(tpm.pcrs[p]) > Len(quote.composite[p])
            /\ Len(quote.composite[p]) \in Nat /\ Len(tpm.pcrs[p]) \in Nat
        BY <3>1, <3>2, <4>1 DEF PcrValues
      <4>3. Composite(tpm.pcrs, quote.pcr_select)[p] = tpm.pcrs[p]
        BY <3>1, <3>2, CompositeIs
      <4>4. quote.composite # Composite(tpm.pcrs, quote.pcr_select)
        BY <4>2, <4>3
      <4> QED
        BY <3>3, <3>5, <4>4
    <3> QED
      BY <3>4, <3>5
  <2> QED
    BY <2>1, <2>2, Zenon DEF Explains, Replayed
<1>3. ASSUME blob.key > 0
      PROVE  Unseals(tpm, blob) <=> blob.mask \cap touched = {}
  <2>1. /\ blob.mask \subseteq PCRs /\ blob.mask # {}
        /\ blob.composite \in [blob.mask -> Seq(Seq(Nat))]
        /\ tpm.storage_root_key # blob.key => PCRs \subseteq touched
        /\ tpm.storage_root_key = blob.key =>
              \A p \in blob.mask :
                 IF p \in touched THEN Len(tpm.pcrs[p]) > Len(blob.composite[p])
                 ELSE tpm.pcrs[p] = blob.composite[p]
    BY <1>3 DEF BootInv, TakenHold, BlobHolds
  <2>2. blob # NoBlob
    BY <1>3 DEF NoBlob
  <2>3. tpm.pcrs \in PcrValues
    BY DEF BootInv, BootTypes, TPMs
  <2>4. CASE tpm.storage_root_key # blob.key
    BY <2>1, <2>4 DEF Unseals
  <2>5. CASE tpm.storage_root_key = blob.key /\ blob.mask \cap touched = {}
    <3>1. blob.composite = Composite(tpm.pcrs, blob.mask)
      BY <2>1, <2>5 DEF Composite
    <3> QED
      BY <2>2, <2>5, <3>1 DEF Unseals
  <2>6. CASE tpm.storage_root_key = blob.key /\ blob.mask \cap touched # {}
    <3>1. PICK p \in blob.mask : p \in touched
      BY <2>6
    <3>2. Len(tpm.pcrs[p]) > Len(blob.composite[p]) /\ Len(blob.composite[p]) \in Nat /\ Len(tpm.pcrs[p]) \in Nat
      BY <2>1, <2>3, <2>6, <3>1 DEF PcrValues
    <3>3. Composite(tpm.pcrs, blob.mask)[p] = tpm.pcrs[p]
      BY <2>1, <2>3, CompositeIs
    <3>4. blob.composite # Composite(tpm.pcrs, blob.mask)
      BY <3>2, <3>3
    <3> QED
      BY <2>6, <3>4 DEF Unseals
  <2> QED
    BY <2>4, <2>5, <2>6
<1> QED
  BY <1>1, <1>2, <1>3 DEF LogExplainsRegisters

\* The log explains the registers up to its limit, a quote and a blob are good exactly
\* while their registers have not changed, and a boot obeys its policy: for every chain of
\* images, length of log, set of registers and configuration.
THEOREM BootCorrect == DevSpec => []BootMeasured
<1>1. DevInit => BootInv
  BY BootInitInv DEF DevInit
<1>2. BootInv /\ [DevNext]_<<part, gte_vars, ws_vars, card_vars, rate_vars, boot_vars, tee_vars>>
        => BootInv'
  <2> SUFFICES ASSUME BootInv,
                      [DevNext]_<<part, gte_vars, ws_vars, card_vars, rate_vars, boot_vars, tee_vars>>
               PROVE  BootInv'
    OBVIOUS
  <2>1. ASSUME UNCHANGED boot_vars
        PROVE  BootInv'
    <3>1. BootTypes'
      BY <2>1 DEF boot_vars, BootInv, BootTypes
    <3> QED
      BY <2>1, <3>1, BootStays DEF boot_vars
  <2>2. CASE UNCHANGED <<part, gte_vars, ws_vars, card_vars, rate_vars, boot_vars, tee_vars>>
    BY <2>1, <2>2
  <2>3. CASE DevNext
    <3>1. CASE part = "boot"
      BY <2>3, <3>1, BootNextInv DEF DevNext
    <3>2. CASE part # "boot"
      BY <2>1, <2>3, <3>2 DEF DevNext, Idle
    <3> QED
      BY <3>1, <3>2
  <2> QED
    BY <2>2, <2>3
<1>3. BootInv => BootMeasured
  BY BootInvSuffices DEF BootMeasured
<1> QED
  BY <1>1, <1>2, <1>3, PTL DEF DevSpec
--------------------------------------------------------------------------------
(* The warp schedulers. *)

WarpScheduler ==
  [policy : WarpSchedPolicy, active_warp_ids : Seq(Warps), ready_queue : Seq(Warps), head : Nat]

\* No warp was enqueued twice with q.
Once(q) == \A i, j \in 1 .. Len(q.active_warp_ids) : q.active_warp_ids[i] = q.active_warp_ids[j] => i = j

\* From h on, the queue u holds a warp once; only warps of a are in it, and none that sleeps.
QueuedFrom(a, u, h, sleeping) ==
  /\ \A i, j \in 1 .. Len(u) : h < i /\ h < j /\ u[i] = u[j] => i = j
  /\ \A i \in 1 .. Len(u) : \E j \in 1 .. Len(a) : u[i] = a[j]
  /\ \A i \in 1 .. Len(u) : h < i => u[i] \notin sleeping

QueueKept(q, sleeping) == Once(q) => QueuedFrom(q.active_warp_ids, q.ready_queue, q.head, sleeping)

\* The places of the queue that hold w.
LEMMA ReadyIs ==
  ASSUME NEW q \in WarpScheduler, NEW w
  PROVE  /\ InQueue(q, w) = {i \in 1 .. Len(q.ready_queue) : q.head < i /\ q.ready_queue[i] = w}
         /\ IsReady(q, w) <=> \E i \in 1 .. Len(q.ready_queue) : q.head < i /\ q.ready_queue[i] = w
<1>1. q.head \in Nat /\ Len(q.ready_queue) \in Nat
  BY DEF WarpScheduler
<1>2. q.head + 1 .. Len(q.ready_queue) = {i \in 1 .. Len(q.ready_queue) : q.head < i}
  BY <1>1
<1>3. InQueue(q, w) = {i \in 1 .. Len(q.ready_queue) : q.head < i /\ q.ready_queue[i] = w}
  BY <1>2 DEF InQueue
<1> QED
  BY <1>3 DEF IsReady

LEMMA EnqueueKeeps ==
  ASSUME NEW q \in WarpScheduler, NEW sleeping, QueueKept(q, sleeping), NEW w \in Warps
  PROVE  LET r == [q EXCEPT !.ready_queue = Append(@, w), !.active_warp_ids = Append(@, w)]
         IN  r \in WarpScheduler /\ QueueKept(r, sleeping \ {w})
<1> DEFINE r == [q EXCEPT !.ready_queue = Append(@, w), !.active_warp_ids = Append(@, w)]
           a == q.active_warp_ids
           u == q.ready_queue
<1>1. a \in Seq(Warps) /\ u \in Seq(Warps) /\ q.head \in Nat
  BY DEF WarpScheduler
<1>2. r \in WarpScheduler /\ r.active_warp_ids = Append(a, w) /\ r.ready_queue = Append(u, w) /\ r.head = q.head
  <2>1. Append(a, w) \in Seq(Warps) /\ Append(u, w) \in Seq(Warps)
    BY <1>1, AppendProperties
  <2> QED
    BY <2>1 DEF WarpScheduler
<1> HIDE DEF r
<1>3. /\ Len(Append(a, w)) = Len(a) + 1 /\ \A i \in 1 .. Len(a) : Append(a, w)[i] = a[i]
      /\ Append(a, w)[Len(a) + 1] = w
      /\ Len(Append(u, w)) = Len(u) + 1 /\ \A i \in 1 .. Len(u) : Append(u, w)[i] = u[i]
      /\ Append(u, w)[Len(u) + 1] = w
      /\ Len(a) \in Nat /\ Len(u) \in Nat
  BY <1>1, AppendProperties, LenProperties
<1>4. QueueKept(r, sleeping \ {w})
  <2> SUFFICES ASSUME Once(r)
               PROVE  QueuedFrom(Append(a, w), Append(u, w), q.head, sleeping \ {w})
    BY <1>2 DEF QueueKept
  <2>1. \A i, j \in 1 .. Len(a) + 1 : Append(a, w)[i] = Append(a, w)[j] => i = j
    BY <1>2, <1>3 DEF Once
  <2>2. Once(q) /\ \A i \in 1 .. Len(a) : a[i] # w
    <3>1. ASSUME NEW i \in 1 .. Len(a), NEW j \in 1 .. Len(a), a[i] = a[j]
          PROVE  i = j
      <4>1. i \in 1 .. Len(a) + 1 /\ j \in 1 .. Len(a) + 1 /\ Append(a, w)[i] = a[i] /\ Append(a, w)[j] = a[j]
        BY <1>3
      <4> HIDE DEF a
      <4> QED
        BY <2>1, <3>1, <4>1, Zenon
    <3>2. ASSUME NEW i \in 1 .. Len(a)
          PROVE  a[i] # w
      <4>1. /\ i \in 1 .. Len(a) + 1 /\ Append(a, w)[i] = a[i] /\ i # Len(a) + 1
            /\ Len(a) + 1 \in 1 .. Len(a) + 1
        BY <1>3
      <4> HIDE DEF a
      <4> QED
        BY <1>3, <2>1, <4>1, Zenon
    <3> QED
      BY <3>1, <3>2 DEF Once
  <2>3. /\ \A i, j \in 1 .. Len(u) : q.head < i /\ q.head < j /\ u[i] = u[j] => i = j
        /\ \A i \in 1 .. Len(u) : \E j \in 1 .. Len(a) : u[i] = a[j]
        /\ \A i \in 1 .. Len(u) : q.head < i => u[i] \notin sleeping
    BY <2>2 DEF QueueKept, QueuedFrom
  <2>4. \A i \in 1 .. Len(u) : u[i] # w
    BY <2>2, <2>3
  <2> HIDE DEF a, u
  <2>5. \A i \in 1 .. Len(u) + 1 : i \in 1 .. Len(u) \/ i = Len(u) + 1
    BY <1>3
  <2>6. ASSUME NEW i \in 1 .. Len(u) + 1, NEW j \in 1 .. Len(u) + 1, q.head < i, q.head < j,
               Append(u, w)[i] = Append(u, w)[j]
        PROVE  i = j
    BY <1>3, <2>3, <2>4, <2>5, <2>6
  <2>7. ASSUME NEW i \in 1 .. Len(u) + 1
        PROVE  \E j \in 1 .. Len(a) + 1 : Append(u, w)[i] = Append(a, w)[j]
    <3>1. CASE i = Len(u) + 1
      BY <1>3, <3>1
    <3>2. CASE i \in 1 .. Len(u)
      <4>1. PICK j \in 1 .. Len(a) : u[i] = a[j]
        BY <2>3, <3>2
      <4>2. j \in 1 .. Len(a) + 1 /\ Append(u, w)[i] = Append(a, w)[j]
        BY <1>3, <3>2, <4>1
      <4> QED
        BY <4>2
    <3> QED
      BY <2>5, <3>1, <3>2
  <2>8. ASSUME NEW i \in 1 .. Len(u) + 1, q.head < i
        PROVE  Append(u, w)[i] \notin sleeping \ {w}
    BY <1>3, <2>3, <2>5, <2>8
  <2> QED
    BY <1>3, <2>6, <2>7, <2>8 DEF QueuedFrom
<1> QED
  BY <1>2, <1>4 DEF r

LEMMA StallKeeps ==
  ASSUME NEW q \in WarpScheduler, NEW sleeping, QueueKept(q, sleeping), NEW w
  PROVE  LET r == [q EXCEPT !.ready_queue = Without(q, w)]
         IN  /\ r \in WarpScheduler /\ r.active_warp_ids = q.active_warp_ids /\ r.policy = q.policy
             /\ QueueKept(r, sleeping \cup {w})
<1> DEFINE r == [q EXCEPT !.ready_queue = Without(q, w)]
           a == q.active_warp_ids
           u == q.ready_queue
           v == Without(q, w)
<1>1. a \in Seq(Warps) /\ u \in Seq(Warps) /\ q.head \in Nat /\ Len(u) \in Nat /\ Len(a) \in Nat
  BY DEF WarpScheduler
<1>2. CASE ~IsReady(q, w)
  <2>1. v = u
    BY <1>2 DEF Without
  <2>2. r = q
    BY <2>1 DEF WarpScheduler
  <2>3. \A i \in 1 .. Len(u) : q.head < i => u[i] # w
    BY <1>2, ReadyIs
  <2>4. QueueKept(q, sleeping \cup {w})
    BY <2>3 DEF QueueKept, QueuedFrom
  <2> QED
    BY <2>2, <2>4
<1>3. CASE IsReady(q, w)
  <2> DEFINE I == InQueue(q, w)
             k == CHOOSE i \in I : \A j \in I : i <= j
  <2>1. I # {} /\ I = {i \in 1 .. Len(u) : q.head < i /\ u[i] = w}
    BY <1>3, ReadyIs DEF IsReady
  <2>2. k \in I
    <3>1. I \in SUBSET Nat
      BY <1>1, <2>1
    <3> HIDE DEF I
    <3>2. PICK i \in I : \A j \in I : i <= j
      BY <2>1, <3>1, LeastNatural
    <3> QED
      BY <3>2
  <2>3. v = SubSeq(u, 1, k - 1) \o SubSeq(u, k + 1, Len(u))
    BY <1>3, Zenon DEF Without, RemoveAt
  <2>4. k \in 1 .. Len(u) /\ q.head < k /\ u[k] = w
    BY <2>1, <2>2
  <2> HIDE DEF k, I
  <2>5. /\ v \in Seq(Warps) /\ Len(v) = Len(u) - 1
        /\ \A i \in 1 .. Len(u) - 1 : v[i] = IF i < k THEN u[i] ELSE u[i + 1]
    <3> HIDE DEF u
    <3> DEFINE f == SubSeq(u, 1, k - 1)
               g == SubSeq(u, k + 1, Len(u))
    <3>1. f \in Seq(Warps) /\ Len(f) = k - 1 /\ \A i \in 1 .. k - 1 : f[i] = u[i]
      BY <1>1, <2>4
    <3>2. g \in Seq(Warps) /\ Len(g) = Len(u) - k /\ \A i \in 1 .. Len(u) - k : g[i] = u[k + i]
      BY <1>1, <2>4
    <3> HIDE DEF f, g, v
    <3>3. v = f \o g
      BY <2>3 DEF f, g
    <3>4. v \in Seq(Warps) /\ Len(v) = Len(f) + Len(g)
          /\ \A i \in 1 .. Len(f) + Len(g) : v[i] = IF i <= Len(f) THEN f[i] ELSE g[i - Len(f)]
      BY <3>1, <3>2, <3>3, ConcatProperties
    <3>5. Len(v) = Len(u) - 1
      BY <1>1, <2>4, <3>1, <3>2, <3>4
    <3>6. ASSUME NEW i \in 1 .. Len(u) - 1
          PROVE  v[i] = IF i < k THEN u[i] ELSE u[i + 1]
      <4>1. CASE i < k
        <5>1. i \in 1 .. k - 1 /\ i \in 1 .. Len(f) + Len(g) /\ i <= Len(f)
          BY <1>1, <2>4, <3>1, <3>2, <4>1
        <5>2. v[i] = f[i]
          BY <3>4, <5>1
        <5> QED
          BY <3>1, <4>1, <5>1, <5>2
      <4>2. CASE i >= k
        <5>1. i - (k - 1) \in 1 .. Len(u) - k /\ k + (i - (k - 1)) = i + 1
          BY <1>1, <2>4, <4>2
        <5>2. v[i] = g[i - Len(f)]
          <6>1. i \in 1 .. Len(f) + Len(g) /\ ~(i <= Len(f))
            BY <1>1, <2>4, <3>1, <3>2, <4>2
          <6> QED
            BY <3>4, <6>1
        <5> QED
          BY <2>4, <3>1, <3>2, <4>2, <5>1, <5>2
      <4> QED
        BY <2>4, <4>1, <4>2
    <3> QED
      BY <3>4, <3>5, <3>6
  <2>6. r \in WarpScheduler /\ r.active_warp_ids = a /\ r.ready_queue = v /\ r.head = q.head /\ r.policy = q.policy
    BY <2>5 DEF WarpScheduler
  <2> HIDE DEF r, v
  <2>7. QueueKept(r, sleeping \cup {w})
    <3> SUFFICES ASSUME Once(q)
                 PROVE  QueuedFrom(a, v, q.head, sleeping \cup {w})
      BY <2>6 DEF QueueKept, Once
    <3>1. /\ \A i, j \in 1 .. Len(u) : q.head < i /\ q.head < j /\ u[i] = u[j] => i = j
          /\ \A i \in 1 .. Len(u) : \E j \in 1 .. Len(a) : u[i] = a[j]
          /\ \A i \in 1 .. Len(u) : q.head < i => u[i] \notin sleeping
      BY DEF QueueKept, QueuedFrom
    <3> HIDE DEF a, u
    <3> DEFINE Old(i) == IF i < k THEN i ELSE i + 1
    <3>2. \A i \in 1 .. Len(u) - 1 : /\ Old(i) \in 1 .. Len(u) /\ Old(i) # k /\ v[i] = u[Old(i)]
                                     /\ q.head < i => q.head < Old(i)
      BY <1>1, <2>4, <2>5
    <3>3. \A i, j \in 1 .. Len(u) - 1 : Old(i) = Old(j) => i = j
      BY <1>1, <2>4
    <3> HIDE DEF Old
    <3>4. ASSUME NEW i \in 1 .. Len(u) - 1, NEW j \in 1 .. Len(u) - 1, q.head < i, q.head < j, v[i] = v[j]
          PROVE  i = j
      BY <3>1, <3>2, <3>3, <3>4
    <3>5. ASSUME NEW i \in 1 .. Len(u) - 1
          PROVE  \E j \in 1 .. Len(a) : v[i] = a[j]
      BY <3>1, <3>2
    <3>6. ASSUME NEW i \in 1 .. Len(u) - 1, q.head < i
          PROVE  v[i] \notin sleeping \cup {w}
      BY <2>4, <3>1, <3>2, <3>6
    <3> QED
      BY <2>5, <3>4, <3>5, <3>6 DEF QueuedFrom
  <2> QED
    BY <2>6, <2>7 DEF r
<1> QED
  BY <1>2, <1>3

LEMMA WakeKeeps ==
  ASSUME NEW q \in WarpScheduler, NEW sleeping, QueueKept(q, sleeping), NEW w \in ToSet(q.active_warp_ids)
  PROVE  LET r == IF IsReady(q, w) THEN q ELSE [q EXCEPT !.ready_queue = Append(@, w)]
         IN  /\ r \in WarpScheduler /\ r.active_warp_ids = q.active_warp_ids /\ r.policy = q.policy
             /\ QueueKept(r, sleeping \ {w})
<1> DEFINE a == q.active_warp_ids
           u == q.ready_queue
<1>1. /\ a \in Seq(Warps) /\ u \in Seq(Warps) /\ q.head \in Nat /\ Len(u) \in Nat /\ Len(a) \in Nat
      /\ w \in Warps /\ \E j \in 1 .. Len(a) : w = a[j]
  BY DEF WarpScheduler, ToSet
<1>2. CASE IsReady(q, w)
  BY <1>2 DEF QueueKept, QueuedFrom
<1>3. CASE ~IsReady(q, w)
  <2> DEFINE r == [q EXCEPT !.ready_queue = Append(@, w)]
  <2>1. \A i \in 1 .. Len(u) : q.head < i => u[i] # w
    BY <1>3, ReadyIs
  <2>2. /\ Append(u, w) \in Seq(Warps)
        /\ Len(Append(u, w)) = Len(u) + 1 /\ \A i \in 1 .. Len(u) : Append(u, w)[i] = u[i]
        /\ Append(u, w)[Len(u) + 1] = w
    BY <1>1, AppendProperties
  <2>3. r \in WarpScheduler /\ r.active_warp_ids = a /\ r.ready_queue = Append(u, w) /\ r.head = q.head /\ r.policy = q.policy
    BY <2>2 DEF WarpScheduler
  <2> HIDE DEF r
  <2>4. QueueKept(r, sleeping \ {w})
    <3> SUFFICES ASSUME Once(q)
                 PROVE  QueuedFrom(a, Append(u, w), q.head, sleeping \ {w})
      BY <2>3 DEF QueueKept, Once
    <3>1. /\ \A i, j \in 1 .. Len(u) : q.head < i /\ q.head < j /\ u[i] = u[j] => i = j
          /\ \A i \in 1 .. Len(u) : \E j \in 1 .. Len(a) : u[i] = a[j]
          /\ \A i \in 1 .. Len(u) : q.head < i => u[i] \notin sleeping
      BY DEF QueueKept, QueuedFrom
    <3> HIDE DEF a, u
    <3>2. \A i \in 1 .. Len(u) + 1 : i \in 1 .. Len(u) \/ i = Len(u) + 1
      BY <1>1
    <3>3. ASSUME NEW i \in 1 .. Len(u) + 1, NEW j \in 1 .. Len(u) + 1, q.head < i, q.head < j,
                 Append(u, w)[i] = Append(u, w)[j]
          PROVE  i = j
      BY <2>1, <2>2, <3>1, <3>2, <3>3
    <3>4. ASSUME NEW i \in 1 .. Len(u) + 1
          PROVE  \E j \in 1 .. Len(a) : Append(u, w)[i] = a[j]
      BY <1>1, <2>2, <3>1, <3>2
    <3>5. ASSUME NEW i \in 1 .. Len(u) + 1, q.head < i
          PROVE  Append(u, w)[i] \notin sleeping \ {w}
      BY <2>2, <3>1, <3>2, <3>5
    <3> QED
      BY <2>2, <3>3, <3>4, <3>5 DEF QueuedFrom
  <2> QED
    BY <1>3, <2>3, <2>4 DEF r
<1> QED
  BY <1>2, <1>3

LEMMA DequeueKeeps ==
  ASSUME NEW q \in WarpScheduler, NEW sleeping, QueueKept(q, sleeping)
  PROVE  LET r == [q EXCEPT !.head = @ + 1]
         IN  /\ r \in WarpScheduler /\ r.active_warp_ids = q.active_warp_ids /\ r.policy = q.policy
             /\ QueueKept(r, sleeping)
<1> DEFINE r == [q EXCEPT !.head = @ + 1]
<1>1. /\ r \in WarpScheduler /\ r.active_warp_ids = q.active_warp_ids /\ r.policy = q.policy
      /\ r.ready_queue = q.ready_queue /\ r.head = q.head + 1 /\ q.head \in Nat
  BY DEF WarpScheduler
<1> HIDE DEF r
<1> DEFINE h == q.head
<1>2. \A i \in 1 .. Len(q.ready_queue) : h + 1 < i => h < i
  BY <1>1
<1>3. QueueKept(r, sleeping)
  <2> SUFFICES ASSUME Once(q)
               PROVE  QueuedFrom(q.active_warp_ids, q.ready_queue, h + 1, sleeping)
    BY <1>1 DEF QueueKept, Once
  <2>1. QueuedFrom(q.active_warp_ids, q.ready_queue, h, sleeping)
    BY DEF QueueKept
  <2> HIDE DEF h
  <2> QED
    BY <1>2, <2>1, Zenon DEF QueuedFrom
<1> QED
  BY <1>1, <1>3 DEF r

\* What the greedy choice takes is ready and, if no warp was enqueued twice, taken once.
LEMMA PicksAre ==
  ASSUME NEW q \in WarpScheduler, NEW max \in Nat
  PROVE  LET out == GreedyPicks(q, max)
         IN  /\ out \in Seq(Warps)
             /\ \A i \in 1 .. Len(out) : IsReady(q, out[i])
             /\ Once(q) => \A i, j \in 1 .. Len(out) : out[i] = out[j] => i = j
<1> DEFINE a == q.active_warp_ids
           n == Len(a)
           S == Seq(Warps)
           Next(k, s) == IF Len(s) < max /\ IsReady(q, a[k]) THEN Append(s, a[k]) ELSE s
           f == [k \in Nat |-> [s \in S |-> IF k \in 1 .. n THEN Next(k, s) ELSE s]]
           Is(picks) == picks = [k \in 0 .. n |-> IF k = 0 THEN <<>> ELSE Next(k, picks[k - 1])]
           g == CHOOSE picks : Is(picks)
<1>1. n \in Nat /\ \A k \in 1 .. n : a[k] \in Warps
  BY ElementOfSeq DEF WarpScheduler
<1>2. GreedyPicks(q, max) = g[n]
  BY Zenon DEF GreedyPicks
<1> HIDE DEF a, n
<1>3. \A k \in 1 .. n, s \in S : Next(k, s) \in S
  BY <1>1, AppendProperties
<1> HIDE DEF Next
<1>4. f \in [Nat -> [S -> S]] /\ <<>> \in S
  BY <1>3
<1>5. \A k \in 1 .. n, s \in S : f[k][s] = Next(k, s)
  BY <1>1
<1> HIDE DEF f, S
<1>6. PICK rec : rec \in [0 .. n -> S] /\ rec[0] = <<>> /\ \A k \in 1 .. n : rec[k] = f[k][rec[k - 1]]
  <2>1. Stepper(S, f)
    BY <1>4 DEF Stepper
  <2>2. \E rec : Loop(S, <<>>, f, n, rec)
    BY <1>1, <1>4, <2>1, LoopExists, Zenon
  <2> QED
    BY <2>2 DEF Loop
<1>7. \A k \in 1 .. n : rec[k] = Next(k, rec[k - 1])
  BY <1>1, <1>5, <1>6
<1>8. Is(rec)
  <2>1. \A k \in 0 .. n : rec[k] = IF k = 0 THEN <<>> ELSE Next(k, rec[k - 1])
    BY <1>1, <1>6, <1>7
  <2> QED
    BY <1>6, <2>1
<1>9. Is(g)
  BY <1>8
<1> HIDE DEF g
<1>10. g[0] = <<>> /\ \A k \in 1 .. n : g[k] = Next(k, g[k - 1])
  BY <1>1, <1>9
<1> HIDE DEF Is
<1> DEFINE Good(k, s) == /\ s \in S
                         /\ \A i \in 1 .. Len(s) : IsReady(q, s[i]) /\ \E j \in 1 .. k : s[i] = a[j]
                         /\ Once(q) => \A i, j \in 1 .. Len(s) : s[i] = s[j] => i = j
           P == {k \in 0 .. n : Good(k, g[k])}
<1>11. 0 \in P
  <2>1. Good(0, <<>>)
    BY <1>4
  <2> QED
    BY <1>1, <1>10, <2>1
<1>12. ASSUME NEW k \in 1 .. n, k - 1 \in P
       PROVE  k \in P
  <2>0. k \in 0 .. n
    BY <1>1
  <2> DEFINE s == g[k - 1]
             t == g[k]
  <2>1. Good(k - 1, s) /\ t = Next(k, s) /\ a[k] \in Warps
    BY <1>1, <1>10, <1>12
  <2> HIDE DEF s, t
  <2>2. CASE Len(s) < max /\ IsReady(q, a[k])
    <3>1. t = Append(s, a[k])
      BY <2>1, <2>2 DEF Next
    <3>2. /\ s \in Seq(Warps) /\ Len(s) \in Nat
          /\ \A i \in 1 .. Len(s) : IsReady(q, s[i]) /\ \E j \in 1 .. k - 1 : s[i] = a[j]
          /\ Once(q) => \A i, j \in 1 .. Len(s) : s[i] = s[j] => i = j
      BY <2>1, LenProperties DEF S
    <3>3. /\ t \in S /\ Len(t) = Len(s) + 1 /\ t[Len(s) + 1] = a[k]
          /\ \A i \in 1 .. Len(s) : t[i] = s[i]
      BY <2>1, <3>1, <3>2, AppendProperties DEF S
    <3>4. \A i \in 1 .. Len(t) : i \in 1 .. Len(s) \/ i = Len(s) + 1
      BY <3>2, <3>3
    <3>5. \A j \in 1 .. k - 1 : j \in 1 .. k /\ j \in 1 .. n /\ j # k
      BY <1>1
    <3>6. ASSUME NEW i \in 1 .. Len(t)
          PROVE  IsReady(q, t[i]) /\ \E j \in 1 .. k : t[i] = a[j]
      BY <1>1, <2>2, <3>2, <3>3, <3>4, <3>5
    <3>7. ASSUME Once(q)
          PROVE  \A i, j \in 1 .. Len(t) : t[i] = t[j] => i = j
      <4>1. \A i \in 1 .. Len(s) : s[i] # a[k]
        BY <1>1, <3>2, <3>5, <3>7 DEF Once, a, n
      <4> QED
        BY <3>2, <3>3, <3>4, <3>7, <4>1
    <3>8. Good(k, t)
      BY <3>3, <3>6, <3>7
    <3> HIDE DEF Good
    <3> QED
      BY <2>0, <3>8 DEF t
  <2>3. CASE ~(Len(s) < max /\ IsReady(q, a[k]))
    <3>1. t = s
      BY <2>1, <2>3 DEF Next
    <3>2. \A j \in 1 .. k - 1 : j \in 1 .. k
      BY <1>1
    <3>3. /\ s \in S
          /\ \A i \in 1 .. Len(s) : IsReady(q, s[i]) /\ \E j \in 1 .. k - 1 : s[i] = a[j]
          /\ Once(q) => \A i, j \in 1 .. Len(s) : s[i] = s[j] => i = j
      BY <2>1
    <3>4. Good(k, s)
      BY <3>2, <3>3
    <3> HIDE DEF Good
    <3> QED
      BY <2>0, <3>1, <3>4 DEF t
  <2> QED
    BY <2>2, <2>3
<1> HIDE DEF P
<1>13. n \in P
  <2>1. \A k \in 1 .. n : k - 1 \in P => k \in P
    BY <1>12
  <2>2. \A k \in 0 .. n : k \in P
    BY <1>1, <1>11, <2>1, RoundsKeep
  <2> QED
    BY <1>1, <2>2
<1> QED
  BY <1>2, <1>13 DEF P, S

\* A list without repetitions holds as many elements as it is long.
LEMMA AsManyAsLong ==
  ASSUME NEW S, NEW s \in Seq(S), \A i, j \in 1 .. Len(s) : s[i] = s[j] => i = j
  PROVE  Cardinality(ToSet(s)) = Len(s)
<1> DEFINE n == Len(s)
           T == ToSet(s)
<1>1. n \in Nat /\ s \in [1 .. n -> S] /\ DOMAIN s = 1 .. n
  BY LenProperties
<1>2. T = {s[i] : i \in 1 .. n}
  BY <1>1 DEF ToSet
<1> HIDE DEF n, T
<1>3. s \in [1 .. n -> T]
  BY <1>1, <1>2
<1>4. s \in Injection(1 .. n, T)
  BY <1>1, <1>3 DEF n, Injection, IsInjective
<1>5. s \in Surjection(1 .. n, T)
  BY <1>2, <1>3 DEF Surjection
<1>6. ExistsBijection(1 .. n, T)
  BY <1>4, <1>5 DEF ExistsBijection, Bijection
<1> QED
  BY <1>1, <1>6, FS_CountingElements DEF n, T

\* How far place i of a list of n warps is ahead of the index c.
Ahead(n, c, i) == IF i >= c THEN i - c ELSE i - c + n

LEMMA AheadIs ==
  ASSUME NEW n \in Nat \ {0}, NEW c \in 0 .. n - 1, NEW i \in 0 .. n - 1
  PROVE  Ahead(n, c, i) \in 0 .. n - 1 /\ (c + Ahead(n, c, i)) % n = i
<1>1. CASE i >= c
  BY <1>1 DEF Ahead
<1>2. CASE i < c
  <2>1. Ahead(n, c, i) = i - c + n /\ c + Ahead(n, c, i) = i + n
    BY <1>2 DEF Ahead
  <2>2. (i + n) % n = i
    OBVIOUS
  <2> QED
    BY <1>2, <2>1, <2>2
<1> QED
  BY <1>1, <1>2

\* The index moved by k: what lay further ahead is k nearer.
LEMMA AheadMoves ==
  ASSUME NEW n \in Nat \ {0}, NEW c \in 0 .. n - 1, NEW i \in 0 .. n - 1, NEW k \in 1 .. n
  PROVE  LET d == (c + k) % n
         IN  /\ d \in 0 .. n - 1
             /\ Ahead(n, c, i) >= k => Ahead(n, d, i) = Ahead(n, c, i) - k
<1> DEFINE x == c + k
           d == x % n
<1>1. x \in 0 .. 2 * n - 1
  OBVIOUS
<1> HIDE DEF x
<1>2. d = IF x < n THEN x ELSE x - n
  BY <1>1, Remainder
<1> HIDE DEF d
<1>3. d \in 0 .. n - 1
  BY <1>1, <1>2
<1>4. Ahead(n, c, i) >= k => Ahead(n, d, i) = Ahead(n, c, i) - k
  BY <1>2 DEF x, Ahead
<1> QED
  BY <1>3, <1>4 DEF d, x

\* A warp has been overdue for as long as it takes for the index to come to it, or less.
Rotating(list, c, late) ==
  /\ c < Len(list)
  /\ \A i \in 1 .. Len(list) : late[list[i]] + Ahead(Len(list), c, i - 1) < Len(list)

LEMMA RotatingEnqueue ==
  ASSUME NEW list \in Seq(Warps), NEW c \in Nat, NEW late \in [Warps -> Nat], Rotating(list, c, late),
         NEW w \in Warps
  PROVE  Rotating(Append(list, w), c, [late EXCEPT ![w] = 0])
<1> DEFINE longer == Append(list, w)
           new    == [late EXCEPT ![w] = 0]
           n      == Len(list)
<1>1. /\ n \in Nat /\ Len(longer) = n + 1 /\ longer[n + 1] = w
      /\ \A i \in 1 .. n : longer[i] = list[i] /\ list[i] \in Warps
  BY AppendProperties, LenProperties, ElementOfSeq
<1>2. new[w] = 0 /\ \A v \in Warps : new[v] \in Nat /\ late[v] \in Nat /\ new[v] <= late[v]
  OBVIOUS
<1>3. c < n /\ \A i \in 1 .. n : late[list[i]] + Ahead(n, c, i - 1) < n
  BY DEF Rotating
<1> HIDE DEF longer, new, n
<1>4. ASSUME NEW i \in 1 .. n + 1
      PROVE  new[longer[i]] + Ahead(n + 1, c, i - 1) < n + 1
  <2>1. CASE i = n + 1
    BY <1>1, <1>2, <1>3, <2>1 DEF Ahead
  <2>2. CASE i # n + 1
    <3>1. i \in 1 .. n
      BY <1>1, <2>2
    <3> DEFINE v == list[i]
    <3>2. v \in Warps /\ longer[i] = v /\ late[v] + Ahead(n, c, i - 1) < n
      BY <1>1, <1>3, <3>1
    <3>3. new[v] \in Nat /\ late[v] \in Nat /\ new[v] <= late[v]
      BY <1>2, <3>2
    <3> HIDE DEF v
    <3>4. Ahead(n + 1, c, i - 1) <= Ahead(n, c, i - 1) + 1 /\ Ahead(n, c, i - 1) \in Int /\ Ahead(n + 1, c, i - 1) \in Int
      BY <1>1 DEF Ahead
    <3> QED
      BY <1>1, <3>2, <3>3, <3>4
  <2> QED
    BY <2>1, <2>2
<1>5. c < n + 1
  BY <1>1, <1>3
<1> QED
  BY <1>1, <1>4, <1>5 DEF Rotating, longer, new

\* What a cycle of the rotation takes: the places less than Len(out) ahead of the index.
LEMMA RotationTakes ==
  ASSUME NEW q \in WarpScheduler, NEW max \in Nat \ {0}, rr_idx \in Nat, rr_idx < Len(q.active_warp_ids)
  PROVE  LET a   == q.active_warp_ids
             n   == Len(a)
             out == Take(Rotated(q), max)
         IN  /\ Len(out) \in 1 .. n
             /\ \A i \in 1 .. n : Ahead(n, rr_idx, i - 1) < Len(out) => a[i] \in ToSet(out)
<1> DEFINE a   == q.active_warp_ids
           n   == Len(a)
           all == Rotated(q)
           k   == IF n < max THEN n ELSE max
           out == Take(all, max)
<1>1. n \in Nat \ {0} /\ rr_idx \in 0 .. n - 1 /\ \A i \in 1 .. n : a[i] \in Warps
  BY ElementOfSeq, LenProperties DEF WarpScheduler
<1>2. all = [i \in 1 .. n |-> a[((rr_idx + i - 1) % n) + 1]]
  BY DEF Rotated
<1> HIDE DEF a, n
<1>3. \A i \in 1 .. n : ((rr_idx + i - 1) % n) + 1 \in 1 .. n
  BY <1>1
<1>4. all \in Seq(Warps) /\ Len(all) = n
  <2>1. all \in [1 .. n -> Warps]
    BY <1>1, <1>2, <1>3
  <2> HIDE DEF all
  <2> QED
    BY <1>1, <2>1
<1> HIDE DEF all
<1>5. k \in 1 .. n /\ out = SubSeq(all, 1, k)
  BY <1>1, <1>4 DEF Take
<1> HIDE DEF k, out
<1>6. out \in Seq(Warps) /\ Len(out) = k /\ \A i \in 1 .. k : out[i] = all[i]
  BY <1>1, <1>4, <1>5
<1>7. ASSUME NEW i \in 1 .. n, Ahead(n, rr_idx, i - 1) < k
      PROVE  a[i] \in ToSet(out)
  <2> DEFINE d == Ahead(n, rr_idx, i - 1)
             j == d + 1
  <2>1. i - 1 \in 0 .. n - 1
    BY <1>1
  <2>2. d \in 0 .. n - 1 /\ (rr_idx + d) % n = i - 1
    BY <1>1, <2>1, AheadIs
  <2>3. d < k
    BY <1>7
  <2> HIDE DEF d
  <2>4. j \in 1 .. k /\ j \in 1 .. n /\ rr_idx + j - 1 = rr_idx + d
    BY <1>1, <1>5, <2>2, <2>3
  <2>5. all[j] = a[i]
    <3>1. all[j] = a[((rr_idx + j - 1) % n) + 1]
      BY <1>2, <2>4
    <3>2. ((rr_idx + j - 1) % n) + 1 = i
      BY <1>1, <2>2, <2>4
    <3> QED
      BY <3>1, <3>2
  <2> HIDE DEF j
  <2>6. DOMAIN out = 1 .. k
    BY <1>6
  <2> QED
    BY <1>6, <2>4, <2>5, <2>6 DEF ToSet
<1> QED
  BY <1>5, <1>6, <1>7 DEF a, n, out, all

LEMMA RotatingCycle ==
  ASSUME NEW q \in WarpScheduler, NEW max \in Nat \ {0}, rr_idx \in Nat,
         NEW late \in [Warps -> Nat], Rotating(q.active_warp_ids, rr_idx, late),
         NEW new \in [Warps -> Nat],
         \A w \in Warps : new[w] <= late[w] + 1,
         \A w \in ToSet(Take(Rotated(q), max)) : w \in Warps => new[w] = 0
  PROVE  Rotating(q.active_warp_ids, (rr_idx + Len(Take(Rotated(q), max))) % Len(q.active_warp_ids), new)
<1> DEFINE a   == q.active_warp_ids
           n   == Len(a)
           out == Take(Rotated(q), max)
           k   == Len(out)
           d   == (rr_idx + k) % n
<1>1. n \in Nat \ {0} /\ rr_idx \in 0 .. n - 1 /\ \A i \in 1 .. n : a[i] \in Warps
  BY ElementOfSeq, LenProperties DEF WarpScheduler, Rotating
<1>2. k \in 1 .. n /\ \A i \in 1 .. n : Ahead(n, rr_idx, i - 1) < k => a[i] \in ToSet(out)
  <2>1. rr_idx < Len(q.active_warp_ids)
    BY DEF Rotating
  <2> QED
    BY <2>1, RotationTakes
<1>3. \A i \in 1 .. n : late[a[i]] + Ahead(n, rr_idx, i - 1) < n
  BY DEF Rotating
<1> HIDE DEF a, n, out, k
<1>4. d \in 0 .. n - 1
  BY <1>1, <1>2
<1>5. ASSUME NEW i \in 1 .. n
      PROVE  new[a[i]] + Ahead(n, d, i - 1) < n
  <2> DEFINE v == a[i]
  <2>1. v \in Warps /\ new[v] \in Nat /\ late[v] \in Nat /\ new[v] <= late[v] + 1 /\ i - 1 \in 0 .. n - 1
    BY <1>1
  <2>2. late[v] + Ahead(n, rr_idx, i - 1) < n
    BY <1>3
  <2>3. Ahead(n, rr_idx, i - 1) < k => new[v] = 0
    BY <1>2, <2>1 DEF out
  <2>4. Ahead(n, rr_idx, i - 1) >= k => Ahead(n, d, i - 1) = Ahead(n, rr_idx, i - 1) - k
    BY <1>1, <1>2, <2>1, AheadMoves
  <2> HIDE DEF v, d
  <2>5. Ahead(n, d, i - 1) \in 0 .. n - 1 /\ Ahead(n, rr_idx, i - 1) \in 0 .. n - 1
    BY <1>1, <1>4, <2>1, AheadIs
  <2>6. new[v] + Ahead(n, d, i - 1) < n
    BY <1>1, <1>2, <2>1, <2>2, <2>3, <2>4, <2>5
  <2> QED
    BY <2>6 DEF v
<1> HIDE DEF d
<1>6. Rotating(a, d, new)
  BY <1>4, <1>5 DEF Rotating, n
<1> QED
  BY <1>6 DEF a, d, n, k, out

WsTypes ==
  /\ ws \in [Schedulers -> WarpScheduler]
  /\ rr_idx \in Nat
  /\ overdue \in [Schedulers -> [Warps -> Nat]]
  /\ asleep \in [Schedulers -> SUBSET Warps]

RotationInv ==
  /\ rotating = {} => rr_idx = 0 /\ \A s \in Schedulers, w \in Warps : overdue[s][w] = 0
  /\ \A s \in Schedulers : rotating = {s} => Rotating(ws[s].active_warp_ids, rr_idx, overdue[s])

WsInv ==
  /\ WsTypes
  /\ \A s \in Schedulers : QueueKept(ws[s], asleep[s])
  /\ RotationInv

LEMMA WsInitInv == WsInit => WsInv
<1> SUFFICES ASSUME WsInit PROVE WsInv
  OBVIOUS
<1>1. PICK p \in [Schedulers -> WarpSchedPolicy] :
        ws = [s \in Schedulers |-> [policy |-> p[s], active_warp_ids |-> <<>>, ready_queue |-> <<>>, head |-> 0]]
  BY DEF WsInit
<1>2. /\ rr_idx = 0 /\ asleep = [s \in Schedulers |-> {}] /\ rotating = {}
      /\ overdue = [s \in Schedulers |-> [w \in Warps |-> 0]]
  BY DEF WsInit
<1>3. <<>> \in Seq(Warps) /\ Len(<<>>) = 0
  BY EmptySeq
<1>4. WsTypes
  BY <1>1, <1>2, <1>3 DEF WsTypes, WarpScheduler
<1>5. ASSUME NEW s \in Schedulers
      PROVE  QueueKept(ws[s], asleep[s])
  <2>1. Len(ws[s].ready_queue) = 0
    BY <1>1, <1>3
  <2>2. \A i \in 1 .. Len(ws[s].ready_queue) : FALSE
    BY <2>1
  <2> QED
    BY <2>2 DEF QueueKept, QueuedFrom
<1>6. RotationInv
  BY <1>2 DEF RotationInv
<1> QED
  BY <1>4, <1>5, <1>6 DEF WsInv

\* One scheduler changed, its list stayed, and the rotation did not move.
LEMMA OneQueueInv ==
  ASSUME WsInv, NEW s \in Schedulers, NEW q \in WarpScheduler, NEW Z \in SUBSET Warps,
         q.active_warp_ids = ws[s].active_warp_ids, QueueKept(q, Z),
         ws' = [ws EXCEPT ![s] = q], asleep' = [asleep EXCEPT ![s] = Z],
         UNCHANGED <<rr_idx, overdue, rotating>>
  PROVE  WsInv'
<1>1. WsTypes'
  BY DEF WsInv, WsTypes
<1>2. \A r \in Schedulers : /\ ws'[r] = IF r = s THEN q ELSE ws[r]
                            /\ asleep'[r] = IF r = s THEN Z ELSE asleep[r]
  BY DEF WsInv, WsTypes
<1>3. \A r \in Schedulers : QueueKept(ws'[r], asleep'[r])
  BY <1>2 DEF WsInv
<1>4. \A r \in Schedulers : ws'[r].active_warp_ids = ws[r].active_warp_ids
  BY <1>2
<1>5. RotationInv'
  BY <1>4 DEF WsInv, RotationInv
<1> QED
  BY <1>1, <1>3, <1>5 DEF WsInv

LEMMA EnqueueWarpInv ==
  ASSUME WsInv, NEW s \in Schedulers, NEW w \in Warps, ws_enqueue_warp(s, w)
  PROVE  WsInv'
<1> DEFINE q == ws[s]
           r == [q EXCEPT !.ready_queue = Append(@, w), !.active_warp_ids = Append(@, w)]
           Z == asleep[s] \ {w}
           L == [overdue[s] EXCEPT ![w] = 0]
<1>1. /\ q \in WarpScheduler /\ QueueKept(q, asleep[s]) /\ rr_idx \in Nat
      /\ overdue[s] \in [Warps -> Nat] /\ asleep[s] \in SUBSET Warps
  BY DEF WsInv, WsTypes
<1>2. r \in WarpScheduler /\ QueueKept(r, Z)
  BY <1>1, EnqueueKeeps
<1>3. r.active_warp_ids = Append(q.active_warp_ids, w) /\ q.active_warp_ids \in Seq(Warps)
  BY <1>1 DEF WarpScheduler
<1>4. /\ ws' = [ws EXCEPT ![s] = r] /\ asleep' = [asleep EXCEPT ![s] = Z]
      /\ overdue' = [overdue EXCEPT ![s] = L] /\ rr_idx' = rr_idx /\ rotating' = rotating
  BY DEF ws_enqueue_warp
<1>5. L \in [Warps -> Nat] /\ \A v \in Warps : L[v] = 0 \/ L[v] = overdue[s][v]
  BY <1>1
<1>6. /\ rotating = {} => rr_idx = 0 /\ \A t \in Schedulers, v \in Warps : overdue[t][v] = 0
      /\ \A t \in Schedulers : rotating = {t} => Rotating(ws[t].active_warp_ids, rr_idx, overdue[t])
  BY DEF WsInv, RotationInv
<1>7. rotating = {s} => Rotating(r.active_warp_ids, rr_idx, L)
  <2>1. ASSUME rotating = {s}
        PROVE  Rotating(q.active_warp_ids, rr_idx, overdue[s])
    BY <1>6, <2>1
  <2> HIDE DEF q, r, L
  <2> QED
    BY <1>1, <1>3, <2>1, RotatingEnqueue DEF L
<1> HIDE DEF r, Z, L
<1>8. \A t \in Schedulers : /\ ws'[t] = IF t = s THEN r ELSE ws[t]
                            /\ asleep'[t] = IF t = s THEN Z ELSE asleep[t]
                            /\ overdue'[t] = IF t = s THEN L ELSE overdue[t]
  BY <1>4 DEF WsInv, WsTypes
<1>9. WsTypes'
  <2>1. Z \in SUBSET Warps
    BY <1>1 DEF Z
  <2> QED
    BY <1>2, <1>4, <1>5, <2>1 DEF WsInv, WsTypes
<1>10. \A t \in Schedulers : QueueKept(ws'[t], asleep'[t])
  BY <1>2, <1>8 DEF WsInv
<1>11. RotationInv'
  <2>1. rotating' = {} => rr_idx' = 0 /\ \A t \in Schedulers, v \in Warps : overdue'[t][v] = 0
    BY <1>4, <1>5, <1>6, <1>8
  <2>2. \A t \in Schedulers : rotating' = {t} => Rotating(ws'[t].active_warp_ids, rr_idx', overdue'[t])
    BY <1>4, <1>6, <1>7, <1>8
  <2> QED
    BY <2>1, <2>2 DEF RotationInv
<1> QED
  BY <1>9, <1>10, <1>11 DEF WsInv

LEMMA ScheduleCycleInv ==
  ASSUME WsInv, NEW s \in Schedulers, NEW max \in Nat \ {0}, ws_schedule_cycle(s, max)
  PROVE  WsInv'
<1> DEFINE q == ws[s]
           a == q.active_warp_ids
           out == Issued(q, max)
<1>1. /\ q \in WarpScheduler /\ rr_idx \in Nat /\ overdue[s] \in [Warps -> Nat]
      /\ a \in Seq(Warps) /\ Len(a) \in Nat /\ \A i \in 1 .. Len(a) : a[i] \in Warps
  BY ElementOfSeq DEF WsInv, WsTypes, WarpScheduler
<1>2. ws' = ws /\ asleep' = asleep
  BY DEF ws_schedule_cycle
<1>3. CASE q.policy # "LRR"
  <2>1. UNCHANGED <<ws, asleep, rr_idx, overdue, rotating>>
    BY <1>2, <1>3, Zenon DEF ws_schedule_cycle
  <2> QED
    BY <2>1 DEF WsInv, WsTypes, RotationInv
<1>4. CASE q.policy = "LRR"
  <2> DEFINE old == overdue[s]
             new == [w \in Warps |->
                       IF w \in ToSet(out) \/ w \notin ToSet(a) THEN 0
                       ELSE IF old[w] < QUEUE_ENTRIES THEN old[w] + 1 ELSE old[w]]
             d == (rr_idx + Len(out)) % Len(a)
  <2>1. /\ Len(a) > 0 /\ rr_idx' = d /\ rotating' = rotating \cup {s}
        /\ overdue' = [overdue EXCEPT ![s] = new]
    BY <1>4, Zenon DEF ws_schedule_cycle
  <2>2. out = Take(Rotated(q), max)
    BY <1>4 DEF Issued
  <2>3. new \in [Warps -> Nat] /\ \A w \in Warps : new[w] <= old[w] + 1
    BY <1>1, WsAssumption
  <2>4. \A w \in ToSet(out) : w \in Warps => new[w] = 0
    OBVIOUS
  <2>5. d \in Nat
    <3>1. Len(out) \in Nat
      <4>1. Rotated(q) \in Seq(Warps)
        <5>1. \A i \in 1 .. Len(a) : ((rr_idx + i - 1) % Len(a)) + 1 \in 1 .. Len(a)
          <6> DEFINE n == Len(a)
          <6>1. n \in Nat \ {0}
            BY <1>1, <2>1
          <6> HIDE DEF n, a, q
          <6>2. \A i \in 1 .. n : ((rr_idx + i - 1) % n) + 1 \in 1 .. n
            BY <1>1, <6>1
          <6> QED
            BY <6>2 DEF n
        <5>2. Rotated(q) \in [1 .. Len(a) -> Warps]
          BY <1>1, <5>1 DEF Rotated
        <5> QED
          BY <1>1, <5>2
      <4> QED
        BY <2>2, <4>1 DEF Take
    <3> HIDE DEF out
    <3> QED
      BY <1>1, <2>1, <3>1
  <2> HIDE DEF new, d
  <2>6. ASSUME rotating' = {s}
        PROVE  Rotating(a, d, new)
    <3>1. rotating = {} \/ rotating = {s}
      BY <2>1, <2>6
    <3>2. Rotating(a, rr_idx, old)
      <4>1. CASE rotating = {s}
        BY <4>1 DEF WsInv, RotationInv
      <4>2. CASE rotating = {}
        <5>1. rr_idx = 0 /\ \A w \in Warps : old[w] = 0
          BY <4>2 DEF WsInv, RotationInv
        <5>2. \A i \in 1 .. Len(a) : old[a[i]] = 0
          BY <1>1, <5>1
        <5> HIDE DEF old, a
        <5> QED
          BY <1>1, <2>1, <5>1, <5>2 DEF Rotating, Ahead
      <4> QED
        BY <3>1, <4>1, <4>2
    <3>3. \A w \in ToSet(Take(Rotated(q), max)) : w \in Warps => new[w] = 0
      BY <2>2, <2>4
    <3> HIDE DEF q, out, old
    <3> QED
      BY <1>1, <2>2, <2>3, <3>2, <3>3, RotatingCycle DEF d, old
  <2>7. \A t \in Schedulers : overdue'[t] = IF t = s THEN new ELSE overdue[t]
    BY <2>1 DEF WsInv, WsTypes
  <2>8. WsTypes'
    BY <1>2, <2>1, <2>3, <2>5 DEF WsInv, WsTypes
  <2>9. RotationInv'
    <3>1. rotating' # {} /\ \A t \in Schedulers : rotating' = {t} => t = s
      BY <2>1
    <3> QED
      BY <1>2, <2>1, <2>6, <2>7, <3>1 DEF RotationInv
  <2> QED
    BY <1>2, <2>8, <2>9 DEF WsInv
<1> QED
  BY <1>3, <1>4

LEMMA WsNextInv == WsInv /\ (WsNext \/ UNCHANGED ws_vars) => WsInv'
<1> SUFFICES ASSUME WsInv, WsNext \/ UNCHANGED ws_vars PROVE WsInv'
  OBVIOUS
<1>1. CASE UNCHANGED ws_vars
  BY <1>1 DEF ws_vars, WsInv, WsTypes, RotationInv
<1>2. CASE WsNext
  <2>1. PICK s \in Schedulers :
          \/ \E w \in Warps : ws_enqueue_warp(s, w)
          \/ \E w \in ToSet(ws[s].active_warp_ids) : ws_warp_stalled(s, w) \/ ws_warp_ready(s, w)
          \/ ws_dequeue_warp(s)
          \/ \E max \in 1 .. QUEUE_ENTRIES : ws_schedule_cycle(s, max)
    BY <1>2 DEF WsNext
  <2> DEFINE q == ws[s]
  <2>2. /\ q \in WarpScheduler /\ QueueKept(q, asleep[s]) /\ asleep[s] \in SUBSET Warps
        /\ \A w \in ToSet(q.active_warp_ids) : w \in Warps
        /\ ws \in [Schedulers -> WarpScheduler] /\ asleep \in [Schedulers -> SUBSET Warps]
    <3>1. q \in WarpScheduler
      BY DEF WsInv, WsTypes
    <3>2. \A w \in ToSet(q.active_warp_ids) : w \in Warps
      BY <3>1, ElementOfSeq DEF WarpScheduler, ToSet
    <3> QED
      BY <3>1, <3>2 DEF WsInv, WsTypes
  <2>3. CASE \E w \in Warps : ws_enqueue_warp(s, w)
    BY <2>3, EnqueueWarpInv
  <2>4. ASSUME NEW w \in ToSet(q.active_warp_ids), ws_warp_stalled(s, w)
        PROVE  WsInv'
    <3> DEFINE r == [q EXCEPT !.ready_queue = Without(q, w)]
    <3>1. r \in WarpScheduler /\ r.active_warp_ids = q.active_warp_ids /\ QueueKept(r, asleep[s] \cup {w})
      BY <2>2, StallKeeps
    <3>2. /\ ws' = [ws EXCEPT ![s] = r] /\ asleep' = [asleep EXCEPT ![s] = asleep[s] \cup {w}]
          /\ UNCHANGED <<rr_idx, overdue, rotating>>
      BY <2>4 DEF ws_warp_stalled
    <3> HIDE DEF r
    <3>3. asleep[s] \cup {w} \in SUBSET Warps
      BY <2>2
    <3> QED
      BY <3>1, <3>2, <3>3, OneQueueInv
  <2>5. ASSUME NEW w \in ToSet(q.active_warp_ids), ws_warp_ready(s, w)
        PROVE  WsInv'
    <3> DEFINE r == IF IsReady(q, w) THEN q ELSE [q EXCEPT !.ready_queue = Append(@, w)]
    <3>1. r \in WarpScheduler /\ r.active_warp_ids = q.active_warp_ids /\ QueueKept(r, asleep[s] \ {w})
      BY <2>2, WakeKeeps
    <3>2. /\ ws' = IF IsReady(q, w) THEN ws ELSE [ws EXCEPT ![s].ready_queue = Append(@, w)]
          /\ asleep' = [asleep EXCEPT ![s] = asleep[s] \ {w}]
          /\ UNCHANGED <<rr_idx, overdue, rotating>>
      BY <2>5 DEF ws_warp_ready
    <3>3. ws' = [ws EXCEPT ![s] = r]
      BY <2>2, <3>2
    <3> HIDE DEF r
    <3>4. asleep[s] \ {w} \in SUBSET Warps
      BY <2>2
    <3> QED
      BY <3>1, <3>2, <3>3, <3>4, OneQueueInv
  <2>6. ASSUME ws_dequeue_warp(s)
        PROVE  WsInv'
    <3> DEFINE r == [q EXCEPT !.head = @ + 1]
    <3>1. r \in WarpScheduler /\ r.active_warp_ids = q.active_warp_ids /\ QueueKept(r, asleep[s])
      BY <2>2, DequeueKeeps
    <3>2. ws' = [ws EXCEPT ![s] = r] /\ asleep' = asleep /\ UNCHANGED <<rr_idx, overdue, rotating>>
      BY <2>6 DEF ws_dequeue_warp
    <3>3. asleep' = [asleep EXCEPT ![s] = asleep[s]]
      BY <2>2, <3>2
    <3> HIDE DEF r
    <3> QED
      BY <2>2, <3>1, <3>2, <3>3, OneQueueInv
  <2>7. ASSUME NEW max \in 1 .. QUEUE_ENTRIES, ws_schedule_cycle(s, max)
        PROVE  WsInv'
    <3>1. max \in Nat \ {0}
      BY WsAssumption
    <3> QED
      BY <2>7, <3>1, ScheduleCycleInv
  <2> QED
    BY <2>1, <2>3, <2>4, <2>5, <2>6, <2>7
<1> QED
  BY <1>1, <1>2

LEMMA WsInvSuffices == WsInv => WarpsSound
<1> SUFFICES ASSUME WsInv PROVE WarpsSound
  OBVIOUS
<1>1. GreedyIssuesAwake
  <2> SUFFICES ASSUME NEW s \in Schedulers, EnqueuedOnce(s)
               PROVE  /\ \A w \in Warps : Cardinality(InQueue(ws[s], w)) <= 1
                      /\ ws[s].policy = "GTO" =>
                           \A max \in 1 .. QUEUE_ENTRIES :
                             LET out == Issued(ws[s], max)
                             IN  ToSet(out) \cap asleep[s] = {} /\ Cardinality(ToSet(out)) = Len(out)
    BY DEF GreedyIssuesAwake
  <2> DEFINE q == ws[s]
             n == Len(q.ready_queue)
  <2>1. q \in WarpScheduler /\ q.active_warp_ids \in Seq(Warps)
    BY DEF WsInv, WsTypes, WarpScheduler
  <2>2. Once(q)
    <3>1. DOMAIN q.active_warp_ids = 1 .. Len(q.active_warp_ids)
      BY <2>1, LenProperties
    <3> QED
      BY <3>1 DEF EnqueuedOnce, Once
  <2>3. /\ \A i, j \in 1 .. n : q.head < i /\ q.head < j /\ q.ready_queue[i] = q.ready_queue[j] => i = j
        /\ \A i \in 1 .. n : q.head < i => q.ready_queue[i] \notin asleep[s]
    BY <2>2 DEF WsInv, QueueKept, QueuedFrom
  <2> HIDE DEF q, n
  <2>4. ASSUME NEW w \in Warps
        PROVE  Cardinality(InQueue(q, w)) <= 1
    <3> DEFINE I == InQueue(q, w)
    <3>1. \A i, j \in I : i = j
      BY <2>1, <2>3, ReadyIs DEF n
    <3> HIDE DEF I
    <3>2. CASE I = {}
      BY <3>2, FS_EmptySet DEF I
    <3>3. CASE I # {}
      <4>1. PICK i \in I : I = {i}
        BY <3>1, <3>3
      <4>2. Cardinality(I) = 1
        BY <4>1, FS_Singleton
      <4> QED
        BY <4>2 DEF I
    <3> QED
      BY <3>2, <3>3
  <2>5. ASSUME q.policy = "GTO", NEW max \in 1 .. QUEUE_ENTRIES
        PROVE  LET out == Issued(q, max)
               IN  ToSet(out) \cap asleep[s] = {} /\ Cardinality(ToSet(out)) = Len(out)
    <3> DEFINE out == Issued(q, max)
    <3>1. out = GreedyPicks(q, max) /\ max \in Nat
      BY <2>5, WsAssumption DEF Issued
    <3> HIDE DEF out
    <3>2. /\ out \in Seq(Warps)
          /\ \A i \in 1 .. Len(out) : IsReady(q, out[i])
          /\ \A i, j \in 1 .. Len(out) : out[i] = out[j] => i = j
      BY <2>1, <2>2, <3>1, PicksAre
    <3>3. \A w : IsReady(q, w) => w \notin asleep[s]
      BY <2>1, <2>3, ReadyIs DEF n
    <3>4. ToSet(out) \cap asleep[s] = {}
      <4>1. DOMAIN out = 1 .. Len(out)
        BY <3>2, LenProperties
      <4> QED
        BY <3>2, <3>3, <4>1 DEF ToSet
    <3>5. Cardinality(ToSet(out)) = Len(out)
      BY <3>2, AsManyAsLong
    <3> QED
      BY <3>4, <3>5 DEF out
  <2> QED
    BY <2>4, <2>5 DEF q
<1>2. RotationReachesAll
  <2> SUFFICES ASSUME NEW s \in Schedulers, rotating = {s}, NEW w \in ToSet(ws[s].active_warp_ids)
               PROVE  overdue[s][w] < Len(ws[s].active_warp_ids)
    BY DEF RotationReachesAll
  <2> DEFINE a == ws[s].active_warp_ids
             n == Len(a)
  <2>1. /\ a \in Seq(Warps) /\ n \in Nat /\ DOMAIN a = 1 .. n
        /\ rr_idx \in Nat /\ overdue[s] \in [Warps -> Nat]
    BY LenProperties DEF WsInv, WsTypes, WarpScheduler
  <2>2. Rotating(a, rr_idx, overdue[s])
    BY DEF WsInv, RotationInv
  <2>3. PICK i \in 1 .. n : w = a[i]
    BY <2>1 DEF ToSet
  <2>4. rr_idx < n /\ overdue[s][w] + Ahead(n, rr_idx, i - 1) < n /\ w \in Warps
    BY <2>1, <2>2, <2>3, ElementOfSeq DEF Rotating
  <2> HIDE DEF a, n
  <2>5. Ahead(n, rr_idx, i - 1) \in Nat /\ overdue[s][w] \in Nat
    BY <2>1, <2>3, <2>4 DEF Ahead
  <2> QED
    BY <2>1, <2>4, <2>5 DEF a, n
<1> QED
  BY <1>1, <1>2 DEF WarpsSound

\* For every number of schedulers, warps and entries: while no warp was enqueued twice the queue
\* holds a warp once and the greedy policy issues none that sleeps; and while one scheduler alone
\* rotates, each of its warps is issued within as many cycles as it has warps (thread_sched.c).
THEOREM WarpsCorrect == DevSpec => []WarpsSound
<1>1. DevInit => WsInv
  BY WsInitInv DEF DevInit
<1>2. WsInv /\ [DevNext]_<<part, gte_vars, ws_vars, card_vars, rate_vars, boot_vars, tee_vars>> => WsInv'
  <2> SUFFICES ASSUME WsInv, [DevNext]_<<part, gte_vars, ws_vars, card_vars, rate_vars, boot_vars, tee_vars>>
               PROVE  WsInv'
    OBVIOUS
  <2>1. CASE UNCHANGED <<part, gte_vars, ws_vars, card_vars, rate_vars, boot_vars, tee_vars>>
    BY <2>1, WsNextInv
  <2>2. CASE DevNext
    <3>1. CASE part = "warps"
      BY <2>2, <3>1, WsNextInv DEF DevNext
    <3>2. CASE part # "warps"
      BY <2>2, <3>2, WsNextInv DEF DevNext, Idle
    <3> QED
      BY <3>1, <3>2
  <2> QED
    BY <2>1, <2>2
<1>3. WsInv => WarpsSound
  BY WsInvSuffices
<1> QED
  BY <1>1, <1>2, <1>3, PTL DEF DevSpec
================================================================================
