------------------------------ MODULE MeasuredBoot ------------------------------
(***************************************************************************)
(* Measured boot of mini-hardware-security (src/secure_boot.c): the boot   *)
(* chain, the simulated TPM with its registers (PCRs), and the event log.  *)
(*                                                                         *)
(* Hashing is symbolic and free of collisions: a digest is a sequence, and *)
(* a register is the sequence of the digests it was extended with, the     *)
(* empty one after tpm_init.  A key is the number of the TPM's life, 0 when*)
(* cleared.  Image i of the chain is measured into PCR i (i + 4 in the     *)
(* code).  Left out: names, timestamps, certificates, and the bytes of a   *)
(* sealed blob beyond what decides whether it opens.                       *)
(***************************************************************************)
EXTENDS Integers, Sequences, FiniteSets, SequencesExt

CONSTANTS
    STAGES,         \* chain->stage_count, at most 6
    PCRs,           \* registers, the ones of the stages among them
    MAX_EVENTS,     \* MINI_HWSEC_MAX_EVENTS, 256
    Keys,           \* key ids of signers; one trust anchor exists for each
    BootPolicy,     \* NONE, VERIFY, ENFORCE, MEASURE: the code tells only ENFORCE apart
    Chains,         \* the chains of images callers present
    Setups,         \* policy, trusted and version a caller configures
    Masks,          \* the selections of registers callers quote and seal
    MaxExtends,     \* bound: digests in all registers together, extensions in the log
    MaxLives        \* bound: tpm_init calls

ASSUME BootAssumption ==
    /\ STAGES \in Nat \ {0} /\ 0 .. STAGES - 1 \subseteq PCRs
    /\ MAX_EVENTS \in Nat /\ MaxExtends \in Nat /\ MaxLives \in Nat

Stages == 0 .. STAGES - 1

BootImage ==
    [hash : Seq(Nat), version : Nat, signer_key_id : Nat, signature_valid : BOOLEAN,
     matches : BOOLEAN]

\* What callers present; a selection of no register binds nothing.
ASSUME CallersAssumption ==
    /\ \A images \in Chains : images \in [Stages -> BootImage]
    /\ \A c \in Setups : c.trusted \subseteq Nat /\ c.version \in Nat
    /\ \A mask \in Masks : mask \subseteq PCRs /\ mask # {}

VARIABLES
    config,       \* policy, trusted (key ids of trusted anchors), min_version per stage
    chain,        \* images, boot_successful, failed_stage; an image has hash, version,
                  \* signer_key_id, signature_valid, and matches: its hash is binary_hash
    revoked,      \* the public keys marked revoked
    tpm,          \* pcrs, storage_root_key, initialized
    log,          \* the events
    quote,        \* the quote last taken: pcr_select, composite, nonce; or NoQuote
    blob,         \* the blob last sealed: mask, composite, key; or NoBlob
    unlogged,     \* history: a register changed, or an event was logged, without the other
    touched,      \* history: registers changed since the quote or the blob was taken
    quoted,       \* history: the TPM's life the quote was taken in, 0 for none
    lives         \* history: tpm_init calls

boot_vars == <<config, chain, revoked, tpm, log, quote, blob, unlogged, touched, quoted, lives>>
--------------------------------------------------------------------------------
sha256(data) == <<0>> \o data

NoQuote == [pcr_select |-> {}, composite |-> <<>>, nonce |-> 0]
NoBlob  == [mask |-> {}, composite |-> <<>>, key |-> -1]

tpm_init(life) == [pcrs |-> [p \in PCRs |-> <<>>], storage_root_key |-> life, initialized |-> TRUE]

tpm_extend(t, p, digest) ==
    IF ~t.initialized \/ p \notin PCRs THEN t ELSE [t EXCEPT !.pcrs[p] = Append(@, digest)]

\* Mutant of event_log_record: a full log makes room by forgetting its first event.
RecordOverwriting(l, type, p, digest, stage) ==
    LET e == [type |-> type, pcr_index |-> p, digest |-> digest, stage_id |-> stage]
    IN  IF Len(l) >= MAX_EVENTS THEN Append(Tail(l), e) ELSE Append(l, e)

\* A full log drops the event.
event_log_record(l, type, p, digest, stage) ==
    IF Len(l) >= MAX_EVENTS THEN l
    ELSE Append(l, [type |-> type, pcr_index |-> p, digest |-> digest, stage_id |-> stage])

\* The events of a type, in their order.
event_log_query(l, type) ==
    LET found[n \in 0 .. Len(l)] ==
            IF n = 0 THEN <<>>
            ELSE IF l[n].type = type THEN Append(found[n - 1], l[n]) ELSE found[n - 1]
    IN  found[Len(l)]

\* Mutant of rollback_detect: the installed version itself counts as a rollback.
RollbackOfEqual(image, current) == image.version <= current

rollback_detect(image, current) == image.version < current

\* The composite hash over the selected registers, in their order.
Composite(pcrs, mask) == [p \in mask |-> pcrs[p]]

quote_verify(q, expected, mask, nonce) ==
    q # NoQuote /\ q.composite = Composite(expected, mask) /\ q.nonce = nonce

Unseals(t, b) ==
    b # NoBlob /\ b.composite = Composite(t.pcrs, b.mask) /\ b.key = t.storage_root_key
--------------------------------------------------------------------------------
(* The boot chain.  A machine m is a TPM, a log and the images. *)

Measure(m, p, data) ==
    [m EXCEPT !.tpm = tpm_extend(@, p, sha256(data)),
              !.log = event_log_record(@, "PCR_EXTEND", p, sha256(data), 0)]

\* A flag set by an earlier verification is believed; else any trusted anchor will do.
Verified(image) == image.signature_valid \/ image.signer_key_id \in config.trusted

Noted(m, i, type) ==
    [m EXCEPT !.log = event_log_record(@, type, i, m.images[i].hash, i)]

Launched(m, i) == Noted(Noted(m, i, "STAGE_VERIFY"), i, "STAGE_LAUNCH")

Failed(m, i, type) == [Noted(m, i, type) EXCEPT !.running = FALSE, !.failed_stage = i]

\* One stage: measured first, then refused or launched.
RunStage(m, i, policy) ==
    LET image == m.images[i]
        done  == Measure(m, i, image.hash)
    IN  IF config.min_version[i] > 0 /\ rollback_detect(image, config.min_version[i])
        THEN Failed(done, i, "SECURITY_ALERT")
        ELSE IF Verified(image)
        THEN Launched([done EXCEPT !.images[i].signature_valid = TRUE], i)
        ELSE IF policy = "ENFORCE"
        THEN Failed(done, i, "STAGE_VERIFY")
        ELSE Launched(Noted(done, i, "STAGE_VERIFY"), i)

Started == [tpm |-> tpm, log |-> log, images |-> chain.images, running |-> TRUE, failed_stage |-> 0]

execute_chain(policy) ==
    LET run[n \in 0 .. STAGES] ==
            IF n = 0 THEN Started
            ELSE IF run[n - 1].running THEN RunStage(run[n - 1], n - 1, policy) ELSE run[n - 1]
    IN  run[STAGES]
--------------------------------------------------------------------------------
Extended(t) == {p \in PCRs : t.pcrs[p] # tpm.pcrs[p]}

\* Bound: one quote or one blob in a behaviour.
NothingTaken == quote = NoQuote /\ blob = NoBlob

Touch(ps) == touched' = IF NothingTaken THEN {} ELSE touched \cup ps

\* Bound: digests in the registers, and extensions in the log.
Room(n) ==
    /\ FoldFunction(LAMBDA s, k : Len(s) + k, n, tpm.pcrs) <= MaxExtends
    /\ Len(event_log_query(log, "PCR_EXTEND")) + n <= MaxExtends

BootInit ==
    /\ config = [policy |-> "ENFORCE", trusted |-> {}, min_version |-> [i \in Stages |-> 0]]
    /\ \E images \in Chains :
          chain = [images |-> images, boot_successful |-> FALSE, failed_stage |-> 0]
    /\ revoked = {}
    /\ tpm = tpm_init(1)
    /\ log = <<>>
    /\ quote = NoQuote /\ blob = NoBlob
    /\ unlogged = FALSE /\ touched = {}
    /\ quoted = 0 /\ lives = 1

sb_init ==
    /\ lives < MaxLives
    /\ config' = [policy |-> "ENFORCE", trusted |-> {}, min_version |-> [i \in Stages |-> 0]]
    /\ tpm' = tpm_init(lives + 1)
    /\ log' = <<>>
    /\ unlogged' = FALSE /\ lives' = lives + 1
    /\ Touch(PCRs)
    /\ UNCHANGED <<chain, revoked, quote, blob, quoted>>

\* The caller fills in the policy, the anchors and the least versions.
Configure(c) ==
    /\ config' = [policy |-> c.policy, trusted |-> c.trusted,
                  min_version |-> [i \in Stages |-> c.version]]
    /\ UNCHANGED <<chain, revoked, tpm, log, quote, blob, unlogged, touched, quoted, lives>>

sb_verify_image(i, key) ==
    /\ chain' = [chain EXCEPT !.images[i] =
                     [@ EXCEPT !.signature_valid = chain.images[i].matches /\ key \notin revoked]]
    /\ UNCHANGED <<config, revoked, tpm, log, quote, blob, unlogged, touched, quoted, lives>>

key_revoke(key) ==
    /\ revoked' = revoked \cup {key}
    /\ UNCHANGED <<config, chain, tpm, log, quote, blob, unlogged, touched, quoted, lives>>

sb_execute_chain ==
    LET m == execute_chain(config.policy)
    IN  /\ Room(STAGES)
        /\ tpm' = m.tpm /\ log' = m.log
        /\ chain' = [images |-> m.images, boot_successful |-> m.running,
                     failed_stage |-> m.failed_stage]
        /\ unlogged' = (unlogged \/ ~tpm.initialized)
        /\ Touch(Extended(m.tpm))
        /\ UNCHANGED <<config, revoked, quote, blob, quoted, lives>>

sb_measure(p, data) ==
    LET m == Measure([tpm |-> tpm, log |-> log], p, data)
    IN  /\ Room(1)
        /\ tpm' = m.tpm /\ log' = m.log
        /\ unlogged' = (unlogged \/ ~tpm.initialized)
        /\ Touch(Extended(m.tpm))
        /\ UNCHANGED <<config, chain, revoked, quote, blob, quoted, lives>>

\* A caller extends a register without the log.
TpmExtend(p, data) ==
    /\ Room(1)
    /\ tpm' = tpm_extend(tpm, p, sha256(data))
    /\ unlogged' = (unlogged \/ tpm.initialized)
    /\ Touch(Extended(tpm'))
    /\ UNCHANGED <<config, chain, revoked, log, quote, blob, quoted, lives>>

tpm_clear ==
    /\ tpm' = [tpm_init(0) EXCEPT !.initialized = FALSE]
    /\ unlogged' = TRUE
    /\ IF tpm' = tpm THEN UNCHANGED touched ELSE Touch(PCRs)
    /\ UNCHANGED <<config, chain, revoked, log, quote, blob, quoted, lives>>

tpm_quote(mask, nonce) ==
    /\ NothingTaken
    /\ quote' = [pcr_select |-> mask, composite |-> Composite(tpm.pcrs, mask), nonce |-> nonce]
    /\ quoted' = lives
    /\ UNCHANGED <<config, chain, revoked, tpm, log, blob, unlogged, touched, lives>>

tpm_seal(mask) ==
    /\ NothingTaken
    /\ blob' = [mask |-> mask, composite |-> Composite(tpm.pcrs, mask),
                key |-> tpm.storage_root_key]
    /\ UNCHANGED <<config, chain, revoked, tpm, log, quote, unlogged, touched, quoted, lives>>

BootNext ==
    \/ sb_init \/ sb_execute_chain \/ tpm_clear
    \/ \E c \in Setups : Configure(c)
    \/ \E i \in Stages, key \in Keys : sb_verify_image(i, key)
    \/ \E key \in Keys : key_revoke(key)
    \/ \E p \in PCRs : sb_measure(p, <<9>>) \/ TpmExtend(p, <<9>>)
    \/ \E mask \in Masks : tpm_quote(mask, 1) \/ tpm_seal(mask)

BootSpec == BootInit /\ [][BootNext]_boot_vars
--------------------------------------------------------------------------------
(* Properties. *)

\* What a verifier computes from a log: only extensions count.
Replay(l) ==
    LET events == event_log_query(l, "PCR_EXTEND")
        pcrs[n \in 0 .. Len(events)] ==
            IF n = 0 THEN [p \in PCRs |-> <<>>]
            ELSE [pcrs[n - 1] EXCEPT ![events[n].pcr_index] = Append(@, events[n].digest)]
    IN  pcrs[Len(events)]

Replayed == Replay(log)

\* As long as every extension goes through sb_measure, the log explains the registers:
\* replaying it gives the start of each register's history, and all of it while the log
\* has room.  A verifier who replays such a log accepts a quote of this life of the TPM
\* exactly if none of the quoted registers was extended since: a stale quote is refused.
\* A sealed blob opens exactly while neither its registers nor the TPM's key have changed
\* (a cleared TPM has no key of its own).
LogExplainsRegisters ==
    /\ ~unlogged =>
          /\ \A p \in PCRs : IsPrefix(Replayed[p], tpm.pcrs[p])
          /\ Len(log) < MAX_EVENTS =>
                /\ Replayed = tpm.pcrs
                /\ quote # NoQuote /\ quoted = lives =>
                      (quote_verify(quote, Replayed, quote.pcr_select, quote.nonce)
                          <=> quote.pcr_select \cap touched = {})
    /\ blob.key > 0 => (Unseals(tpm, blob) <=> blob.mask \cap touched = {})

Acceptable(i) == Verified(chain.images[i]) /\ chain.images[i].version >= config.min_version[i]

\* Under every policy a boot measures a stage before it launches it, launches none past
\* the stage that failed, and leaves later registers alone; an enforced boot succeeds
\* exactly if every stage is signed and recent enough, and names the first that is not.
BootHonoursPolicy ==
    \A policy \in BootPolicy :
        LET m        == execute_chain(policy)
            measured == {i \in Stages : m.tpm.pcrs[i] # tpm.pcrs[i]}
            events   == SubSeq(m.log, Len(log) + 1, Len(m.log))
            launched == {i \in Stages : \E k \in DOMAIN events :
                            events[k].type = "STAGE_LAUNCH" /\ events[k].stage_id = i}
        IN  /\ tpm.initialized => measured = IF m.running THEN Stages ELSE 0 .. m.failed_stage
            /\ ~m.running => launched \subseteq 0 .. m.failed_stage - 1
            /\ m.running /\ Len(m.log) < MAX_EVENTS => launched = Stages
            /\ \A k \in DOMAIN events : events[k].type = "STAGE_LAUNCH" =>
                  \E j \in 1 .. k - 1 : events[j].type = "PCR_EXTEND"
                                        /\ events[j].pcr_index = events[k].pcr_index
            /\ policy = "ENFORCE" =>
                  /\ m.running <=> \A i \in Stages : Acceptable(i)
                  /\ ~m.running => /\ ~Acceptable(m.failed_stage)
                                   /\ \A i \in 0 .. m.failed_stage - 1 : Acceptable(i)
================================================================================
