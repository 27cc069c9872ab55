--------------------------------- MODULE Codes ---------------------------------
(* mini-storage-hardware/src/ecc.c and ldpc.c: the error correcting codes of the   *)
(* controller.  A machine word is the set of its bit positions that are one, so    *)
(* exclusive or is symmetric difference and a field element of GF(2^m) is a        *)
(* subset of 0 .. m - 1.  Probabilities and decibels (ecc.c:342-, ldpc.c:330-339)  *)
(* are left out; min-sum decoding is modelled at scaling factor one, where integer *)
(* reliabilities stay integers, and for shapes whose rows fit cn_connections.       *)
EXTENDS Integers, FiniteSets, Sequences, FiniteSetsExt, SequencesExt, Functions

CONSTANTS
    RS_K,           \* data symbols of a Reed-Solomon word (ecc.c:249)
    RS_T,           \* symbol errors it corrects: 2 * RS_T parity symbols (ecc.c:250)
    RsSymbols,      \* symbols a Reed-Solomon word is made of
    LDPC_MAX_ITER,  \* rounds of the decoder (ldpc.h:23)
    LdpcShape,      \* [N, dv, dc] asked of the construction
    LdpcInfos,      \* information words given to the encoder
    Reliabilities,  \* magnitudes a received bit comes with, one choice per bit modulo 3
    MaxFlips        \* bits the channel inverts

VARIABLE codec      \* the word travelling through one code

Parity(word) == Cardinality(word) % 2

\* The exclusive or of the words f[i], i in I.
XorOver(I, f, width) == {k \in 0 .. width - 1 : Parity({i \in I : k \in f[i]}) = 1}

-----------------------------------------------------------------------------
(* Hamming(7,4): parity at positions 0, 1, 3. *)

HammingSpread == [i \in 0 .. 3 |-> <<2, 4, 5, 6>>[i + 1]]
HammingChecks == <<{2, 4, 6}, {2, 5, 6}, {4, 5, 6}>>
HammingParityAt == <<0, 1, 3>>

ecc_hamming_encode(data) ==
    LET spread == {HammingSpread[i] : i \in data \cap (0 .. 3)}
    IN  spread \cup {HammingParityAt[k] : k \in {j \in 1 .. 3 : Parity(spread \cap HammingChecks[j]) = 1}}

ecc_hamming_introduce_error(codeword, bit_position) ==
    IF bit_position \in 0 .. 6 THEN SymDiff(codeword, {bit_position}) ELSE codeword

ecc_hamming_decode(codeword) ==
    LET Fails(k) == Parity(codeword \cap (HammingChecks[k] \cup {HammingParityAt[k]}))
        error_pos == 4 * Fails(3) + 2 * Fails(2) + Fails(1)
        corrected == IF error_pos > 0 THEN SymDiff(codeword, {error_pos - 1}) ELSE codeword
    IN  {i \in 0 .. 3 : HammingSpread[i] \in corrected}

-----------------------------------------------------------------------------
(* Field arithmetic: shift and add, reducing by the low terms of the polynomial. *)

Doubled(a, width, low) ==
    LET shifted == {i + 1 : i \in a \ {width - 1}}
    IN  IF width - 1 \in a THEN SymDiff(shifted, low) ELSE shifted

Times(a, b, width, low) ==
    LET shifted[i \in 0 .. width - 1] == IF i = 0 THEN a ELSE Doubled(shifted[i - 1], width, low)
    IN  XorOver(b, shifted, width)

gf_mult(a, b) == Times(a, b, 4, {0, 1})
\* A negative exponent runs the loop no time at all.
gf_pow(base, exp) ==
    LET power[n \in Int] == IF n <= 0 THEN {0} ELSE gf_mult(power[n - 1], base) IN power[exp]

\* C's remainder takes the sign of its left operand.
CMod(x, n) == IF x >= 0 THEN x % n ELSE -((-x) % n)

-----------------------------------------------------------------------------
(* BCH(15,7): an eight stage register, and a decoder that looks at one byte. *)

\* Mutant of BchStep: the tap at x^6 is missing.
BchStepNoTap(reg, input) ==
    LET feedback == (7 \in reg) # input
        shifted  == {i + 1 : i \in reg \ {7}}
    IN  IF feedback THEN SymDiff(shifted, {0, 4, 7}) ELSE shifted

ECC_BCH_N == 15
ECC_BCH_K == 7

\* The register after one input bit.
BchStep(reg, input) ==
    LET feedback == (7 \in reg) # input
        shifted  == {i + 1 : i \in reg \ {7}}
    IN  IF feedback THEN SymDiff(shifted, {0, 4, 6, 7}) ELSE shifted

ecc_bch_encode(data) ==
    FoldLeft(LAMBDA reg, i : BchStep(reg, (6 - i) \in data), {}, [i \in 1 .. ECC_BCH_K |-> i - 1])

bch_compute_syndromes(received) ==
    LET At(k) == XorOver(received, [i \in received |-> gf_pow({1}, (i * k) % 15)], 4)
    IN  [s1 |-> At(1), s3 |-> At(3)]

\* Lambda(alpha^-i); from i = 8 on the second exponent is negative.
BchEval(sigma1, sigma2, i) ==
    SymDiff({0}, SymDiff(gf_mult(sigma1, gf_pow({1}, (15 - i) % 15)),
                         gf_mult(sigma2, gf_pow({1}, CMod(15 - 2 * i, 15)))))

ecc_bch_decode(codeword) ==
    LET s      == bch_compute_syndromes(codeword)
        sigma2 == IF s.s1 = {} THEN {}
                  ELSE gf_mult(SymDiff(s.s3, gf_pow(s.s1, 3)), gf_pow(s.s1, 14))
        roots  == {i \in 0 .. ECC_BCH_N - 1 : BchEval(s.s1, sigma2, i) = {}}
        found  == {i \in roots : Cardinality({j \in roots : j < i}) < 2}
    IN  CASE s.s1 = {} /\ s.s3 = {} -> [data |-> codeword, errors |-> 0]
          [] s.s1 # {} /\ s.s3 = {} -> [data |-> codeword, errors |-> 1]
          [] OTHER -> [data |-> SymDiff(codeword, {i \in found : i < 8}), errors |-> Cardinality(found)]

\* The fifteen bits a BCH word stands for: parity below, data from the top down.
BchWord(data) == ecc_bch_encode(data) \cup {8 + i : i \in data}

-----------------------------------------------------------------------------
(* Reed-Solomon over GF(2^8).  A word is a sequence of symbols, parity last. *)

rs_gf_mul(a, b) == Times(a, b, 8, {0, 2, 3, 4})
RsPowers(a) == LET power[n \in Nat] == IF n = 0 THEN {0} ELSE rs_gf_mul(power[n - 1], a) IN power
RsPower(n) == RsPowers({1})[n]

\* gen[j] is the coefficient of x^j: the product of (x - alpha^i) for i = 1 .. 2t.
ecc_rs_generator_poly ==
    FoldLeft(LAMBDA gen, i : [j \in 0 .. 2 * RS_T |->
                 IF j > i THEN gen[j]
                 ELSE SymDiff(IF j = 0 THEN {} ELSE gen[j - 1], rs_gf_mul(gen[j], RsPower(i)))],
             [j \in 0 .. 2 * RS_T |-> IF j = 0 THEN {0} ELSE {}],
             [i \in 1 .. 2 * RS_T |-> i])

\* Division by the generator, the first data symbol being the highest power.
ecc_rs_encode(data) ==
    LET gen == ecc_rs_generator_poly
        Step(rem, d) ==
            LET feedback == SymDiff(d, rem[1])
            IN  [j \in 1 .. 2 * RS_T |->
                    SymDiff(IF j < 2 * RS_T THEN rem[j + 1] ELSE {},
                            rs_gf_mul(feedback, gen[2 * RS_T - j]))]
    IN  FoldLeft(Step, [j \in 1 .. 2 * RS_T |-> {}], data)

\* The first data symbol is the lowest power here.
ecc_rs_syndromes(data, parity) ==
    LET word == data \o parity
        At(a) == LET power == RsPowers(a)
                 IN  XorOver(DOMAIN word, [j \in DOMAIN word |-> rs_gf_mul(word[j], power[j - 1])], 8)
    IN  [i \in 1 .. 2 * RS_T |-> At(RsPower(i))]

-----------------------------------------------------------------------------
(* LDPC: the parity matrix as a set of <<row, column>>, and min-sum decoding. *)

LDPC_DC == 6    \* checks listed per bit
LDPC_DV == 3    \* bits listed per check

\* Parameters out of range are replaced by (24, 2, 4).
LdpcParameters(shape) ==
    IF shape.N < 24 \/ shape.dv < 2 \/ shape.dc < 3 \/ shape.dv >= shape.dc
    THEN [N |-> 24, dv |-> 2, dc |-> 4] ELSE shape

ldpc_gallager_construct(shape) ==
    LET q    == LdpcParameters(shape)
        M    == IF (q.N * q.dv) \div q.dc < 4 THEN 4 ELSE (q.N * q.dv) \div q.dc
        Msub == M \div q.dv
        H    == {<<r * Msub + i, (i * q.dc + k + r * 7) % q.N>> :
                    r \in 0 .. q.dv - 1, i \in 0 .. Msub - 1, k \in 0 .. q.dc - 1}
        First(S, n) == {x \in S : Cardinality({y \in S : y < x}) < n}
    IN  [N |-> q.N, M |-> M, K |-> q.N - M, dv |-> q.dv, dc |-> q.dc, H |-> H,
         vn_connections |-> [c \in 0 .. q.N - 1 |-> First({r \in 0 .. M - 1 : <<r, c>> \in H}, LDPC_DC)],
         cn_connections |-> [r \in 0 .. M - 1 |-> First({c \in 0 .. q.N - 1 : <<r, c>> \in H}, LDPC_DV)]]

LdpcCode == ldpc_gallager_construct(LdpcShape)
RowOf(code, r) == {c \in 0 .. code.N - 1 : <<r, c>> \in code.H}

\* Only the last unknown bit of a row is set, from the known bits alone.
ldpc_encode(code, info) ==
    LET Fill(word, r) ==
            LET known   == {c \in RowOf(code, r) : c < code.K}
                unknown == RowOf(code, r) \ known
            IN  IF unknown = {} THEN word
                ELSE IF Parity(known \cap word) = 1 THEN word \cup {Max(unknown)}
                ELSE word \ {Max(unknown)}
    IN  FoldLeft(Fill, info, [r \in 1 .. code.M |-> r - 1])

ldpc_check_codeword(code, word) == \A r \in 0 .. code.M - 1 : Parity(RowOf(code, r) \cap word) = 0

Abs(x) == IF x < 0 THEN -x ELSE x

\* What a check tells one of its bits: the weakest of the other bits, with their sign.
CheckMessage(code, vn_msg, r, c) ==
    LET others == code.cn_connections[r] \ {c}
        weak   == IF others = {} THEN 0 ELSE Min({Abs(vn_msg[<<r, o>>]) : o \in others})
    IN  IF Cardinality({o \in others : vn_msg[<<r, o>>] < 0}) % 2 = 1 THEN -weak ELSE weak

\* One round: all checks, then all bits.
MinSumRound(code, llr, d) ==
    LET cn_msg == [e \in DOMAIN d.vn_msg |-> CheckMessage(code, d.vn_msg, e[1], e[2])]
        total  == [c \in 0 .. code.N - 1 |->
                      llr[c] + FoldSet(LAMBDA r, sum : sum + cn_msg[<<r, c>>], 0, code.vn_connections[c])]
        word   == {c \in 0 .. code.N - 1 : total[c] < 0}
    IN  [vn_msg |-> [e \in DOMAIN d.vn_msg |-> total[e[2]] - cn_msg[e]], hard_decision |-> word,
         iterations |-> d.iterations + 1, converged |-> ldpc_check_codeword(code, word)]

LdpcStart(code, llr) ==
    [vn_msg |-> [e \in code.H |-> llr[e[2]]], hard_decision |-> {}, iterations |-> 0, converged |-> FALSE]

-----------------------------------------------------------------------------
(* A word is encoded, disturbed and decoded. *)

Even == [r \in 0 .. 2 |-> 1]

Sent(scheme, data, word, reliable) ==
    [scheme |-> scheme, data |-> data, word |-> word, reliable |-> reliable, flips |-> {}, out |-> <<>>]

\* The first byte of a BCH word holds the first stage of the register alone.
CodesInit ==
    \/ \E data \in SUBSET (0 .. 3) : codec = Sent("HAMMING", data, ecc_hamming_encode(data), Even)
    \/ \E data \in SUBSET (0 .. ECC_BCH_K - 1) : codec = Sent("BCH", data, ecc_bch_encode(data) \cap {0}, Even)
    \/ \E data \in [1 .. RS_K -> RsSymbols] : codec = Sent("RS", data, data \o ecc_rs_encode(data), Even)
    \/ \E info \in LdpcInfos, r \in Reliabilities :
           codec = Sent("LDPC", info, ldpc_encode(LdpcCode, info), r)

BitsOf(scheme) == CASE scheme = "HAMMING" -> 0 .. 6
                    [] scheme = "BCH"     -> 0 .. 7
                    [] scheme = "LDPC"    -> 0 .. LdpcCode.N - 1
                    [] OTHER              -> {}

Disturb(bit) ==
    /\ codec.out = <<>> /\ Cardinality(codec.flips) < MaxFlips
    /\ bit \in BitsOf(codec.scheme) \ codec.flips
    /\ codec' = [codec EXCEPT !.flips = @ \cup {bit},
                             !.word = IF codec.scheme = "HAMMING" THEN ecc_hamming_introduce_error(@, bit)
                                      ELSE SymDiff(@, {bit})]

Likelihoods == [c \in 0 .. LdpcCode.N - 1 |-> IF c \in codec.word THEN -codec.reliable[c % 3] ELSE codec.reliable[c % 3]]

Decode ==
    /\ codec.out = <<>>
    /\ codec' = [codec EXCEPT !.out = <<
           CASE codec.scheme = "HAMMING" -> ecc_hamming_decode(codec.word)
             [] codec.scheme = "BCH"     -> ecc_bch_decode(codec.word)
             [] codec.scheme = "RS"      -> ecc_rs_syndromes(SubSeq(Reverse(codec.word), 1, RS_K),
                                                             SubSeq(Reverse(codec.word), RS_K + 1, RS_K + 2 * RS_T))
             [] codec.scheme = "LDPC"    -> LdpcStart(LdpcCode, Likelihoods)>>]

\* The rounds of the decoder, until a word satisfies every check or the rounds are used up.
ldpc_min_sum_decode ==
    /\ codec.scheme = "LDPC" /\ codec.out # <<>>
    /\ ~codec.out[1].converged /\ codec.out[1].iterations < LDPC_MAX_ITER
    /\ codec' = [codec EXCEPT !.out = <<MinSumRound(LdpcCode, Likelihoods, @[1])>>]

Decoded == /\ codec.out # <<>>
           /\ codec.scheme = "LDPC" => codec.out[1].converged \/ codec.out[1].iterations = LDPC_MAX_ITER

CodesNext ==
    \/ Decode \/ ldpc_min_sum_decode
    \/ \E bit \in UNION {BitsOf(sc) : sc \in {"HAMMING", "LDPC", "BCH"}} : Disturb(bit)
-----------------------------------------------------------------------------
(* What the codes promise. *)

\* Hamming: with at most one bit of the seven inverted, the four data bits come back
\* (ecc_hamming_decode).
HammingCorrectsOne ==
    codec.scheme = "HAMMING" /\ Decoded /\ Cardinality(codec.flips) <= 1 => codec.out[1] = codec.data

\* BCH: the encoder's parity makes a word with alpha and alpha^3 among its roots, and the
\* decoder clears one or two bits of a byte and counts them, unless they are five apart:
\* then S3 is zero and ecc.c:197 takes the pair for one error.
BchLocatesErrors ==
    codec.scheme = "BCH" =>
    /\ bch_compute_syndromes(BchWord(codec.data)) = [s1 |-> {}, s3 |-> {}]
    /\ Decoded /\ Cardinality(codec.word) <= 2 /\ (\A i, j \in codec.word : i - j # 5)
           => codec.out[1] = [data |-> {}, errors |-> Cardinality(codec.word)]

\* Reed-Solomon: an encoded word, read in the order ecc_rs_syndromes takes it (the reverse of
\* the order ecc_rs_encode divides in), has no syndrome.
RsWordsDivide ==
    codec.scheme = "RS" /\ Decoded => \A i \in DOMAIN codec.out[1] : codec.out[1][i] = {}

\* LDPC: a valid word survives decoding in one round whatever the reliabilities, and one wrong
\* bit of the only column of its two checks is put right when all bits are equally reliable.
LdpcRestores ==
    LET original == SymDiff(codec.word, codec.flips)
    IN  codec.scheme = "LDPC" /\ Decoded /\ ldpc_check_codeword(LdpcCode, original) =>
        /\ codec.flips = {} => codec.out[1].hard_decision = original /\ codec.out[1].iterations = 1
        /\ Cardinality(codec.flips) = 1 /\ (\A c \in codec.flips : c % 3 = 0) /\ codec.reliable = Even
               => codec.out[1].hard_decision = original

\* Each code gives back what its distance promises, through encoder, channel and decoder
\* (ecc.c, ldpc.c).
CodesCorrect == HammingCorrectsOne /\ BchLocatesErrors /\ RsWordsDivide /\ LdpcRestores
================================================================================
