------------------------------- MODULE Predictors -------------------------------
(***************************************************************************)
(* The branch predictors of mini-computer-arch (src/predictor.c) and of    *)
(* mini-cpu-arch (src/branch_pred.c), all fed the same branches, the       *)
(* branch target buffer and the return address stack, and the prefetchers  *)
(* of mini-computer-arch (src/prefetch.c) with their queue.                *)
(*                                                                         *)
(* A pc is the number of the instruction, pc >> 2; a branch history is the *)
(* number whose bits are the last outcomes.  The history the caller hands  *)
(* to TAGE and to the perceptron is the one the others keep.               *)
(* Left out: counters and accuracies, the Markov and the spatial           *)
(* prefetcher, which the controller never calls, and the second table the  *)
(* two-level predictor of mini-cpu-arch trains without looking at it.      *)
(***************************************************************************)
EXTENDS Integers, Sequences, FiniteSets, SequencesExt, Bitwise

CONSTANTS
    PRED_BHT_SIZE, PRED_PHT_SIZE, PRED_BTB_SIZE, PRED_RAS_SIZE,   \* sizes of the tables
    HISTORY_BITS,            \* bits of the history registers
    TWO_LEVEL_SHIFT,         \* places the two-level index shifts its history by, 4
    PHT_COLS,                \* columns of the table of mini-cpu-arch
    TAG_BITS,                \* tag_bits of the TAGE table, which has PRED_PHT_SIZE entries
    THRESHOLD,               \* the perceptron's training threshold
    PREFETCH_QUEUE_SIZE,     \* requests the prefetch queue holds
    LINE,                    \* CACHE_LINE_DATA_SIZE
    Traces,                  \* bound: the branches a program repeats, [pc, taken]
    WarmUp, MaxSteps,        \* bound: branches before the predictors have learnt, and in all
    Calls,                   \* bound: depth of calls
    Strides                  \* bound: the strides of memory accesses

ASSUME PredictorsAssumption ==
    /\ {PRED_BHT_SIZE, PRED_PHT_SIZE, PRED_BTB_SIZE, PRED_RAS_SIZE, PHT_COLS} \subseteq Nat \ {0}
    /\ WarmUp \in Nat /\ MaxSteps \in Nat /\ Calls \in Nat /\ Strides \subseteq Int

VARIABLES
    bp,        \* the predictors' tables
    trace,     \* history: the branches repeated, and how many were executed
    ras,       \* stack, and history: calls made and not returned from, wrong answers due
    pf         \* the prefetchers, the queue, and history: the stride and the accesses

predictor_vars == <<bp, trace, ras, pf>>
--------------------------------------------------------------------------------
(* Predictors. *)

Saturate(ctr, taken) == IF taken THEN (IF ctr < 3 THEN ctr + 1 ELSE 3)
                        ELSE (IF ctr > 0 THEN ctr - 1 ELSE 0)

\* Mutant of Shifted: the history keeps one outcome.
ShiftedOut(history, taken) == IF taken THEN 1 ELSE 0

Shifted(history, taken) == (2 * history + (IF taken THEN 1 ELSE 0)) % 2 ^ HISTORY_BITS

bimodal_index(pc) == pc % PRED_BHT_SIZE
twolevel_index(h, pc) == (pc ^^ (h * 2 ^ TWO_LEVEL_SHIFT)) % PRED_PHT_SIZE
gshare_index(h, pc) == (pc ^^ h) % PRED_PHT_SIZE
Tag(pc) == pc % 2 ^ TAG_BITS

bimodal_predict(pc)  == bp.local[bimodal_index(pc)] >= 2
twolevel_predict(pc) == bp.two[twolevel_index(bp.history, pc)] >= 2
gshare_predict(pc)   == bp.global[gshare_index(bp.history, pc)] >= 2
tournament_predict(pc) ==
    IF bp.choice[bimodal_index(pc)] >= 2 THEN gshare_predict(pc) ELSE bimodal_predict(pc)

tage_predict(e, pc) == e.tag = Tag(pc) /\ e.ctr >= 0

\* The counter, then the useful counter if that leaves a wrong prediction, then the tag.
tage_update(e, pc, taken) ==
    LET ctr == IF taken THEN (IF e.ctr < 3 THEN e.ctr + 1 ELSE 3)
               ELSE (IF e.ctr > -4 THEN e.ctr - 1 ELSE -4)
        wrong == tage_predict([e EXCEPT !.ctr = ctr], pc) # taken
    IN  [tag |-> Tag(pc), ctr |-> ctr,
         u |-> IF ~wrong THEN e.u ELSE IF taken THEN (IF e.u < 3 THEN e.u + 1 ELSE 3)
               ELSE (IF e.u > 0 THEN e.u - 1 ELSE 0)]

\* One input per history bit, +1 or -1; weights are eight bits wide.
Inputs(h) == [i \in 1 .. HISTORY_BITS |-> IF (h \div 2 ^ (i - 1)) % 2 = 1 THEN 1 ELSE -1]
PerceptronSum(p, h) ==
    p.bias + FoldLeft(LAMBDA n, i : n + p.weights[i] * Inputs(h)[i], 0, [i \in 1 .. HISTORY_BITS |-> i])
Int8(x) == ((x + 128) % 256) - 128

perceptron_train(p, h, outcome) ==
    LET sum == PerceptronSum(p, h)
        t   == IF outcome THEN 1 ELSE -1
    IN  IF (sum >= 0) # outcome \/ sum \in -THRESHOLD .. THRESHOLD
        THEN [bias |-> p.bias + t,
              weights |-> [i \in 1 .. HISTORY_BITS |-> Int8(p.weights[i] + t * Inputs(h)[i])]]
        ELSE p

\* mini-cpu-arch: counters start at weakly not taken; gshare uses the first column only.
cpu_predict(type, pc) ==
    CASE type = "BIMODAL"   -> bp.cpu_bht[pc % PRED_BHT_SIZE] >= 2
      [] type = "TWO_LEVEL" -> bp.cpu_two[pc % PRED_BHT_SIZE][bp.history % PHT_COLS] >= 2
      [] type = "GSHARE"    -> bp.cpu_gshare[gshare_index(bp.history, pc)] >= 2

tournament_update(pc, taken) ==
    LET i == bimodal_index(pc)
        local == bimodal_predict(pc) = taken
        global == gshare_predict(pc) = taken
    IN  [bp.choice EXCEPT ![i] = IF local = global THEN @ ELSE Saturate(@, global)]

btb_update(btb, pc, target) == [btb EXCEPT ![(pc % PRED_BTB_SIZE)] = [valid |-> TRUE, tag |-> pc, target |-> target]]
btb_lookup(btb, pc) ==
    LET e == btb[(pc % PRED_BTB_SIZE)] IN IF e.valid /\ e.tag = pc THEN {e.target} ELSE {}

\* Every predictor learns the same outcome; a taken branch enters the target buffer.
bp_update(pc, taken, target) ==
    LET g == gshare_index(bp.history, pc)
    IN  [bp EXCEPT !.local[bimodal_index(pc)] = Saturate(@, taken),
                   !.two[twolevel_index(bp.history, pc)] = Saturate(@, taken),
                   !.global[g] = Saturate(@, taken),
                   !.choice = tournament_update(pc, taken),
                   !.tage[g] = tage_update(@, pc, taken),
                   !.perceptron = perceptron_train(@, bp.history, taken),
                   !.cpu_bht[pc % PRED_BHT_SIZE] = Saturate(@, taken),
                   !.cpu_two[pc % PRED_BHT_SIZE][bp.history % PHT_COLS] = Saturate(@, taken),
                   !.cpu_gshare[g] = Saturate(@, taken),
                   !.btb = IF taken THEN btb_update(@, pc, target) ELSE @,
                   !.history = Shifted(@, taken)]

bp_init ==
    LET Table(size, value) == [i \in 0 .. size - 1 |-> value]
    IN  [local |-> Table(PRED_BHT_SIZE, 2), two |-> Table(PRED_PHT_SIZE, 1),
         global |-> Table(PRED_PHT_SIZE, 2), choice |-> Table(PRED_BHT_SIZE, 2),
         tage |-> Table(PRED_PHT_SIZE, [tag |-> 0, ctr |-> 0, u |-> 0]),
         perceptron |-> [bias |-> 0, weights |-> [i \in 1 .. HISTORY_BITS |-> 0]],
         cpu_bht |-> Table(PRED_BHT_SIZE, 1), cpu_two |-> Table(PRED_BHT_SIZE, Table(PHT_COLS, 1)),
         cpu_gshare |-> Table(PRED_PHT_SIZE, 1),
         btb |-> Table(PRED_BTB_SIZE, [valid |-> FALSE, tag |-> 0, target |-> 0]),
         history |-> 0]

Upcoming == trace.branches[(trace.steps % Len(trace.branches)) + 1]

\* The program executes its next branch; the target is the pc's own.
Branch ==
    /\ trace.steps < MaxSteps
    /\ bp' = bp_update(Upcoming.pc, Upcoming.taken, 100 + Upcoming.pc)
    /\ trace' = [trace EXCEPT !.steps = @ + 1]
    /\ UNCHANGED <<ras, pf>>
--------------------------------------------------------------------------------
(* Return addresses. *)

\* A full stack drops the address.
ras_push ==
    /\ Len(ras.calls) < Calls
    /\ LET address == Len(ras.calls) + 1
       IN  ras' = [calls |-> Append(ras.calls, address),
                   stack |-> IF Len(ras.stack) < PRED_RAS_SIZE THEN Append(ras.stack, address) ELSE ras.stack,
                   dropped |-> ras.dropped \/ Len(ras.stack) = PRED_RAS_SIZE]
    /\ UNCHANGED <<bp, trace, pf>>

\* The address predicted for the next return: 0 from an empty stack.
Predicted == IF ras.stack = <<>> THEN 0 ELSE Last(ras.stack)

\* dropped: an address was lost since the program was last outside every call.
ras_pop ==
    /\ ras.calls # <<>>
    /\ ras' = [calls |-> Front(ras.calls),
               stack |-> IF ras.stack = <<>> THEN <<>> ELSE Front(ras.stack),
               dropped |-> ras.dropped /\ Len(ras.calls) > 1]
    /\ UNCHANGED <<bp, trace, pf>>
--------------------------------------------------------------------------------
(* Prefetchers.  Addresses start at 0, like the zeroed controller's. *)

\* Mutant of stride_record_access: the address is taken over before it is compared.
StrideTooLate(s, addr) == [last_addr |-> addr, last_stride |-> 0, confidence |-> 0]

stride_record_access(s, addr) ==
    LET stride == addr - s.last_addr
    IN  IF stride = s.last_stride /\ stride # 0
        THEN [s EXCEPT !.last_addr = addr, !.confidence = @ + 1]
        ELSE [last_addr |-> addr, last_stride |-> stride, confidence |-> 0]

\* One table entry; another instruction of the same entry takes it over.
rpt_record_access(e, pc, addr) ==
    IF ~e.valid \/ e.tag # pc THEN [valid |-> TRUE, tag |-> pc, last_addr |-> addr, stride |-> 0, state |-> 0]
    ELSE IF addr - e.last_addr = e.stride
         THEN [e EXCEPT !.last_addr = addr, !.state = IF @ < 3 THEN @ + 1 ELSE 3]
         ELSE [e EXCEPT !.last_addr = addr, !.stride = addr - e.last_addr, !.state = 0]

ghb_record_access(g, addr) ==
    [address |-> addr, delta |-> IF g.count > 0 THEN addr - g.address ELSE 0, count |-> g.count + 1]

\* What the controller asks of the prefetcher of its type: the address, or none.
Prefetched(p, pc) ==
    CASE p.type = "NEXT_LINE" -> {p.next_line + LINE}
      [] p.type = "STRIDE" -> IF p.stride.confidence >= 1 THEN {p.stride.last_addr + p.stride.last_stride} ELSE {}
      [] p.type = "RPT" -> IF p.rpt.valid /\ p.rpt.tag = pc /\ p.rpt.state >= 1
                           THEN {p.rpt.last_addr + p.rpt.stride} ELSE {}
      [] p.type = "GHB" -> IF p.ghb.count >= 2 /\ p.ghb.delta # 0 THEN {p.ghb.address + p.ghb.delta} ELSE {}

\* Address 0 is not queued, and a full queue drops the request.
pf_request_prefetch(addr, pc) ==
    LET p == [pf EXCEPT !.next_line = IF pf.type = "NEXT_LINE" THEN addr ELSE @,
                        !.stride = IF pf.type = "STRIDE" THEN stride_record_access(@, addr) ELSE @,
                        !.rpt = IF pf.type = "RPT" THEN rpt_record_access(@, pc, addr) ELSE @,
                        !.ghb = IF pf.type = "GHB" THEN ghb_record_access(@, addr) ELSE @]
        new == {a \in Prefetched(p, pc) : a # 0}
        queued == new # {} /\ pf.count < PREFETCH_QUEUE_SIZE
    IN  pf' = IF ~queued THEN [p EXCEPT !.accesses = Append(@, addr)]
              ELSE [p EXCEPT !.slots[p.tail] = [address |-> CHOOSE a \in new : TRUE, issued |-> TRUE, used |-> FALSE],
                             !.tail = (@ + 1) % PREFETCH_QUEUE_SIZE, !.count = @ + 1,
                             !.total_issued = @ + 1, !.accesses = Append(@, addr)]

\* The program goes on by its stride, or jumps back to where it started.
Miss ==
    /\ Len(pf.accesses) < Calls
    /\ \E a \in {pf.walk, IF pf.accesses = <<>> THEN pf.walk ELSE Last(pf.accesses) + pf.walk} :
          a > 0 /\ pf_request_prefetch(a, 1)
    /\ UNCHANGED <<bp, trace, ras>>

pf_get_prefetch ==
    /\ pf.count > 0
    /\ pf' = [pf EXCEPT !.count = @ - 1]
    /\ UNCHANGED <<bp, trace, ras>>

\* The first slot with the address, were its request already handed out, is the one used.
pf_notify_use(addr) ==
    LET slots == {i \in DOMAIN pf.slots : pf.slots[i].issued /\ pf.slots[i].address = addr}
        i == CHOOSE j \in slots : \A k \in slots : j <= k
    IN  /\ slots # {} /\ ~pf.slots[i].used
        /\ pf' = [pf EXCEPT !.slots[i].used = TRUE, !.total_used = @ + 1]
        /\ UNCHANGED <<bp, trace, ras>>
--------------------------------------------------------------------------------
PredictorsInit ==
    /\ bp = bp_init
    /\ \E t \in Traces : trace = [branches |-> t, steps |-> 0]
    /\ ras = [calls |-> <<>>, stack |-> <<>>, dropped |-> FALSE]
    /\ \E type \in {"NEXT_LINE", "STRIDE", "RPT", "GHB"}, s \in Strides :
          pf = [type |-> type, next_line |-> 0,
                stride |-> [last_addr |-> 0, last_stride |-> 0, confidence |-> 0],
                rpt |-> [valid |-> FALSE, tag |-> 0, last_addr |-> 0, stride |-> 0, state |-> 0],
                ghb |-> [address |-> 0, delta |-> 0, count |-> 0],
                slots |-> [i \in 0 .. PREFETCH_QUEUE_SIZE - 1 |-> [address |-> 0, issued |-> FALSE, used |-> FALSE]],
                tail |-> 0, count |-> 0, total_issued |-> 0, total_used |-> 0,
                walk |-> s, accesses |-> <<>>]

PredictNext == Branch \/ ras_push \/ ras_pop
PrefetchNext == Miss \/ pf_get_prefetch \/ \E addr \in 1 .. 4 * LINE : pf_notify_use(addr)

PredictorsSpec == PredictorsInit /\ [][PredictNext \/ PrefetchNext]_predictor_vars
--------------------------------------------------------------------------------
(* Properties. *)

\* The history before the i-th branch once the program has gone round often enough.
RECURSIVE SteadyHistory(_, _)
SteadyHistory(i, bits) ==
    IF bits = 0 THEN 0
    ELSE LET j == ((i - 2) % Len(trace.branches)) + 1
         IN  (IF trace.branches[j].taken THEN 1 ELSE 0) + 2 * SteadyHistory(j, bits - 1)

\* Branches that share an entry, Index(i), go the same way.
Consistent(Index(_)) ==
    \A i, j \in DOMAIN trace.branches : Index(i) = Index(j) => trace.branches[i].taken = trace.branches[j].taken

PC(i) == trace.branches[i].pc
H(i) == SteadyHistory(i, HISTORY_BITS)
BimodalLearns  == Consistent(LAMBDA i : bimodal_index(PC(i)))
TwoLevelLearns == Consistent(LAMBDA i : twolevel_index(H(i), PC(i)))
GshareLearns   == Consistent(LAMBDA i : gshare_index(H(i), PC(i)))

\* A program that repeats its branches is predicted without fault, once learnt, by every
\* predictor whose table keeps apart the branches that go different ways: by the bimodal
\* ones if each entry sees one direction, by those with history if each pattern does, by
\* the tournament if either of its halves is right.  The target buffer has the target of
\* a taken branch that is alone in its entry.
PredictorsLearn ==
    trace.steps >= WarmUp =>
        LET b == Upcoming
            Right(p) == p = b.taken
        IN  /\ BimodalLearns  => Right(bimodal_predict(b.pc)) /\ Right(cpu_predict("BIMODAL", b.pc))
            /\ TwoLevelLearns => Right(twolevel_predict(b.pc))
            /\ GshareLearns   => Right(gshare_predict(b.pc)) /\ Right(cpu_predict("GSHARE", b.pc))
            /\ BimodalLearns \/ GshareLearns => Right(tournament_predict(b.pc))
            /\ Consistent(LAMBDA i : <<PC(i) % PRED_BHT_SIZE, H(i) % PHT_COLS>>)
                  => Right(cpu_predict("TWO_LEVEL", b.pc))
            /\ GshareLearns /\ (\A i, j \in DOMAIN trace.branches :
                                   gshare_index(H(i), PC(i)) = gshare_index(H(j), PC(j)) => Tag(PC(i)) = Tag(PC(j)))
                  => Right(tage_predict(bp.tage[gshare_index(bp.history, b.pc)], b.pc))
            /\ Consistent(LAMBDA i : 0) => Right(PerceptronSum(bp.perceptron, bp.history) >= 0)
            /\ b.taken /\ (\A i \in DOMAIN trace.branches : PC(i) % PRED_BTB_SIZE = b.pc % PRED_BTB_SIZE => PC(i) = b.pc)
                  => btb_lookup(bp.btb, b.pc) = {100 + b.pc}

\* Every return is predicted right unless, since the program was last outside all calls,
\* they went deeper than the stack; and a walk by a constant stride is prefetched one
\* access ahead from its fourth access on.  No prefetch is counted used that was not issued.
AddressesPredicted ==
    /\ ras.calls # <<>> /\ ~ras.dropped => Predicted = Last(ras.calls)
    /\ LET n == Len(pf.accesses)
       IN  /\ n >= 4 /\ pf.type # "NEXT_LINE"
              /\ (\A i \in n - 2 .. n : pf.accesses[i] = pf.accesses[i - 1] + pf.walk)
              => Prefetched(pf, 1) = {pf.accesses[n] + pf.walk}
           /\ pf.total_used <= pf.total_issued /\ pf.count <= pf.total_issued

\* Branches, return addresses and strides are predicted once they have been learnt.
PredictorsSound == PredictorsLearn /\ AddressesPredicted
================================================================================
