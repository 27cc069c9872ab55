----------------------------- MODULE StateMachines -----------------------------
(* mini-digital-circuit/src/fsm.c: Moore and Mealy machines built state by state,  *)
(* stepped, converted, minimised, searched, and built from a pattern.  Names, the  *)
(* state encoding and printing are left out; the alphabet of fsm_kmp_build, the    *)
(* 256 byte values, is the constant Alphabet.                                       *)
EXTENDS Integers, Sequences, FiniteSets, SequencesExt, FiniteSetsExt

CONSTANTS
    FSM_MAX_STATES, FSM_MAX_TRANSITIONS,  \* capacities of the tables
    Alphabet,       \* input symbols, as many as the table has transitions
    Patterns,       \* patterns a matcher is built for, sequences over Alphabet
    MaxHeard,       \* bound: inputs given to a machine
    MaxStates       \* bound: states of a machine built by hand

\* 256 byte values and 256 transitions (fsm.h:22, fsm.c:188): the table of a matcher has room
\* for the row of one state.
ASSUME MachAssumption == Cardinality(Alphabet) = FSM_MAX_TRANSITIONS

VARIABLE mach       \* fsm, its Mealy copies, the pattern it was built for and the inputs heard
                    \* since the last reset, all of them if there is a pattern, else the last

-----------------------------------------------------------------------------
(* Building.  States are numbered from 0. *)

fsm_create(type) ==
    [type |-> type, states |-> <<>>, transitions |-> <<>>, current_state |-> 0, last_output |-> 0]

State(fsm, s) == fsm.states[s + 1]
StateNumbers(fsm) == 0 .. Len(fsm.states) - 1

fsm_add_state(fsm, moore_output, is_initial, is_accept) ==
    IF Len(fsm.states) >= FSM_MAX_STATES THEN fsm
    ELSE [fsm EXCEPT !.states = Append(@, [moore_output |-> moore_output, is_initial |-> is_initial,
                                           is_accept |-> is_accept]),
                     !.current_state = IF is_initial THEN Len(fsm.states) ELSE @]

\* A full table drops the transition without a word.
fsm_add_transition(fsm, from, input, to, mealy_output) ==
    IF Len(fsm.transitions) >= FSM_MAX_TRANSITIONS THEN fsm
    ELSE [fsm EXCEPT !.transitions =
             Append(@, [from |-> from, input |-> input, to |-> to, mealy_output |-> mealy_output])]

fsm_reset(fsm) ==
    LET initial == {s \in StateNumbers(fsm) : State(fsm, s).is_initial}
    IN  [fsm EXCEPT !.current_state = IF initial = {} THEN 0 ELSE Min(initial)]

-----------------------------------------------------------------------------
(* Running: the first matching transition is taken; without one nothing changes. *)

fsm_step(fsm, input) ==
    LET enabled == {i \in DOMAIN fsm.transitions :
                        fsm.transitions[i].from = fsm.current_state /\ fsm.transitions[i].input = input}
        t == fsm.transitions[Min(enabled)]
    IN  IF enabled = {} THEN fsm
        ELSE [fsm EXCEPT !.current_state = t.to,
                         !.last_output = IF fsm.type = "MEALY" THEN t.mealy_output
                                         ELSE State(fsm, t.to).moore_output]

fsm_is_accept(fsm) ==
    fsm.current_state \in StateNumbers(fsm) /\ State(fsm, fsm.current_state).is_accept


fsm_convert_type(fsm, new_type) ==
    CASE fsm.type = new_type -> fsm
      [] fsm.type = "MOORE" /\ new_type = "MEALY" ->
            [fsm EXCEPT !.type = new_type,
                        !.transitions = [i \in DOMAIN fsm.transitions |->
                            [fsm.transitions[i] EXCEPT !.mealy_output = State(fsm, fsm.transitions[i].to).moore_output]]]
      [] OTHER ->
            [fsm EXCEPT !.type = new_type,
                        !.states = [i \in DOMAIN fsm.states |->
                            [fsm.states[i] EXCEPT !.moore_output = IF fsm.states[i].is_accept THEN 1 ELSE 0]]]

-----------------------------------------------------------------------------
(* Analysis. *)

\* States are merged by output and acceptance; the transitions are never looked at.
fsm_minimize(fsm) == Cardinality({<<State(fsm, s).moore_output, State(fsm, s).is_accept>> : s \in StateNumbers(fsm)})

fsm_merge_equivalent(fsm) ==
    LET Alike(i, j) == State(fsm, i).moore_output = State(fsm, j).moore_output
                       /\ State(fsm, i).is_accept = State(fsm, j).is_accept
    IN  Cardinality({p \in StateNumbers(fsm) \X StateNumbers(fsm) : p[1] < p[2] /\ Alike(p[1], p[2])}) \div 2

fsm_to_graph(fsm) ==
    {[from |-> t.from, input |-> t.input, to |-> t.to, output |-> t.mealy_output] : t \in ToSet(fsm.transitions)}

\* Breadth first from the current state; at most max_states are reported.
fsm_reachable_states(fsm, max_states) ==
    LET Visit[queue \in Seq(StateNumbers(fsm)), head \in Nat] ==
            IF head >= Len(queue) THEN queue
            ELSE LET targets == [i \in DOMAIN fsm.transitions |->
                                     IF fsm.transitions[i].from = queue[head + 1] THEN <<fsm.transitions[i].to>> ELSE <<>>]
                     AddNew(q, new) == IF new # <<>> /\ new[1] \in StateNumbers(fsm) \ ToSet(q) THEN q \o new ELSE q
                 IN  Visit[FoldLeft(AddNew, queue, targets), head + 1]
        found == Visit[<<fsm.current_state>>, 0]
    IN  IF fsm.states = <<>> THEN <<>> ELSE SubSeq(found, 1, IF Len(found) < max_states THEN Len(found) ELSE max_states)

fsm_is_complete(fsm) ==
    \A s \in StateNumbers(fsm), c \in Alphabet : \E t \in ToSet(fsm.transitions) : t.from = s /\ t.input = c

-----------------------------------------------------------------------------
(* The matcher of a pattern: state i has read its first i symbols. *)

\* The longest prefix that is a suffix of what was read.
KmpNext(pattern, i, c) ==
    LET fits == {k \in 1 .. i : c = pattern[k] /\ \A j \in 1 .. k - 1 : pattern[j] = pattern[i - k + 1 + j]}
    IN  IF i < Len(pattern) /\ c = pattern[i + 1] THEN i + 1 ELSE IF fits = {} THEN 0 ELSE Max(fits)

\* The rows of all states but the first find the table full and are dropped.
fsm_kmp_build(pattern) ==
    LET m == Len(pattern)
        states == FoldLeft(LAMBDA fsm, i : fsm_add_state(fsm, 0, i = 0, i = m), fsm_create("MOORE"),
                           [i \in 1 .. m + 1 |-> i - 1])
        symbols == SetToSortSeq(Alphabet, <)
        Row(fsm, i) == FoldLeft(LAMBDA g, c : fsm_add_transition(g, i, c, KmpNext(pattern, i, c), 0), fsm, symbols)
    IN  FoldLeft(Row, states, [i \in 1 .. m + 1 |-> i - 1])

\* Whatever the expression, two states and one transition.
fsm_regex_build ==
    fsm_add_transition(fsm_add_state(fsm_add_state(fsm_create("MOORE"), 0, TRUE, FALSE), 0, FALSE, TRUE), 0, 1, 1, 0)

-----------------------------------------------------------------------------
(* A machine is built, then run, perhaps beside its Mealy copy. *)

MachInit ==
    \E m \in {[fsm |-> fsm_create("MOORE"), pattern |-> <<>>], [fsm |-> fsm_regex_build, pattern |-> <<>>]}
             \cup {[fsm |-> fsm_kmp_build(p), pattern |-> p] : p \in Patterns} :
        mach = [fsm |-> m.fsm, pattern |-> m.pattern, heard |-> <<>>, copies |-> <<>>]

Building == mach.pattern = <<>> /\ mach.heard = <<>> /\ mach.copies = <<>>

AddState(moore_output, is_initial, is_accept) ==
    /\ Building /\ Len(mach.fsm.states) < MaxStates
    /\ mach' = [mach EXCEPT !.fsm = fsm_add_state(@, moore_output, is_initial, is_accept)]

AddTransition(from, input, to) ==
    /\ Building /\ {from, to} \subseteq StateNumbers(mach.fsm)
    /\ mach' = [mach EXCEPT !.fsm = fsm_add_transition(@, from, input, to, 0)]

\* A Mealy copy of the machine as it stands.
Copy ==
    /\ mach.copies = <<>> /\ mach.fsm.states # <<>>
    /\ mach' = [mach EXCEPT !.copies = <<fsm_convert_type(mach.fsm, "MEALY")>>]

Hear(input) ==
    /\ mach.fsm.states # <<>> /\ (mach.pattern # <<>> => Len(mach.heard) < MaxHeard)
    /\ mach' = [mach EXCEPT !.fsm = fsm_step(@, input),
                            !.heard = IF mach.pattern = <<>> THEN <<input>> ELSE Append(@, input),
                            !.copies = [i \in DOMAIN @ |-> fsm_step(@[i], input)]]

Restart ==
    /\ mach.heard # <<>>
    /\ mach' = [mach EXCEPT !.fsm = fsm_reset(@), !.heard = <<>>,
                            !.copies = [i \in DOMAIN @ |-> fsm_reset(@[i])]]

MachNext ==
    \/ \E out \in {0, 1}, i, a \in BOOLEAN : AddState(out, i, a)
    \/ \E from, to \in 0 .. FSM_MAX_STATES - 1, c \in Alphabet : AddTransition(from, c, to)
    \/ Copy \/ Restart
    \/ \E c \in Alphabet : Hear(c)

-----------------------------------------------------------------------------
(* What the machines promise. *)

\* A Moore machine and the Mealy machine made of it at any moment stay in the same state and
\* answer the same outputs (fsm_convert_type, fsm_step).
ConversionKeepsOutputs ==
    \A i \in DOMAIN mach.copies :
        /\ mach.copies[i].current_state = mach.fsm.current_state
        /\ mach.copies[i].last_output = mach.fsm.last_output

Ends(word, n) == SubSeq(word, Len(word) - n + 1, Len(word))

\* Violated by the code: a matcher accepts exactly behind its pattern (fsm.h:166).  It has the
\* transitions of its first state only and stays in the second for ever.
MatcherFindsPattern ==
    mach.pattern # <<>> =>
        (fsm_is_accept(mach.fsm) <=>
            Len(mach.heard) >= Len(mach.pattern) /\ Ends(mach.heard, Len(mach.pattern)) = mach.pattern)

\* The search reports each state some path reaches once and no other (fsm_reachable_states).
SearchFindsAll ==
    LET found == fsm_reachable_states(mach.fsm, FSM_MAX_STATES)
        edges == fsm_to_graph(mach.fsm)
    IN  mach.fsm.states # <<>> =>
        /\ IsInjective(found) /\ mach.fsm.current_state \in ToSet(found)
        /\ \A e \in edges : e.from \in ToSet(found) => e.to \in ToSet(found)
        /\ \A i \in 2 .. Len(found) : \E e \in edges : e.to = found[i] /\ e.from \in ToSet(SubSeq(found, 1, i - 1))

\* No two states that merge in a minimal machine are counted apart (fsm_minimize).
Distinguishable(fsm) ==
    LET Follow(s, word) == FoldLeft(LAMBDA f, c : fsm_step(f, c), [fsm EXCEPT !.current_state = s], word).current_state
        words == UNION {[1 .. n -> Alphabet] : n \in 0 .. Len(fsm.states)}
        Sees(s) == [w \in words |-> LET q == State(fsm, Follow(s, w)) IN <<q.moore_output, q.is_accept>>]
    IN  Cardinality({Sees(s) : s \in StateNumbers(fsm)})

\* Minimising leaves as many states as there are behaviours: two states are equivalent only if
\* they have the same output and go to equivalent states (fsm.h:130-139).
MinimizeCountsBehaviours == mach.fsm.states # <<>> => fsm_minimize(mach.fsm) = Distinguishable(mach.fsm)

\* State machines compute what they describe.
MachinesSound == ConversionKeepsOutputs /\ SearchFindsAll
================================================================================
