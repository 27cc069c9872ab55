----------------------------- MODULE BooleanAlgebra -----------------------------
(* mini-digital-circuit: Boolean expression trees (src/logic_gate.c) and sums of    *)
(* products with the algorithms over them (src/boolean_algebra.c).  Masks and       *)
(* values are the sets of variables whose bits are set; printing is left out.       *)
EXTENDS Integers, Sequences, FiniteSets, SequencesExt, FiniteSetsExt

CONSTANTS
    NumVars,        \* variables of the functions
    BA_MAX_TERMS,   \* capacity of a sum
    MaxDepth,       \* bound: depth of an expression
    TermMenu,       \* bound: products a sum is made of, [mask, values]
    MaxTerms        \* bound: products in a sum built by hand

VARIABLES
    expr,           \* the expression built so far
    sop             \* the terms of the sum, in order, and those it had before the last reduction

boolean_vars == <<expr, sop>>

Vars == 0 .. NumVars - 1
Inputs == SUBSET Vars       \* an input names the variables that are true

-----------------------------------------------------------------------------
(* Expressions. *)

RECURSIVE bool_expr_eval(_, _), bool_expr_simplify(_), bool_expr_node_count(_), bool_expr_depth(_)

bool_expr_const(val) == [type |-> "CONST", const_val |-> val]
bool_expr_var(id) == [type |-> "VAR", var_id |-> id]
bool_expr_not(e) == [type |-> "NOT", left |-> e]
bool_expr_create(type, l, r) == [type |-> type, left |-> l, right |-> r]

Binary == {"AND", "OR", "XOR"}

bool_expr_eval(e, in) ==
    CASE e.type = "CONST" -> e.const_val
      [] e.type = "VAR" -> e.var_id \in in
      [] e.type = "NOT" -> ~bool_expr_eval(e.left, in)
      [] e.type = "AND" -> bool_expr_eval(e.left, in) /\ bool_expr_eval(e.right, in)
      [] e.type = "OR" -> bool_expr_eval(e.left, in) \/ bool_expr_eval(e.right, in)
      [] e.type = "XOR" -> bool_expr_eval(e.left, in) # bool_expr_eval(e.right, in)

Is(e, val) == e.type = "CONST" /\ e.const_val = val

\* One level, its operands already simplified: the right one is looked at first.
FoldedAnd(e) ==
    CASE Is(e.right, TRUE) -> e.left
      [] Is(e.right, FALSE) -> bool_expr_const(FALSE)
      [] Is(e.left, TRUE) -> e.right
      [] Is(e.left, FALSE) -> bool_expr_const(FALSE)
      [] OTHER -> e

FoldedOr(e) ==
    CASE Is(e.right, TRUE) -> bool_expr_const(TRUE)
      [] Is(e.right, FALSE) -> e.left
      [] Is(e.left, TRUE) -> bool_expr_const(TRUE)
      [] Is(e.left, FALSE) -> e.right
      [] OTHER -> e

\* Mutant of FoldedNot: a constant under a negation loses the negation.
FoldedNotPlain(e) == IF e.left.type = "NOT" THEN e.left.left ELSE IF e.left.type = "CONST" THEN e.left ELSE e

FoldedNot(e) ==
    CASE e.left.type = "NOT" -> e.left.left
      [] e.left.type = "CONST" -> bool_expr_const(~e.left.const_val)
      [] OTHER -> e

\* An exclusive or is never folded.
bool_expr_simplify(e) ==
    CASE e.type = "NOT" -> FoldedNot(bool_expr_not(bool_expr_simplify(e.left)))
      [] e.type \in Binary ->
            LET s == bool_expr_create(e.type, bool_expr_simplify(e.left), bool_expr_simplify(e.right))
            IN  CASE e.type = "AND" -> FoldedAnd(s) [] e.type = "OR" -> FoldedOr(s) [] OTHER -> s
      [] OTHER -> e

bool_expr_node_count(e) ==
    1 + (IF e.type \in Binary \cup {"NOT"} THEN bool_expr_node_count(e.left) ELSE 0)
      + (IF e.type \in Binary THEN bool_expr_node_count(e.right) ELSE 0)

bool_expr_depth(e) ==
    1 + Max({0} \cup (IF e.type \in Binary \cup {"NOT"} THEN {bool_expr_depth(e.left)} ELSE {})
                \cup (IF e.type \in Binary THEN {bool_expr_depth(e.right)} ELSE {}))

-----------------------------------------------------------------------------
(* Sums of products. *)

Full == Vars
Term(mask, values) == [mask |-> mask, values |-> values]

sop_add_term(terms, mask, values) ==
    IF Len(terms) >= BA_MAX_TERMS THEN terms ELSE Append(terms, Term(mask, values))

Holds(term, in) == in \cap term.mask = term.values \cap term.mask
sop_eval(terms, in) == \E i \in DOMAIN terms : Holds(terms[i], in)
Rows(terms) == {in \in Inputs : sop_eval(terms, in)}

\* Rows are visited by number: bit v of the number is variable v.
Number(in) == MapThenSumSet(LAMBDA v : 2 ^ v, in)
ByNumber(S) ==
    [i \in 1 .. Cardinality(S) |-> CHOOSE in \in S : Cardinality({x \in S : Number(x) < Number(in)}) = i - 1]
OfNumber(n) == {v \in Vars : ((n \div 2 ^ v) % 2) = 1}
Minterms(rows) == LET s == ByNumber(rows) IN [i \in 1 .. Min({Len(s), BA_MAX_TERMS}) |-> Term(Full, s[i])]

\* A false row becomes a maxterm that excludes it.
sop_to_pos(terms) == Minterms(Inputs \ Rows(terms))
pos_eval(pos, in) == \A i \in DOMAIN pos : ~Holds(pos[i], in)

\* x ^ (x >> 1) on a row.
Gray(in) == {v \in Vars : (v \in in) # (v + 1 \in in)}

\* The map keeps a row in the cell of its Gray code, and applies the code again to read it back.
kmap_from_sop(terms) == {Gray(in) : in \in Rows(terms)}
kmap_simplify(cells) == Minterms({Gray(cell) : cell \in cells})

\* The six-variable map splits a row number into a row and a column of cells.
kmap6_cell(in) ==
    LET idx == Number(in)
        half == NumVars \div 2
        cols == 2 ^ ((NumVars + 1) \div 2)
    IN  ((idx \div 2 ^ half) % (2 ^ half)) * cols + (idx % cols)
kmap6_simplify(rows) == Minterms({OfNumber(kmap6_cell(in)) : in \in rows})

\* No implicants are combined: every minterm given is one prime.
qmc_minimize(rows) == Minterms(rows)
qmc_to_sop(primes) == primes

shannon_cofactor(terms, var, value) ==
    LET kept == SelectSeq(terms, LAMBDA t : var \in t.mask => (var \in t.values) = value)
    IN  [i \in DOMAIN kept |-> Term(kept[i].mask \ {var}, kept[i].values \ {var})]

shannon_verify(terms, var) ==
    \A in \in Inputs : sop_eval(terms, in) = sop_eval(shannon_cofactor(terms, var, var \in in), in)

minterm_covers(a, b) == b.mask \subseteq a.mask /\ a.values \cap b.mask = b.values \cap b.mask

\* Products of the same variables that differ in one of them.
Combinable(a, b) == a.mask = b.mask /\ Cardinality(SymDiff(a.values, b.values)) = 1
minterm_combine(a, b) ==
    LET diff == SymDiff(a.values, b.values) IN Term(a.mask \ diff, a.values \ diff)

\* For each term in turn the later ones it covers are removed.
espresso_reduce(terms) ==
    LET After[i \in 0 .. Len(terms)] ==
            IF i = 0 THEN terms
            ELSE LET s == After[i - 1]
                     Later(j) == j > i /\ minterm_covers(s[i], s[j])
                 IN  IF i > Len(s) THEN s
                     ELSE LET kept == SelectSeq([j \in DOMAIN s |-> <<j, s[j]>>], LAMBDA p : ~Later(p[1]))
                          IN  [j \in DOMAIN kept |-> kept[j][2]]
    IN  After[Len(terms)]

-----------------------------------------------------------------------------
(* Steps. *)

BooleanInit ==
    /\ \E v \in Vars : expr = bool_expr_var(v)
    /\ sop = [terms |-> <<>>, before |-> <<>>]

Leaves == {bool_expr_var(v) : v \in Vars} \cup {bool_expr_const(b) : b \in BOOLEAN}

Negate == bool_expr_depth(expr) < MaxDepth /\ expr' = bool_expr_not(expr)

Combine ==
    \E type \in Binary, leaf \in Leaves, wrap \in BOOLEAN, swap \in BOOLEAN :
        LET other == IF wrap THEN bool_expr_not(leaf) ELSE leaf
        IN  /\ bool_expr_depth(expr) < MaxDepth
            /\ expr' = IF swap THEN bool_expr_create(type, other, expr) ELSE bool_expr_create(type, expr, other)

Simplify == expr' = bool_expr_simplify(expr)

ExprNext == (Negate \/ Combine \/ Simplify) /\ UNCHANGED sop

SopNext ==
    /\ \/ \E t \in TermMenu :
             /\ Len(sop.terms) < MaxTerms
             /\ sop' = [terms |-> sop_add_term(sop.terms, t.mask, t.values), before |-> <<>>]
       \/ sop' = [terms |-> espresso_reduce(sop.terms), before |-> sop.terms]
    /\ UNCHANGED expr

-----------------------------------------------------------------------------
(* Properties. *)

RECURSIVE OnlyUnderXor(_)
OnlyUnderXor(e) ==
    /\ e.type \in {"AND", "OR"} => e.left.type # "CONST" /\ e.right.type # "CONST"
    /\ e.type = "NOT" => e.left.type \notin {"CONST", "NOT"}
    /\ e.type \in Binary => OnlyUnderXor(e.left) /\ OnlyUnderXor(e.right)
    /\ e.type = "NOT" => OnlyUnderXor(e.left)

\* bool_expr_simplify keeps the value under every input, never grows the tree, and is
\* complete at once: no constant is left under an AND, an OR or a NOT.
SimplifyKeepsValue ==
    LET s == bool_expr_simplify(expr)
    IN  /\ \A in \in Inputs : bool_expr_eval(s, in) = bool_expr_eval(expr, in)
        /\ bool_expr_node_count(s) <= bool_expr_node_count(expr)
        /\ bool_expr_depth(s) <= bool_expr_depth(expr)
        /\ OnlyUnderXor(s)

\* Every form of a sum is the same function: its cofactors by any variable, its product
\* of sums, its minterms; products are combined without gaining or losing a row.
FormsAgree ==
    LET terms == sop.terms
        Rooms == Cardinality(Inputs) <= BA_MAX_TERMS
        pos == sop_to_pos(terms)
    IN  /\ \A var \in Vars : shannon_verify(terms, var)
        /\ Rooms => \A in \in Inputs : pos_eval(pos, in) = sop_eval(terms, in)
        /\ Rooms => Rows(qmc_to_sop(qmc_minimize(Rows(terms)))) = Rows(terms)
        /\ Rooms /\ NumVars % 2 = 0 => Rows(kmap6_simplify(Rows(terms))) = Rows(terms)
        /\ \A i, j \in DOMAIN terms :
              Combinable(terms[i], terms[j]) =>
                  Rows(<<minterm_combine(terms[i], terms[j])>>) = Rows(<<terms[i], terms[j]>>)

\* Reduction never adds a row, and what it removes was covered in the sense of
\* minterm_covers: the removed product holds wherever the kept one does.
ReductionShrinks ==
    \/ sop.before = <<>>
    \/ /\ Rows(sop.terms) \subseteq Rows(sop.before)
       /\ \A t \in Range(sop.before) \ Range(sop.terms) :
              \E k \in Range(sop.terms) : Rows(<<k>>) \subseteq Rows(<<t>>)
       /\ \A i, j \in DOMAIN sop.terms : i < j => ~minterm_covers(sop.terms[i], sop.terms[j])

BooleanSound == SimplifyKeepsValue /\ FormsAgree /\ ReductionShrinks

\* What minimising a Karnaugh map is for: the sum it returns is the function the map was
\* filled with (kmap_simplify).
KmapKeepsFunction ==
    Cardinality(Inputs) <= BA_MAX_TERMS => Rows(kmap_simplify(kmap_from_sop(sop.terms))) = Rows(sop.terms)

\* What a reduction is for: the sum keeps its function (espresso_reduce).
ReductionKeepsFunction == sop.before # <<>> => Rows(sop.terms) = Rows(sop.before)
================================================================================
