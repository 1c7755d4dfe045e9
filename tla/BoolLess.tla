----------------------------- MODULE BoolLess ------------------------------
(***************************************************************************)
(* BoolLessBatchOperator: the comparison circuit on shared words.  Each     *)
(* server holds one of two words whose exclusive or is the secret word.     *)
(* What is linear is computed by each server alone; a conjunction takes     *)
(* BoolAnd, which leaves some sharing of the result, and multiplication     *)
(* triples.  A word is the set of its one bits.                             *)
(***************************************************************************)
EXTENDS Integers, FiniteSets, FiniteSetsExt

CONSTANTS
    Widths,     \* widths to try: powers of two, as CreateSupport.cpp:46 admits them
    Masks       \* bound of the model on the random words of the sharings

Servers == {0, 1}
Bits(w) == 0 .. w - 1

ASSUME BoolLessAssumption ==
    /\ Widths \subseteq {2 ^ e : e \in 0 .. 6}
    /\ \A mask \in Masks : mask \subseteq Nat

VARIABLES
    width,      \* _width
    xis, yis,   \* the operands, swapped by the constructor: is _yis < _xis ?
    lbs, diag,  \* shares of the circuit's two words
    round,      \* which conjunction is next: of lbs, of diag, of lbs again, the last
    allBmts,    \* triples left of those set by setBmts(), in units of one conjunction
    zis         \* shares of the result: a bit

vars == <<width, xis, yis, lbs, diag, round, allBmts, zis>>

xor(a, b) == (a \ b) \union (b \ a)
Shared(word) == xor(word[0], word[1])

\* The sharings of a word that differ in the mask.
Sharings(word, w) ==
    {[s \in Servers |-> IF s = 0 THEN mask \intersect Bits(w)
                        ELSE xor(word, mask \intersect Bits(w))] : mask \in Masks}

\* floor(log2(width))
Log2(w) == CHOOSE e \in 0 .. 6 : 2 ^ e <= w /\ w < 2 ^ (e + 1)

\* Mutant of shiftGreater: the last round is skipped.
shiftShort(in, r) ==
    LET part == 2 ^ r
        start(i) == (i \div part) * part + part \div 2
    IN  IF part >= width THEN in
        ELSE {i \in Bits(width) : IF i < start(i) /\ start(i) < width
                                  THEN start(i) \in in ELSE i \in in}

\* In each part of 2^r bits, the lower half is set to the lowest bit of the upper half.
shiftGreater(in, r) ==
    LET part == 2 ^ r
        start(i) == (i \div part) * part + part \div 2
    IN  IF part > width THEN in
        ELSE {i \in Bits(width) : IF i < start(i) /\ start(i) < width
                                  THEN start(i) \in in ELSE i \in in}

\* Mutant of bmtCount: one per conjunction of a word of two bits or more.
bmtCountTight(w) == Log2(w) + 2

bmtCount(w) == Log2(w) + 3

rounds == Log2(width)
Last == Max({rounds, 1}) + 1
Ended == Last + 1

-----------------------------------------------------------------------------

\* Up to the first conjunction.  The words that are computed by setting a bit of
\* one server's share are the complements and constants of the circuit.
Init ==
    /\ width \in Widths
    /\ \E x, y \in SUBSET Bits(width) :
        /\ xis \in Sharings(y, width)
        /\ yis \in Sharings(x, width)
    /\ lbs = [s \in Servers |-> LET eq == xor(xis[s], yis[s]) IN
                                IF s = 0 THEN eq ELSE xor(eq, Bits(width))]
    /\ diag = [s \in Servers |-> {}]
    /\ round = 0
    /\ allBmts = bmtCount(width)
    /\ zis = [s \in Servers |-> 0]

And(a, b) == Sharings(Shared(a) \intersect Shared(b), width)

\* lbs becomes the word of the bits above which, in their part, the operands agree.
AccumulateFirst ==
    /\ round = 0
    /\ lbs' \in And(lbs, [s \in Servers |-> shiftGreater(lbs[s], 1)])
    /\ UNCHANGED diag

\* diag: where the operands differ and _xis has a one; in the lowest bit, where
\* _xis has a one and _yis has none.
Diagonal ==
    /\ round = 1
    /\ LET low(s) == (yis[s] \intersect {0})
           term(s) == (xor(xis[s], yis[s]) \ {0})
                        \union IF s = 1 THEN xor(low(s), {0}) ELSE low(s)
       IN  diag' \in And([s \in Servers |-> term(s)], xis)
    /\ UNCHANGED lbs

Accumulate ==
    /\ round \in 2 .. rounds
    /\ lbs' \in And(lbs, [s \in Servers |-> shiftGreater(lbs[s], round)])
    /\ UNCHANGED diag

Conjunction ==
    /\ AccumulateFirst \/ Diagonal \/ Accumulate
    /\ round' = round + 1
    /\ allBmts' = allBmts - 1
    /\ UNCHANGED <<width, xis, yis, zis>>

\* Mutant of Compare: the bits are counted.
CompareCounts ==
    /\ round = Last
    /\ LET above(s) == {i \in Bits(width - 1) : i + 1 \in lbs[s]}
                         \union (IF s = 1 THEN {width - 1} ELSE {})
       IN  \E accum \in And([s \in Servers |-> above(s)], diag) :
             zis' = [s \in Servers |-> Cardinality(accum[s])]
    /\ round' = Ended
    /\ UNCHANGED <<width, xis, yis, lbs, diag, allBmts>>

\* A bit of the difference counts if the operands agree in all bits above it.  The
\* last conjunction gets all triples that are left.
Compare ==
    /\ round = Last
    /\ LET above(s) == {i \in Bits(width - 1) : i + 1 \in lbs[s]}
                         \union (IF s = 1 THEN {width - 1} ELSE {})
       IN  \E accum \in And([s \in Servers |-> above(s)], diag) :
             zis' = [s \in Servers |-> Cardinality(accum[s]) % 2]
    /\ round' = Ended
    /\ UNCHANGED <<width, xis, yis, lbs, diag, allBmts>>

Next == Conjunction \/ Compare

-----------------------------------------------------------------------------

\* The number that a word of the width stands for, by its highest bits.
value(word) ==
    LET high[n \in 0 .. width] ==
            IF n = 0 THEN 0 ELSE 2 * high[n - 1] + IF width - n \in word THEN 1 ELSE 0
    IN  high[width]

(* The result is a sharing of the bit that says whether the first operand is  *)
(* the smaller one: the shares of one server mean nothing, the complements    *)
(* and constants that only one server applies come out once, and no sharing   *)
(* of a conjunction changes the result.                                       *)
LessIsShared ==
    round = Ended =>
        (zis[0] # zis[1]) = (value(Shared(yis)) < value(Shared(xis)))

=============================================================================
