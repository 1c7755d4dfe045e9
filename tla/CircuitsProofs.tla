--------------------------- MODULE CircuitsProofs --------------------------
(* Proofs about the operators on shared words and numbers, the generators of  *)
(* triples and the transfers they take: whatever the random numbers and the   *)
(* seeds, what is left is a sharing of the right result, and there are        *)
(* triples for every conjunction of a comparison.                             *)
(*                                                                            *)
(* The comparison of words comes first: each accumulation doubles the parts   *)
(* of the word in which a bit of lbs says that the operands agree from it up  *)
(* to the end of its part, until one part is the whole word. Then come the    *)
(* messages of Transfers, what powers of two, sums over bits and remainders   *)
(* are, and with them the operators on numbers: the linear ones, the adder    *)
(* that turns a number into a word, and last the generators.                  *)
EXTENDS Circuits, FiniteSetTheorems, TLAPS

\* The operators that run the circuit.
CompareOps == {"BoolLess", "BoolEqual"}

\* The powers of two that are widths, and the next one.
Size(e) == <<1, 2, 4, 8, 16, 32, 64, 128>>[e + 1]
Sizes == {1, 2, 4, 8, 16, 32, 64}

-----------------------------------------------------------------------------
(* Widths and their logarithms *)

\* What 2 ^ e is.
LEMMA Powers ==
    ASSUME NEW e \in 0 .. 7
    PROVE  2 ^ e = Size(e)
<1>0. 2 ^ 0 = 1 /\ 2 ^ 1 = 2 /\ 2 ^ 2 = 4 /\ 2 ^ 3 = 8
  OBVIOUS
<1>1. 2 ^ 4 = 16 /\ 2 ^ 5 = 32 /\ 2 ^ 6 = 64 /\ 2 ^ 7 = 128
  OBVIOUS
<1>2. e = 0 \/ e = 1 \/ e = 2 \/ e = 3 \/ e = 4 \/ e = 5 \/ e = 6 \/ e = 7
  OBVIOUS
<1>3. CASE e = 0
  <2>1. 2 ^ e = 2 ^ 0
    BY <1>3, Zenon
  <2>2. QED
    BY <1>0, <1>1, <1>3, <2>1 DEF Size
<1>4. CASE e = 1
  <2>1. 2 ^ e = 2 ^ 1
    BY <1>4, Zenon
  <2>2. QED
    BY <1>0, <1>1, <1>4, <2>1 DEF Size
<1>5. CASE e = 2
  <2>1. 2 ^ e = 2 ^ 2
    BY <1>5, Zenon
  <2>2. QED
    BY <1>0, <1>1, <1>5, <2>1 DEF Size
<1>6. CASE e = 3
  <2>1. 2 ^ e = 2 ^ 3
    BY <1>6, Zenon
  <2>2. QED
    BY <1>0, <1>1, <1>6, <2>1 DEF Size
<1>7. CASE e = 4
  <2>1. 2 ^ e = 2 ^ 4
    BY <1>7, Zenon
  <2>2. QED
    BY <1>0, <1>1, <1>7, <2>1 DEF Size
<1>8. CASE e = 5
  <2>1. 2 ^ e = 2 ^ 5
    BY <1>8, Zenon
  <2>2. QED
    BY <1>0, <1>1, <1>8, <2>1 DEF Size
<1>9. CASE e = 6
  <2>1. 2 ^ e = 2 ^ 6
    BY <1>9, Zenon
  <2>2. QED
    BY <1>0, <1>1, <1>9, <2>1 DEF Size
<1>10. CASE e = 7
  <2>1. 2 ^ e = 2 ^ 7
    BY <1>10, Zenon
  <2>2. QED
    BY <1>0, <1>1, <1>10, <2>1 DEF Size
<1>11. QED
  BY <1>2, <1>3, <1>4, <1>5, <1>6, <1>7, <1>8, <1>9, <1>10

\* The widths.
LEMMA WidthCases ==
    ASSUME NEW w \in Widths
    PROVE  w \in Sizes
<1>1. PICK e \in 0 .. 6 : w = 2 ^ e
  BY BoolLessAssumption
<1>2. w = Size(e)
  <2>1. e \in 0 .. 7
    OBVIOUS
  <2>2. QED
    BY <1>1, <2>1, Powers, Zenon
<1>3. QED
  BY <1>2 DEF Size, Sizes

\* The widths grow with their logarithms.
LEMMA SizesGrow ==
    ASSUME NEW a \in 0 .. 7, NEW b \in 0 .. 7
    PROVE  /\ Size(a) \in Nat /\ Size(b) \in Nat
           /\ a <= b => Size(a) <= Size(b)
           /\ a < b => Size(a) < Size(b)
<1>1. ASSUME NEW e \in 0 .. 7
      PROVE  Size(e) = IF e = 0 THEN 1 ELSE IF e = 1 THEN 2 ELSE IF e = 2 THEN 4
                       ELSE IF e = 3 THEN 8 ELSE IF e = 4 THEN 16 ELSE IF e = 5 THEN 32
                       ELSE IF e = 6 THEN 64 ELSE 128
  <2>1. e = 0 \/ e = 1 \/ e = 2 \/ e = 3 \/ e = 4 \/ e = 5 \/ e = 6 \/ e = 7
    OBVIOUS
  <2>2. QED
    BY <2>1 DEF Size
<1> HIDE DEF Size
<1>2. QED
  BY <1>1

\* Their logarithms.
LEMMA LogarithmIs ==
    ASSUME NEW w \in Sizes
    PROVE  Log2(w) \in 0 .. 6 /\ w = Size(Log2(w))
<1>1. Log2(w) = CHOOSE e \in 0 .. 6 : Size(e) <= w /\ w < Size(e + 1)
  <2>1. ASSUME NEW e \in 0 .. 6 PROVE 2 ^ e = Size(e) /\ 2 ^ (e + 1) = Size(e + 1)
    <3>1. e \in 0 .. 7 /\ e + 1 \in 0 .. 7
      OBVIOUS
    <3>2. QED
      BY <3>1, Powers, Zenon
  <2>2. \A e : (e \in 0 .. 6 /\ 2 ^ e <= w /\ w < 2 ^ (e + 1)) <=> (e \in 0 .. 6 /\ Size(e) <= w /\ w < Size(e + 1))
    BY <2>1
  <2>3. QED
    BY <2>2, Zenon DEF Log2
<1>2. \E e \in 0 .. 6 : w = Size(e)
  BY DEF Size, Sizes
<1>3. \A e, f \in 0 .. 6 : e < f => Size(e + 1) <= Size(f)
  BY DEF Size
<1>4. \A e \in 0 .. 6 : Size(e) < Size(e + 1) /\ Size(e) \in Nat /\ Size(e + 1) \in Nat
  BY DEF Size
<1>5. \E e \in 0 .. 6 : Size(e) <= w /\ w < Size(e + 1)
  BY <1>2, <1>4
<1>6. Log2(w) \in 0 .. 6 /\ Size(Log2(w)) <= w /\ w < Size(Log2(w) + 1)
  BY <1>1, <1>5
<1>7. PICK e \in 0 .. 6 : w = Size(e)
  BY <1>2
<1>8. Log2(w) = e
  BY <1>3, <1>4, <1>6, <1>7
<1>9. QED
  BY <1>6, <1>7, <1>8

-----------------------------------------------------------------------------
(* Shared words *)

\* A sharing of a word, whatever the mask.
LEMMA SharingIs ==
    ASSUME NEW w, NEW word \in SUBSET Bits(w), NEW z \in Sharings(word, w)
    PROVE  /\ DOMAIN z = Servers
           /\ \A s \in Servers : z[s] \in SUBSET Bits(w)
           /\ Shared(z) = word
<1>1. PICK mask \in Masks : z = [s \in Servers |-> IF s = 0 THEN mask \intersect Bits(w)
                                          ELSE xor(word, mask \intersect Bits(w))]
  BY DEF Sharings
<1>2. DOMAIN z = Servers /\ z[0] = mask \intersect Bits(w) /\ z[1] = xor(word, z[0])
  BY <1>1 DEF Servers
<1>3. QED
  BY <1>2 DEF Servers, Shared, xor

\* A conjunction, whatever the sharing that it leaves.
LEMMA AndIs ==
    ASSUME NEW a, NEW b, NEW z \in And(a, b),
           \A s \in Servers : a[s] \in SUBSET Bits(width) /\ b[s] \in SUBSET Bits(width)
    PROVE  /\ DOMAIN z = Servers
           /\ \A s \in Servers : z[s] \in SUBSET Bits(width)
           /\ Shared(z) = Shared(a) \intersect Shared(b)
<1>1. Shared(a) \intersect Shared(b) \in SUBSET Bits(width)
  BY DEF Servers, Shared, xor
<1>2. QED
  BY <1>1, SharingIs DEF And

-----------------------------------------------------------------------------
(* Accumulation *)

\* The lowest bit of the upper half of the part of i, and the highest bit of its part.
Start(i, part) == (i \div part) * part + part \div 2
EndOf(i, part) == (i \div part) * part + part - 1

\* The bits from which the words that differ in e agree up to the end of their part.
Agreeing(w, e, part) == {i \in Bits(w) : \A j \in i .. EndOf(i, part) : j \notin e}

\* What shiftGreater makes of a word.
Shifted(w, in, part) ==
    {i \in Bits(w) : IF i < Start(i, part) /\ Start(i, part) < w
                     THEN Start(i, part) \in in ELSE i \in in}

\* It works on each share, or not at all.
LEMMA ShiftIs ==
    ASSUME NEW in \in SUBSET Bits(width), NEW r \in 0 .. 7
    PROVE  /\ Size(r) > width => shiftGreater(in, r) = in
           /\ ~(Size(r) > width) => shiftGreater(in, r) = Shifted(width, in, Size(r))
           /\ shiftGreater(in, r) \in SUBSET Bits(width)
<1>1. 2 ^ r = Size(r)
  BY Powers
<1> DEFINE part == 2 ^ r
<1>2. shiftGreater(in, r) = IF part > width THEN in ELSE Shifted(width, in, part)
  BY DEF shiftGreater, Shifted, Start
<1>3. Shifted(width, in, part) \in SUBSET Bits(width)
  BY DEF Shifted
<1> HIDE DEF part
<1>4. part = Size(r)
  BY <1>1 DEF part
<1>5. QED
  BY <1>2, <1>3, <1>4

\* It is linear.
LEMMA ShiftedShared ==
    ASSUME NEW w, NEW a, NEW b, NEW part
    PROVE  xor(Shifted(w, a, part), Shifted(w, b, part)) = Shifted(w, xor(a, b), part)
  BY DEF xor, Shifted

\* A part and its two halves.
LEMMA Halves ==
    ASSUME NEW w \in Sizes, NEW r \in 0 .. 5, Size(r + 1) <= w, NEW i \in Bits(w)
    PROVE  /\ Start(i, Size(r + 1)) \in Int
           /\ EndOf(i, Size(r)) \in Int /\ EndOf(i, Size(r + 1)) \in Int
           /\ i < Start(i, Size(r + 1)) =>
                /\ Start(i, Size(r + 1)) \in Bits(w)
                /\ EndOf(i, Size(r)) = Start(i, Size(r + 1)) - 1
                /\ EndOf(Start(i, Size(r + 1)), Size(r)) = EndOf(i, Size(r + 1))
                /\ Start(i, Size(r + 1)) <= EndOf(i, Size(r + 1))
           /\ ~(i < Start(i, Size(r + 1))) => EndOf(i, Size(r)) = EndOf(i, Size(r + 1))
<1>0. i \in Nat /\ i < w
  BY DEF Sizes, Bits
<1>1. r = 0 \/ r = 1 \/ r = 2 \/ r = 3 \/ r = 4 \/ r = 5
  OBVIOUS
<1>2. CASE r = 0
  <2>1. Size(r) = 1 /\ Size(r + 1) = 2
    BY <1>2 DEF Size
  <2>2. PICK k \in Nat : i \div 2 = k /\ 2 * k <= i /\ i < 2 * k + 2
    BY <1>0
  <2>3. IF i < 2 * k + 1 THEN i \div 1 = 2 * k ELSE i \div 1 = 2 * k + 1
    BY <1>0, <2>2
  <2>4. (2 * k + 1) \div 1 = 2 * k + 1 /\ 2 * k + 2 <= w
    BY <1>0, <2>1, <2>2 DEF Sizes
  <2>5. /\ Start(i, 2) = 2 * k + 1 /\ EndOf(i, 2) = 2 * k + 1
        /\ EndOf(i, 1) = IF i < 2 * k + 1 THEN 2 * k + 0 ELSE 2 * k + 1
        /\ EndOf(2 * k + 1, 1) = 2 * k + 1
    BY <2>2, <2>3, <2>4 DEF Start, EndOf
  <2>6. QED
    BY <1>0, <2>1, <2>4, <2>5 DEF Sizes, Bits
<1>3. CASE r = 1
  <2>1. Size(r) = 2 /\ Size(r + 1) = 4
    BY <1>3 DEF Size
  <2>2. PICK k \in Nat : i \div 4 = k /\ 4 * k <= i /\ i < 4 * k + 4
    BY <1>0
  <2>3. IF i < 4 * k + 2 THEN i \div 2 = 2 * k ELSE i \div 2 = 2 * k + 1
    BY <1>0, <2>2
  <2>4. (4 * k + 2) \div 2 = 2 * k + 1 /\ 4 * k + 4 <= w
    BY <1>0, <2>1, <2>2 DEF Sizes
  <2>5. /\ Start(i, 4) = 4 * k + 2 /\ EndOf(i, 4) = 4 * k + 3
        /\ EndOf(i, 2) = IF i < 4 * k + 2 THEN 4 * k + 1 ELSE 4 * k + 3
        /\ EndOf(4 * k + 2, 2) = 4 * k + 3
    BY <2>2, <2>3, <2>4 DEF Start, EndOf
  <2>6. QED
    BY <1>0, <2>1, <2>4, <2>5 DEF Sizes, Bits
<1>4. CASE r = 2
  <2>1. Size(r) = 4 /\ Size(r + 1) = 8
    BY <1>4 DEF Size
  <2>2. PICK k \in Nat : i \div 8 = k /\ 8 * k <= i /\ i < 8 * k + 8
    BY <1>0
  <2>3. IF i < 8 * k + 4 THEN i \div 4 = 2 * k ELSE i \div 4 = 2 * k + 1
    BY <1>0, <2>2
  <2>4. (8 * k + 4) \div 4 = 2 * k + 1 /\ 8 * k + 8 <= w
    BY <1>0, <2>1, <2>2 DEF Sizes
  <2>5. /\ Start(i, 8) = 8 * k + 4 /\ EndOf(i, 8) = 8 * k + 7
        /\ EndOf(i, 4) = IF i < 8 * k + 4 THEN 8 * k + 3 ELSE 8 * k + 7
        /\ EndOf(8 * k + 4, 4) = 8 * k + 7
    BY <2>2, <2>3, <2>4 DEF Start, EndOf
  <2>6. QED
    BY <1>0, <2>1, <2>4, <2>5 DEF Sizes, Bits
<1>5. CASE r = 3
  <2>1. Size(r) = 8 /\ Size(r + 1) = 16
    BY <1>5 DEF Size
  <2>2. PICK k \in Nat : i \div 16 = k /\ 16 * k <= i /\ i < 16 * k + 16
    BY <1>0
  <2>3. IF i < 16 * k + 8 THEN i \div 8 = 2 * k ELSE i \div 8 = 2 * k + 1
    BY <1>0, <2>2
  <2>4. (16 * k + 8) \div 8 = 2 * k + 1 /\ 16 * k + 16 <= w
    BY <1>0, <2>1, <2>2 DEF Sizes
  <2>5. /\ Start(i, 16) = 16 * k + 8 /\ EndOf(i, 16) = 16 * k + 15
        /\ EndOf(i, 8) = IF i < 16 * k + 8 THEN 16 * k + 7 ELSE 16 * k + 15
        /\ EndOf(16 * k + 8, 8) = 16 * k + 15
    BY <2>2, <2>3, <2>4 DEF Start, EndOf
  <2>6. QED
    BY <1>0, <2>1, <2>4, <2>5 DEF Sizes, Bits
<1>6. CASE r = 4
  <2>1. Size(r) = 16 /\ Size(r + 1) = 32
    BY <1>6 DEF Size
  <2>2. PICK k \in Nat : i \div 32 = k /\ 32 * k <= i /\ i < 32 * k + 32
    BY <1>0
  <2>3. IF i < 32 * k + 16 THEN i \div 16 = 2 * k ELSE i \div 16 = 2 * k + 1
    BY <1>0, <2>2
  <2>4. (32 * k + 16) \div 16 = 2 * k + 1 /\ 32 * k + 32 <= w
    BY <1>0, <2>1, <2>2 DEF Sizes
  <2>5. /\ Start(i, 32) = 32 * k + 16 /\ EndOf(i, 32) = 32 * k + 31
        /\ EndOf(i, 16) = IF i < 32 * k + 16 THEN 32 * k + 15 ELSE 32 * k + 31
        /\ EndOf(32 * k + 16, 16) = 32 * k + 31
    BY <2>2, <2>3, <2>4 DEF Start, EndOf
  <2>6. QED
    BY <1>0, <2>1, <2>4, <2>5 DEF Sizes, Bits
<1>7. CASE r = 5
  <2>1. Size(r) = 32 /\ Size(r + 1) = 64
    BY <1>7 DEF Size
  <2>2. PICK k \in Nat : i \div 64 = k /\ 64 * k <= i /\ i < 64 * k + 64
    BY <1>0
  <2>3. IF i < 64 * k + 32 THEN i \div 32 = 2 * k ELSE i \div 32 = 2 * k + 1
    BY <1>0, <2>2
  <2>4. (64 * k + 32) \div 32 = 2 * k + 1 /\ 64 * k + 64 <= w
    BY <1>0, <2>1, <2>2 DEF Sizes
  <2>5. /\ Start(i, 64) = 64 * k + 32 /\ EndOf(i, 64) = 64 * k + 63
        /\ EndOf(i, 32) = IF i < 64 * k + 32 THEN 64 * k + 31 ELSE 64 * k + 63
        /\ EndOf(64 * k + 32, 32) = 64 * k + 63
    BY <2>2, <2>3, <2>4 DEF Start, EndOf
  <2>6. QED
    BY <1>0, <2>1, <2>4, <2>5 DEF Sizes, Bits
<1>8. QED
  BY <1>1, <1>2, <1>3, <1>4, <1>5, <1>6, <1>7

\* An accumulation joins the halves of each part.
LEMMA Accumulates ==
    ASSUME NEW w \in Sizes, NEW r \in 0 .. 5, Size(r + 1) <= w, NEW e
    PROVE  LET l == Agreeing(w, e, Size(r)) IN
           l \intersect Shifted(w, l, Size(r + 1)) = Agreeing(w, e, Size(r + 1))
<1> DEFINE l == Agreeing(w, e, Size(r))
<1> SUFFICES ASSUME NEW i \in Bits(w)
             PROVE  (i \in l /\ i \in Shifted(w, l, Size(r + 1))) <=> i \in Agreeing(w, e, Size(r + 1))
  BY DEF Agreeing
<1> DEFINE s == Start(i, Size(r + 1))
           m == EndOf(i, Size(r))
           n == EndOf(i, Size(r + 1))
<1>1. i \in Int /\ w \in Int
  BY DEF Bits, Sizes
<1>2. i \in l <=> \A j \in i .. m : j \notin e
  BY DEF Agreeing
<1>3. i \in Agreeing(w, e, Size(r + 1)) <=> \A j \in i .. n : j \notin e
  BY DEF Agreeing
<1>4. i \in Shifted(w, l, Size(r + 1)) <=> IF i < s /\ s < w THEN s \in l ELSE i \in l
  BY DEF Shifted
<1>5. CASE i < s
  <2>1. s \in Bits(w) /\ s \in Int /\ s < w /\ m = s - 1 /\ s <= n /\ n \in Int
    <3>1. s \in Bits(w) /\ m = s - 1 /\ s <= n /\ n \in Int
      BY <1>5, Halves
    <3>2. QED
      BY <1>1, <3>1 DEF Bits
  <2>2. s \in l <=> \A j \in s .. n : j \notin e
    <3>1. EndOf(s, Size(r)) = n
      BY <1>5, Halves
    <3>2. QED
      BY <2>1, <3>1 DEF Agreeing
  <2> HIDE DEF l, s, m, n
  <2>3. \A j : j \in i .. n <=> j \in i .. m \/ j \in s .. n
    BY <1>1, <1>5, <2>1
  <2>4. QED
    BY <1>2, <1>3, <1>4, <1>5, <2>1, <2>2, <2>3
<1>6. CASE ~(i < s)
  <2>1. m = n
    BY <1>6, Halves
  <2>2. QED
    BY <1>2, <1>3, <1>4, <1>6, <2>1
<1>7. QED
  BY <1>5, <1>6

\* Parts of one bit.
LEMMA AgreeingBits ==
    ASSUME NEW w \in Nat, NEW e
    PROVE  Agreeing(w, e, 1) = Bits(w) \ e
<1>1. ASSUME NEW i \in Bits(w) PROVE i .. EndOf(i, 1) = {i}
  BY DEF Bits, EndOf
<1>2. QED
  BY <1>1 DEF Agreeing

\* One part.
LEMMA AgreeingWord ==
    ASSUME NEW w \in Sizes, NEW e
    PROVE  Agreeing(w, e, w) = {i \in Bits(w) : \A j \in i .. w - 1 : j \notin e}
<1>1. ASSUME NEW i \in Bits(w) PROVE EndOf(i, w) = w - 1
  <2>1. i \div w = 0
    BY DEF Bits, Sizes
  <2>2. QED
    BY <2>1 DEF EndOf, Sizes
<1>2. QED
  BY <1>1 DEF Agreeing

-----------------------------------------------------------------------------
(* The number that a word stands for *)

\* A set of numbers has a least one: what the inductions on bits rest on.
LEMMA Least ==
    ASSUME NEW T, T \subseteq Nat, T # {}
    PROVE  \E x \in T : \A y \in T : x =< y
<1>1. PICK n \in T : TRUE
  OBVIOUS
<1> DEFINE S == 0 .. n
           Segments == {0 .. k : k \in T \cap S}
<1>2. IsWellFoundedOn(StrictSubsetOrdering(S), FiniteSubsetsOf(S))
  BY FS_StrictSubsetOrderingWellFounded
<1>3. Segments \subseteq FiniteSubsetsOf(S) /\ Segments # {}
  <2>1. ASSUME NEW k \in T \cap S PROVE 0 .. k \in FiniteSubsetsOf(S)
    <3>1. IsFiniteSet(0 .. k)
      BY FS_Interval
    <3>2. QED
      BY <3>1 DEF FiniteSubsetsOf
  <2>2. 0 .. n \in Segments
    BY <1>1
  <2>3. QED
    BY <2>1, <2>2
<1>4. \E U \in Segments : \A V \in Segments : ~ (<<V, U>> \in StrictSubsetOrdering(S))
  <2> HIDE DEF Segments, S
  <2>1. QED
    BY <1>2, <1>3, WFMin
<1>5. PICK x \in T \cap S : \A y \in T \cap S : ~ (<<0 .. y, 0 .. x>> \in StrictSubsetOrdering(S))
  BY <1>4
<1>6. ASSUME NEW y \in T, y < x PROVE FALSE
  <2>1. y \in S /\ 0 .. y \subseteq 0 .. x /\ x \in 0 .. x /\ x \notin 0 .. y
    BY <1>6
  <2>2. 0 .. y \subseteq S /\ 0 .. x \subseteq S
    BY <2>1
  <2>3. <<0 .. y, 0 .. x>> \in StrictSubsetOrdering(S)
    BY <2>1, <2>2 DEF StrictSubsetOrdering
  <2>4. QED
    BY <2>1, <2>3, <1>5
<1>7. QED
  BY <1>6

\* h gives the numbers that the highest bits of a word stand for, up to the n highest.
Highs(word, h, n) ==
    h = [k \in 0 .. n |->
            IF k = 0 THEN 0 ELSE 2 * h[k - 1] + IF width - k \in word THEN 1 ELSE 0]

\* There is such a function, by one bit more at a time.
LEMMA HighsExist ==
    ASSUME NEW word, NEW n \in Nat
    PROVE  \E h : Highs(word, h, n)
<1> DEFINE T == {k \in Nat : ~ \E h : Highs(word, h, k)}
<1>1. SUFFICES ASSUME T # {} PROVE FALSE
  OBVIOUS
<1>2. PICK k \in T : \A y \in T : k =< y
  BY <1>1, Least
<1>3. k # 0
  <2>1. Highs(word, [j \in 0 .. 0 |-> 0], 0)
    BY DEF Highs
  <2>2. QED
    BY <2>1
<1>4. k \in Nat /\ k - 1 \in Nat /\ k - 1 \notin T
  BY <1>2, <1>3
<1>5. PICK g : Highs(word, g, k - 1)
  BY <1>4
<1> DEFINE bit(j) == IF width - j \in word THEN 1 ELSE 0
           h == [j \in 0 .. k |-> IF j = k THEN 2 * g[k - 1] + bit(k) ELSE g[j]]
<1>6. ASSUME NEW j \in 0 .. k
      PROVE  h[j] = IF j = 0 THEN 0 ELSE 2 * h[j - 1] + bit(j)
  <2>1. CASE j = k
    <3>1. k - 1 \in 0 .. k /\ k - 1 # k
      BY <1>4
    <3>2. h[k - 1] = g[k - 1]
      BY <3>1
    <3>3. QED
      BY <2>1, <3>2, <1>3
  <2>2. CASE j # k
    <3>1. j \in 0 .. k - 1
      BY <2>2, <1>4
    <3>2. g[j] = IF j = 0 THEN 0 ELSE 2 * g[j - 1] + bit(j)
      BY <1>5, <3>1 DEF Highs
    <3>3. j # 0 => j - 1 \in 0 .. k /\ j - 1 # k
      BY <3>1, <1>4
    <3>4. QED
      BY <2>2, <3>2, <3>3
  <2>3. QED
    BY <2>1, <2>2
<1>7. h = [j \in 0 .. k |-> IF j = 0 THEN 0 ELSE 2 * h[j - 1] + bit(j)]
  <2>1. h = [j \in 0 .. k |-> h[j]]
    OBVIOUS
  <2> HIDE DEF h, bit
  <2>2. QED
    BY <1>6, <2>1
<1>8. Highs(word, h, k)
  <2> HIDE DEF h
  <2>1. QED
    BY <1>7 DEF Highs
<1>9. QED
  BY <1>2, <1>8

\* The number of the word is that of all its bits.
LEMMA ValueIs ==
    ASSUME NEW word, width \in Nat
    PROVE  \E h : Highs(word, h, width) /\ value(word) = h[width]
<1> DEFINE h == CHOOSE h : Highs(word, h, width)
<1>1. Highs(word, h, width)
  BY HighsExist
<1>2. value(word) = h[width]
  BY Zenon DEF value, Highs
<1>3. QED
  BY <1>1, <1>2

\* From bit n up, the highest bit in which the words differ is one in b.
Wins(a, b, n) ==
    \E i \in n .. width - 1 : i \in b \ a /\ \A j \in i + 1 .. width - 1 : j \notin xor(a, b)

\* From bit n up the words are the same.
Same(a, b, n) == \A j \in n .. width - 1 : j \notin xor(a, b)

\* One bit more.
LEMMA NextBit ==
    ASSUME width \in Nat, NEW a, NEW b, NEW n \in 0 .. width - 1
    PROVE  /\ Wins(a, b, n) <=> Wins(a, b, n + 1) \/ (Same(a, b, n + 1) /\ n \in b \ a)
           /\ Same(a, b, n) <=> Same(a, b, n + 1) /\ (n \in a <=> n \in b)
<1>1. \A i : i \in n .. width - 1 <=> i = n \/ i \in n + 1 .. width - 1
  OBVIOUS
<1>2. QED
  BY <1>1 DEF Wins, Same, xor

\* Words are in the order of their numbers.
LEMMA HighsInOrder ==
    ASSUME width \in Nat, NEW a, NEW b, NEW g, NEW h,
           Highs(a, g, width), Highs(b, h, width), NEW n \in 0 .. width
    PROVE  /\ g[n] \in Nat /\ h[n] \in Nat
           /\ g[n] < h[n] <=> Wins(a, b, width - n)
           /\ g[n] = h[n] <=> Same(a, b, width - n)
<1> DEFINE P(k) == /\ g[k] \in Nat /\ h[k] \in Nat
                   /\ g[k] < h[k] <=> Wins(a, b, width - k)
                   /\ g[k] = h[k] <=> Same(a, b, width - k)
           T == {k \in 0 .. width : ~ P(k)}
<1>1. SUFFICES ASSUME T # {} PROVE FALSE
  OBVIOUS
<1>2. PICK k \in T : \A y \in T : k =< y
  <2> HIDE DEF P
  <2>1. T \subseteq Nat
    OBVIOUS
  <2> HIDE DEF T
  <2>2. QED
    BY <1>1, <2>1, Least
<1>3. P(0)
  <2>1. g[0] = 0 /\ h[0] = 0
    BY DEF Highs
  <2>2. width - 0 .. width - 1 = {}
    OBVIOUS
  <2>3. QED
    BY <2>1, <2>2 DEF Wins, Same
<1>4. k # 0
  BY <1>2, <1>3
<1>5. k \in 0 .. width /\ k - 1 \in 0 .. width /\ k - 1 \notin T
  BY <1>2, <1>4
<1>6. P(k - 1)
  BY <1>5
<1> DEFINE m == width - k
           bit(w) == IF m \in w THEN 1 ELSE 0
<1>7. g[k] = 2 * g[k - 1] + bit(a) /\ h[k] = 2 * h[k - 1] + bit(b)
  BY <1>4, <1>5 DEF Highs
<1>8. m \in 0 .. width - 1 /\ width - (k - 1) = m + 1
  BY <1>4, <1>5
<1>9. /\ Wins(a, b, m) <=> Wins(a, b, m + 1) \/ (Same(a, b, m + 1) /\ m \in b \ a)
      /\ Same(a, b, m) <=> Same(a, b, m + 1) /\ (m \in a <=> m \in b)
  BY <1>8, NextBit
<1>10. /\ g[k - 1] \in Nat /\ h[k - 1] \in Nat
       /\ g[k - 1] < h[k - 1] <=> Wins(a, b, m + 1)
       /\ g[k - 1] = h[k - 1] <=> Same(a, b, m + 1)
  BY <1>6, <1>8
<1>11. P(k)
  <2> HIDE DEF m
  <2>1. g[k] \in Nat /\ h[k] \in Nat
    BY <1>7, <1>10
  <2>2. g[k] < h[k] <=> Wins(a, b, m)
    BY <1>7, <1>9, <1>10
  <2>3. g[k] = h[k] <=> Same(a, b, m)
    BY <1>7, <1>9, <1>10
  <2>4. QED
    BY <2>1, <2>2, <2>3 DEF m
<1>12. QED
  BY <1>2, <1>11

\* The comparison of two numbers.
LEMMA OrderOfWords ==
    ASSUME width \in Nat, NEW a, NEW b
    PROVE  /\ value(a) \in Nat /\ value(b) \in Nat
           /\ value(a) < value(b) <=> Wins(a, b, 0)
           /\ value(a) = value(b) <=> Same(a, b, 0)
<1>1. PICK g : Highs(a, g, width) /\ value(a) = g[width]
  BY ValueIs
<1>2. PICK h : Highs(b, h, width) /\ value(b) = h[width]
  BY ValueIs
<1>3. width \in 0 .. width /\ width - width = 0
  OBVIOUS
<1>4. /\ g[width] \in Nat /\ h[width] \in Nat
      /\ g[width] < h[width] <=> Wins(a, b, width - width)
      /\ g[width] = h[width] <=> Same(a, b, width - width)
  BY <1>1, <1>2, <1>3, HighsInOrder
<1>5. QED
  BY <1>1, <1>2, <1>3, <1>4

\* Two words of which neither wins are one.
LEMMA NeitherWins ==
    ASSUME width \in Nat, NEW a \in SUBSET Bits(width), NEW b \in SUBSET Bits(width)
    PROVE  a = b <=> ~Wins(a, b, 0) /\ ~Wins(b, a, 0)
<1>1. /\ value(a) \in Nat /\ value(b) \in Nat
      /\ value(a) < value(b) <=> Wins(a, b, 0)
      /\ value(a) = value(b) <=> Same(a, b, 0)
  BY OrderOfWords
<1>2. value(b) < value(a) <=> Wins(b, a, 0)
  BY OrderOfWords
<1>3. Same(a, b, 0) <=> a = b
  BY DEF Same, xor, Bits
<1>4. QED
  BY <1>1, <1>2, <1>3

-----------------------------------------------------------------------------
(* The inductive invariant *)

\* Where the operands differ, and how many accumulations there have been.
Differ == xor(Shared(xis), Shared(yis))
Done == IF round = 0 THEN 0 ELSE IF round = 1 THEN 1 ELSE round - 1
Accumulated == Size(IF Done < rounds THEN Done ELSE rounds)

\* The two words of the circuit, conjunction by conjunction, and its result.
Circuit ==
    /\ \A s \in Servers : /\ xis[s] \in SUBSET Bits(width) /\ yis[s] \in SUBSET Bits(width)
                         /\ lbs[s] \in SUBSET Bits(width) /\ zis[s] \in {0, 1}
    /\ round \in 0 .. Ended
    /\ round <= Last => Shared(lbs) = Agreeing(width, Differ, Accumulated)
    /\ round \in 2 .. Last => /\ \A s \in Servers : diag[s] \in SUBSET Bits(width)
                              /\ Shared(diag) = Shared(xis) \ Shared(yis)
    /\ round = Ended => (zis[0] # zis[1] <=> Wins(Shared(yis), Shared(xis), 0))

\* Every conjunction takes one of the triples; equality keeps those of its second
\* comparison and of what follows it.
Paid ==
    /\ round <= Last => allBmts = bmtCount(width) - round
    /\ stage = "less" /\ op = "BoolEqual" =>
            spare = IF first = NoBit THEN bmtCount(width) + 1 ELSE 1

\* The inductive invariant: the other operators do not touch the circuit.
IInv ==
    /\ width \in Sizes
    /\ op \in CompareOps => stage \in {"less", "ended"} /\ Circuit /\ Paid
    /\ op \notin CompareOps => stage # "less" /\ round = 0

\* The numbers of rounds and of triples.
LEMMA RoundsAre ==
    ASSUME width \in Sizes
    PROVE  /\ rounds \in 0 .. 6 /\ width = Size(rounds) /\ width \in Nat
           /\ Last = IF rounds = 0 THEN 2 ELSE rounds + 1
           /\ Ended = Last + 1 /\ Last \in 2 .. 7
           /\ bmtCount(width) = rounds + 3
<1>1. rounds \in 0 .. 6 /\ width = Size(rounds)
  BY LogarithmIs DEF rounds
<1>2. bmtCount(width) = rounds + 3
  BY DEF bmtCount, rounds
<1>3. Max({rounds, 1}) = IF rounds = 0 THEN 1 ELSE rounds
  <2> DEFINE m == IF rounds = 0 THEN 1 ELSE rounds
  <2>1. m \in {rounds, 1} /\ \A y \in {rounds, 1} : m >= y
    BY <1>1
  <2>2. Max({rounds, 1}) \in {rounds, 1} /\ \A y \in {rounds, 1} : Max({rounds, 1}) >= y
    BY <2>1 DEF Max
  <2>3. QED
    BY <1>1, <2>2
<1>4. QED
  BY <1>1, <1>2, <1>3 DEF Last, Ended, Sizes

\* Before the first conjunction the shares of lbs say where the operands agree.
LEMMA StartIs ==
    ASSUME width \in Sizes, NEW x, NEW y, NEW l,
           \A s \in Servers : x[s] \in SUBSET Bits(width) /\ y[s] \in SUBSET Bits(width),
           l = [s \in Servers |-> IF s = 0 THEN xor(x[s], y[s])
                                  ELSE xor(xor(x[s], y[s]), Bits(width))]
    PROVE  /\ \A s \in Servers : l[s] \in SUBSET Bits(width)
           /\ Shared(l) = Agreeing(width, xor(Shared(x), Shared(y)), Size(0))
<1>1. l[0] = xor(x[0], y[0]) /\ l[1] = xor(xor(x[1], y[1]), Bits(width))
  BY DEF Servers
<1>2. Shared(l) = Bits(width) \ xor(Shared(x), Shared(y))
  BY <1>1 DEF Shared, Servers, xor
<1>3. Size(0) = 1 /\ width \in Nat
  BY DEF Size, Sizes
<1>4. QED
  BY <1>1, <1>2, <1>3, AgreeingBits DEF Servers, xor

\* One accumulation, whatever the sharing that the conjunction leaves.
LEMMA AccumulateIs ==
    ASSUME width \in Sizes, NEW r \in 1 .. 7, NEW e,
           \A s \in Servers : lbs[s] \in SUBSET Bits(width),
           NEW k \in 0 .. 6, k = IF r <= rounds THEN r - 1 ELSE rounds,
           Shared(lbs) = Agreeing(width, e, Size(k)),
           NEW z \in And(lbs, [s \in Servers |-> shiftGreater(lbs[s], r)])
    PROVE  /\ \A s \in Servers : z[s] \in SUBSET Bits(width)
           /\ Shared(z) = Agreeing(width, e, Size(IF r <= rounds THEN r ELSE rounds))
<1> DEFINE t == [s \in Servers |-> shiftGreater(lbs[s], r)]
<1>1. /\ Size(r) > width => t[0] = lbs[0] /\ t[1] = lbs[1]
      /\ ~(Size(r) > width) => /\ t[0] = Shifted(width, lbs[0], Size(r))
                              /\ t[1] = Shifted(width, lbs[1], Size(r))
      /\ \A s \in Servers : t[s] \in SUBSET Bits(width)
  BY ShiftIs DEF Servers
<1>2. /\ \A s \in Servers : z[s] \in SUBSET Bits(width)
      /\ Shared(z) = Shared(lbs) \intersect Shared(t)
  BY <1>1, AndIs
<1> HIDE DEF t
<1>3. rounds \in 0 .. 6 /\ width = Size(rounds)
  BY RoundsAre
<1>4. CASE r <= rounds
  <2>1. Size(r) <= width /\ ~(Size(r) > width) /\ r - 1 \in 0 .. 5
    <3>1. r \in 0 .. 7 /\ rounds \in 0 .. 7 /\ r <= rounds /\ r - 1 \in 0 .. 5
      BY <1>3, <1>4
    <3>2. Size(r) <= Size(rounds) /\ Size(r) \in Nat /\ Size(rounds) \in Nat
      BY <3>1, SizesGrow
    <3> HIDE DEF Size
    <3>3. QED
      BY <1>3, <3>1, <3>2
  <2>2. Shared(t) = Shifted(width, Shared(lbs), Size(r))
    BY <1>1, <2>1, ShiftedShared DEF Shared
  <2>3. Agreeing(width, e, Size(r - 1)) \intersect Shifted(width, Agreeing(width, e, Size(r - 1)), Size(r))
          = Agreeing(width, e, Size(r))
    <3>1. r - 1 + 1 = r
      OBVIOUS
    <3>2. QED
      BY <2>1, <3>1, Accumulates
  <2>4. QED
    BY <1>2, <1>4, <2>2, <2>3
<1>5. CASE ~(r <= rounds)
  <2>1. Size(r) > width
    BY <1>3, <1>5 DEF Size
  <2>2. Shared(t) = Shared(lbs)
    BY <1>1, <2>1 DEF Shared
  <2>3. QED
    BY <1>2, <1>5, <2>2
<1>6. QED
  BY <1>4, <1>5

-----------------------------------------------------------------------------
(* The circuit, step by step *)

\* An accumulation as a step of the circuit.
LEMMA AccumulationStep ==
    ASSUME width \in Sizes, Circuit, NEW r \in 1 .. 7,
           (round = 0 /\ r = 1) \/ (round \in 2 .. rounds /\ r = round),
           lbs' \in And(lbs, [s \in Servers |-> shiftGreater(lbs[s], r)]),
           round' = round + 1, UNCHANGED <<width, xis, yis, zis, diag>>
    PROVE  Circuit'
<1>1. /\ rounds \in 0 .. 6 /\ Last = IF rounds = 0 THEN 2 ELSE rounds + 1
      /\ Ended = Last + 1 /\ rounds' = rounds /\ Last' = Last /\ Ended' = Ended
  <2>1. rounds' = rounds
    BY DEF rounds
  <2>2. QED
    BY <2>1, RoundsAre DEF Last, Ended
<1> DEFINE k == IF r <= rounds THEN r - 1 ELSE rounds
<1>2. k \in 0 .. 6 /\ Shared(lbs) = Agreeing(width, Differ, Size(k))
  <2>1. k = IF Done < rounds THEN Done ELSE rounds
    BY <1>1 DEF Done
  <2>2. round <= Last
    BY <1>1
  <2>3. QED
    BY <1>1, <2>1, <2>2 DEF Circuit, Accumulated
<1>3. /\ \A s \in Servers : lbs'[s] \in SUBSET Bits(width)
      /\ Shared(lbs') = Agreeing(width, Differ, Size(IF r <= rounds THEN r ELSE rounds))
  <2>1. \A s \in Servers : lbs[s] \in SUBSET Bits(width)
    BY DEF Circuit
  <2> HIDE DEF k
  <2>2. QED
    BY <1>2, <2>1, AccumulateIs DEF k
<1>4. Differ' = Differ /\ Shared(lbs)' = Shared(lbs') /\ Shared(diag)' = Shared(diag)
      /\ Shared(xis)' = Shared(xis) /\ Shared(yis)' = Shared(yis)
  BY DEF Differ, Shared
<1>5. Accumulated' = Size(IF r <= rounds THEN r ELSE rounds)
  <2>1. Done' = r
    BY DEF Done
  <2>2. QED
    BY <1>1, <2>1 DEF Accumulated
<1>6. round' \in 0 .. Ended /\ round' # Ended
  BY <1>1
<1>7. round' \in 2 .. Last => round \in 2 .. Last
  BY <1>1
<1>8. QED
  BY <1>1, <1>3, <1>4, <1>5, <1>6, <1>7 DEF Circuit

\* The other word: where the operands differ and the first is one.
LEMMA DiagonalStep ==
    ASSUME width \in Sizes, Circuit, Diagonal,
           round' = round + 1, UNCHANGED <<width, xis, yis, zis>>
    PROVE  Circuit'
<1>1. /\ rounds \in 0 .. 6 /\ Last = IF rounds = 0 THEN 2 ELSE rounds + 1
      /\ Ended = Last + 1 /\ rounds' = rounds /\ Last' = Last /\ Ended' = Ended
  <2>1. rounds' = rounds
    BY DEF rounds
  <2>2. QED
    BY <2>1, RoundsAre DEF Last, Ended
<1>2. round = 1 /\ lbs' = lbs
  BY DEF Diagonal
<1> DEFINE low(s) == yis[s] \intersect {0}
           term(s) == (xor(xis[s], yis[s]) \ {0})
                        \union IF s = 1 THEN xor(low(s), {0}) ELSE low(s)
           t == [s \in Servers |-> term(s)]
<1>3. diag' \in And(t, xis)
  BY DEF Diagonal
<1>4. \A s \in Servers : xis[s] \in SUBSET Bits(width) /\ yis[s] \in SUBSET Bits(width)
  BY DEF Circuit
<1>5. 0 \in Bits(width)
  BY DEF Bits, Sizes
<1>6. /\ t[0] = (xor(xis[0], yis[0]) \ {0}) \union (yis[0] \intersect {0})
      /\ t[1] = (xor(xis[1], yis[1]) \ {0}) \union xor(yis[1] \intersect {0}, {0})
  BY DEF Servers
<1> HIDE DEF t
<1>7. \A s \in Servers : t[s] \in SUBSET Bits(width)
  BY <1>4, <1>5, <1>6 DEF Servers, xor
<1>8. /\ \A s \in Servers : diag'[s] \in SUBSET Bits(width)
      /\ Shared(diag') = Shared(t) \intersect Shared(xis)
  BY <1>3, <1>4, <1>7, AndIs
<1>9. Shared(t) \intersect Shared(xis) = Shared(xis) \ Shared(yis)
  <2>1. ASSUME NEW i PROVE i \in Shared(t) /\ i \in Shared(xis) <=> i \in Shared(xis) /\ i \notin Shared(yis)
    <3>1. CASE i = 0
      BY <1>6, <3>1 DEF Shared, xor
    <3>2. CASE i # 0
      BY <1>6, <3>2 DEF Shared, xor
    <3>3. QED
      BY <3>1, <3>2
  <2>2. QED
    BY <2>1
<1>10. Differ' = Differ /\ Shared(lbs)' = Shared(lbs) /\ Shared(diag)' = Shared(diag')
      /\ Shared(xis)' = Shared(xis) /\ Shared(yis)' = Shared(yis)
  BY <1>2 DEF Differ, Shared
<1>11. Accumulated' = Accumulated
  <2>1. Done' = 1 /\ Done = 1
    BY <1>2 DEF Done
  <2>2. QED
    BY <1>1, <2>1 DEF Accumulated
<1>12. round' \in 0 .. Ended /\ round' # Ended /\ round <= Last
  BY <1>1, <1>2
<1>13. QED
  BY <1>1, <1>2, <1>8, <1>9, <1>10, <1>11, <1>12 DEF Circuit

\* Every conjunction but the last.
LEMMA ConjunctionStep ==
    ASSUME width \in Sizes, Circuit, Conjunction
    PROVE  Circuit' /\ width' = width /\ round' = round + 1 /\ round' <= Last
           /\ allBmts' = allBmts - 1
<1>1. round' = round + 1 /\ allBmts' = allBmts - 1 /\ UNCHANGED <<width, xis, yis, zis>>
  BY DEF Conjunction
<1>2. /\ rounds \in 0 .. 6 /\ Last = IF rounds = 0 THEN 2 ELSE rounds + 1
  BY RoundsAre
<1>3. CASE AccumulateFirst
  <2>1. round = 0 /\ lbs' \in And(lbs, [s \in Servers |-> shiftGreater(lbs[s], 1)]) /\ diag' = diag
    BY <1>3 DEF AccumulateFirst
  <2> DEFINE r == 1
  <2>2. r \in 1 .. 7 /\ ((round = 0 /\ r = 1) \/ (round \in 2 .. rounds /\ r = round))
    BY <2>1
  <2>3. lbs' \in And(lbs, [s \in Servers |-> shiftGreater(lbs[s], r)])
    BY <2>1
  <2>4. UNCHANGED <<width, xis, yis, zis, diag>>
    BY <1>1, <2>1
  <2> HIDE DEF r
  <2>5. Circuit'
    BY <1>1, <2>2, <2>3, <2>4, AccumulationStep
  <2>6. QED
    BY <1>1, <1>2, <2>1, <2>5
<1>4. CASE Diagonal
  BY <1>1, <1>2, <1>4, DiagonalStep DEF Diagonal
<1>5. CASE Accumulate
  <2>1. round \in 2 .. rounds /\ lbs' \in And(lbs, [s \in Servers |-> shiftGreater(lbs[s], round)]) /\ diag' = diag
    BY <1>5 DEF Accumulate
  <2>2. round \in 1 .. 7
    BY <1>2, <2>1
  <2>3. QED
    BY <1>1, <1>2, <2>1, <2>2, AccumulationStep
<1>6. QED
  BY <1>3, <1>4, <1>5 DEF Conjunction

\* A sharing of no bit or of one bit: whether there is one is whether the server's numbers
\* of bits differ by one.
LEMMA ParityIs ==
    ASSUME width \in Nat, NEW a \in SUBSET Bits(width), NEW b \in SUBSET Bits(width),
           \A i, j \in xor(a, b) : i = j
    PROVE  Cardinality(a) % 2 # Cardinality(b) % 2 <=> xor(a, b) # {}
<1>1. IsFiniteSet(a) /\ IsFiniteSet(b)
  <2>1. IsFiniteSet(Bits(width))
    BY FS_Interval DEF Bits
  <2>2. QED
    BY <2>1, FS_Subset
<1>2. Cardinality(a) \in Nat /\ Cardinality(b) \in Nat
  BY <1>1, FS_CardinalityType
<1>3. CASE xor(a, b) = {}
  <2>1. a = b
    BY <1>3 DEF xor
  <2>2. QED
    BY <1>3, <2>1
<1>4. ASSUME NEW i \in xor(a, b) PROVE Cardinality(a) % 2 # Cardinality(b) % 2
  <2>1. CASE i \in a
    <3>1. i \notin b /\ a = b \union {i}
      BY <1>4, <2>1 DEF xor
    <3>2. Cardinality(a) = Cardinality(b) + 1
      BY <1>1, <3>1, FS_AddElement
    <3>3. QED
      BY <1>2, <3>2
  <2>2. CASE i \notin a
    <3>1. b = a \union {i}
      BY <1>4, <2>2 DEF xor
    <3>2. Cardinality(b) = Cardinality(a) + 1
      BY <1>1, <2>2, <3>1, FS_AddElement
    <3>3. QED
      BY <1>2, <3>2
  <2>3. QED
    BY <2>1, <2>2
<1>5. QED
  BY <1>3, <1>4

\* The last conjunction: a bit is left if and only if it decides the comparison.
LEMMA CompareStep ==
    ASSUME width \in Sizes, Circuit, Compare
    PROVE  Circuit' /\ width' = width /\ round' = Ended /\ round = Last
<1>1. /\ round = Last /\ round' = Ended
      /\ UNCHANGED <<width, xis, yis, lbs, diag, allBmts>>
  BY DEF Compare
<1>2. /\ rounds \in 0 .. 6 /\ width = Size(rounds)
      /\ Last = IF rounds = 0 THEN 2 ELSE rounds + 1
      /\ Ended = Last + 1 /\ rounds' = rounds /\ Last' = Last /\ Ended' = Ended /\ width \in Nat
  <2>1. rounds' = rounds
    BY <1>1 DEF rounds
  <2>2. QED
    BY <2>1, RoundsAre DEF Last, Ended
<1>3. Accumulated = width
  BY <1>1, <1>2 DEF Accumulated, Done
<1>4. Shared(lbs) = {i \in Bits(width) : \A j \in i .. width - 1 : j \notin Differ}
  BY <1>1, <1>2, <1>3, AgreeingWord DEF Circuit
<1>5. /\ \A s \in Servers : diag[s] \in SUBSET Bits(width) /\ lbs[s] \in SUBSET Bits(width)
      /\ Shared(diag) = Shared(xis) \ Shared(yis)
  BY <1>1, <1>2 DEF Circuit
<1> DEFINE above(s) == {i \in Bits(width - 1) : i + 1 \in lbs[s]}
                        \union (IF s = 1 THEN {width - 1} ELSE {})
           t == [s \in Servers |-> above(s)]
<1>6. PICK accum \in And(t, diag) : zis' = [s \in Servers |-> Cardinality(accum[s]) % 2]
  BY DEF Compare
<1>7. /\ t[0] = {i \in Bits(width - 1) : i + 1 \in lbs[0]}
      /\ t[1] = {i \in Bits(width - 1) : i + 1 \in lbs[1]} \union {width - 1}
  BY DEF Servers
<1> HIDE DEF t
<1>8. \A s \in Servers : t[s] \in SUBSET Bits(width)
  <2>1. width - 1 \in Bits(width) /\ Bits(width - 1) \subseteq Bits(width)
    BY DEF Bits, Sizes
  <2>2. QED
    BY <1>7, <2>1 DEF Servers
<1>9. /\ \A s \in Servers : accum[s] \in SUBSET Bits(width)
      /\ Shared(accum) = Shared(t) \intersect Shared(diag)
  BY <1>5, <1>6, <1>8, AndIs
<1>10. Shared(t) = {i \in Bits(width) : \A j \in i + 1 .. width - 1 : j \notin Differ}
  <2>1. ASSUME NEW i \in Bits(width)
        PROVE  i \in Shared(t) <=> \A j \in i + 1 .. width - 1 : j \notin Differ
    <3>1. CASE i = width - 1
      <4>1. i \notin Bits(width - 1) /\ i + 1 .. width - 1 = {}
        BY <1>2, <3>1 DEF Bits
      <4>2. QED
        BY <1>7, <3>1, <4>1 DEF Shared, xor
    <3>2. CASE i # width - 1
      <4>1. i \in Bits(width - 1) /\ i + 1 \in Bits(width)
        BY <1>2, <3>2 DEF Bits
      <4>2. i \in Shared(t) <=> i + 1 \in Shared(lbs)
        BY <1>7, <3>2, <4>1 DEF Shared, xor
      <4>3. QED
        BY <1>4, <4>1, <4>2
    <3>3. QED
      BY <3>1, <3>2
  <2>2. Shared(t) \subseteq Bits(width)
    BY <1>8 DEF Shared, Servers, xor
  <2>3. QED
    BY <2>1, <2>2
<1>11. Shared(accum) = {i \in Bits(width) : /\ i \in Shared(xis) \ Shared(yis)
                                           /\ \A j \in i + 1 .. width - 1 : j \notin Differ}
  BY <1>5, <1>9, <1>10
<1>12. \A i, j \in Shared(accum) : i = j
  <2>1. ASSUME NEW i \in Shared(accum), NEW j \in Shared(accum), i < j PROVE FALSE
    <3>1. j \in i + 1 .. width - 1 /\ j \in Differ
      BY <1>2, <1>11, <2>1 DEF Bits, Differ, xor
    <3>2. QED
      BY <1>11, <3>1
  <2>2. \A i \in Shared(accum) : i \in Nat
    BY <1>2, <1>11 DEF Bits
  <2>3. QED
    BY <2>1, <2>2
<1>13. Shared(accum) # {} <=> Wins(Shared(yis), Shared(xis), 0)
  <2>1. xor(Shared(yis), Shared(xis)) = Differ /\ Bits(width) = 0 .. width - 1
    BY DEF Differ, xor, Bits
  <2>2. QED
    BY <1>11, <2>1 DEF Wins
<1>14. zis'[0] # zis'[1] <=> Shared(accum) # {}
  <2>1. zis'[0] = Cardinality(accum[0]) % 2 /\ zis'[1] = Cardinality(accum[1]) % 2
    BY <1>6 DEF Servers
  <2>2. accum[0] \in SUBSET Bits(width) /\ accum[1] \in SUBSET Bits(width)
    BY <1>9 DEF Servers
  <2>3. QED
    BY <1>2, <1>12, <2>1, <2>2, ParityIs DEF Shared
<1>15. \A s \in Servers : zis'[s] \in {0, 1}
  <2>1. ASSUME NEW s \in Servers PROVE Cardinality(accum[s]) \in Nat
    <3>1. IsFiniteSet(Bits(width))
      BY <1>2, FS_Interval DEF Bits
    <3>2. IsFiniteSet(accum[s])
      BY <1>9, <3>1, FS_Subset
    <3>3. QED
      BY <3>2, FS_CardinalityType
  <2>2. QED
    BY <1>6, <2>1
<1>16. Wins(Shared(yis), Shared(xis), 0)' = Wins(Shared(yis), Shared(xis), 0)
  BY <1>1 DEF Wins, Shared
<1>17. round' \in 0 .. Ended /\ ~(round' <= Last) /\ round' \notin 2 .. Last
  BY <1>1, <1>2
<1>18. QED
  BY <1>1, <1>2, <1>13, <1>14, <1>15, <1>16, <1>17 DEF Circuit

-----------------------------------------------------------------------------
(* The operators *)

\* The constructors.
LEMMA InitHolds == CircuitsInit => IInv
<1> SUFFICES ASSUME CircuitsInit PROVE IInv
  OBVIOUS
<1>1. op \in Ops /\ (Words \/ Shares) /\ first = NoBit
  BY DEF CircuitsInit
<1>2. CASE Words
  <2>1. /\ width \in Widths /\ round = 0 /\ zis = [s \in Servers |-> 0]
        /\ allBmts = bmtCount(width)
        /\ lbs = [s \in Servers |-> LET eq == xor(xis[s], yis[s]) IN
                                    IF s = 0 THEN eq ELSE xor(eq, Bits(width))]
    BY <1>2 DEF Words, Init
  <2>2. PICK x, y \in SUBSET Bits(width) : xis \in Sharings(y, width) /\ yis \in Sharings(x, width)
    BY <1>2 DEF Words, Init
  <2>3. \A s \in Servers : xis[s] \in SUBSET Bits(width) /\ yis[s] \in SUBSET Bits(width)
    BY <2>2, SharingIs
  <2>4. width \in Sizes
    BY <2>1, WidthCases
  <2>5. lbs = [s \in Servers |-> IF s = 0 THEN xor(xis[s], yis[s])
                                  ELSE xor(xor(xis[s], yis[s]), Bits(width))]
    BY <2>1
  <2>6. /\ \A s \in Servers : lbs[s] \in SUBSET Bits(width)
        /\ Shared(lbs) = Agreeing(width, Differ, Size(0))
    BY <2>3, <2>4, <2>5, StartIs DEF Differ
  <2>7. rounds \in 0 .. 6 /\ Last \in 2 .. 7 /\ Ended = Last + 1 /\ bmtCount(width) \in Nat
    BY <2>4, RoundsAre
  <2>8. Accumulated = Size(0)
    BY <2>1, <2>7 DEF Accumulated, Done
  <2>9. Circuit
    BY <2>1, <2>3, <2>6, <2>7, <2>8 DEF Circuit
  <2>10. Paid
    <3>1. op = "BoolEqual" => spare = bmtCount(width) + 1
      BY <1>2, <2>7 DEF Words, equalBmtCount
    <3>2. QED
      BY <1>1, <2>1, <2>7, <3>1 DEF Paid
  <2>11. op \in CompareOps => stage \in {"less", "ended"}
    BY <1>2 DEF Words, CompareOps, WordGenerators
  <2>12. op \notin CompareOps => stage # "less"
    BY <1>2 DEF Words, CompareOps, BooleanOps, WordGenerators
  <2>13. QED
    BY <2>1, <2>4, <2>9, <2>10, <2>11, <2>12 DEF IInv
<1>3. CASE Shares
  <2>1. /\ op \in LinearOps \union RippleOps \union NumberGenerators
        /\ width \in Widths /\ round = 0
    BY <1>3 DEF Shares
  <2>2. op \notin CompareOps
    BY <2>1 DEF LinearOps, RippleOps, NumberGenerators, CompareOps
  <2>3. stage # "less"
    BY <1>3, <2>1 DEF Shares, LinearOps, RippleOps, NumberGenerators
  <2>4. QED
    BY <2>1, <2>2, <2>3, WidthCases DEF IInv
<1>4. QED
  BY <1>1, <1>2, <1>3

\* What leaves the circuit alone and is another operator's.
LEMMA OthersKeep ==
    ASSUME IInv, UNCHANGED <<vars, op>>, stage \notin {"less", "ended"}, stage' # "less"
    PROVE  IInv'
<1>1. op \notin CompareOps /\ width' = width /\ round' = round /\ op' = op
  BY DEF IInv, vars
<1>2. QED
  BY <1>1 DEF IInv

\* A step of the comparison that runs.
LEMMA LessStep ==
    ASSUME IInv, Less
    PROVE  IInv'
<1>1. stage = "less" /\ Next /\ UNCHANGED mine
  BY DEF Less
<1>2. op' = op /\ stage' = stage /\ spare' = spare /\ first' = first
  BY <1>1 DEF mine
<1>3. op \in CompareOps /\ width \in Sizes /\ Circuit /\ Paid
  BY <1>1 DEF IInv
<1>4. CASE Conjunction
  <2>1. Circuit' /\ width' = width /\ round' = round + 1 /\ round' <= Last /\ allBmts' = allBmts - 1
    BY <1>3, <1>4, ConjunctionStep
  <2>2. Last' = Last /\ bmtCount(width)' = bmtCount(width)
    BY <2>1 DEF Last, rounds
  <2>3. Last \in 2 .. 7 /\ bmtCount(width) \in Int /\ round \in Nat
    BY <1>3, RoundsAre DEF Circuit
  <2>4. Paid'
    <3>1. allBmts = bmtCount(width) - round
      BY <1>3, <2>1, <2>3 DEF Paid
    <3>2. allBmts' = bmtCount(width) - round'
      BY <2>1, <2>3, <3>1
    <3>3. QED
      BY <1>2, <1>3, <2>1, <2>2, <3>2 DEF Paid
  <2>5. QED
    BY <1>1, <1>2, <1>3, <2>1, <2>4 DEF IInv
<1>5. CASE Compare
  <2>1. Circuit' /\ width' = width /\ round' = Ended /\ round = Last
    BY <1>3, <1>5, CompareStep
  <2>2. Last' = Last /\ bmtCount(width)' = bmtCount(width)
    BY <2>1 DEF Last, rounds
  <2>3. ~(round' <= Last)
    BY <1>3, <2>1, RoundsAre
  <2>4. Paid'
    BY <1>2, <1>3, <2>2, <2>3 DEF Paid
  <2>5. QED
    BY <1>1, <1>2, <1>3, <2>1, <2>4 DEF IInv
<1>6. QED
  BY <1>1, <1>4, <1>5 DEF Next

\* The caller goes on after a comparison; equality starts its second one, with the
\* operands swapped.
LEMMA ComparedStep ==
    ASSUME IInv, Compared
    PROVE  IInv'
<1>1. stage = "less" /\ round = Ended /\ op' = op /\ width' = width
  BY DEF Compared
<1>2. op \in CompareOps /\ width \in Sizes /\ Circuit /\ Paid
  BY <1>1 DEF IInv
<1>3. /\ rounds' = rounds /\ Last' = Last /\ Ended' = Ended
      /\ bmtCount(width)' = bmtCount(width)
  BY <1>1 DEF rounds, Last, Ended
<1>4. /\ rounds \in 0 .. 6 /\ Last \in 2 .. 7 /\ Ended = Last + 1 /\ bmtCount(width) \in Nat
  BY <1>2, RoundsAre
<1>5. ASSUME stage' = "ended", UNCHANGED <<xis, yis, lbs, diag, round, allBmts, zis>> PROVE IInv'
  <2>1. Circuit'
    <3>1. /\ Differ' = Differ /\ Shared(lbs)' = Shared(lbs) /\ Shared(diag)' = Shared(diag)
          /\ Shared(xis)' = Shared(xis) /\ Shared(yis)' = Shared(yis)
      BY <1>5 DEF Differ, Shared
    <3>2. Accumulated' = Accumulated
      BY <1>3, <1>5 DEF Accumulated, Done
    <3>3. Wins(Shared(yis), Shared(xis), 0)' = Wins(Shared(yis), Shared(xis), 0)
      BY <1>1, <3>1 DEF Wins
    <3>4. QED
      BY <1>1, <1>2, <1>3, <1>5, <3>1, <3>2, <3>3 DEF Circuit
  <2>2. Paid'
    BY <1>2, <1>3, <1>5 DEF Paid
  <2>3. QED
    BY <1>1, <1>2, <1>5, <2>1, <2>2 DEF IInv
<1>6. CASE op = "BoolEqual" /\ first = NoBit
  <2>1. /\ first' = NotBit(zis) /\ xis' = yis /\ yis' = xis /\ lbs' = StartLess(yis, xis)
        /\ round' = 0 /\ zis' = [s \in Servers |-> 0] /\ allBmts' = bmtCount(width)
        /\ spare' = spare - bmtCount(width) /\ stage' = stage
    BY <1>6 DEF Compared
  <2>2. lbs' = [s \in Servers |-> IF s = 0 THEN xor(xis[s], yis[s])
                                  ELSE xor(xor(xis[s], yis[s]), Bits(width))]
    BY <2>1 DEF StartLess
  <2>3. \A s \in Servers : xis[s] \in SUBSET Bits(width) /\ yis[s] \in SUBSET Bits(width)
    BY <1>2 DEF Circuit
  <2>4. /\ \A s \in Servers : lbs'[s] \in SUBSET Bits(width)
        /\ Shared(lbs') = Agreeing(width, Differ, Size(0))
    BY <1>2, <2>2, <2>3, StartIs DEF Differ
  <2>5. Differ' = Differ /\ Shared(lbs)' = Shared(lbs')
    BY <2>1 DEF Differ, Shared, xor
  <2>6. Accumulated' = Size(0)
    BY <1>3, <1>4, <2>1 DEF Accumulated, Done
  <2>7. Circuit'
    BY <1>1, <1>3, <1>4, <2>1, <2>3, <2>4, <2>5, <2>6 DEF Circuit
  <2>8. first' # NoBit
    <3>1. first'[0] = (zis[0] + 0) % 2 /\ NoBit[0] = -1 /\ zis[0] \in {0, 1}
      BY <1>2, <2>1 DEF NotBit, NoBit, Servers, Circuit
    <3>2. QED
      BY <3>1
  <2>9. spare' = 1
    BY <1>1, <1>2, <1>4, <1>6, <2>1 DEF Paid
  <2>10. Paid'
    BY <1>3, <1>4, <2>1, <2>8, <2>9 DEF Paid
  <2>11. QED
    BY <1>1, <1>2, <2>1, <2>7, <2>10 DEF IInv
<1>7. CASE ~(op = "BoolEqual" /\ first = NoBit)
  BY <1>5, <1>7 DEF Compared
<1>8. QED
  BY <1>6, <1>7

\* Every step keeps the invariant.
LEMMA NextKeepsIInv == IInv /\ [CircuitsNext]_<<vars, mine>> => IInv'
<1> SUFFICES ASSUME IInv, [CircuitsNext]_<<vars, mine>> PROVE IInv'
  OBVIOUS
<1>1. CASE Less
  BY <1>1, LessStep
<1>2. CASE Compared
  BY <1>2, ComparedStep
<1>3. CASE Select
  <2>1. UNCHANGED <<vars, op>> /\ stage = "select" /\ stage' = "ended"
    BY <1>3 DEF Select
  <2>2. QED
    BY <2>1, OthersKeep
<1>4. CASE Linear
  <2>1. UNCHANGED <<vars, op>>
    BY <1>4 DEF Linear
  <2>2. stage \notin {"less", "ended"} /\ stage' # "less"
    BY <1>4 DEF Linear, Add, Multiply, TransferBit, Converted, Choose
  <2>3. QED
    BY <2>1, <2>2, OthersKeep
<1>5. CASE Ripple
  <2>1. UNCHANGED <<vars, op>>
    BY <1>5 DEF Ripple
  <2>2. stage \notin {"less", "ended"} /\ stage' # "less"
    <3>1. CASE Split
      BY <3>1 DEF Split
    <3>2. CASE AddBit
      BY <3>2 DEF AddBit
    <3>3. CASE Rippled
      BY <3>3 DEF Rippled
    <3>4. QED
      BY <1>5, <3>1, <3>2, <3>3 DEF Ripple
  <2>3. QED
    BY <2>1, <2>2, OthersKeep
<1>6. CASE Generate
  <2>1. UNCHANGED <<vars, op>>
    BY <1>6 DEF Generate
  <2>2. stage \notin {"less", "ended"} /\ stage' # "less"
    <3>1. CASE Prepare
      BY <3>1 DEF Prepare
    <3>2. CASE Offer
      BY <3>2 DEF Offer
    <3>3. CASE Mask
      BY <3>3 DEF Mask
    <3>4. CASE Mix
      BY <3>4 DEF Mix
    <3>5. CASE Third
      BY <3>5 DEF Third
    <3>6. QED
      BY <1>6, <3>1, <3>2, <3>3, <3>4, <3>5 DEF Generate
  <2>3. QED
    BY <2>1, <2>2, OthersKeep
<1>7. CASE UNCHANGED <<vars, mine>>
  <2>1. /\ UNCHANGED <<width, xis, yis, lbs, diag, round, allBmts, zis>>
        /\ UNCHANGED <<op, stage, spare, first>>
    BY <1>7 DEF vars, mine
  <2>2. Circuit' = Circuit
    BY <2>1 DEF Circuit, Last, Ended, rounds, Differ, Shared, Accumulated, Done, Wins
  <2>3. Paid' = Paid
    BY <2>1 DEF Paid, Last, rounds
  <2>4. QED
    BY <2>1, <2>2, <2>3 DEF IInv
<1>8. QED
  BY <1>1, <1>2, <1>3, <1>4, <1>5, <1>6, <1>7 DEF CircuitsNext

\* The invariant holds in every reachable state.
THEOREM Invariance == CircuitsSpec => []IInv
  BY InitHolds, NextKeepsIInv, PTL DEF CircuitsSpec

\* Whatever sharings the conjunctions leave, at every width that there is, the two servers'
\* results are a sharing of the bit that says whether the second word is the smaller one,
\* in either comparison of an equality (BoolLessBatchOperator::execute).
THEOREM LessIsSharedHolds == CircuitsSpec => []LessIsShared
<1>1. IInv => LessIsShared
  <2> SUFFICES ASSUME IInv, round = Ended
               PROVE  (zis[0] # zis[1]) = (value(Shared(yis)) < value(Shared(xis)))
    BY DEF LessIsShared
  <2>1. width \in Sizes /\ width \in Nat /\ round # 0
    BY RoundsAre DEF IInv
  <2>2. Circuit
    BY <2>1 DEF IInv
  <2>3. zis[0] # zis[1] <=> Wins(Shared(yis), Shared(xis), 0)
    BY <2>2 DEF Circuit
  <2>4. value(Shared(yis)) < value(Shared(xis)) <=> Wins(Shared(yis), Shared(xis), 0)
    BY <2>1, OrderOfWords
  <2>5. QED
    BY <2>3, <2>4
<1>2. QED
  BY <1>1, Invariance, PTL

\* bmtCount() pays for every conjunction of a comparison, whatever the width, and equality
\* keeps enough for its second comparison and the conjunction that joins the two
\* (BoolLessBatchOperator, BoolEqualBatchOperator::bmtCount).
THEOREM TriplesSufficeHolds == CircuitsSpec => []TriplesSuffice
<1>1. IInv => TriplesSuffice
  <2> SUFFICES ASSUME IInv, stage = "less"
               PROVE  /\ round <= Last => allBmts >= 1
                      /\ op = "BoolEqual" => spare >= IF first = NoBit THEN bmtCount(width) + 1 ELSE 1
    BY DEF TriplesSuffice
  <2>1. width \in Sizes /\ Circuit /\ Paid
    BY DEF IInv
  <2>2. /\ rounds \in 0 .. 6 /\ bmtCount(width) = rounds + 3 /\ round \in Nat
        /\ Last = IF rounds = 0 THEN 2 ELSE rounds + 1
    BY <2>1, RoundsAre DEF Circuit
  <2>3. QED
    BY <2>1, <2>2 DEF Paid
<1>2. QED
  BY <1>1, Invariance, PTL

-----------------------------------------------------------------------------
(* What the callers make of it *)

\* A sharing of a bit.
LEMMA BitSharingIs ==
    ASSUME NEW b \in {0, 1}, NEW z \in BitSharings(b)
    PROVE  z[0] \in {0, 1} /\ z[1] \in {0, 1} /\ SharedBit(z) = b
<1>1. PICK r \in {0, 1} : z = [s \in Servers |-> IF s = 0 THEN (b + r) % 2 ELSE r]
  BY DEF BitSharings
<1>2. z[0] = (b + r) % 2 /\ z[1] = r
  BY <1>1 DEF Servers
<1>3. QED
  BY <1>2 DEF SharedBit

\* Only one server turns its share.
LEMMA NotBitIs ==
    ASSUME NEW b, b[0] \in {0, 1}, b[1] \in {0, 1}
    PROVE  /\ NotBit(b)[0] \in {0, 1} /\ NotBit(b)[1] \in {0, 1}
           /\ SharedBit(b) = IF b[0] # b[1] THEN 1 ELSE 0
           /\ SharedBit(NotBit(b)) = 1 - SharedBit(b)
<1>1. NotBit(b)[0] = (b[0] + 0) % 2 /\ NotBit(b)[1] = (b[1] + 1) % 2
  BY DEF NotBit, Servers
<1>2. QED
  BY <1>1 DEF SharedBit

\* A conjunction of bits.
LEMMA AndBitIs ==
    ASSUME NEW a, NEW b, SharedBit(a) \in {0, 1}, SharedBit(b) \in {0, 1}, NEW z \in AndBit(a, b)
    PROVE  z[0] \in {0, 1} /\ z[1] \in {0, 1} /\ (SharedBit(z) = 1 <=> SharedBit(a) = 1 /\ SharedBit(b) = 1)
<1>1. SharedBit(a) * SharedBit(b) \in {0, 1}
  OBVIOUS
<1>2. SharedBit(a) * SharedBit(b) = 1 <=> SharedBit(a) = 1 /\ SharedBit(b) = 1
  OBVIOUS
<1>3. QED
  BY <1>1, <1>2, BitSharingIs DEF AndBit

\* The operators that select one of two words, or swap them.
MutexOps == {"BoolMutex", "BoolMutexBoth"}

\* Equality keeps that the first comparison failed; a mutex has its operands and condition.
Results ==
    /\ op = "BoolEqual" /\ first # NoBit =>
            /\ first[0] \in {0, 1} /\ first[1] \in {0, 1}
            /\ SharedBit(first) = 1 <=> ~Wins(Shared(xis), Shared(yis), 0)
    /\ op \in MutexOps =>
            /\ stage \in {"select", "ended"}
            /\ cond[0] \in {0, 1} /\ cond[1] \in {0, 1}
            /\ \A s \in Servers : xis[s] \in SUBSET Bits(width) /\ yis[s] \in SUBSET Bits(width)
    /\ WordsAreShared

\* The constructors.
LEMMA InitResults == CircuitsInit => Results
<1> SUFFICES ASSUME CircuitsInit PROVE Results
  OBVIOUS
<1>1. (Words \/ Shares) /\ first = NoBit
  BY DEF CircuitsInit
<1>2. CASE Words
  <2>1. PICK x, y \in SUBSET Bits(width) : xis \in Sharings(y, width) /\ yis \in Sharings(x, width)
    BY <1>2 DEF Words, Init
  <2>2. \A s \in Servers : xis[s] \in SUBSET Bits(width) /\ yis[s] \in SUBSET Bits(width)
    BY <2>1, SharingIs
  <2>3. stage # "ended"
    BY <1>2 DEF Words
  <2>4. op \in MutexOps => stage = "select"
    BY <1>2 DEF Words, MutexOps, WordGenerators
  <2>5. cond[0] \in {0, 1} /\ cond[1] \in {0, 1}
    <3>1. CASE cond = Bit(0)
      BY <3>1 DEF Bit, Servers
    <3>2. CASE cond \in BitSharings(0) \union BitSharings(1)
      BY <3>2, BitSharingIs
    <3>3. QED
      BY <1>2, <3>1, <3>2 DEF Words
  <2>6. QED
    BY <1>1, <2>2, <2>3, <2>4, <2>5 DEF Results, WordsAreShared
<1>3. CASE Shares
  <2>1. op \in LinearOps \union RippleOps \union NumberGenerators
    BY <1>3 DEF Shares
  <2>2. op # "BoolEqual" /\ op \notin MutexOps
    BY <2>1 DEF LinearOps, RippleOps, NumberGenerators, MutexOps
  <2>3. QED
    BY <2>2 DEF Results, WordsAreShared, MutexOps
<1>4. QED
  BY <1>1, <1>2, <1>3

\* What is another operator's.
LEMMA OthersKeepResults ==
    ASSUME IInv, Results, stage \notin {"less", "ended", "select"}, op' = op
    PROVE  Results'
<1>1. op # "BoolEqual" /\ op \notin MutexOps
  BY DEF IInv, Results, CompareOps
<1>2. QED
  BY <1>1 DEF Results, WordsAreShared, MutexOps

\* A comparison that runs has no result yet.
LEMMA LessResults ==
    ASSUME IInv, Results, Less
    PROVE  Results'
<1>1. stage = "less" /\ stage' = "less" /\ op' = op /\ first' = first
  BY DEF Less, mine
<1>2. xis' = xis /\ yis' = yis /\ width' = width
  BY DEF Less, Next, Conjunction, Compare
<1>3. op \notin MutexOps
  BY <1>1 DEF IInv, CompareOps, MutexOps
<1>4. Wins(Shared(xis), Shared(yis), 0)' = Wins(Shared(xis), Shared(yis), 0)
      /\ SharedBit(first)' = SharedBit(first)
  BY <1>1, <1>2 DEF Wins, Shared, SharedBit
<1>5. QED
  BY <1>1, <1>3, <1>4 DEF Results, WordsAreShared

\* Equality joins that neither word is the smaller one.
LEMMA ComparedResults ==
    ASSUME IInv, Results, Compared
    PROVE  Results'
<1>1. stage = "less" /\ round = Ended /\ op' = op /\ width' = width
  BY DEF Compared
<1>2. op \in CompareOps /\ op \notin MutexOps /\ width \in Sizes /\ width \in Nat /\ Circuit
  BY <1>1, RoundsAre DEF IInv, CompareOps, MutexOps
<1>3. /\ zis[0] \in {0, 1} /\ zis[1] \in {0, 1}
      /\ SharedBit(zis) = 1 <=> Wins(Shared(yis), Shared(xis), 0)
  <2>1. zis[0] \in {0, 1} /\ zis[1] \in {0, 1}
    BY <1>2 DEF Circuit, Servers
  <2>2. QED
    BY <1>1, <1>2, <2>1, NotBitIs DEF Circuit
<1>4. /\ NotBit(zis)[0] \in {0, 1} /\ NotBit(zis)[1] \in {0, 1}
      /\ SharedBit(NotBit(zis)) \in {0, 1}
      /\ SharedBit(NotBit(zis)) = 1 <=> ~Wins(Shared(yis), Shared(xis), 0)
  BY <1>3, NotBitIs
<1>5. CASE op = "BoolLess"
  BY <1>1, <1>5 DEF Results, WordsAreShared, MutexOps
<1>6. CASE op = "BoolEqual" /\ first = NoBit
  <2>1. first' = NotBit(zis) /\ xis' = yis /\ yis' = xis /\ stage' = "less"
    BY <1>1, <1>6 DEF Compared
  <2>2. /\ Wins(Shared(xis), Shared(yis), 0)' = Wins(Shared(yis), Shared(xis), 0)
        /\ SharedBit(first)' = SharedBit(NotBit(zis))
    BY <1>1, <2>1 DEF Wins, Shared, SharedBit
  <2>3. QED
    BY <1>1, <1>2, <1>4, <2>1, <2>2 DEF Results, WordsAreShared
<1>7. CASE op = "BoolEqual" /\ first # NoBit
  <2>1. /\ zb' \in AndBit(first, NotBit(zis)) /\ stage' = "ended"
        /\ xis' = xis /\ yis' = yis /\ first' = first
    BY <1>7 DEF Compared
  <2>2. /\ first[0] \in {0, 1} /\ first[1] \in {0, 1}
        /\ SharedBit(first) = 1 <=> ~Wins(Shared(xis), Shared(yis), 0)
    BY <1>7 DEF Results
  <2>3. SharedBit(first) \in {0, 1}
    BY <2>2, NotBitIs
  <2>4. SharedBit(zb') = 1 <=> SharedBit(first) = 1 /\ SharedBit(NotBit(zis)) = 1
    BY <1>4, <2>1, <2>3, AndBitIs
  <2>5. Shared(xis) \in SUBSET Bits(width) /\ Shared(yis) \in SUBSET Bits(width)
    BY <1>2 DEF Circuit, Shared, Servers, xor
  <2>6. SharedBit(zb') = 1 <=> Shared(xis) = Shared(yis)
    BY <1>2, <1>4, <2>2, <2>4, <2>5, NeitherWins
  <2>7. /\ Wins(Shared(xis), Shared(yis), 0)' = Wins(Shared(xis), Shared(yis), 0)
        /\ SharedBit(first)' = SharedBit(first) /\ SharedBit(zb)' = SharedBit(zb')
        /\ Shared(xis)' = Shared(xis) /\ Shared(yis)' = Shared(yis)
    BY <1>1, <2>1 DEF Wins, Shared, SharedBit
  <2>8. op' \notin MutexOps /\ first' # NoBit
    BY <1>1, <1>2, <1>7, <2>1
  <2>9. WordsAreShared'
    BY <1>1, <2>6, <2>7, <2>8 DEF WordsAreShared, MutexOps
  <2>10. QED
    BY <1>1, <2>1, <2>2, <2>7, <2>8, <2>9 DEF Results
<1>8. QED
  BY <1>2, <1>5, <1>6, <1>7 DEF CompareOps

\* The chosen word from the conjunctions of both words with the condition.
LEMMA ChoiceIs ==
    ASSUME NEW a, NEW b, NEW c, NEW p, NEW q, NEW z,
           \A s \in Servers : a[s] \in SUBSET Bits(width) /\ b[s] \in SUBSET Bits(width)
                               /\ c[s] \in {{}, Bits(width)},
           p \in And(a, c), q \in And(b, c),
           z[0] = xor(xor(p[0], b[0]), q[0]), z[1] = xor(xor(p[1], b[1]), q[1])
    PROVE  Shared(z) = Shared(IF c[0] # c[1] THEN a ELSE b)
<1>1. /\ Shared(p) = Shared(a) \intersect Shared(c)
      /\ Shared(q) = Shared(b) \intersect Shared(c)
  BY AndIs
<1>2. Shared(a) \in SUBSET Bits(width) /\ Shared(b) \in SUBSET Bits(width)
  BY DEF Shared, Servers, xor
<1>3. Shared(c) = IF c[0] # c[1] THEN Bits(width) ELSE {}
  BY DEF Shared, Servers, xor
<1>4. Shared(z) = xor(xor(Shared(p), Shared(b)), Shared(q))
  BY DEF Shared, xor
<1>5. CASE c[0] # c[1]
  <2>1. Shared(p) = Shared(a) /\ Shared(q) = Shared(b)
    BY <1>1, <1>2, <1>3, <1>5
  <2>2. QED
    BY <1>4, <1>5, <2>1 DEF xor
<1>6. CASE c[0] = c[1]
  <2>1. Shared(p) = {} /\ Shared(q) = {}
    BY <1>1, <1>3, <1>6
  <2>2. QED
    BY <1>4, <1>6, <2>1 DEF xor
<1>7. QED
  BY <1>5, <1>6

\* Selection, in one exchange for both operands.
LEMMA SelectResults ==
    ASSUME IInv, Results, Select
    PROVE  Results'
<1>1. /\ stage = "select" /\ stage' = "ended" /\ op' = op /\ cond' = cond /\ width' = width
      /\ xis' = xis /\ yis' = yis
  BY DEF Select, vars
<1>2. op # "BoolEqual"
  BY <1>1 DEF IInv, CompareOps
<1>3. CASE op \notin MutexOps
  BY <1>1, <1>2, <1>3 DEF Results, WordsAreShared, MutexOps
<1>4. CASE op \in MutexOps
  <2> DEFINE c == [s \in Servers |-> IF cond[s] # 0 THEN Bits(width) ELSE {}]
             choiceOf(z, word) == [s \in Servers |-> xor(xor(z[1][s], word[s]), z[2][s])]
  <2>1. PICK z \in executeForMutex(c) :
            /\ zw' = choiceOf(z, yis)
            /\ op = "BoolMutexBoth" => zwBack' = choiceOf(z, xis)
    BY DEF Select
  <2>2. z[1] \in And(xis, c) /\ z[2] \in And(yis, c)
    BY <2>1 DEF executeForMutex
  <2>3. /\ cond[0] \in {0, 1} /\ cond[1] \in {0, 1}
        /\ \A s \in Servers : xis[s] \in SUBSET Bits(width) /\ yis[s] \in SUBSET Bits(width)
    BY <1>4 DEF Results
  <2>4. /\ \A s \in Servers : c[s] \in {{}, Bits(width)}
        /\ c[0] = (IF cond[0] # 0 THEN Bits(width) ELSE {})
        /\ c[1] = (IF cond[1] # 0 THEN Bits(width) ELSE {})
    BY DEF Servers
  <2>5. c[0] # c[1] <=> SharedBit(cond) = 1
    <3>1. 0 \in Bits(width)
      BY DEF IInv, Sizes, Bits
    <3>2. Bits(width) # {}
      BY <3>1
    <3>3. c[0] # c[1] <=> cond[0] # cond[1]
      BY <2>3, <2>4, <3>2
    <3>4. QED
      BY <2>3, <3>3, NotBitIs
  <2>6. zw'[0] = xor(xor(z[1][0], yis[0]), z[2][0]) /\ zw'[1] = xor(xor(z[1][1], yis[1]), z[2][1])
    BY <2>1 DEF Servers
  <2> HIDE DEF c
  <2>7. Shared(zw') = Shared(IF SharedBit(cond) = 1 THEN xis ELSE yis)
    BY <2>2, <2>3, <2>4, <2>5, <2>6, ChoiceIs
  <2>8. ASSUME op = "BoolMutexBoth"
        PROVE  Shared(zwBack') = Shared(IF SharedBit(cond) = 1 THEN yis ELSE xis)
    <3>1. /\ zwBack'[0] = xor(xor(z[2][0], xis[0]), z[1][0])
          /\ zwBack'[1] = xor(xor(z[2][1], xis[1]), z[1][1])
      BY <2>1, <2>8 DEF Servers, xor
    <3>2. QED
      BY <2>2, <2>3, <2>4, <2>5, <3>1, ChoiceIs
  <2>9. /\ SharedBit(cond)' = SharedBit(cond) /\ Shared(zw)' = Shared(zw')
        /\ Shared(zwBack)' = Shared(zwBack')
        /\ Shared(IF SharedBit(cond) = 1 THEN xis ELSE yis)'
              = Shared(IF SharedBit(cond) = 1 THEN xis ELSE yis)
        /\ Shared(IF SharedBit(cond) = 1 THEN yis ELSE xis)'
              = Shared(IF SharedBit(cond) = 1 THEN yis ELSE xis)
    BY <1>1 DEF SharedBit, Shared
  <2>10. WordsAreShared'
    BY <1>1, <1>2, <2>7, <2>8, <2>9 DEF WordsAreShared
  <2>11. QED
    BY <1>1, <1>2, <1>4, <2>3, <2>10 DEF Results
<1>5. QED
  BY <1>3, <1>4

\* Every step keeps it.
LEMMA NextKeepsResults ==
    ASSUME IInv, Results, [CircuitsNext]_<<vars, mine>>
    PROVE  Results'
<1>1. CASE Linear
  <2>1. op' = op /\ stage \notin {"less", "ended", "select"}
    BY <1>1 DEF Linear, Add, Multiply, TransferBit, Converted, Choose
  <2>2. QED
    BY <2>1, OthersKeepResults
<1>2. CASE Ripple
  <2>1. op' = op /\ stage \notin {"less", "ended", "select"}
    BY <1>2 DEF Ripple, Split, AddBit, Rippled
  <2>2. QED
    BY <2>1, OthersKeepResults
<1>3. CASE Generate
  <2>1. op' = op /\ stage \notin {"less", "ended", "select"}
    BY <1>3 DEF Generate, Prepare, Offer, Mask, Mix, Third
  <2>2. QED
    BY <2>1, OthersKeepResults
<1>4. CASE UNCHANGED <<vars, mine>>
  <2>1. /\ UNCHANGED <<width, xis, yis, op, stage, first, cond, zw, zwBack, zb>>
    BY <1>4 DEF vars, mine
  <2>2. Results' = Results
    BY <2>1 DEF Results, WordsAreShared, Shared, SharedBit, Wins
  <2>3. QED
    BY <2>2
<1>5. QED
  BY <1>1, <1>2, <1>3, <1>4, LessResults, ComparedResults, SelectResults DEF CircuitsNext

\* Equality of words, selection and swap leave sharings of their results, whatever sharings
\* the conjunctions leave (BoolEqualBatchOperator, BoolMutexBatchOperator).
THEOREM WordsAreSharedHolds == CircuitsSpec => []WordsAreShared
<1>1. Results => WordsAreShared
  BY DEF Results
<1>2. IInv /\ Results /\ [CircuitsNext]_<<vars, mine>> => Results'
  BY NextKeepsResults
<1>3. CircuitsSpec => []Results
  BY <1>2, InitResults, Invariance, PTL DEF CircuitsSpec
<1>4. QED
  BY <1>1, <1>3, PTL

-----------------------------------------------------------------------------
(* The extension of oblivious transfer: what it gives, for any number of      *)
(* rows, any seeds, any functions of the cryptography, and at every place of  *)
(* the matrix.                                                                *)

\* What prepareIknp() leaves: the sender has the seed it chose of each row.
SeedsFit(rows) ==
    \A i \in Row : /\ rows[i].choice \in {0, 1}
                   /\ rows[i].chosen = rows[i].pair[rows[i].choice + 1]

\* A mask applied twice is gone.
LEMMA MaskTwice ==
    ASSUME NEW a, NEW b
    PROVE  SymDiff(SymDiff(a, b), b) = a
  BY DEF SymDiff

\* What keeps the two columns together: the sender's is the receiver's one if the choice
\* is 0, and else off by the rows in which the sender chose the second seed.
LEMMA ColumnsDiffer ==
    ASSUME NEW rows, SeedsFit(rows), NEW at, NEW c \in {0, 1}
    PROVE  SenderColumn(rows, at, OfferedColumn(rows, at, c)) =
               IF c = 0 THEN Column(rows, at)
               ELSE SymDiff(Column(rows, at), senderBlock(rows))
<1> DEFINE firsts == Column(rows, at)
           seconds == {i \in Row : Prg(rows[i].pair[2], i, at) = 1}
           held == {i \in Row : Prg(rows[i].chosen, i, at) = 1}
           offered == OfferedColumn(rows, at, c)
<1>1. ASSUME NEW i \in Row
      PROVE  i \in held <=> (IF rows[i].choice = 0 THEN i \in firsts ELSE i \in seconds)
  <2>1. CASE rows[i].choice = 0
    BY <2>1 DEF SeedsFit, Column
  <2>2. CASE rows[i].choice = 1
    BY <2>2 DEF SeedsFit
  <2> QED
    BY <2>1, <2>2 DEF SeedsFit
<1>2. ASSUME NEW i \in Row
      PROVE  i \in offered <=> ((i \in firsts) # (i \in seconds)) # (c = 1)
  <2>1. offered = SymDiff(SymDiff(firsts, seconds), IF c = 1 THEN Row ELSE {})
    BY DEF OfferedColumn
  <2> QED
    BY <2>1 DEF SymDiff
<1>3. ASSUME NEW i \in Row
      PROVE  i \in senderBlock(rows) <=> rows[i].choice = 1
  BY DEF senderBlock
<1>4. /\ firsts \subseteq Row /\ held \subseteq Row
      /\ senderBlock(rows) \subseteq Row
  BY DEF Column, senderBlock
<1>5. SenderColumn(rows, at, offered) = SymDiff(held, offered \intersect senderBlock(rows))
  BY DEF SenderColumn
<1>6. \A i \in Row : rows[i].choice \in {0, 1}
  BY DEF SeedsFit
<1> HIDE DEF firsts, seconds, held, offered
<1>7. CASE c = 0
  BY <1>1, <1>2, <1>3, <1>4, <1>5, <1>6, <1>7 DEF SymDiff, firsts, offered
<1>8. CASE c = 1
  BY <1>1, <1>2, <1>3, <1>4, <1>5, <1>6, <1>8 DEF SymDiff, firsts, offered
<1> QED
  BY <1>7, <1>8

\* The receiver of the extension gets the message that it chose, whatever the other one
\* is: senderExtend() and receiverExtend() hash the same column for it.
THEOREM ChosenMessageArrives ==
    ASSUME NEW rows, SeedsFit(rows), NEW at, NEW c \in {0, 1},
           NEW m0, NEW m1, NEW bits
    PROVE  LET masked == Masked(rows, at, OfferedColumn(rows, at, c), m0, m1, bits)
           IN  Unmasked(rows, at, masked, c, bits) = IF c = 0 THEN m0 ELSE m1
<1> DEFINE col == SenderColumn(rows, at, OfferedColumn(rows, at, c))
           block == senderBlock(rows)
           hashed == pad(at, Column(rows, at)) \intersect bits
           masked == Masked(rows, at, OfferedColumn(rows, at, c), m0, m1, bits)
<1>1. masked = <<SymDiff(m0, pad(at, col) \intersect bits),
                 SymDiff(m1, pad(at, SymDiff(col, block)) \intersect bits)>>
  BY DEF Masked
<1>2. Unmasked(rows, at, masked, c, bits) = SymDiff(masked[c + 1], hashed)
  BY DEF Unmasked
<1>3. CASE c = 0
  <2>1. col = Column(rows, at)
    BY <1>3, ColumnsDiffer
  <2>2. masked[c + 1] = SymDiff(m0, hashed)
    BY <1>1, <1>3, <2>1
  <2> QED
    BY <1>2, <1>3, <2>2, MaskTwice
<1>4. CASE c = 1
  <2>1. SymDiff(col, block) = Column(rows, at)
    <3>1. col = SymDiff(Column(rows, at), block)
      BY <1>4, ColumnsDiffer
    <3> HIDE DEF col, block
    <3> QED
      BY <3>1, MaskTwice
  <2>2. masked[c + 1] = SymDiff(m1, hashed)
    BY <1>1, <1>4, <2>1
  <2> QED
    BY <1>2, <1>4, <2>2, MaskTwice
<1> QED
  BY <1>3, <1>4

-----------------------------------------------------------------------------
(* Powers of two and sums over the bits *)

\* f gives the powers of two up to that of n.
Doubles(f, n) == f = [e \in 0 .. n |-> IF e = 0 THEN 1 ELSE 2 * f[e - 1]]

\* There is such a function.
LEMMA DoublesExist ==
    ASSUME NEW n \in Nat
    PROVE  \E f : Doubles(f, n)
<1> DEFINE T == {k \in Nat : ~ \E f : Doubles(f, k)}
<1>1. SUFFICES ASSUME T # {} PROVE FALSE
  OBVIOUS
<1>2. PICK k \in T : \A y \in T : k =< y
  BY <1>1, Least
<1>3. k # 0
  <2>1. Doubles([j \in 0 .. 0 |-> 1], 0)
    BY DEF Doubles
  <2>2. QED
    BY <2>1
<1>4. k \in Nat /\ k - 1 \in Nat /\ k - 1 \notin T
  BY <1>2, <1>3
<1>5. PICK g : Doubles(g, k - 1)
  BY <1>4
<1> DEFINE f == [j \in 0 .. k |-> IF j = k THEN 2 * g[k - 1] ELSE g[j]]
<1>6. ASSUME NEW j \in 0 .. k
      PROVE  f[j] = IF j = 0 THEN 1 ELSE 2 * f[j - 1]
  <2>1. CASE j = k
    <3>1. k - 1 \in 0 .. k /\ k - 1 # k
      BY <1>4
    <3>2. f[k - 1] = g[k - 1]
      BY <3>1
    <3>3. QED
      BY <2>1, <3>2, <1>3
  <2>2. CASE j # k
    <3>1. j \in 0 .. k - 1
      BY <2>2, <1>4
    <3>2. g[j] = IF j = 0 THEN 1 ELSE 2 * g[j - 1]
      BY <1>5, <3>1 DEF Doubles
    <3>3. j # 0 => j - 1 \in 0 .. k /\ j - 1 # k
      BY <3>1, <1>4
    <3>4. QED
      BY <2>2, <3>2, <3>3
  <2>3. QED
    BY <2>1, <2>2
<1>7. f = [j \in 0 .. k |-> IF j = 0 THEN 1 ELSE 2 * f[j - 1]]
  <2>1. f = [j \in 0 .. k |-> f[j]]
    OBVIOUS
  <2> HIDE DEF f
  <2>2. QED
    BY <1>6, <2>1
<1>8. Doubles(f, k)
  <2> HIDE DEF f
  <2>1. QED
    BY <1>7 DEF Doubles
<1>9. QED
  BY <1>2, <1>8

\* Such functions agree.
LEMMA DoublesAgree ==
    ASSUME NEW n \in Nat, NEW m \in Nat, NEW f, NEW g, Doubles(f, n), Doubles(g, m),
           NEW k \in 0 .. n, k =< m
    PROVE  f[k] = g[k]
<1> DEFINE T == {j \in Nat : j =< n /\ j =< m /\ f[j] # g[j]}
<1>1. SUFFICES ASSUME T # {} PROVE FALSE
  OBVIOUS
<1>2. PICK j \in T : \A y \in T : j =< y
  BY <1>1, Least
<1>3. j # 0
  BY <1>2 DEF Doubles
<1>4. j - 1 \in Nat /\ j - 1 \notin T /\ j \in 0 .. n /\ j \in 0 .. m
  BY <1>2, <1>3
<1>5. f[j - 1] = g[j - 1]
  BY <1>4
<1>6. f[j] = 2 * f[j - 1] /\ g[j] = 2 * g[j - 1]
  BY <1>3, <1>4 DEF Doubles
<1>7. QED
  BY <1>2, <1>5, <1>6

\* The recursion of shifted has a solution.
LEMMA ShiftedIs == shifted = [e \in Nat |-> IF e = 0 THEN 1 ELSE 2 * shifted[e - 1]]
<1> DEFINE up(n) == CHOOSE f : Doubles(f, n)
           g == [e \in Nat |-> up(e)[e]]
<1>1. ASSUME NEW n \in Nat PROVE Doubles(up(n), n)
  BY DoublesExist
<1>2. ASSUME NEW e \in Nat PROVE g[e] = IF e = 0 THEN 1 ELSE 2 * g[e - 1]
  <2>1. g[e] = up(e)[e]
    OBVIOUS
  <2> HIDE DEF up
  <2>2. up(e)[e] = IF e = 0 THEN 1 ELSE 2 * up(e)[e - 1]
    BY <1>1 DEF Doubles
  <2>3. CASE e = 0
    BY <2>1, <2>2, <2>3
  <2>4. CASE e # 0
    <3>1. e - 1 \in Nat /\ e - 1 \in 0 .. e - 1 /\ e - 1 =< e
      BY <2>4
    <3>2. up(e - 1)[e - 1] = up(e)[e - 1]
      BY <1>1, <3>1, DoublesAgree
    <3>3. g[e - 1] = up(e - 1)[e - 1]
      BY <3>1
    <3>4. QED
      BY <2>1, <2>2, <2>4, <3>2, <3>3
  <2>5. QED
    BY <2>3, <2>4
<1>3. g = [e \in Nat |-> IF e = 0 THEN 1 ELSE 2 * g[e - 1]]
  <2>1. g = [e \in Nat |-> g[e]]
    OBVIOUS
  <2> HIDE DEF g
  <2>2. QED
    BY <1>2, <2>1
<1> HIDE DEF g
<1>4. QED
  BY <1>3, Zenon DEF shifted

\* Twice as much at every step.
LEMMA PowersOfTwo ==
    /\ shifted[0] = 1
    /\ \A e \in Nat : shifted[e] \in Nat \ {0} /\ shifted[e + 1] = 2 * shifted[e]
<1>1. shifted[0] = 1
  BY ShiftedIs
<1>2. ASSUME NEW e \in Nat PROVE shifted[e + 1] = 2 * shifted[e]
  <2>1. e + 1 \in Nat /\ e + 1 # 0 /\ e + 1 - 1 = e
    OBVIOUS
  <2>2. QED
    BY <2>1, ShiftedIs
<1> DEFINE T == {e \in Nat : shifted[e] \notin Nat \ {0}}
<1>3. ASSUME T # {} PROVE FALSE
  <2>1. PICK e \in T : \A y \in T : e =< y
    BY <1>3, Least
  <2>2. e # 0
    BY <1>1, <2>1
  <2>3. e - 1 \in Nat /\ e - 1 \notin T /\ e - 1 + 1 = e
    BY <2>1, <2>2
  <2>4. shifted[e - 1] \in Nat \ {0} /\ shifted[e] = 2 * shifted[e - 1]
    BY <1>2, <2>3
  <2>5. QED
    BY <2>1, <2>4
<1>4. QED
  BY <1>1, <1>2, <1>3

\* Larger exponents have larger powers.
LEMMA PowersGrow ==
    ASSUME NEW a \in Nat, NEW b \in Nat, a < b
    PROVE  2 * shifted[a] <= shifted[b]
<1> DEFINE T == {d \in Nat : a < d /\ ~(2 * shifted[a] <= shifted[d])}
<1>1. SUFFICES ASSUME T # {} PROVE FALSE
  OBVIOUS
<1>2. PICK d \in T : \A y \in T : d =< y
  BY <1>1, Least
<1>3. d - 1 \in Nat /\ d - 1 \notin T /\ d - 1 + 1 = d
  BY <1>2
<1>4. shifted[d] = 2 * shifted[d - 1] /\ shifted[d - 1] \in Nat /\ shifted[a] \in Nat
  BY <1>2, <1>3, PowersOfTwo
<1>5. CASE a = d - 1
  BY <1>2, <1>4, <1>5
<1>6. CASE a # d - 1
  BY <1>2, <1>3, <1>4, <1>6
<1>7. QED
  BY <1>5, <1>6

\* So the exponent is known from the power.
LEMMA PowersDiffer ==
    ASSUME NEW a \in Nat, NEW b \in Nat
    PROVE  /\ shifted[a] = shifted[b] => a = b
           /\ shifted[a] <= shifted[b] <=> a <= b
           /\ shifted[a] < shifted[b] <=> a < b
<1>1. shifted[a] \in Nat \ {0} /\ shifted[b] \in Nat \ {0}
  BY PowersOfTwo
<1>2. a < b => 2 * shifted[a] <= shifted[b]
  BY PowersGrow
<1>3. b < a => 2 * shifted[b] <= shifted[a]
  BY PowersGrow
<1>4. QED
  BY <1>1, <1>2, <1>3
-----------------------------------------------------------------------------
(* Sums over the bits *)

\* g sums up f over the subsets of S, by one chosen element after the other.
SumsUp(f, S, g) ==
    g = [s \in SUBSET S |->
            IF s = {} THEN 0 ELSE LET x == CHOOSE x \in s : TRUE IN f[x] + g[s \ {x}]]

\* The same by any element.
AddsUp(f, S, g) ==
    /\ g \in [SUBSET S -> Int] /\ g[{}] = 0
    /\ \A s \in SUBSET S : \A x \in s : g[s] = f[x] + g[s \ {x}]

\* There is such a sum.
LEMMA SumExists ==
    ASSUME NEW n \in Nat, NEW f, \A i \in Bits(n) : f[i] \in Int
    PROVE  \E g : AddsUp(f, Bits(n), g)
<1> DEFINE T == {k \in 0 .. n : ~ \E g : AddsUp(f, Bits(k), g)}
<1>1. SUFFICES ASSUME T # {} PROVE FALSE
  OBVIOUS
<1>2. PICK k \in T : \A y \in T : k =< y
  <2>1. T \subseteq Nat
    OBVIOUS
  <2> HIDE DEF T
  <2>2. QED
    BY <1>1, <2>1, Least
<1>3. k # 0
  <2>1. Bits(0) = {} /\ SUBSET {} = {{}}
    BY DEF Bits
  <2>2. AddsUp(f, Bits(0), [s \in SUBSET Bits(0) |-> 0])
    BY <2>1 DEF AddsUp
  <2>3. QED
    BY <2>2
<1> DEFINE m == k - 1
<1>4. m \in Nat /\ m \in Bits(n) /\ k = m + 1 /\ m \in 0 .. n /\ ~(k =< m)
  BY <1>3 DEF Bits
<1>5. PICK g : AddsUp(f, Bits(m), g)
  BY <1>2, <1>4
<1> HIDE DEF T, m
<1>6. Bits(k) = Bits(m) \union {m} /\ m \notin Bits(m) /\ f[m] \in Int
  BY <1>4 DEF Bits
<1> DEFINE h == [s \in SUBSET Bits(k) |-> IF m \in s THEN f[m] + g[s \ {m}] ELSE g[s]]
<1>7. ASSUME NEW s \in SUBSET Bits(k)
      PROVE  /\ s \ {m} \in SUBSET Bits(m)
             /\ h[s] = IF m \in s THEN f[m] + g[s \ {m}] ELSE g[s \ {m}]
  <2>1. s \ {m} \in SUBSET Bits(m)
    BY <1>6
  <2>2. m \notin s => s \ {m} = s
    OBVIOUS
  <2>3. QED
    BY <2>1, <2>2
<1>8. h \in [SUBSET Bits(k) -> Int] /\ h[{}] = 0
  <2>1. ASSUME NEW s \in SUBSET Bits(k) PROVE h[s] \in Int
    <3>1. g[s \ {m}] \in Int
      BY <1>5, <1>7 DEF AddsUp
    <3>2. QED
      BY <1>6, <1>7, <3>1
  <2>2. {} \in SUBSET Bits(k) /\ g[{}] = 0
    BY <1>5 DEF AddsUp
  <2>3. QED
    BY <2>1, <2>2
<1>9. ASSUME NEW s \in SUBSET Bits(k), NEW x \in s
      PROVE  h[s] = f[x] + h[s \ {x}]
  <2>0. s \ {x} \in SUBSET Bits(k)
    OBVIOUS
  <2>1. CASE x = m
    <3>1. h[s \ {x}] = g[s \ {m}]
      BY <2>1
    <3>2. QED
      BY <1>7, <2>1, <3>1
  <2>2. CASE x # m
    <3>1. x \in s \ {m} /\ (s \ {m}) \ {x} = (s \ {x}) \ {m}
      BY <2>2
    <3>2. g[s \ {m}] = f[x] + g[(s \ {x}) \ {m}]
      <4>1. \A q \in SUBSET Bits(m) : \A y \in q : g[q] = f[y] + g[q \ {y}]
        BY <1>5 DEF AddsUp
      <4>2. g[s \ {m}] = f[x] + g[(s \ {m}) \ {x}]
        BY <1>7, <3>1, <4>1
      <4>3. QED
        BY <3>1, <4>2
    <3>3. h[s \ {x}] = IF m \in s \ {x} THEN f[m] + g[(s \ {x}) \ {m}] ELSE g[(s \ {x}) \ {m}]
      BY <1>7, <2>0
    <3>4. (s \ {x}) \ {m} \in SUBSET Bits(m) /\ x \in Bits(m)
      BY <1>6, <2>2
    <3>5. g[(s \ {x}) \ {m}] \in Int /\ f[x] \in Int
      <4>1. g[(s \ {x}) \ {m}] \in Int
        BY <1>5, <3>4 DEF AddsUp
      <4>2. x \in Bits(n)
        BY <1>4, <3>4 DEF Bits
      <4>3. QED
        BY <4>1, <4>2
    <3> HIDE DEF h
    <3>6. h[s] = IF m \in s THEN f[m] + g[s \ {m}] ELSE g[s \ {m}]
      BY <1>7
    <3>7. m \in s <=> m \in s \ {x}
      BY <2>2
    <3>8. QED
      BY <1>6, <3>2, <3>3, <3>5, <3>6, <3>7
  <2>3. QED
    BY <2>1, <2>2
<1>10. AddsUp(f, Bits(k), h)
  <2> HIDE DEF h
  <2>1. QED
    BY <1>8, <1>9 DEF AddsUp
<1>11. QED
  BY <1>2, <1>10 DEF T

\* Which elements are chosen does not matter.
LEMMA SumUnique ==
    ASSUME NEW n \in Nat, NEW f, \A i \in Bits(n) : f[i] \in Int,
           NEW g, AddsUp(f, Bits(n), g), NEW h, SumsUp(f, Bits(n), h)
    PROVE  g = h
<1> DEFINE S == Bits(n)
           T == {Cardinality(s) : s \in {s \in SUBSET S : g[s] # h[s]}}
<1>0. IsFiniteSet(S)
  BY FS_Interval DEF Bits
<1>1. ASSUME NEW s \in SUBSET S PROVE IsFiniteSet(s) /\ Cardinality(s) \in Nat
  BY <1>0, FS_Subset, FS_CardinalityType
<1>2. ASSUME T # {} PROVE FALSE
  <2>1. T \subseteq Nat
    BY <1>1
  <2>2. PICK c \in T : \A y \in T : c =< y
    <3> HIDE DEF T
    <3>1. QED
      BY <1>2, <2>1, Least
  <2>3. PICK s \in SUBSET S : g[s] # h[s] /\ c = Cardinality(s)
    OBVIOUS
  <2>4. h[s] = IF s = {} THEN 0 ELSE LET x == CHOOSE x \in s : TRUE IN f[x] + h[s \ {x}]
    <3> HIDE DEF S
    <3>1. h = [t \in SUBSET S |->
            IF t = {} THEN 0 ELSE LET x == CHOOSE x \in t : TRUE IN f[x] + h[t \ {x}]]
      BY DEF SumsUp, S
    <3>2. QED
      BY <3>1
  <2>5. s # {}
    BY <2>3, <2>4 DEF AddsUp
  <2> DEFINE x == CHOOSE x \in s : TRUE
  <2>6. x \in s
    BY <2>5
  <2>7. h[s] = f[x] + h[s \ {x}]
    BY <2>4, <2>5
  <2> HIDE DEF x
  <2>8. g[s] = f[x] + g[s \ {x}]
    BY <2>6 DEF AddsUp
  <2>9. s \ {x} \in SUBSET S /\ g[s \ {x}] # h[s \ {x}]
    BY <2>3, <2>7, <2>8
  <2>10. Cardinality(s \ {x}) \in T
    BY <2>9
  <2>11. Cardinality(s \ {x}) = Cardinality(s) - 1 /\ Cardinality(s) \in Nat
    BY <1>1, <2>6, FS_RemoveElement
  <2>12. c =< Cardinality(s \ {x})
    BY <2>2, <2>10
  <2>13. QED
    BY <2>3, <2>11, <2>12
<1>3. \A s \in SUBSET S : g[s] = h[s]
  BY <1>2
<1>4. g = [s \in SUBSET S |-> g[s]]
  BY DEF AddsUp
<1>5. h = [s \in SUBSET S |-> h[s]]
  <2>1. h = [t \in SUBSET S |->
            IF t = {} THEN 0 ELSE LET x == CHOOSE x \in t : TRUE IN f[x] + h[t \ {x}]]
    BY DEF SumsUp
  <2>2. QED
    BY <2>1
<1> HIDE DEF S
<1>6. QED
  BY <1>3, <1>4, <1>5

\* What MapThenSumSet computes.
SumOf(f, S) == (CHOOSE g : SumsUp(f, S, g))[S]

\* The operators' sum.
LEMMA SumOfIs ==
    ASSUME NEW f
    PROVE  sum(f) = Ring(SumOf(f, Bits(width)))
<1>1. MapThenSumSet(LAMBDA p : f[p], Bits(width)) = SumOf(f, Bits(width))
  BY Zenon DEF MapThenSumSet, MapThenFoldSet, SumsUp, SumOf
<1>2. QED
  BY <1>1, Zenon DEF sum

\* The sum of a function of the bits, one bit after the other.
LEMMA SumIs ==
    ASSUME NEW n \in Nat, NEW f, \A i \in Bits(n) : f[i] \in Int
    PROVE  \E t : /\ t[0] = 0 /\ \A k \in 0 .. n : t[k] \in Int
                  /\ \A k \in Bits(n) : t[k + 1] = t[k] + f[k]
                  /\ SumOf(f, Bits(n)) = t[n]
<1> DEFINE h == CHOOSE g : SumsUp(f, Bits(n), g)
<1>1. SumOf(f, Bits(n)) = h[Bits(n)]
  BY DEF SumOf
<1>2. PICK g : AddsUp(f, Bits(n), g)
  BY SumExists
<1>3. SumsUp(f, Bits(n), g)
  <2>1. ASSUME NEW s \in SUBSET Bits(n)
        PROVE  g[s] = IF s = {} THEN 0 ELSE LET x == CHOOSE x \in s : TRUE IN f[x] + g[s \ {x}]
    <3>1. CASE s = {}
      BY <3>1, <1>2 DEF AddsUp
    <3>2. CASE s # {}
      <4> DEFINE x == CHOOSE x \in s : TRUE
      <4>1. x \in s
        BY <3>2
      <4> HIDE DEF x
      <4>2. g[s] = f[x] + g[s \ {x}]
        BY <1>2, <4>1 DEF AddsUp
      <4>3. QED
        BY <3>2, <4>2 DEF x
    <3>3. QED
      BY <3>1, <3>2
  <2>2. g = [s \in SUBSET Bits(n) |-> g[s]]
    BY <1>2 DEF AddsUp
  <2>3. QED
    BY <2>1, <2>2 DEF SumsUp
<1>4. SumsUp(f, Bits(n), h)
  BY <1>3
<1>5. g = h
  <2> HIDE DEF h
  <2>1. QED
    BY <1>2, <1>4, SumUnique
<1> DEFINE t == [k \in 0 .. n |-> g[Bits(k)]]
<1>6. ASSUME NEW k \in 0 .. n PROVE t[k] = g[Bits(k)] /\ Bits(k) \in SUBSET Bits(n) /\ t[k] \in Int
  <2>1. Bits(k) \in SUBSET Bits(n)
    BY DEF Bits
  <2>2. QED
    BY <2>1, <1>2 DEF AddsUp
<1>7. t[0] = 0
  <2>1. Bits(0) = {} /\ 0 \in 0 .. n
    BY DEF Bits
  <2>2. QED
    BY <2>1, <1>2 DEF AddsUp
<1>8. ASSUME NEW k \in Bits(n) PROVE t[k + 1] = t[k] + f[k]
  <2>1. k \in 0 .. n /\ k + 1 \in 0 .. n /\ k \in Bits(k + 1) /\ Bits(k + 1) \ {k} = Bits(k)
    BY DEF Bits
  <2>2. g[Bits(k + 1)] = f[k] + g[Bits(k)]
    BY <1>2, <1>6, <2>1 DEF AddsUp
  <2>3. t[k] = g[Bits(k)] /\ t[k + 1] = g[Bits(k + 1)] /\ t[k] \in Int
    BY <2>1, <1>6
  <2> HIDE DEF t
  <2>4. QED
    BY <2>2, <2>3
<1>9. t[n] = h[Bits(n)]
  BY <1>5, <1>6
<1> HIDE DEF t, h
<1>10. QED
  BY <1>1, <1>6, <1>7, <1>8, <1>9

-----------------------------------------------------------------------------
(* Numbers modulo M *)

\* The remainder.
LEMMA ModIs ==
    ASSUME NEW M \in Nat \ {0}, NEW a \in Int
    PROVE  a % M \in 0 .. M - 1 /\ a \div M \in Int /\ a = (a \div M) * M + (a % M)
  OBVIOUS

\* It is the only one.
LEMMA ModUnique ==
    ASSUME NEW M \in Nat \ {0}, NEW k \in Int, NEW r \in 0 .. M - 1
    PROVE  (r + k * M) % M = r /\ (r + k * M) \div M = k
  OBVIOUS

\* a and b have one remainder.
Congruent(a, b, M) == \E k \in Int : a = b + k * M

\* Numbers with one remainder.
LEMMA CongruentIs ==
    ASSUME NEW M \in Nat \ {0}, NEW a \in Int, NEW b \in Int
    PROVE  Congruent(a, b, M) <=> a % M = b % M
<1>1. /\ a % M \in 0 .. M - 1 /\ a \div M \in Int /\ a = (a \div M) * M + (a % M)
      /\ b % M \in 0 .. M - 1 /\ b \div M \in Int /\ b = (b \div M) * M + (b % M)
  BY ModIs
<1>2. ASSUME NEW k \in Int, a = b + k * M PROVE a % M = b % M
  <2>1. (b \div M) + k \in Int
    BY <1>1
  <2>2. a = (b % M) + ((b \div M) + k) * M
    BY <1>1, <1>2
  <2>3. QED
    BY <1>1, <2>1, <2>2, ModUnique
<1>3. ASSUME a % M = b % M PROVE \E k \in Int : a = b + k * M
  <2>1. a = b + ((a \div M) - (b \div M)) * M
    BY <1>1, <1>3
  <2>2. (a \div M) - (b \div M) \in Int
    BY <1>1
  <2>3. QED
    BY <2>1, <2>2
<1>4. QED
  BY <1>2, <1>3 DEF Congruent

\* A number and its remainder.
LEMMA CongruentMod ==
    ASSUME NEW M \in Nat \ {0}, NEW a \in Int
    PROVE  Congruent(a % M, a, M) /\ Congruent(a, a % M, M) /\ Congruent(a, a, M) /\ a % M \in Int
<1> DEFINE r == a % M
           q == a \div M
<1>1. r \in Int /\ q \in Int /\ a = q * M + r
  BY ModIs
<1> HIDE DEF r, q
<1>2. r = a + (-q) * M /\ -q \in Int /\ a = r + q * M
  BY <1>1
<1>3. a = a + 0 * M /\ 0 \in Int
  OBVIOUS
<1>4. Congruent(r, a, M)
  BY <1>2 DEF Congruent
<1>5. Congruent(a, r, M)
  BY <1>1, <1>2 DEF Congruent
<1>6. Congruent(a, a, M)
  BY <1>3 DEF Congruent
<1>7. QED
  BY <1>1, <1>4, <1>5, <1>6 DEF r

\* A number less than M is its own remainder.
LEMMA ModSmall ==
    ASSUME NEW M \in Nat \ {0}, NEW a \in 0 .. M - 1
    PROVE  a % M = a
<1>1. a = a + 0 * M /\ 0 \in Int
  OBVIOUS
<1>2. QED
  BY <1>1, ModUnique

\* Like an equality.
LEMMA CongruentChain ==
    ASSUME NEW M \in Nat \ {0}, NEW a \in Int, NEW b \in Int, NEW c \in Int, Congruent(a, b, M)
    PROVE  Congruent(b, a, M) /\ (Congruent(b, c, M) => Congruent(a, c, M))
  BY CongruentIs

\* It carries over to sums, differences and products.
LEMMA CongruentKeeps ==
    ASSUME NEW M \in Nat \ {0}, NEW a \in Int, NEW b \in Int, NEW c \in Int, NEW d \in Int,
           Congruent(a, b, M), Congruent(c, d, M)
    PROVE  /\ Congruent(a + c, b + d, M)
           /\ Congruent(a - c, b - d, M)
           /\ Congruent(a * c, b * d, M)
<1>1. PICK k \in Int : a = b + k * M
  BY DEF Congruent
<1>2. PICK j \in Int : c = d + j * M
  BY DEF Congruent
<1>3. a + c = b + d + (k + j) * M /\ k + j \in Int
  BY <1>1, <1>2
<1>4. a - c = b - d + (k - j) * M /\ k - j \in Int
  BY <1>1, <1>2
<1>5. a * c = b * d + (b * j + k * d + k * j * M) * M /\ b * j + k * d + k * j * M \in Int
  BY <1>1, <1>2
<1>6. QED
  BY <1>3, <1>4, <1>5 DEF Congruent

-----------------------------------------------------------------------------
(* Numbers and their bits *)

\* Bit i of a number.
BitOf(v, i) == (v \div shifted[i]) % 2

\* One bit more.
LEMMA NextPart ==
    ASSUME NEW v \in Int, NEW i \in Nat
    PROVE  /\ BitOf(v, i) \in {0, 1}
           /\ v % shifted[i + 1] = (v % shifted[i]) + BitOf(v, i) * shifted[i]
<1> DEFINE d == shifted[i]
           q == v \div d
           r == v % d
           b == q % 2
           h == q \div 2
<1>1. d \in Nat \ {0} /\ shifted[i + 1] = 2 * d
  BY PowersOfTwo
<1>2. r \in 0 .. d - 1 /\ q \in Int /\ v = q * d + r
  BY <1>1, ModIs
<1>3. b \in 0 .. 1 /\ h \in Int /\ q = h * 2 + b
  BY <1>2, ModIs
<1>4. BitOf(v, i) = b
  BY DEF BitOf
<1> HIDE DEF d, q, r, b, h
<1>5. v = (b * d + r) + h * (2 * d)
  BY <1>1, <1>2, <1>3
<1>6. b * d + r \in 0 .. 2 * d - 1 /\ 2 * d \in Nat \ {0}
  <2>1. CASE b = 0
    BY <1>1, <1>2, <2>1
  <2>2. CASE b = 1
    BY <1>1, <1>2, <2>2
  <2>3. QED
    BY <1>3, <2>1, <2>2
<1>7. v % (2 * d) = b * d + r
  BY <1>3, <1>5, <1>6, ModUnique
<1>8. b * d + r = r + b * d
  BY <1>1, <1>2, <1>3
<1>9. QED
  BY <1>1, <1>3, <1>4, <1>7, <1>8 DEF r, d

\* The number of a word with one bit more on top.
LEMMA ValueGrows ==
    ASSUME width \in Nat, NEW n \in Bits(width), NEW word \in SUBSET Bits(n)
    PROVE  value(word) \in Nat /\ value(word \union {n}) = value(word) + shifted[n]
<1> DEFINE more == word \union {n}
<1>1. PICK g : Highs(word, g, width) /\ value(word) = g[width]
  BY ValueIs
<1>2. PICK h : Highs(more, h, width) /\ value(more) = h[width]
  BY ValueIs
<1> DEFINE P(k) == /\ g[k] \in Nat
                   /\ h[k] = IF width - k > n THEN g[k] ELSE g[k] + shifted[n - (width - k)]
           T == {k \in 0 .. width : ~P(k)}
<1>3. n \in Nat /\ n < width /\ n \notin word
  BY DEF Bits
<1>4. ASSUME T # {} PROVE FALSE
  <2>1. PICK k \in T : \A y \in T : k =< y
    <3> HIDE DEF P
    <3>1. T \subseteq Nat
      OBVIOUS
    <3> HIDE DEF T
    <3>2. QED
      BY <1>4, <3>1, Least
  <2>2. k # 0
    <3>1. g[0] = 0 /\ h[0] = 0
      BY <1>1, <1>2 DEF Highs
    <3>2. P(0)
      BY <1>3, <3>1
    <3>3. QED
      BY <2>1, <3>2
  <2>3. k \in 0 .. width /\ k - 1 \in 0 .. width /\ k - 1 \notin T
    BY <2>1, <2>2
  <2>4. P(k - 1)
    BY <2>3
  <2> DEFINE j == width - k
             bit(w) == IF j \in w THEN 1 ELSE 0
  <2>5. g[k] = 2 * g[k - 1] + bit(word) /\ h[k] = 2 * h[k - 1] + bit(more)
    BY <1>1, <1>2, <2>2, <2>3 DEF Highs
  <2>6. j \in Nat /\ width - (k - 1) = j + 1
    BY <2>2, <2>3
  <2>7. /\ g[k - 1] \in Nat
        /\ h[k - 1] = IF j + 1 > n THEN g[k - 1] ELSE g[k - 1] + shifted[n - (j + 1)]
    BY <2>4, <2>6
  <2>8. bit(word) \in {0, 1} /\ bit(more) = IF j = n THEN 1 ELSE bit(word)
    OBVIOUS
  <2>9. j = n => bit(word) = 0
    BY <1>3
  <2> HIDE DEF j, bit
  <2>10. g[k] \in Nat
    BY <2>5, <2>7, <2>8
  <2>11. h[k] = IF j > n THEN g[k] ELSE g[k] + shifted[n - j]
    <3>1. CASE j > n
      BY <1>3, <2>5, <2>6, <2>7, <2>8, <3>1
    <3>2. CASE j = n
      <4>1. n - j = 0 /\ shifted[0] = 1 /\ j + 1 > n
        BY <1>3, <3>2, PowersOfTwo
      <4>2. QED
        BY <1>3, <2>5, <2>7, <2>8, <2>9, <3>2, <4>1
    <3>3. CASE j < n
      <4>1. n - (j + 1) \in Nat /\ n - j = (n - (j + 1)) + 1
        BY <1>3, <2>6, <3>3
      <4>2. /\ shifted[n - j] = 2 * shifted[n - (j + 1)]
            /\ shifted[n - (j + 1)] \in Nat
        BY <4>1, PowersOfTwo
      <4>3. h[k - 1] = g[k - 1] + shifted[n - (j + 1)] /\ bit(more) = bit(word)
        BY <1>3, <2>6, <2>7, <2>8, <3>3
      <4>4. QED
        BY <2>5, <2>6, <2>7, <2>8, <3>3, <4>2, <4>3, <1>3
    <3>4. QED
      BY <1>3, <2>6, <3>1, <3>2, <3>3
  <2>12. P(k)
    BY <2>10, <2>11 DEF j
  <2>13. QED
    BY <2>1, <2>12
<1>5. P(width)
  BY <1>4
<1>6. width - width = 0 /\ ~(0 > n) /\ n - 0 = n
  BY <1>3
<1>7. QED
  BY <1>1, <1>2, <1>5, <1>6

\* The number of the lowest bits of a word.
LEMMA ValueOfPart ==
    ASSUME width \in Nat, NEW word
    PROVE  /\ value(word \intersect Bits(0)) = 0
           /\ \A n \in Bits(width) :
                 /\ value(word \intersect Bits(n)) \in Nat
                 /\ value(word \intersect Bits(n + 1)) =
                        value(word \intersect Bits(n)) + IF n \in word THEN shifted[n] ELSE 0
<1>1. value(word \intersect Bits(0)) = 0
  <2>1. word \intersect Bits(0) = {}
    BY DEF Bits
  <2>2. PICK h : Highs({}, h, width) /\ value({}) = h[width]
    BY ValueIs
  <2> DEFINE T == {k \in 0 .. width : h[k] # 0}
  <2>3. ASSUME T # {} PROVE FALSE
    <3>1. PICK k \in T : \A y \in T : k =< y
      <4>1. T \subseteq Nat
        OBVIOUS
      <4> HIDE DEF T
      <4>2. QED
        BY <2>3, <4>1, Least
    <3>2. k # 0
      BY <2>2, <3>1 DEF Highs
    <3>3. k - 1 \in 0 .. width /\ k - 1 \notin T /\ k \in 1 .. width
      BY <3>1, <3>2
    <3>4. h[k] = 2 * h[k - 1] + (IF width - k \in {} THEN 1 ELSE 0)
      BY <2>2, <3>2, <3>3 DEF Highs
    <3>5. h[k] # 0 /\ h[k - 1] = 0
      BY <3>1, <3>3
    <3>6. QED
      BY <3>4, <3>5
  <2>4. h[width] = 0
    BY <2>3
  <2>5. QED
    BY <2>1, <2>2, <2>4
<1>2. ASSUME NEW n \in Bits(width)
      PROVE  /\ value(word \intersect Bits(n)) \in Nat
             /\ value(word \intersect Bits(n + 1)) =
                    value(word \intersect Bits(n)) + IF n \in word THEN shifted[n] ELSE 0
  <2> DEFINE part == word \intersect Bits(n)
  <2>1. part \in SUBSET Bits(n)
    OBVIOUS
  <2>2. word \intersect Bits(n + 1) = IF n \in word THEN part \union {n} ELSE part
    <3>1. Bits(n + 1) = Bits(n) \union {n}
      BY DEF Bits
    <3>2. QED
      BY <3>1
  <2> HIDE DEF part
  <2>3. value(part) \in Nat /\ value(part \union {n}) = value(part) + shifted[n]
    BY <2>1, ValueGrows
  <2>4. QED
    BY <2>2, <2>3 DEF part
<1>3. QED
  BY <1>1, <1>2

\* A word of n bits is less than 2 ^ n.
LEMMA ValueBound ==
    ASSUME width \in Nat, NEW n \in 0 .. width, NEW word \in SUBSET Bits(n)
    PROVE  value(word) \in 0 .. shifted[n] - 1
<1> DEFINE v(k) == value(word \intersect Bits(k))
           T == {k \in 0 .. width : v(k) \notin 0 .. shifted[k] - 1}
<1>1. ASSUME T # {} PROVE FALSE
  <2>1. PICK k \in T : \A y \in T : k =< y
    <3>1. T \subseteq Nat
      OBVIOUS
    <3> HIDE DEF T
    <3>2. QED
      BY <1>1, <3>1, Least
  <2>2. k # 0
    <3>1. v(0) = 0
      BY ValueOfPart
    <3>2. v(0) \in 0 .. shifted[0] - 1
      BY <3>1, PowersOfTwo
    <3>3. QED
      BY <2>1, <3>2
  <2>3. k - 1 \in Nat /\ k - 1 \in Bits(width) /\ k - 1 \notin T /\ (k - 1) + 1 = k /\ k - 1 \in 0 .. width
    BY <2>1, <2>2 DEF Bits
  <2>4. v(k) = v(k - 1) + IF k - 1 \in word THEN shifted[k - 1] ELSE 0
    <3>1. \A m \in Bits(width) : v(m + 1) = v(m) + IF m \in word THEN shifted[m] ELSE 0
      BY ValueOfPart
    <3> HIDE DEF v
    <3>2. QED
      BY <2>3, <3>1
  <2>5. shifted[k] = 2 * shifted[k - 1] /\ shifted[k - 1] \in Nat \ {0}
    BY <2>3, PowersOfTwo
  <2>6. v(k - 1) \in 0 .. shifted[k - 1] - 1
    BY <2>3
  <2>7. v(k) \notin 0 .. shifted[k] - 1
    BY <2>1
  <2> HIDE DEF v
  <2>8. QED
    BY <2>4, <2>5, <2>6, <2>7
<1>2. v(n) \in 0 .. shifted[n] - 1
  BY <1>1
<1>3. word \intersect Bits(n) = word
  OBVIOUS
<1>4. QED
  BY <1>2, <1>3

\* The bits of a number give back what is left of it at that width.
LEMMA ValueOfBits ==
    ASSUME width \in Nat, NEW v \in Int, NEW n \in 0 .. width, NEW word,
           \A i \in Bits(width) : i \in word <=> BitOf(v, i) = 1
    PROVE  value(word \intersect Bits(n)) = v % shifted[n]
<1> DEFINE w(k) == value(word \intersect Bits(k))
           T == {k \in 0 .. width : w(k) # v % shifted[k]}
<1>1. ASSUME T # {} PROVE FALSE
  <2>1. PICK k \in T : \A y \in T : k =< y
    <3>1. T \subseteq Nat
      OBVIOUS
    <3> HIDE DEF T
    <3>2. QED
      BY <1>1, <3>1, Least
  <2>2. k # 0
    <3>1. w(0) = 0
      BY ValueOfPart
    <3>3. v % 1 = 0
      OBVIOUS
    <3>4. w(0) = v % shifted[0]
      BY <3>1, <3>3, PowersOfTwo
    <3>2. QED
      BY <2>1, <3>4
  <2>3. k - 1 \in Nat /\ k - 1 \in Bits(width) /\ k - 1 \notin T /\ (k - 1) + 1 = k /\ k - 1 \in 0 .. width
    BY <2>1, <2>2 DEF Bits
  <2>4. w(k) = w(k - 1) + IF k - 1 \in word THEN shifted[k - 1] ELSE 0
    <3>1. \A m \in Bits(width) : w(m + 1) = w(m) + IF m \in word THEN shifted[m] ELSE 0
      BY ValueOfPart
    <3> HIDE DEF w
    <3>2. QED
      BY <2>3, <3>1
  <2>5. /\ BitOf(v, k - 1) \in {0, 1}
        /\ v % shifted[k] = (v % shifted[k - 1]) + BitOf(v, k - 1) * shifted[k - 1]
    BY <2>3, NextPart
  <2>6. w(k - 1) = v % shifted[k - 1] /\ shifted[k - 1] \in Nat
    BY <2>3, PowersOfTwo
  <2>7. BitOf(v, k - 1) * shifted[k - 1] = IF k - 1 \in word THEN shifted[k - 1] ELSE 0
    BY <2>3, <2>5, <2>6
  <2>8. w(k) # v % shifted[k]
    BY <2>1
  <2> HIDE DEF w
  <2>9. QED
    BY <2>4, <2>5, <2>6, <2>7, <2>8
<1>2. QED
  BY <1>1

\* As do the operators' words.
LEMMA BitsOfIs ==
    ASSUME width \in Nat, NEW v \in Int
    PROVE  BitsOf(v) \in SUBSET Bits(width) /\ value(BitsOf(v)) = Ring(v)
<1>1. /\ BitsOf(v) \in SUBSET Bits(width)
      /\ \A i \in Bits(width) : i \in BitsOf(v) <=> BitOf(v, i) = 1
  BY DEF BitsOf, BitOf
<1>2. value(BitsOf(v) \intersect Bits(width)) = v % shifted[width]
  <2>1. width \in 0 .. width
    OBVIOUS
  <2>2. QED
    BY <1>1, <2>1, ValueOfBits
<1>3. BitsOf(v) \intersect Bits(width) = BitsOf(v)
  BY <1>1
<1>4. QED
  BY <1>1, <1>2, <1>3 DEF Ring

-----------------------------------------------------------------------------
(* Shares of numbers *)

\* What is added up and down to a number of the width.
LEMMA RingIs ==
    ASSUME width \in Nat, NEW v \in Int
    PROVE  /\ shifted[width] \in Nat \ {0}
           /\ Ring(v) \in 0 .. shifted[width] - 1 /\ Ring(v) \in Int
           /\ Congruent(Ring(v), v, shifted[width])
           /\ (v \in 0 .. shifted[width] - 1 => Ring(v) = v)
<1>1. shifted[width] \in Nat \ {0}
  BY PowersOfTwo
<1>2. QED
  BY <1>1, ModIs, CongruentMod, ModSmall DEF Ring

\* Numbers that are the same to the width.
LEMMA RingSame ==
    ASSUME width \in Nat, NEW a \in Int, NEW b \in Int
    PROVE  Congruent(a, b, shifted[width]) <=> Ring(a) = Ring(b)
<1>1. shifted[width] \in Nat \ {0}
  BY PowersOfTwo
<1>2. QED
  BY <1>1, CongruentIs DEF Ring

\* The two shares of f make up v.
SharesOf(f, v) == f[0] \in Int /\ f[1] \in Int /\ Congruent(f[0] + f[1], v, shifted[width])

\* A sharing of a number, whatever the random number.
LEMMA ArithSharingIs ==
    ASSUME width \in Nat, NEW v \in Int, NEW z \in ArithSharings(v)
    PROVE  SharesOf(z, v)
<1> DEFINE M == shifted[width]
<1>1. PICK r \in Randoms : z = [s \in Servers |-> IF s = 1 THEN Ring(r) ELSE Ring(v - r)]
  BY DEF ArithSharings
<1>2. z[1] = Ring(r) /\ z[0] = Ring(v - r)
  BY <1>1 DEF Servers
<1>3. r \in Int /\ v - r \in Int
  BY CircuitsAssumption
<1>4. /\ M \in Nat \ {0}
      /\ Ring(r) \in Int /\ Congruent(Ring(r), r, M)
      /\ Ring(v - r) \in Int /\ Congruent(Ring(v - r), v - r, M)
  BY <1>3, RingIs
<1> HIDE DEF M
<1>5. Congruent(Ring(v - r) + Ring(r), (v - r) + r, M)
  BY <1>3, <1>4, CongruentKeeps
<1>6. (v - r) + r = v
  BY <1>3
<1>7. QED
  BY <1>2, <1>4, <1>5, <1>6 DEF SharesOf, M

\* A product that takes a triple, whatever its masks.
LEMMA ProductIs ==
    ASSUME width \in Nat, NEW p, NEW q, NEW z \in Products(p, q),
           p[0] \in Int, p[1] \in Int, q[0] \in Int, q[1] \in Int
    PROVE  SharesOf(z, (p[0] + p[1]) * (q[0] + q[1]))
<1> DEFINE M == shifted[width]
<1> DEFINE with(a, b, c) == [s \in Servers |->
                LET e == Ring(p[0] - a[0] + p[1] - a[1])
                    f == Ring(q[0] - b[0] + q[1] - b[1])
                IN  Ring(s * e * f + f * a[s] + e * b[s] + c[s])]
           masked(a, b) == {with(a, b, c) : c \in ArithSharings((a[0] + a[1]) * (b[0] + b[1]))}
<1>0. PICK a \in [Servers -> Randoms], b \in [Servers -> Randoms] : z \in masked(a, b)
  BY DEF Products
<1>1. PICK c \in ArithSharings((a[0] + a[1]) * (b[0] + b[1])) : z = with(a, b, c)
  BY <1>0
<1>2. a[0] \in Int /\ a[1] \in Int /\ b[0] \in Int /\ b[1] \in Int
  <2>1. Randoms \subseteq Int
    BY CircuitsAssumption
  <2>2. a[0] \in Randoms /\ a[1] \in Randoms /\ b[0] \in Randoms /\ b[1] \in Randoms
    BY DEF Servers
  <2>3. QED
    BY <2>1, <2>2
<1> DEFINE A == a[0] + a[1]
           B == b[0] + b[1]
           P == p[0] + p[1]
           Q == q[0] + q[1]
           eArg == p[0] - a[0] + p[1] - a[1]
           fArg == q[0] - b[0] + q[1] - b[1]
           e == Ring(eArg)
           f == Ring(fArg)
           part(s) == s * e * f + f * a[s] + e * b[s] + c[s]
<1>3. eArg \in Int /\ fArg \in Int /\ A \in Int /\ B \in Int /\ P \in Int /\ Q \in Int /\ A * B \in Int
  BY <1>2
<1>4. eArg + A = P /\ fArg + B = Q
  BY <1>2
<1>5. z[0] = Ring(part(0)) /\ z[1] = Ring(part(1))
  BY <1>1 DEF Servers
<1>6. c[0] \in Int /\ c[1] \in Int /\ Congruent(c[0] + c[1], A * B, M)
  <2>1. SharesOf(c, A * B)
    BY <1>1, <1>3, ArithSharingIs
  <2>2. QED
    BY <2>1 DEF SharesOf
<1>7. /\ M \in Nat \ {0} /\ e \in Int /\ f \in Int
      /\ Congruent(e, eArg, M) /\ Congruent(f, fArg, M)
  BY <1>3, RingIs
<1> HIDE DEF M, e, f, eArg, fArg
<1>8. part(0) = f * a[0] + e * b[0] + c[0] /\ part(1) = e * f + f * a[1] + e * b[1] + c[1]
  BY <1>2, <1>6, <1>7
<1>9. part(0) \in Int /\ part(1) \in Int
  <2>1. f * a[0] \in Int /\ e * b[0] \in Int /\ e * f \in Int /\ f * a[1] \in Int /\ e * b[1] \in Int
    BY <1>2, <1>7
  <2>2. QED
    BY <1>6, <1>8, <2>1
<1>10. part(0) + part(1) = (e * f + f * A + e * B) + (c[0] + c[1])
  <2>1. f * A = f * a[0] + f * a[1] /\ e * B = e * b[0] + e * b[1]
    BY <1>2, <1>7
  <2>2. f * a[0] \in Int /\ e * b[0] \in Int /\ e * f \in Int /\ f * a[1] \in Int /\ e * b[1] \in Int
    BY <1>2, <1>7
  <2> HIDE DEF A, B, part
  <2>3. QED
    BY <1>6, <1>8, <2>1, <2>2
<1>11. /\ Ring(part(0)) \in Int /\ Congruent(Ring(part(0)), part(0), M)
       /\ Ring(part(1)) \in Int /\ Congruent(Ring(part(1)), part(1), M)
  BY <1>9, RingIs DEF M
<1> HIDE DEF A, B, P, Q, part
<1> DEFINE mixed == e * f + f * A + e * B
<1>12. mixed \in Int
  BY <1>3, <1>7
<1>13. (e + A) * (f + B) = mixed + A * B
  BY <1>3, <1>7
<1> HIDE DEF mixed
<1>14. Congruent(z[0] + z[1], mixed + (c[0] + c[1]), M)
  BY <1>5, <1>7, <1>9, <1>10, <1>11, CongruentKeeps DEF mixed
<1>15. Congruent(mixed + (c[0] + c[1]), mixed + A * B, M)
  <2>1. Congruent(mixed, mixed, M)
    BY <1>7, <1>12, CongruentMod
  <2> DEFINE C == c[0] + c[1]
             K == A * B
  <2>2. C \in Int /\ K \in Int /\ Congruent(C, K, M)
    BY <1>3, <1>6
  <2> HIDE DEF C, K
  <2>3. Congruent(mixed + C, mixed + K, M)
    BY <1>7, <1>12, <2>1, <2>2, CongruentKeeps
  <2>4. QED
    BY <2>3 DEF C, K
<1>16. Congruent((e + A) * (f + B), P * Q, M)
  <2>1. Congruent(A, A, M) /\ Congruent(B, B, M)
    BY <1>3, <1>7, CongruentMod
  <2>2. Congruent(e + A, P, M) /\ Congruent(f + B, Q, M)
    BY <1>3, <1>4, <1>7, <2>1, CongruentKeeps
  <2>3. e + A \in Int /\ f + B \in Int
    BY <1>3, <1>7
  <2>4. QED
    BY <1>3, <1>7, <2>2, <2>3, CongruentKeeps
<1>17. Congruent(z[0] + z[1], P * Q, M)
  <2>1. /\ z[0] + z[1] \in Int /\ mixed + (c[0] + c[1]) \in Int /\ mixed + A * B \in Int
        /\ P * Q \in Int
    BY <1>3, <1>5, <1>6, <1>11, <1>12
  <2>2. Congruent(mixed + A * B, P * Q, M)
    BY <1>13, <1>16
  <2>3. QED
    BY <1>7, <1>14, <1>15, <2>1, <2>2, CongruentChain
<1>18. QED
  BY <1>5, <1>11, <1>17 DEF SharesOf, M, P, Q

-----------------------------------------------------------------------------
(* The linear operators *)

\* The word that is converted, from what each server's share is as a word.
ConvertedWord ==
    IF op = "ArithMutex" THEN xor(BitsOf(cond[0]), BitsOf(cond[1]))
    ELSE xor(BitsOf(xs[0]), BitsOf(xs[1]))

\* What ResultIsShared says of the linear operators.
LinearResult ==
    /\ op = "ArithAdd" => reconstructed = Ring(X + Y)
    /\ op = "ArithMultiply" => reconstructed = Ring(X * Y)
    /\ op = "BoolToArith" => reconstructed = value(xor(BitsOf(xs[0]), BitsOf(xs[1])))
    /\ op = "ArithMutex" => reconstructed = IF SharedBit(cond) = 1 THEN X ELSE Y

\* The shares of numbers and of a condition.
Operands ==
    /\ width \in Nat
    /\ \A s \in Servers : xs[s] \in Int /\ ys[s] \in Int /\ cond[s] \in {0, 1}

\* The bits below bitPos are converted.
LinearState ==
    op \in LinearOps =>
        /\ stage \in {"add", "multiply", "convert", "choose", "ended"}
        /\ Operands /\ sender \in Servers
        /\ stage = "add" => op = "ArithAdd"
        /\ stage = "multiply" => op = "ArithMultiply"
        /\ stage = "convert" =>
                /\ op \in {"BoolToArith", "ArithMutex"}
                /\ bitPos \in 0 .. width
                /\ SharesOf(acc, value(ConvertedWord \intersect Bits(bitPos)))
        /\ stage = "choose" => op = "ArithMutex" /\ SharesOf(acc, SharedBit(cond))
        /\ stage = "ended" => LinearResult

\* What the shares of a result say.
LEMMA ReconstructedIs ==
    ASSUME width \in Nat, NEW v \in Int, SharesOf(acc, v)
    PROVE  reconstructed = Ring(v)
<1>1. acc[0] + acc[1] \in Int /\ Congruent(acc[0] + acc[1], v, shifted[width])
  BY DEF SharesOf
<1>2. QED
  BY <1>1, RingSame DEF reconstructed

\* The operands as they are shared.
LEMMA OperandsAre ==
    ASSUME Operands
    PROVE  LET M == shifted[width]
               x == xs[0] + xs[1]
               y == ys[0] + ys[1]
           IN  /\ M \in Nat \ {0} /\ x \in Int /\ y \in Int /\ X \in 0 .. M - 1 /\ Y \in 0 .. M - 1
               /\ X = Ring(x) /\ Y = Ring(y)
               /\ Ring(x + y) = Ring(X + Y) /\ Ring(x * y) = Ring(X * Y)
<1> DEFINE M == shifted[width]
           x == xs[0] + xs[1]
           y == ys[0] + ys[1]
<1>1. width \in Nat /\ x \in Int /\ y \in Int
  BY DEF Operands, Servers
<1>2. X = Ring(x) /\ Y = Ring(y)
  BY DEF X, Y
<1> HIDE DEF x, y
<1>3. /\ M \in Nat \ {0} /\ X \in 0 .. M - 1 /\ Y \in 0 .. M - 1 /\ X \in Int /\ Y \in Int
      /\ Congruent(X, x, M) /\ Congruent(Y, y, M)
  BY <1>1, <1>2, RingIs
<1> HIDE DEF M
<1>4. Congruent(X + Y, x + y, M) /\ Congruent(X * Y, x * y, M)
  BY <1>1, <1>3, CongruentKeeps
<1>5. X + Y \in Int /\ X * Y \in Int /\ x + y \in Int /\ x * y \in Int
  BY <1>1, <1>3
<1>6. Ring(x + y) = Ring(X + Y) /\ Ring(x * y) = Ring(X * Y)
  BY <1>1, <1>4, <1>5, RingSame DEF M
<1>7. QED
  BY <1>1, <1>2, <1>3, <1>6 DEF M, x, y

\* The sums are a sharing of the sum, though they are not reduced.
LEMMA AddIs ==
    ASSUME Operands, NEW a, a = [s \in Servers |-> xs[s] + ys[s]]
    PROVE  SharesOf(a, (xs[0] + xs[1]) + (ys[0] + ys[1]))
<1>1. /\ xs[0] \in Int /\ xs[1] \in Int /\ ys[0] \in Int /\ ys[1] \in Int
      /\ a[0] = xs[0] + ys[0] /\ a[1] = xs[1] + ys[1]
  BY DEF Operands, Servers
<1>2. a[0] + a[1] = (xs[0] + xs[1]) + (ys[0] + ys[1]) /\ a[0] + a[1] \in Int
  BY <1>1
<1>3. shifted[width] \in Nat \ {0}
  BY PowersOfTwo DEF Operands
<1>4. Congruent(a[0] + a[1], a[0] + a[1], shifted[width])
  BY <1>2, <1>3, CongruentMod
<1>5. QED
  BY <1>1, <1>2, <1>4 DEF SharesOf

\* The condition's word has one bit, if it holds.
LEMMA ConditionWord ==
    ASSUME width \in Nat \ {0}, cond[0] \in {0, 1}, cond[1] \in {0, 1}
    PROVE  value(xor(BitsOf(cond[0]), BitsOf(cond[1]))) = SharedBit(cond) /\ SharedBit(cond) \in {0, 1}
<1>1. ASSUME NEW c \in {0, 1} PROVE BitsOf(c) = IF c = 1 THEN {0} ELSE {}
  <2>1. ASSUME NEW i \in Bits(width) PROVE (c \div shifted[i]) % 2 = IF i = 0 THEN c ELSE 0
    <3>1. i \in Nat
      BY DEF Bits
    <3>2. CASE i = 0
      <4>1. shifted[i] = 1 /\ (c \div 1) % 2 = c
        BY <3>2, PowersOfTwo
      <4>2. QED
        BY <3>2, <4>1
    <3>3. CASE i # 0
      <4>1. 2 * shifted[0] <= shifted[i] /\ shifted[0] = 1
        BY <3>1, <3>3, PowersGrow, PowersOfTwo
      <4>2. shifted[i] \in Nat /\ shifted[i] >= 2
        BY <3>1, <4>1, PowersOfTwo
      <4>3. c \div shifted[i] = 0
        <5> DEFINE M == shifted[i]
        <5>1. c = c + 0 * M /\ c \in 0 .. M - 1 /\ M \in Nat \ {0} /\ 0 \in Int
          BY <4>2
        <5> HIDE DEF M
        <5>2. c \div M = 0
          BY <5>1, ModUnique
        <5>3. QED
          BY <5>2 DEF M
      <4>4. 0 % 2 = 0
        OBVIOUS
      <4>5. QED
        BY <3>3, <4>3, <4>4
    <3>4. QED
      BY <3>2, <3>3
  <2>2. 0 \in Bits(width)
    BY DEF Bits
  <2>3. BitsOf(c) = {i \in Bits(width) : i = 0 /\ c = 1}
    BY <2>1 DEF BitsOf
  <2>4. QED
    BY <2>2, <2>3
<1> DEFINE word == xor(BitsOf(cond[0]), BitsOf(cond[1]))
<1>2. SharedBit(cond) = (IF cond[0] # cond[1] THEN 1 ELSE 0)
  BY NotBitIs
<1>3. word = IF cond[0] # cond[1] THEN {0} ELSE {}
  BY <1>1 DEF xor
<1>4. /\ 0 \in Bits(width) /\ {0} \intersect Bits(0 + 1) = {0} /\ {} \intersect Bits(0 + 1) = {}
      /\ value({0} \intersect Bits(0)) = 0 /\ value({} \intersect Bits(0)) = 0
  BY ValueOfPart DEF Bits
<1>5. value({0}) = value({0} \intersect Bits(0)) + shifted[0]
  <2>1. value({0} \intersect Bits(0 + 1))
            = value({0} \intersect Bits(0)) + IF 0 \in {0} THEN shifted[0] ELSE 0
    BY <1>4, ValueOfPart
  <2>2. QED
    BY <1>4, <2>1
<1>6. value({}) = 0
  <2>1. value({} \intersect Bits(0 + 1))
            = value({} \intersect Bits(0)) + IF 0 \in {} THEN shifted[0] ELSE 0
    BY <1>4, ValueOfPart
  <2>2. QED
    BY <1>4, <2>1
<1>7. QED
  BY <1>2, <1>3, <1>4, <1>5, <1>6, PowersOfTwo

\* The condition times each operand, by any triples.
LEMMA ChooseIs ==
    ASSUME Operands, SharesOf(acc, SharedBit(cond)), SharedBit(cond) \in {0, 1},
           NEW cx \in Products(acc, xs), NEW cy \in Products(acc, ys),
           NEW a, a = [s \in Servers |-> Ring(cx[s] + ys[s] - cy[s])]
    PROVE  SharesOf(a, IF SharedBit(cond) = 1 THEN xs[0] + xs[1] ELSE ys[0] + ys[1])
<1> DEFINE M == shifted[width]
           x == xs[0] + xs[1]
           y == ys[0] + ys[1]
           c == acc[0] + acc[1]
           b == SharedBit(cond)
<1>1. /\ width \in Nat /\ acc[0] \in Int /\ acc[1] \in Int
      /\ xs[0] \in Int /\ xs[1] \in Int /\ ys[0] \in Int /\ ys[1] \in Int
  BY DEF Operands, SharesOf, Servers
<1>2. SharesOf(cx, c * x) /\ SharesOf(cy, c * y)
  BY <1>1, ProductIs
<1>3. /\ cx[0] \in Int /\ cx[1] \in Int /\ cy[0] \in Int /\ cy[1] \in Int
      /\ Congruent(cx[0] + cx[1], c * x, M) /\ Congruent(cy[0] + cy[1], c * y, M)
  BY <1>2 DEF SharesOf
<1>4. a[0] = Ring(cx[0] + ys[0] - cy[0]) /\ a[1] = Ring(cx[1] + ys[1] - cy[1])
  BY DEF Servers
<1> DEFINE a0 == cx[0] + ys[0] - cy[0]
           a1 == cx[1] + ys[1] - cy[1]
<1>5. a0 \in Int /\ a1 \in Int
  BY <1>1, <1>3
<1>6. /\ M \in Nat \ {0} /\ a[0] \in Int /\ a[1] \in Int
      /\ Congruent(a[0], a0, M) /\ Congruent(a[1], a1, M)
  BY <1>1, <1>4, <1>5, RingIs
<1>7. c \in Int /\ x \in Int /\ y \in Int /\ b \in Int /\ Congruent(c, b, M)
  BY <1>1 DEF SharesOf
<1> DEFINE px == cx[0] + cx[1]
           py == cy[0] + cy[1]
<1>8. a0 + a1 = (px + y) - py /\ px \in Int /\ py \in Int
  BY <1>1, <1>3
<1>9. Congruent(px, c * x, M) /\ Congruent(py, c * y, M)
  BY <1>3
<1> HIDE DEF M, x, y, c, a0, a1, px, py, b
<1>10. Congruent(a[0] + a[1], (px + y) - py, M)
  BY <1>5, <1>6, <1>8, CongruentKeeps
<1>11. Congruent(c * x, b * x, M) /\ Congruent(c * y, b * y, M) /\ Congruent(y, y, M)
  <2>1. Congruent(x, x, M) /\ Congruent(y, y, M)
    BY <1>6, <1>7, CongruentMod
  <2>2. QED
    BY <1>6, <1>7, <2>1, CongruentKeeps
<1> DEFINE bx == b * x
           by == b * y
<1>12. bx \in Int /\ by \in Int /\ c * x \in Int /\ c * y \in Int
  BY <1>7
<1>13. Congruent(px, bx, M) /\ Congruent(py, by, M)
  BY <1>6, <1>7, <1>8, <1>9, <1>11, <1>12, CongruentChain
<1> HIDE DEF bx, by
<1>14. Congruent(px + y, bx + y, M)
  BY <1>6, <1>7, <1>8, <1>11, <1>12, <1>13, CongruentKeeps
<1>15. Congruent((px + y) - py, (bx + y) - by, M)
  <2>1. px + y \in Int /\ bx + y \in Int
    BY <1>7, <1>8, <1>12
  <2>2. QED
    BY <1>6, <1>7, <1>8, <1>12, <1>13, <1>14, <2>1, CongruentKeeps
<1>16. (bx + y) - by = IF b = 1 THEN x ELSE y
  <2>1. b = 0 \/ b = 1
    BY DEF b
  <2>2. QED
    BY <1>7, <2>1 DEF bx, by
<1>17. Congruent(a[0] + a[1], (bx + y) - by, M)
  <2>1. a[0] + a[1] \in Int /\ (px + y) - py \in Int /\ (bx + y) - by \in Int
    BY <1>6, <1>7, <1>8, <1>12
  <2>2. QED
    BY <1>6, <1>10, <1>15, <2>1, CongruentChain
<1>18. QED
  BY <1>6, <1>16, <1>17 DEF SharesOf, M, x, y, b

\* One transfer: the bit's value, if it is in the word, comes on top of the shares.
LEMMA TransferIs ==
    ASSUME width \in Nat, NEW from \in Servers, NEW p \in Bits(width), NEW v \in Int, SharesOf(acc, v),
           NEW w0 \in Int, NEW w1 \in Int, NEW r \in Randoms, NEW a,
           a[from] = Ring(acc[from] + r),
           LET b(s) == BitOf(IF s = 0 THEN w0 ELSE w1, p)
           IN  a[1 - from] = Ring(acc[1 - from] +
                    ((IF b(1 - from) = 0 THEN b(from) ELSE 1 - b(from)) * shifted[p] - r))
    PROVE  SharesOf(a, v + IF p \in xor(BitsOf(w0), BitsOf(w1)) THEN shifted[p] ELSE 0)
<1> DEFINE M == shifted[width]
           b(s) == BitOf(IF s = 0 THEN w0 ELSE w1, p)
           t == IF b(1 - from) = 0 THEN b(from) ELSE 1 - b(from)
           to == 1 - from
<1>1. to \in Servers /\ p \in Nat /\ shifted[p] \in Nat /\ r \in Int
  BY PowersOfTwo, CircuitsAssumption DEF Servers, Bits
<1>2. \A s \in Servers : b(s) \in {0, 1}
  BY <1>1, NextPart DEF Servers
<1>3. t = IF p \in xor(BitsOf(w0), BitsOf(w1)) THEN 1 ELSE 0
  <2>1. (p \in BitsOf(w0) <=> b(0) = 1) /\ (p \in BitsOf(w1) <=> b(1) = 1)
    BY DEF BitsOf, BitOf
  <2>2. p \in xor(BitsOf(w0), BitsOf(w1)) <=> b(0) # b(1)
    BY <1>2, <2>1 DEF xor, Servers
  <2> HIDE DEF b
  <2>3. t = IF b(0) # b(1) THEN 1 ELSE 0
    <3>1. CASE from = 0
      BY <1>2, <3>1 DEF Servers
    <3>2. CASE from = 1
      BY <1>2, <3>2 DEF Servers
    <3>3. QED
      BY <3>1, <3>2 DEF Servers
  <2>4. QED
    BY <2>2, <2>3
<1>4. acc[from] \in Int /\ acc[to] \in Int /\ acc[from] + acc[to] = acc[0] + acc[1] /\ Congruent(acc[0] + acc[1], v, M)
  BY DEF SharesOf, Servers
<1> DEFINE g == t * shifted[p]
           e0 == acc[from] + r
           e1 == acc[to] + (g - r)
<1>5. a[from] = Ring(e0) /\ a[to] = Ring(e1)
  OBVIOUS
<1>6. g = (IF p \in xor(BitsOf(w0), BitsOf(w1)) THEN shifted[p] ELSE 0) /\ g \in Int
  BY <1>1, <1>3
<1> HIDE DEF t, b
<1>7. e0 \in Int /\ e1 \in Int /\ e0 + e1 = (acc[0] + acc[1]) + g
  <2> HIDE DEF g
  <2>1. QED
    BY <1>1, <1>4, <1>6
<1>8. /\ M \in Nat \ {0} /\ a[from] \in Int /\ a[to] \in Int
      /\ Congruent(a[from], e0, M) /\ Congruent(a[to], e1, M)
  BY <1>5, <1>7, RingIs
<1>9. a[from] + a[to] = a[0] + a[1] /\ a[0] \in Int /\ a[1] \in Int
  BY <1>8 DEF Servers
<1> HIDE DEF M, e0, e1, g, to
<1> DEFINE c == acc[0] + acc[1]
<1>10. c \in Int /\ Congruent(c, v, M)
  BY <1>4 DEF SharesOf
<1>11. e0 + e1 = c + g
  BY <1>7
<1> HIDE DEF c
<1>12. Congruent(a[from] + a[to], c + g, M)
  BY <1>7, <1>8, <1>11, CongruentKeeps
<1>13. Congruent(c + g, v + g, M)
  <2>1. Congruent(g, g, M)
    BY <1>6, <1>8, CongruentMod
  <2>2. QED
    BY <1>6, <1>8, <1>10, <2>1, CongruentKeeps
<1>14. Congruent(a[0] + a[1], v + g, M)
  <2>1. a[from] + a[to] \in Int /\ c + g \in Int /\ v + g \in Int
    BY <1>6, <1>8, <1>10
  <2>2. QED
    BY <1>8, <1>9, <1>12, <1>13, <2>1, CongruentChain
<1>15. QED
  BY <1>6, <1>9, <1>14 DEF SharesOf, M

\* Each operator's steps.
LEMMA LinearStep ==
    ASSUME LinearState, Linear, width \in Nat \ {0}
    PROVE  LinearState'
<1> SUFFICES ASSUME op \in LinearOps
             PROVE  LinearState'
  BY DEF LinearState, Linear
<1>1. /\ UNCHANGED <<op, cond, sender, xs, ys, width>>
  BY DEF Linear, vars, Add, Multiply, TransferBit, Converted, Choose
<1>2. Operands /\ Operands' /\ sender \in Servers
  BY <1>1 DEF LinearState, Operands
<1>3. /\ xs[0] \in Int /\ xs[1] \in Int /\ ys[0] \in Int /\ ys[1] \in Int
      /\ cond[0] \in {0, 1} /\ cond[1] \in {0, 1}
  BY <1>2 DEF Operands, Servers
<1> DEFINE M == shifted[width]
           x == xs[0] + xs[1]
           y == ys[0] + ys[1]
<1>4. /\ x \in Int /\ y \in Int /\ X = Ring(x) /\ Y = Ring(y)
      /\ Ring(x + y) = Ring(X + Y) /\ Ring(x * y) = Ring(X * Y)
  BY <1>2, OperandsAre
<1>5. X' = X /\ Y' = Y /\ ConvertedWord' = ConvertedWord /\ SharedBit(cond)' = SharedBit(cond)
  BY <1>1 DEF X, Y, Ring, ConvertedWord, BitsOf, SharedBit, xor, Bits
<1>6. ASSUME NEW v \in Int, SharesOf(acc', v)
      PROVE  reconstructed' = Ring(v) /\ SharesOf(acc, v)'
  <2>1. acc'[0] + acc'[1] \in Int /\ Congruent(acc'[0] + acc'[1], v, shifted[width])
    BY <1>6 DEF SharesOf
  <2>2. reconstructed' = Ring(acc'[0] + acc'[1])
    BY <1>1 DEF reconstructed, Ring
  <2>3. SharesOf(acc, v)'
    BY <1>1, <1>6 DEF SharesOf
  <2>4. QED
    BY <2>1, <2>2, <2>3, RingSame
<1>7. /\ value(xor(BitsOf(xs[0]), BitsOf(xs[1])))' = value(xor(BitsOf(xs[0]), BitsOf(xs[1])))
      /\ Ring(X + Y)' = Ring(X + Y) /\ Ring(X * Y)' = Ring(X * Y)
  BY <1>1, <1>5 DEF BitsOf, value, Ring
<1> HIDE DEF x, y
<1>10. CASE Add
  <2>1. op = "ArithAdd" /\ stage' = "ended"
    BY <1>10 DEF Add, LinearState
  <2>2. SharesOf(acc', x + y)
    BY <1>2, <1>10, AddIs DEF Add, x, y
  <2>3. reconstructed' = Ring(X + Y)
    BY <1>4, <1>6, <2>2
  <2>4. LinearResult'
    BY <1>1, <1>7, <2>1, <2>3 DEF LinearResult
  <2>5. QED
    BY <1>1, <1>2, <2>1, <2>4 DEF LinearState
<1>11. CASE Multiply
  <2>1. op = "ArithMultiply" /\ stage' = "ended"
    BY <1>11 DEF Multiply, LinearState
  <2>2. SharesOf(acc', x * y)
    <3>1. acc' \in Products(xs, ys)
      BY <1>11 DEF Multiply
    <3>2. QED
      BY <1>3, <3>1, ProductIs DEF x, y
  <2>3. reconstructed' = Ring(X * Y)
    <3>1. x * y \in Int
      BY <1>4
    <3>2. QED
      BY <1>4, <1>6, <2>2, <3>1
  <2>4. LinearResult'
    BY <1>1, <1>7, <2>1, <2>3 DEF LinearResult
  <2>5. QED
    BY <1>1, <1>2, <2>1, <2>4 DEF LinearState
<1>12. CASE TransferBit
  <2> DEFINE w(s) == IF op = "ArithMutex" THEN cond[s] ELSE xs[s]
             b(s) == (w(s) \div shifted[bitPos]) % 2
             part(k) == value(ConvertedWord \intersect Bits(k))
  <2>1. /\ stage = "convert" /\ bitPos < width /\ stage' = stage /\ bitPos' = bitPos + 1
        /\ op \in {"BoolToArith", "ArithMutex"} /\ bitPos \in 0 .. width
        /\ SharesOf(acc, part(bitPos))
    BY <1>12 DEF TransferBit, LinearState
  <2>2. PICK r \in Randoms : acc' = [s \in Servers |-> Ring(acc[s] +
                IF s = sender THEN r
                ELSE (IF b(s) = 0 THEN b(sender) ELSE 1 - b(sender)) * shifted[bitPos] - r)]
    BY <1>12 DEF TransferBit
  <2>3. w(0) \in Int /\ w(1) \in Int /\ bitPos \in Bits(width)
    BY <1>3, <2>1 DEF Bits
  <2>4. \A s \in Servers : b(s) = BitOf(IF s = 0 THEN w(0) ELSE w(1), bitPos)
    BY DEF BitOf, Servers
  <2>5. 1 - sender \in Servers /\ 1 - sender # sender
    BY <1>2 DEF Servers
  <2> HIDE DEF b
  <2>6. /\ acc'[sender] = Ring(acc[sender] + r)
        /\ acc'[1 - sender] = Ring(acc[1 - sender] +
                ((IF b(1 - sender) = 0 THEN b(sender) ELSE 1 - b(sender)) * shifted[bitPos] - r))
    BY <1>2, <2>2, <2>5
  <2>7. ConvertedWord = xor(BitsOf(w(0)), BitsOf(w(1)))
    BY DEF ConvertedWord
  <2> HIDE DEF w
  <2>8. /\ part(bitPos) \in Int
        /\ part(bitPos + 1) = part(bitPos) + IF bitPos \in ConvertedWord THEN shifted[bitPos] ELSE 0
    <3>1. \A n \in Bits(width) :
            /\ part(n) \in Nat
            /\ part(n + 1) = part(n) + IF n \in ConvertedWord THEN shifted[n] ELSE 0
      BY <2>3, ValueOfPart DEF Bits
    <3> HIDE DEF part
    <3>2. QED
      BY <2>3, <3>1
  <2>9. SharesOf(acc', part(bitPos) + IF bitPos \in ConvertedWord THEN shifted[bitPos] ELSE 0)
    <3> HIDE DEF part
    <3>0. \A s \in Servers : BitOf(IF s = 0 THEN w(0) ELSE w(1), bitPos) = b(s)
      BY <2>4
    <3>1. acc'[1 - sender] = Ring(acc[1 - sender] +
                ((IF BitOf(IF 1 - sender = 0 THEN w(0) ELSE w(1), bitPos) = 0
                  THEN BitOf(IF sender = 0 THEN w(0) ELSE w(1), bitPos)
                  ELSE 1 - BitOf(IF sender = 0 THEN w(0) ELSE w(1), bitPos)) * shifted[bitPos] - r))
      BY <1>2, <2>5, <2>6, <3>0
    <3>2. QED
      BY <1>2, <2>1, <2>3, <2>6, <2>7, <2>8, <3>1, TransferIs
  <2>10. SharesOf(acc', part(bitPos + 1))
    BY <2>8, <2>9
  <2>11. part(bitPos + 1) \in Int
    <3>1. shifted[bitPos] \in Int
      BY <2>3, PowersOfTwo DEF Bits
    <3>2. QED
      BY <2>8, <3>1
  <2>12. part(bitPos + 1) = value(ConvertedWord \intersect Bits(bitPos))'
    BY <1>1, <1>5, <2>1 DEF value, Bits
  <2>13. SharesOf(acc, value(ConvertedWord \intersect Bits(bitPos)))'
    <3> HIDE DEF part
    <3>1. QED
      BY <1>6, <2>10, <2>11, <2>12, <1>1 DEF SharesOf
  <2>14. QED
    BY <1>1, <1>2, <2>1, <2>13 DEF LinearState
<1>13. CASE Converted
  <2>1. /\ stage = "convert" /\ bitPos = width /\ acc' = acc
        /\ stage' = IF op = "ArithMutex" THEN "choose" ELSE "ended"
        /\ op \in {"BoolToArith", "ArithMutex"}
        /\ SharesOf(acc, value(ConvertedWord \intersect Bits(bitPos)))
    BY <1>13 DEF Converted, LinearState
  <2>2. ConvertedWord \in SUBSET Bits(width)
    BY <1>3 DEF ConvertedWord, xor, BitsOf
  <2>3. ConvertedWord \intersect Bits(bitPos) = ConvertedWord
    BY <2>1, <2>2
  <2>4. SharesOf(acc', value(ConvertedWord))
    BY <2>1, <2>3
  <2>5. CASE op = "ArithMutex"
    <3>1. ConvertedWord = xor(BitsOf(cond[0]), BitsOf(cond[1]))
      BY <2>5 DEF ConvertedWord
    <3>2. value(ConvertedWord) = SharedBit(cond) /\ SharedBit(cond) \in {0, 1}
      BY <1>3, <3>1, ConditionWord
    <3>3. SharesOf(acc, SharedBit(cond))'
      BY <1>1, <1>5, <2>4, <3>2 DEF SharesOf
    <3>4. QED
      BY <1>1, <1>2, <2>1, <2>5, <3>3 DEF LinearState
  <2>6. CASE op = "BoolToArith"
    <3>1. ConvertedWord = xor(BitsOf(xs[0]), BitsOf(xs[1]))
      BY <2>6 DEF ConvertedWord
    <3>2. value(ConvertedWord) \in 0 .. shifted[width] - 1
      BY <2>2, ValueBound
    <3>3. reconstructed' = Ring(value(ConvertedWord))
      BY <1>6, <2>4, <3>2
    <3>4. Ring(value(ConvertedWord)) = value(ConvertedWord)
      BY <3>2, RingIs
    <3>5. LinearResult'
      BY <1>1, <1>7, <2>6, <3>1, <3>3, <3>4 DEF LinearResult
    <3>6. QED
      BY <1>1, <1>2, <2>1, <2>6, <3>5 DEF LinearState
  <2>7. QED
    BY <2>1, <2>5, <2>6
<1>14. CASE Choose
  <2>1. op = "ArithMutex" /\ stage' = "ended" /\ SharesOf(acc, SharedBit(cond))
    BY <1>14 DEF Choose, LinearState
  <2>2. PICK cx \in Products(acc, xs), cy \in Products(acc, ys) :
            acc' = [s \in Servers |-> Ring(cx[s] + ys[s] - cy[s])]
    BY <1>14 DEF Choose
  <2>3. SharedBit(cond) \in {0, 1}
    BY <1>3, NotBitIs
  <2>4. SharesOf(acc', IF SharedBit(cond) = 1 THEN x ELSE y)
    BY <1>2, <2>1, <2>2, <2>3, ChooseIs DEF x, y
  <2>5. reconstructed' = IF SharedBit(cond) = 1 THEN X ELSE Y
    BY <1>4, <1>6, <2>4
  <2>6. (IF SharedBit(cond) = 1 THEN X ELSE Y)' = IF SharedBit(cond) = 1 THEN X ELSE Y
    BY <1>5
  <2>7. LinearResult'
    BY <1>1, <1>5, <2>1, <2>5 DEF LinearResult
  <2>8. QED
    BY <1>1, <1>2, <2>1, <2>7 DEF LinearState
<1>15. QED
  BY <1>10, <1>11, <1>12, <1>13, <1>14 DEF Linear

-----------------------------------------------------------------------------
(* From numbers to words *)

\* Each share of a bit is a bit.
IsBit(b) == b[0] \in {0, 1} /\ b[1] \in {0, 1}

\* The exclusive or of shared bits.
LEMMA XorBitIs ==
    ASSUME NEW a, NEW b, IsBit(a), IsBit(b)
    PROVE  /\ IsBit(XorBit(a, b)) /\ SharedBit(a) \in {0, 1} /\ SharedBit(b) \in {0, 1}
           /\ SharedBit(XorBit(a, b)) = IF SharedBit(a) = SharedBit(b) THEN 0 ELSE 1
<1>1. XorBit(a, b)[0] = (a[0] + b[0]) % 2 /\ XorBit(a, b)[1] = (a[1] + b[1]) % 2
  BY DEF XorBit, Servers
<1>2. QED
  BY <1>1 DEF IsBit, SharedBit

\* A full adder, whatever sharings its conjunctions leave.
LEMMA AdderIs ==
    ASSUME NEW a, NEW b, NEW c, IsBit(a), IsBit(b), IsBit(c),
           NEW g \in AndBit(a, b), NEW t \in AndBit(XorBit(a, b), c), NEW both \in AndBit(g, t)
    PROVE  LET z == XorBit(XorBit(a, b), c)
               carried == XorBit(XorBit(g, t), both)
           IN  /\ IsBit(z) /\ IsBit(carried)
               /\ SharedBit(a) + SharedBit(b) + SharedBit(c) = SharedBit(z) + 2 * SharedBit(carried)
<1> DEFINE p == XorBit(a, b)
           z == XorBit(p, c)
           carried == XorBit(XorBit(g, t), both)
<1>1. /\ IsBit(p) /\ SharedBit(a) \in {0, 1} /\ SharedBit(b) \in {0, 1} /\ SharedBit(c) \in {0, 1}
      /\ SharedBit(p) = IF SharedBit(a) = SharedBit(b) THEN 0 ELSE 1
  BY XorBitIs
<1>2. IsBit(z) /\ SharedBit(p) \in {0, 1} /\ SharedBit(z) = IF SharedBit(p) = SharedBit(c) THEN 0 ELSE 1
  BY <1>1, XorBitIs
<1>3. IsBit(g) /\ SharedBit(g) \in {0, 1} /\ (SharedBit(g) = 1 <=> SharedBit(a) = 1 /\ SharedBit(b) = 1)
  <2>1. IsBit(g) /\ (SharedBit(g) = 1 <=> SharedBit(a) = 1 /\ SharedBit(b) = 1)
    BY <1>1, AndBitIs DEF IsBit
  <2>2. QED
    BY <2>1, XorBitIs
<1>4. IsBit(t) /\ SharedBit(t) \in {0, 1} /\ (SharedBit(t) = 1 <=> SharedBit(p) = 1 /\ SharedBit(c) = 1)
  <2>1. IsBit(t) /\ (SharedBit(t) = 1 <=> SharedBit(p) = 1 /\ SharedBit(c) = 1)
    BY <1>1, <1>2, AndBitIs DEF IsBit
  <2>2. QED
    BY <2>1, XorBitIs
<1>5. /\ IsBit(both) /\ SharedBit(both) \in {0, 1}
      /\ (SharedBit(both) = 1 <=> SharedBit(g) = 1 /\ SharedBit(t) = 1)
  <2>1. IsBit(both) /\ (SharedBit(both) = 1 <=> SharedBit(g) = 1 /\ SharedBit(t) = 1)
    BY <1>3, <1>4, AndBitIs DEF IsBit
  <2>2. QED
    BY <2>1, XorBitIs
<1>6. IsBit(XorBit(g, t)) /\ SharedBit(XorBit(g, t)) = IF SharedBit(g) = SharedBit(t) THEN 0 ELSE 1
  BY <1>3, <1>4, XorBitIs
<1>7. /\ IsBit(carried) /\ SharedBit(carried) \in {0, 1}
      /\ SharedBit(carried) = IF SharedBit(XorBit(g, t)) = SharedBit(both) THEN 0 ELSE 1
  <2>1. /\ IsBit(carried)
        /\ SharedBit(carried) = IF SharedBit(XorBit(g, t)) = SharedBit(both) THEN 0 ELSE 1
    BY <1>5, <1>6, XorBitIs
  <2>2. QED
    BY <2>1
<1>8. SharedBit(a) + SharedBit(b) + SharedBit(c) = SharedBit(z) + 2 * SharedBit(carried)
  <2> HIDE DEF p, z, carried
  <2>1. QED
    BY <1>1, <1>2, <1>3, <1>4, <1>5, <1>6, <1>7
<1>9. QED
  BY <1>2, <1>7, <1>8

\* Without the carry of the last bit.
LEMMA LastBitIs ==
    ASSUME NEW a, NEW b, NEW c, IsBit(a), IsBit(b), IsBit(c)
    PROVE  LET z == XorBit(XorBit(a, b), c)
           IN  /\ IsBit(z)
               /\ \E carried \in {0, 1} :
                    SharedBit(a) + SharedBit(b) + SharedBit(c) = SharedBit(z) + 2 * carried
<1> DEFINE p == XorBit(a, b)
           z == XorBit(p, c)
<1>1. /\ IsBit(p) /\ SharedBit(a) \in {0, 1} /\ SharedBit(b) \in {0, 1} /\ SharedBit(c) \in {0, 1}
      /\ SharedBit(p) = IF SharedBit(a) = SharedBit(b) THEN 0 ELSE 1
  BY XorBitIs
<1>2. IsBit(z) /\ SharedBit(z) = IF SharedBit(p) = SharedBit(c) THEN 0 ELSE 1
  BY <1>1, XorBitIs
<1> HIDE DEF p, z
<1>3. \E carried \in {0, 1} :
        SharedBit(a) + SharedBit(b) + SharedBit(c) = SharedBit(z) + 2 * carried
  <2> DEFINE n == IF SharedBit(a) + SharedBit(b) + SharedBit(c) >= 2 THEN 1 ELSE 0
  <2>1. n \in {0, 1} /\ SharedBit(a) + SharedBit(b) + SharedBit(c) = SharedBit(z) + 2 * n
    BY <1>1, <1>2
  <2>2. QED
    BY <2>1
<1>4. QED
  BY <1>2, <1>3 DEF p, z

\* What the bits below i are.
Low(v, i) == v % shifted[i]

\* The word of a sum's bits, when the next bit is known.
LEMMA SumGrows ==
    ASSUME width \in Nat, NEW i \in Bits(width), NEW A \in Int, NEW B \in Int,
           NEW z \in SUBSET Bits(i), NEW c \in {0, 1}, NEW new \in {0, 1}, NEW carried \in {0, 1},
           value(z) + c * shifted[i] = Low(A, i) + Low(B, i),
           BitOf(A, i) + BitOf(B, i) + c = new + 2 * carried
    PROVE  value(z) + new * shifted[i] + carried * shifted[i + 1]
               = Low(A, i + 1) + Low(B, i + 1)
<1> DEFINE p == shifted[i]
           v == value(z)
           a == BitOf(A, i)
           b == BitOf(B, i)
           lowA == A % p
           lowB == B % p
<1>1. i \in Nat /\ p \in Nat \ {0} /\ shifted[i + 1] = 2 * p
  BY PowersOfTwo DEF Bits
<1>2. v \in Nat /\ value(z \union {i}) = v + p
  BY ValueGrows
<1>3. /\ a \in {0, 1} /\ A % shifted[i + 1] = lowA + a * p
      /\ b \in {0, 1} /\ B % shifted[i + 1] = lowB + b * p
  BY <1>1, NextPart
<1>4. lowA \in Int /\ lowB \in Int
  <2> HIDE DEF p
  <2>1. A % p \in 0 .. p - 1 /\ B % p \in 0 .. p - 1
    BY <1>1, ModIs
  <2>2. QED
    BY <1>1, <2>1
<1>5. value(z) + new * shifted[i] = v + new * p
  OBVIOUS
<1>6. v + c * p = lowA + lowB /\ a + b + c = new + 2 * carried
  BY DEF Low
<1> DEFINE left == value(z) + new * shifted[i]
           rightA == A % shifted[i + 1]
           rightB == B % shifted[i + 1]
           double == shifted[i + 1]
<1>7. left = v + new * p /\ rightA = lowA + a * p /\ rightB = lowB + b * p /\ double = 2 * p
  BY <1>1, <1>3, <1>5
<1> HIDE DEF p, v, a, b, lowA, lowB, left, rightA, rightB, double
<1>8. (a + b + c) * p = a * p + b * p + c * p /\ (new + 2 * carried) * p = new * p + carried * (2 * p)
  BY <1>1, <1>3
<1>9. /\ a * p \in Int /\ b * p \in Int /\ c * p \in Int /\ new * p \in Int /\ carried * (2 * p) \in Int
  BY <1>1, <1>3
<1>10. a * p + b * p + c * p = new * p + carried * (2 * p)
  BY <1>6, <1>8
<1>11. left + carried * double = rightA + rightB
  <2> DEFINE ap == a * p
             bp == b * p
             cp == c * p
             np == new * p
             tp == carried * (2 * p)
  <2>1. /\ left = v + np /\ rightA = lowA + ap /\ rightB = lowB + bp /\ carried * double = tp
        /\ v + cp = lowA + lowB /\ ap + bp + cp = np + tp
        /\ ap \in Int /\ bp \in Int /\ cp \in Int /\ np \in Int /\ tp \in Int
    BY <1>6, <1>7, <1>9, <1>10
  <2> HIDE DEF ap, bp, cp, np, tp
  <2>2. QED
    BY <1>2, <1>4, <2>1
<1>12. QED
  BY <1>11 DEF left, rightA, rightB, double, Low

\* The highest bit of the number that a word stands for.
HighBit(v) == IF v >= shifted[width - 1] THEN 1 ELSE 0

\* It is the word's bit.
LEMMA HighBitIs ==
    ASSUME width \in Nat \ {0}, NEW word \in SUBSET Bits(width)
    PROVE  HighBit(value(word)) = IF width - 1 \in word THEN 1 ELSE 0
<1> DEFINE n == width - 1
           low == value(word \intersect Bits(n))
<1>1. n \in Bits(width) /\ n \in 0 .. width /\ n + 1 = width /\ n \in Nat
  BY DEF Bits
<1>2. low \in 0 .. shifted[n] - 1
  <2>1. word \intersect Bits(n) \in SUBSET Bits(n)
    OBVIOUS
  <2>2. QED
    BY <1>1, <2>1, ValueBound
<1>3. value(word \intersect Bits(n + 1)) = low + IF n \in word THEN shifted[n] ELSE 0
  <2>1. \A m \in Bits(width) :
            value(word \intersect Bits(m + 1))
                = value(word \intersect Bits(m)) + IF m \in word THEN shifted[m] ELSE 0
    BY ValueOfPart
  <2>2. QED
    BY <1>1, <2>1
<1>4. word \intersect Bits(n + 1) = word
  BY <1>1
<1>5. shifted[n] \in Nat \ {0}
  BY <1>1, PowersOfTwo
<1> HIDE DEF low
<1>6. QED
  BY <1>2, <1>3, <1>4, <1>5 DEF HighBit

\* Half of the numbers of the width.
LEMMA HalfIs ==
    ASSUME width \in Nat \ {0}
    PROVE  /\ shifted[width - 1] \in Nat \ {0} /\ shifted[width] \in Nat \ {0}
           /\ shifted[width] = 2 * shifted[width - 1]
<1>1. width - 1 \in Nat /\ (width - 1) + 1 = width
  OBVIOUS
<1>2. QED
  BY <1>1, PowersOfTwo

\* Subtracting: the highest bit is the order where the difference has the width.
LEMMA SignIsOrder ==
    ASSUME width \in Nat \ {0}, NEW x \in 0 .. shifted[width] - 1, NEW y \in 0 .. shifted[width] - 1,
           NEW d \in Int, Congruent(d, x - y, shifted[width]),
           Signed(x) - Signed(y) \in -(shifted[width - 1]) .. shifted[width - 1] - 1
    PROVE  HighBit(Ring(d)) = 1 <=> Signed(x) < Signed(y)
<1> DEFINE M == shifted[width]
           h == shifted[width - 1]
           gap == Signed(x) - Signed(y)
<1>1. h \in Nat \ {0} /\ M \in Nat \ {0} /\ M = 2 * h
  BY HalfIs
<1>2. /\ Signed(x) \in {x, x - M} /\ Signed(y) \in {y, y - M} /\ x \in Int /\ y \in Int
      /\ Signed(x) \in Int /\ Signed(y) \in Int
  BY <1>1 DEF Signed
<1>3. gap \in -h .. h - 1 /\ gap \in Int
  BY <1>1, <1>2
<1>4. Congruent(x - y, gap, M)
  <2>1. PICK a \in Int : Signed(x) = x + a * M
    <3>1. x = x + 0 * M /\ x - M = x + (-1) * M /\ 0 \in Int /\ -1 \in Int
      BY <1>1, <1>2
    <3>2. QED
      BY <1>2, <3>1
  <2>2. PICK b \in Int : Signed(y) = y + b * M
    <3>1. y = y + 0 * M /\ y - M = y + (-1) * M /\ 0 \in Int /\ -1 \in Int
      BY <1>1, <1>2
    <3>2. QED
      BY <1>2, <3>1
  <2> HIDE DEF M
  <2>3. x - y = gap + (b - a) * M /\ b - a \in Int
    BY <1>1, <1>2, <2>1, <2>2
  <2>4. QED
    BY <2>3 DEF Congruent
<1>5. Congruent(d, gap, M)
  <2>1. x - y \in Int
    BY <1>2
  <2> HIDE DEF gap, M
  <2>2. QED
    BY <1>1, <1>3, <1>4, <2>1, CongruentChain DEF M
<1>6. Ring(d) = Ring(gap)
  BY <1>3, <1>5, RingSame
<1>7. Ring(gap) = IF gap >= 0 THEN gap ELSE gap + M
  <2>1. CASE gap >= 0
    <3>1. gap \in 0 .. M - 1
      BY <1>1, <1>3, <2>1
    <3> HIDE DEF gap
    <3>2. QED
      BY <2>1, <3>1, RingIs
  <2>2. CASE gap < 0
    <3>1. gap + M \in 0 .. M - 1
      BY <1>1, <1>3, <2>2
    <3> HIDE DEF gap
    <3>2. gap = (gap + M) + (-1) * M /\ -1 \in Int
      BY <1>1, <1>3
    <3> DEFINE e == gap + M
    <3>3. e \in 0 .. M - 1 /\ gap = e + (-1) * M
      BY <3>1, <3>2
    <3> HIDE DEF e, M
    <3>4. gap % M = e
      BY <1>1, <3>2, <3>3, ModUnique
    <3>5. ~(gap >= 0)
      BY <1>3, <2>2
    <3>6. QED
      BY <3>4, <3>5 DEF Ring, M, e
  <2>3. QED
    BY <1>3, <2>1, <2>2
<1>8. gap < 0 <=> Signed(x) < Signed(y)
  BY <1>2
<1> HIDE DEF gap
<1>9. HighBit(Ring(d)) = IF Ring(d) >= h THEN 1 ELSE 0
  BY DEF HighBit
<1> HIDE DEF M, h
<1>10. QED
  BY <1>1, <1>3, <1>6, <1>7, <1>8, <1>9

\* Neither difference has the highest bit only if there is none.
LEMMA NeitherSign ==
    ASSUME width \in Nat \ {0}, NEW d \in Int
    PROVE  HighBit(Ring(d)) = 0 /\ HighBit(Ring(-d)) = 0 <=> Ring(d) = 0
<1> DEFINE M == shifted[width]
           h == shifted[width - 1]
           r == Ring(d)
<1>1. h \in Nat \ {0} /\ M \in Nat \ {0} /\ M = 2 * h
  BY HalfIs
<1>2. r \in 0 .. M - 1 /\ r \in Int /\ Congruent(r, d, M)
  BY RingIs
<1>3. Ring(-d) = IF r = 0 THEN 0 ELSE M - r
  <2>1. PICK k \in Int : r = d + k * M
    BY <1>2 DEF Congruent
  <2> HIDE DEF r, M
  <2>2. -d = 0 - r + k * M
    BY <1>1, <1>2, <2>1
  <2>3. CASE r = 0
    <3>1. -d = 0 + k * M /\ 0 \in 0 .. M - 1
      BY <1>1, <2>2, <2>3
    <3>2. (-d) % M = 0
      BY <1>1, <3>1, ModUnique
    <3>3. QED
      BY <2>3, <3>2 DEF Ring, M
  <2>4. CASE r # 0
    <3> DEFINE e == M - r
               n == -d
               j == k - 1
               kM == k * M
               jM == j * M
    <3>0. j \in Int /\ jM = kM - M /\ kM \in Int
      BY <1>1
    <3>a. e \in 0 .. M - 1
      BY <1>1, <1>2, <2>4
    <3>b. n = 0 - r + kM
      BY <2>2
    <3> HIDE DEF kM, jM, n, j
    <3>c. n = e + jM
      BY <1>1, <1>2, <3>0, <3>b
    <3> HIDE DEF e
    <3>1. n = e + j * M /\ e \in 0 .. M - 1 /\ j \in Int
      BY <3>0, <3>a, <3>c DEF jM
    <3>2. n % M = e
      BY <1>1, <3>1, ModUnique
    <3>3. QED
      BY <2>4, <3>2 DEF Ring, M, e, n
  <2>5. QED
    BY <2>3, <2>4
<1>4. /\ HighBit(r) = IF r >= h THEN 1 ELSE 0
      /\ HighBit(Ring(-d)) = IF Ring(-d) >= h THEN 1 ELSE 0
  BY DEF HighBit
<1> HIDE DEF M, h, r
<1>5. HighBit(r) = 0 /\ HighBit(Ring(-d)) = 0 <=> r = 0
  BY <1>1, <1>2, <1>3, <1>4
<1>6. QED
  BY <1>5 DEF r

\* What is added up of the two shares.
Total == delta(0) + delta(1)

\* The words are those of the shares; up to bitPos they are added up, with the carry.
Rippling ==
    /\ bitPos \in 0 .. width
    /\ \A s \in Servers : /\ xor(own[s], given[s]) = BitsOf(Ring(delta(s)))
                          /\ carry[s] \in {0, 1} /\ zw[s] \in SUBSET Bits(bitPos)
    /\ LET A == Ring(delta(0))
           B == Ring(delta(1))
       IN  IF bitPos = width THEN value(Shared(zw)) = Ring(Total)
           ELSE value(Shared(zw)) + SharedBit(carry) * shifted[bitPos]
                    = (A % shifted[bitPos]) + (B % shifted[bitPos])

\* What it says of the operators that turn numbers into words.
RippleResult ==
    LET holds == SharedBit(zb) = 1
    IN  /\ op = "ArithToBool" => value(Shared(zw)) = X
        /\ op = "ArithLess" /\ Signed(X) - Signed(Y) \in -(shifted[width - 1]) .. shifted[width - 1] - 1 =>
                holds = (Signed(X) < Signed(Y))
        /\ op = "ArithEqual" => holds = (X = Y)

\* The words that are added up are those of the shares, the sum is right up to bitPos.
RippleState ==
    op \in RippleOps =>
        /\ stage \in {"split", "ripple", "ended"} /\ Operands
        /\ first # NoBit => /\ op = "ArithEqual" /\ IsBit(first)
                            /\ SharedBit(first) = 1 - HighBit(Ring((xs[0] + xs[1]) - (ys[0] + ys[1])))
        /\ stage = "ripple" => Rippling
        /\ stage = "ended" => RippleResult

\* What the sum of the shares is.
LEMMA TotalIs ==
    ASSUME Operands
    PROVE  LET x == xs[0] + xs[1]
               y == ys[0] + ys[1]
           IN  /\ delta(0) \in Int /\ delta(1) \in Int /\ Total \in Int
               /\ Total = CASE op = "ArithToBool" -> x
                            [] op # "ArithToBool" /\ first = NoBit -> x - y
                            [] OTHER -> -(x - y)
<1>1. /\ xs[0] \in Int /\ xs[1] \in Int /\ ys[0] \in Int /\ ys[1] \in Int
  BY DEF Operands, Servers
<1>2. CASE op = "ArithToBool"
  BY <1>1, <1>2 DEF delta, Total
<1>3. CASE op # "ArithToBool" /\ first = NoBit
  BY <1>1, <1>3 DEF delta, Total
<1>4. CASE op # "ArithToBool" /\ first # NoBit
  BY <1>1, <1>4 DEF delta, Total
<1>5. QED
  BY <1>2, <1>3, <1>4

\* The shares, cut to the width, make up the same.
LEMMA CutShares ==
    ASSUME width \in Nat, NEW a \in Int, NEW b \in Int
    PROVE  Ring(Ring(a) + Ring(b)) = Ring(a + b)
<1>1. /\ shifted[width] \in Nat \ {0} /\ Ring(a) \in Int /\ Ring(b) \in Int
      /\ Congruent(Ring(a), a, shifted[width]) /\ Congruent(Ring(b), b, shifted[width])
  BY RingIs
<1>2. Congruent(Ring(a) + Ring(b), a + b, shifted[width])
  BY <1>1, CongruentKeeps
<1>3. Ring(a) + Ring(b) \in Int /\ a + b \in Int
  BY <1>1
<1>4. QED
  BY <1>2, <1>3, RingSame

\* The words of the shares; nothing is added up yet.
LEMMA SplitStep ==
    ASSUME RippleState, Split, op \in RippleOps, UNCHANGED <<op, xs, ys, cond, width>>, width \in Nat \ {0}
    PROVE  RippleState'
<1>1. /\ stage = "split" /\ stage' = "ripple" /\ bitPos' = 0 /\ UNCHANGED <<first, zb>>
      /\ carry' = [s \in Servers |-> 0] /\ zw' = [s \in Servers |-> {}]
  BY DEF Split, Bit
<1>2. PICK masks \in [Servers -> Masks] :
        /\ own' = [s \in Servers |-> masks[s] \intersect Bits(width)]
        /\ given' = [s \in Servers |-> xor(own'[s], BitsOf(Ring(delta(s))))]
  BY DEF Split
<1>3. Operands /\ Operands'
  BY DEF RippleState, Operands
<1>4. \A s \in Servers : delta(s)' = delta(s)
  BY <1>1 DEF delta
<1>5. ASSUME NEW s \in Servers
      PROVE  /\ xor(own[s], given[s])' = BitsOf(Ring(delta(s)))'
             /\ carry'[s] \in {0, 1} /\ zw'[s] \in SUBSET Bits(bitPos)'
  <2>1. xor(own'[s], given'[s]) = BitsOf(Ring(delta(s)))
    BY <1>2 DEF xor
  <2>2. BitsOf(Ring(delta(s)))' = BitsOf(Ring(delta(s)))
    BY <1>4 DEF BitsOf, Ring
  <2>3. QED
    BY <1>1, <2>1, <2>2 DEF xor
<1>6. value(Shared(zw))' = 0
  <2>1. Shared(zw') = {} \intersect Bits(0)
    BY <1>1 DEF Shared, xor, Servers
  <2>2. value(Shared(zw')) = 0
    BY <2>1, ValueOfPart
  <2>3. value(Shared(zw))' = value(Shared(zw'))
    BY DEF value, Shared
  <2>4. QED
    BY <2>2, <2>3
<1>7. SharedBit(carry)' = 0
  BY <1>1 DEF SharedBit, Servers
<1>8. /\ shifted[0] = 1 /\ 0 * 1 = 0
      /\ \A v \in Int : v % 1 = 0
  BY PowersOfTwo
<1>9. Ring(delta(0)) \in Int /\ Ring(delta(1)) \in Int
  BY <1>3, TotalIs, RingIs
<1>10. Ring(delta(0))' = Ring(delta(0)) /\ Ring(delta(1))' = Ring(delta(1))
  BY <1>4 DEF Ring, Servers
<1>11. (value(Shared(zw)) + SharedBit(carry) * shifted[bitPos]
            = (Ring(delta(0)) % shifted[bitPos]) + (Ring(delta(1)) % shifted[bitPos]))'
  BY <1>1, <1>6, <1>7, <1>8, <1>9, <1>10
<1>12. Rippling'
  BY <1>1, <1>5, <1>11 DEF Rippling
<1>13. (first # NoBit => /\ op = "ArithEqual" /\ IsBit(first)
             /\ SharedBit(first) = 1 - HighBit(Ring((xs[0] + xs[1]) - (ys[0] + ys[1]))))'
  BY <1>1 DEF RippleState, IsBit, SharedBit, HighBit, Ring
<1>14. QED
  BY <1>1, <1>3, <1>12, <1>13 DEF RippleState

\* One bit more of the sum.
LEMMA AddBitStep ==
    ASSUME RippleState, AddBit, op \in RippleOps, UNCHANGED <<op, xs, ys, cond, width>>, width \in Nat \ {0}
    PROVE  RippleState'
<1> DEFINE i == bitPos
           A == Ring(delta(0))
           B == Ring(delta(1))
           bit(word) == IF bitPos \in word THEN 1 ELSE 0
           a == [s \in Servers |-> bit(IF s = 0 THEN own[0] ELSE given[0])]
           b == [s \in Servers |-> bit(IF s = 1 THEN own[1] ELSE given[1])]
           z == XorBit(XorBit(a, b), carry)
<1>1. /\ stage = "ripple" /\ bitPos < width /\ bitPos' = bitPos + 1
      /\ UNCHANGED <<stage, first, own, given, zb>>
      /\ zw' = [s \in Servers |-> IF z[s] = 1 THEN zw[s] \union {i} ELSE zw[s]]
  BY DEF AddBit
<1>2. \/ i = width - 1 /\ carry' = carry
      \/ \E g \in AndBit(a, b), t \in AndBit(XorBit(a, b), carry) :
           \E both \in AndBit(g, t) : carry' = XorBit(XorBit(g, t), both)
  <2>1. \/ bitPos = width - 1 /\ carry' = carry
        \/ \E generate \in AndBit(a, b), tempCarry \in AndBit(XorBit(a, b), carry) :
             \E both \in AndBit(generate, tempCarry) :
                carry' = XorBit(XorBit(generate, tempCarry), both)
    BY DEF AddBit
  <2> HIDE DEF a, b
  <2>2. QED
    BY <2>1
<1>3. Operands /\ Operands' /\ Rippling
  BY <1>1 DEF RippleState, Operands
<1>4. /\ i \in Bits(width) /\ i \in Nat /\ i # width
      /\ \A s \in Servers : /\ xor(own[s], given[s]) = BitsOf(Ring(delta(s)))
                            /\ carry[s] \in {0, 1} /\ zw[s] \in SUBSET Bits(i)
      /\ value(Shared(zw)) + SharedBit(carry) * shifted[i] = (A % shifted[i]) + (B % shifted[i])
  BY <1>1, <1>3 DEF Rippling, Bits
<1>5. A \in 0 .. shifted[width] - 1 /\ B \in 0 .. shifted[width] - 1 /\ A \in Int /\ B \in Int
      /\ shifted[width] \in Nat \ {0}
  BY <1>3, TotalIs, RingIs
<1>6. IsBit(a) /\ SharedBit(a) = BitOf(A, i)
  <2>1. a[0] = bit(own[0]) /\ a[1] = bit(given[0])
    BY DEF Servers
  <2>2. i \in xor(own[0], given[0]) <=> i \in BitsOf(A)
    BY <1>4 DEF Servers
  <2>3. i \in BitsOf(A) <=> BitOf(A, i) = 1
    BY <1>4 DEF BitsOf, BitOf
  <2>4. BitOf(A, i) \in {0, 1}
    BY <1>4, <1>5, NextPart
  <2> HIDE DEF A, a
  <2>5. IsBit(a)
    BY <2>1 DEF IsBit
  <2>6. SharedBit(a) = IF a[0] # a[1] THEN 1 ELSE 0
    BY <2>5, NotBitIs DEF IsBit
  <2>7. QED
    BY <2>1, <2>2, <2>3, <2>4, <2>5, <2>6 DEF xor
<1>7. IsBit(b) /\ SharedBit(b) = BitOf(B, i)
  <2>1. b[0] = bit(given[1]) /\ b[1] = bit(own[1])
    BY DEF Servers
  <2>2. i \in xor(own[1], given[1]) <=> i \in BitsOf(B)
    BY <1>4 DEF Servers
  <2>3. i \in BitsOf(B) <=> BitOf(B, i) = 1
    BY <1>4 DEF BitsOf, BitOf
  <2>4. BitOf(B, i) \in {0, 1}
    BY <1>4, <1>5, NextPart
  <2> HIDE DEF B, b
  <2>5. IsBit(b)
    BY <2>1 DEF IsBit
  <2>6. SharedBit(b) = IF b[0] # b[1] THEN 1 ELSE 0
    BY <2>5, NotBitIs DEF IsBit
  <2>7. QED
    BY <2>1, <2>2, <2>3, <2>4, <2>5, <2>6 DEF xor
<1> HIDE DEF a, b, A, B
<1>8. IsBit(carry) /\ SharedBit(carry) \in {0, 1}
  <2>1. IsBit(carry)
    BY <1>4 DEF IsBit, Servers
  <2>2. QED
    BY <2>1, XorBitIs
<1>9. PICK carried \in {0, 1} :
        /\ SharedBit(a) + SharedBit(b) + SharedBit(carry) = SharedBit(z) + 2 * carried
        /\ i # width - 1 => IsBit(carry') /\ SharedBit(carry') = carried
        /\ i = width - 1 => IsBit(carry')
  <2>1. CASE i = width - 1 /\ carry' = carry
    <3>1. \E c \in {0, 1} :
             SharedBit(a) + SharedBit(b) + SharedBit(carry) = SharedBit(z) + 2 * c
      BY <1>6, <1>7, <1>8, LastBitIs
    <3>2. QED
      BY <1>8, <2>1, <3>1
  <2>2. CASE \E g \in AndBit(a, b), t \in AndBit(XorBit(a, b), carry) :
                \E both \in AndBit(g, t) : carry' = XorBit(XorBit(g, t), both)
    <3>1. PICK g \in AndBit(a, b), t \in AndBit(XorBit(a, b), carry) :
                \E both \in AndBit(g, t) : carry' = XorBit(XorBit(g, t), both)
      BY <2>2
    <3>2. PICK both \in AndBit(g, t) : carry' = XorBit(XorBit(g, t), both)
      BY <3>1
    <3>3. /\ IsBit(carry')
          /\ SharedBit(a) + SharedBit(b) + SharedBit(carry) = SharedBit(z) + 2 * SharedBit(carry')
      BY <1>6, <1>7, <1>8, <3>2, AdderIs
    <3>4. SharedBit(carry') \in {0, 1}
      BY <3>3, XorBitIs
    <3>5. QED
      BY <3>3, <3>4
  <2>3. QED
    BY <1>2, <2>1, <2>2
<1>10. IsBit(z) /\ SharedBit(z) \in {0, 1} /\ SharedBit(z) = IF z[0] # z[1] THEN 1 ELSE 0
  <2>1. IsBit(z)
    BY <1>6, <1>7, <1>8, XorBitIs
  <2> HIDE DEF z
  <2>2. QED
    BY <2>1, XorBitIs, NotBitIs DEF IsBit
<1> HIDE DEF z
<1>11. Shared(zw') = IF SharedBit(z) = 1 THEN Shared(zw) \union {i} ELSE Shared(zw)
  <2>1. /\ zw'[0] = IF z[0] = 1 THEN zw[0] \union {i} ELSE zw[0]
        /\ zw'[1] = IF z[1] = 1 THEN zw[1] \union {i} ELSE zw[1]
    BY <1>1 DEF Servers
  <2>2. i \notin zw[0] /\ i \notin zw[1]
    BY <1>4 DEF Servers, Bits
  <2>3. z[0] \in {0, 1} /\ z[1] \in {0, 1}
    BY <1>10 DEF IsBit
  <2> HIDE DEF i
  <2>4. QED
    BY <1>10, <2>1, <2>2, <2>3 DEF Shared, xor
<1>12. Shared(zw) \in SUBSET Bits(i)
  BY <1>4 DEF Shared, xor, Servers
<1>13. value(Shared(zw')) + carried * shifted[i + 1] = (A % shifted[i + 1]) + (B % shifted[i + 1])
  <2>1. BitOf(A, i) + BitOf(B, i) + SharedBit(carry) = SharedBit(z) + 2 * carried
    BY <1>6, <1>7, <1>9
  <2> DEFINE new == SharedBit(z)
             c == SharedBit(carry)
             w == Shared(zw)
  <2>2. /\ i \in Bits(width) /\ w \in SUBSET Bits(i) /\ c \in {0, 1} /\ new \in {0, 1}
        /\ value(w) + c * shifted[i] = Low(A, i) + Low(B, i)
        /\ BitOf(A, i) + BitOf(B, i) + c = new + 2 * carried
        /\ width \in Nat
    BY <1>4, <1>8, <1>10, <1>12, <2>1 DEF Low
  <2> HIDE DEF i, new, c, w
  <2>3. value(w) + new * shifted[i] + carried * shifted[i + 1]
               = Low(A, i + 1) + Low(B, i + 1)
    BY <1>5, <2>2, SumGrows
  <2>4. Shared(zw') = IF new = 1 THEN w \union {i} ELSE w
    BY <1>11 DEF new, w
  <2>5. value(w) \in Nat /\ value(w \union {i}) = value(w) + shifted[i] /\ shifted[i] \in Nat
    BY <2>2, ValueGrows, PowersOfTwo DEF Bits
  <2>6. value(Shared(zw')) = value(w) + new * shifted[i]
    BY <2>2, <2>4, <2>5
  <2>7. QED
    BY <2>3, <2>6 DEF Low
<1>14. \A s \in Servers : zw'[s] \in SUBSET Bits(bitPos')
  <2>1. Bits(i + 1) = Bits(i) \union {i}
    BY <1>4 DEF Bits
  <2>2. QED
    BY <1>1, <1>4, <2>1
<1>15. /\ delta(0)' = delta(0) /\ delta(1)' = delta(1) /\ Total' = Total
       /\ A' = A /\ B' = B /\ Ring(Total)' = Ring(Total)
       /\ \A s \in Servers : delta(s)' = delta(s)
  BY <1>1 DEF delta, Total, Ring, A, B
<1>16. CASE i + 1 = width
  <2>1. A % shifted[width] = A /\ B % shifted[width] = B
    BY <1>5, ModSmall
  <2>2. value(Shared(zw')) \in 0 .. shifted[width] - 1
    <3>1. Bits(bitPos') = Bits(width)
      BY <1>1, <1>16
    <3>2. Shared(zw') \in SUBSET Bits(width)
      BY <1>14, <3>1 DEF Shared, xor, Servers
    <3>3. width \in 0 .. width
      OBVIOUS
    <3>4. QED
      BY <3>2, <3>3, ValueBound
  <2>3. Ring(A + B) = value(Shared(zw'))
    <3> DEFINE v == value(Shared(zw'))
               M == shifted[width]
    <3>1. v \in 0 .. M - 1 /\ A + B = v + carried * M /\ M \in Nat \ {0} /\ carried \in Int
      <4>1. carried * M \in Int
        BY <1>5
      <4> HIDE DEF v
      <4>2. QED
        BY <1>5, <1>13, <1>16, <2>1, <2>2, <4>1 DEF v
    <3> HIDE DEF v, M
    <3>2. (A + B) % M = v
      BY <3>1, ModUnique
    <3>3. QED
      BY <3>2 DEF Ring, v, M
  <2>4. Ring(A + B) = Ring(Total)
    BY <1>3, TotalIs, CutShares DEF A, B, Total
  <2>5. value(Shared(zw))' = value(Shared(zw'))
    BY DEF value, Shared
  <2>6. QED
    <3>1. (value(Shared(zw)) = Ring(Total))'
      BY <1>15, <2>3, <2>4, <2>5
    <3>2. bitPos' = width' /\ bitPos' \in 0 .. width'
      BY <1>1, <1>16
    <3>3. carry'[0] \in {0, 1} /\ carry'[1] \in {0, 1}
      BY <1>9 DEF IsBit
    <3>4. \A s \in Servers : /\ xor(own[s], given[s])' = BitsOf(Ring(delta(s)))'
                             /\ carry'[s] \in {0, 1} /\ zw'[s] \in SUBSET Bits(bitPos)'
      BY <1>1, <1>4, <1>14, <1>15, <3>3 DEF xor, BitsOf, Ring, Servers, Bits
    <3>5. Rippling'
      BY <3>1, <3>2, <3>4 DEF Rippling
    <3>6. (first # NoBit => /\ op = "ArithEqual" /\ IsBit(first)
             /\ SharedBit(first) = 1 - HighBit(Ring((xs[0] + xs[1]) - (ys[0] + ys[1]))))'
      BY <1>1 DEF RippleState, IsBit, SharedBit, HighBit, Ring
    <3>7. QED
      BY <1>1, <1>3, <3>5, <3>6 DEF RippleState
<1>17. CASE i + 1 # width
  <2>1. i # width - 1 /\ IsBit(carry') /\ SharedBit(carry') = carried
    BY <1>4, <1>9, <1>17
  <2>2. value(Shared(zw))' = value(Shared(zw')) /\ SharedBit(carry)' = SharedBit(carry')
    BY DEF value, Shared, SharedBit
  <2>3. (value(Shared(zw)) + SharedBit(carry) * shifted[bitPos]
            = (Ring(delta(0)) % shifted[bitPos]) + (Ring(delta(1)) % shifted[bitPos]))'
    BY <1>1, <1>13, <1>15, <2>1, <2>2 DEF A, B
  <2>4. bitPos' # width' /\ bitPos' \in 0 .. width'
    BY <1>1, <1>4, <1>17
  <2>5. carry'[0] \in {0, 1} /\ carry'[1] \in {0, 1}
    BY <2>1 DEF IsBit
  <2>6. \A s \in Servers : /\ xor(own[s], given[s])' = BitsOf(Ring(delta(s)))'
                           /\ carry'[s] \in {0, 1} /\ zw'[s] \in SUBSET Bits(bitPos)'
    BY <1>1, <1>4, <1>14, <1>15, <2>5 DEF xor, BitsOf, Ring, Servers, Bits
  <2>7. Rippling'
    BY <2>3, <2>4, <2>6 DEF Rippling
  <2>8. (first # NoBit => /\ op = "ArithEqual" /\ IsBit(first)
             /\ SharedBit(first) = 1 - HighBit(Ring((xs[0] + xs[1]) - (ys[0] + ys[1]))))'
    BY <1>1 DEF RippleState, IsBit, SharedBit, HighBit, Ring
  <2>9. QED
    BY <1>1, <1>3, <2>7, <2>8 DEF RippleState
<1>18. QED
  BY <1>16, <1>17

\* Negation and conjunction of shared bits.
LEMMA NegatedBit ==
    ASSUME NEW b, IsBit(b)
    PROVE  IsBit(NotBit(b)) /\ SharedBit(b) \in {0, 1} /\ SharedBit(NotBit(b)) = 1 - SharedBit(b)
  BY NotBitIs, XorBitIs DEF IsBit

\* The word is the number, its sign is the order, both signs are equality.
LEMMA RippledStep ==
    ASSUME RippleState, Rippled, op \in RippleOps, UNCHANGED <<op, xs, ys, cond, width>>, width \in Nat \ {0}
    PROVE  RippleState'
<1> DEFINE sign == [s \in Servers |-> IF width - 1 \in zw[s] THEN 1 ELSE 0]
           x == xs[0] + xs[1]
           y == ys[0] + ys[1]
           d == x - y
<1>1. /\ stage = "ripple" /\ bitPos = width /\ zw' = zw
      /\ CASE op = "ArithToBool" -> stage' = "ended" /\ UNCHANGED <<first, zb>>
           [] op = "ArithLess" -> stage' = "ended" /\ zb' = sign /\ UNCHANGED first
           [] op = "ArithEqual" /\ first = NoBit ->
                 stage' = "split" /\ first' = NotBit(sign) /\ UNCHANGED zb
           [] OTHER ->
                 stage' = "ended" /\ zb' \in AndBit(NotBit(sign), first) /\ UNCHANGED first
  BY DEF Rippled
<1>2. Operands /\ Operands' /\ Rippling
  BY <1>1 DEF RippleState, Operands
<1>3. /\ zw[0] \in SUBSET Bits(width) /\ zw[1] \in SUBSET Bits(width)
      /\ value(Shared(zw)) = Ring(Total)
  BY <1>1, <1>2 DEF Rippling, Servers
<1>4. IsBit(sign) /\ SharedBit(sign) = HighBit(Ring(Total)) /\ SharedBit(sign) \in {0, 1}
  <2>1. /\ sign[0] = IF width - 1 \in zw[0] THEN 1 ELSE 0
        /\ sign[1] = IF width - 1 \in zw[1] THEN 1 ELSE 0
    BY DEF Servers
  <2> HIDE DEF sign
  <2>2. IsBit(sign)
    BY <2>1 DEF IsBit
  <2>3. SharedBit(sign) = IF sign[0] # sign[1] THEN 1 ELSE 0
    BY <2>2, NotBitIs DEF IsBit
  <2>4. Shared(zw) \in SUBSET Bits(width) /\ (width - 1 \in Shared(zw) <=> sign[0] # sign[1])
    BY <1>3, <2>1 DEF Shared, xor
  <2>5. HighBit(value(Shared(zw))) = IF width - 1 \in Shared(zw) THEN 1 ELSE 0
    BY <2>4, HighBitIs
  <2>6. QED
    BY <1>3, <2>2, <2>3, <2>4, <2>5
<1>5. /\ x \in Int /\ y \in Int /\ X = Ring(x) /\ Y = Ring(y)
      /\ shifted[width] \in Nat \ {0}
      /\ X \in 0 .. shifted[width] - 1 /\ Y \in 0 .. shifted[width] - 1
  BY <1>2, OperandsAre
<1>6. Total = CASE op = "ArithToBool" -> x
                [] op # "ArithToBool" /\ first = NoBit -> d
                [] OTHER -> -d
  BY <1>2, TotalIs
<1>7. /\ X' = X /\ Y' = Y /\ value(Shared(zw))' = value(Shared(zw))
      /\ Signed(X)' = Signed(X) /\ Signed(Y)' = Signed(Y)
  BY <1>1 DEF X, Y, Ring, value, Shared, Signed
<1>8. d \in Int /\ Congruent(d, X - Y, shifted[width]) /\ (Ring(d) = 0 <=> X = Y)
  <2> DEFINE M == shifted[width]
             t == X - Y
  <2>1. Congruent(X, x, M) /\ Congruent(Y, y, M) /\ X \in Int /\ Y \in Int
    BY <1>5, RingIs
  <2> HIDE DEF x, y, M
  <2>2. Congruent(t, d, M) /\ d \in Int /\ t \in Int
    <3>1. M \in Nat \ {0}
      BY <1>5 DEF M
    <3>2. Congruent(X - Y, x - y, M)
      BY <1>5, <2>1, <3>1, CongruentKeeps
    <3>3. QED
      BY <1>5, <2>1, <3>2
  <2> HIDE DEF t, d
  <2>3. Congruent(d, t, M)
    BY <1>5, <2>2, CongruentChain DEF M
  <2>4. Ring(d) = Ring(t)
    BY <2>2, <2>3, RingSame DEF M
  <2>5. Ring(t) = 0 <=> t = 0
    <3>1. ASSUME Ring(t) = 0 PROVE t = 0
      <4>1. PICK k \in Int : Ring(t) = t + k * M
        <5>1. Congruent(Ring(t), t, M)
          BY <2>2, RingIs DEF M
        <5>2. QED
          BY <5>1 DEF Congruent
      <4>2. t > -M /\ t < M /\ M \in Nat \ {0}
        BY <1>5, <2>2 DEF t, M
      <4>3. k * M < M /\ k * M > -M
        BY <3>1, <4>1, <4>2, <2>2
      <4>4. k = 0
        <5>1. k >= 1 => k * M >= M
          BY <4>2
        <5>2. k <= -1 => k * M <= -M
          BY <4>2
        <5>3. k * M \in Int
          BY <4>2
        <5>4. QED
          BY <4>2, <4>3, <5>1, <5>2, <5>3
      <4>5. QED
        BY <2>2, <3>1, <4>1, <4>2, <4>4
    <3>2. ASSUME t = 0 PROVE Ring(t) = 0
      <4>1. 0 \in 0 .. shifted[width] - 1
        BY <1>5
      <4>2. QED
        BY <3>2, <4>1, RingIs
    <3>3. QED
      BY <3>1, <3>2
  <2>6. t = 0 <=> X = Y
    BY <2>1 DEF t
  <2>7. QED
    BY <2>2, <2>3, <2>4, <2>5, <2>6 DEF M, t
<1> HIDE DEF d, sign
<1>9. (first # NoBit => /\ op = "ArithEqual" /\ IsBit(first)
            /\ SharedBit(first) = 1 - HighBit(Ring(d)))
  BY DEF RippleState, d
<1>10. ASSUME first' = first
       PROVE  (first # NoBit => /\ op = "ArithEqual" /\ IsBit(first)
                 /\ SharedBit(first) = 1 - HighBit(Ring((xs[0] + xs[1]) - (ys[0] + ys[1]))))'
  BY <1>9, <1>10 DEF IsBit, SharedBit, HighBit, Ring, d
<1>11. CASE op = "ArithToBool"
  <2>1. stage' = "ended" /\ first' = first
    BY <1>1, <1>11
  <2>2. value(Shared(zw)) = X
    BY <1>3, <1>5, <1>6, <1>11
  <2>3. RippleResult'
    BY <1>7, <1>11, <2>2 DEF RippleResult
  <2>4. QED
    BY <1>2, <1>10, <2>1, <2>3 DEF RippleState
<1>12. CASE op = "ArithLess"
  <2>1. stage' = "ended" /\ first' = first /\ zb' = sign /\ first = NoBit
    BY <1>1, <1>9, <1>12
  <2>2. SharedBit(sign) = HighBit(Ring(d))
    BY <1>4, <1>6, <1>12, <2>1
  <2>3. Signed(X) - Signed(Y) \in -(shifted[width - 1]) .. shifted[width - 1] - 1
            => (HighBit(Ring(d)) = 1 <=> Signed(X) < Signed(Y))
    BY <1>5, <1>8, SignIsOrder
  <2>4. SharedBit(zb)' = SharedBit(sign)
    BY <2>1 DEF SharedBit
  <2>5. RippleResult'
    BY <1>7, <1>12, <2>2, <2>3, <2>4 DEF RippleResult
  <2>6. QED
    BY <1>2, <1>10, <2>1, <2>5 DEF RippleState
<1>13. CASE op = "ArithEqual" /\ first = NoBit
  <2>1. stage' = "split" /\ first' = NotBit(sign)
    BY <1>1, <1>13
  <2>2. IsBit(first') /\ SharedBit(first') = 1 - HighBit(Ring(d))
    <3>1. IsBit(NotBit(sign)) /\ SharedBit(NotBit(sign)) = 1 - SharedBit(sign)
      BY <1>4, NegatedBit
    <3>2. QED
      BY <1>4, <1>6, <1>13, <2>1, <3>1
  <2>3. (IsBit(first) /\ SharedBit(first) = 1 - HighBit(Ring((xs[0] + xs[1]) - (ys[0] + ys[1]))))'
    BY <2>2 DEF IsBit, SharedBit, HighBit, Ring, d
  <2>4. QED
    BY <1>2, <1>13, <2>1, <2>3 DEF RippleState
<1>14. CASE op = "ArithEqual" /\ first # NoBit
  <2>1. stage' = "ended" /\ zb' \in AndBit(NotBit(sign), first) /\ first' = first
    BY <1>1, <1>14
  <2>2. IsBit(NotBit(sign)) /\ SharedBit(NotBit(sign)) = 1 - SharedBit(sign)
    BY <1>4, NegatedBit
  <2>3. IsBit(first) /\ SharedBit(first) \in {0, 1} /\ SharedBit(NotBit(sign)) \in {0, 1}
    BY <1>9, <1>14, <2>2, NegatedBit
  <2>4. SharedBit(zb') = 1 <=> SharedBit(NotBit(sign)) = 1 /\ SharedBit(first) = 1
    BY <2>1, <2>3, AndBitIs
  <2>5. SharedBit(sign) = HighBit(Ring(-d)) /\ SharedBit(first) = 1 - HighBit(Ring(d))
    BY <1>4, <1>6, <1>9, <1>14
  <2>6. HighBit(Ring(d)) \in {0, 1} /\ HighBit(Ring(-d)) \in {0, 1}
    BY DEF HighBit
  <2>7. SharedBit(zb') = 1 <=> HighBit(Ring(d)) = 0 /\ HighBit(Ring(-d)) = 0
    BY <2>2, <2>4, <2>5, <2>6
  <2>8. SharedBit(zb') = 1 <=> X = Y
    BY <1>8, <2>7, NeitherSign
  <2>9. SharedBit(zb)' = SharedBit(zb')
    BY DEF SharedBit
  <2>10. RippleResult'
    BY <1>7, <1>14, <2>8, <2>9 DEF RippleResult
  <2>11. QED
    BY <1>2, <1>10, <2>1, <2>10 DEF RippleState
<1>15. QED
  BY <1>11, <1>12, <1>13, <1>14 DEF RippleOps

\* Each step of it.
LEMMA RippleStep ==
    ASSUME RippleState, Ripple, width \in Nat \ {0}
    PROVE  RippleState'
<1>1. UNCHANGED <<op, xs, ys, cond, width>>
  BY DEF Ripple, vars
<1>2. CASE op \notin RippleOps
  BY <1>1, <1>2 DEF RippleState
<1>3. CASE op \in RippleOps
  BY <1>1, <1>3, SplitStep, AddBitStep, RippledStep DEF Ripple
<1>4. QED
  BY <1>2, <1>3

-----------------------------------------------------------------------------
(* The base transfer: RSA *)

\* p gives the powers of x, up to the n-th one.
PowersOf(x, p, n) ==
    p = [i \in 0 .. n |-> IF i = 0 THEN 1 ELSE (p[i - 1] * x) % Modulus]

\* The modulus is at least two.
LEMMA ModulusIs == Modulus \in Nat \ {0} /\ 1 \in 0 .. Modulus - 1 /\ E \in Nat /\ D \in Nat
  BY TransfersAssumption

\* There is such a function.
LEMMA PowersOfExist ==
    ASSUME NEW x, NEW n \in Nat
    PROVE  \E p : PowersOf(x, p, n)
<1> DEFINE T == {k \in Nat : ~ \E f : PowersOf(x, f, k)}
<1>1. SUFFICES ASSUME T # {} PROVE FALSE
  OBVIOUS
<1>2. PICK k \in T : \A y \in T : k =< y
  BY <1>1, Least
<1>3. k # 0
  <2>1. PowersOf(x, [j \in 0 .. 0 |-> 1], 0)
    BY DEF PowersOf
  <2>2. QED
    BY <2>1
<1>4. k \in Nat /\ k - 1 \in Nat /\ k - 1 \notin T
  BY <1>2, <1>3
<1>5. PICK g : PowersOf(x, g, k - 1)
  BY <1>4
<1> DEFINE next(v) == (v * x) % Modulus
           f == [j \in 0 .. k |-> IF j = k THEN next(g[k - 1]) ELSE g[j]]
<1>6. ASSUME NEW j \in 0 .. k
      PROVE  f[j] = IF j = 0 THEN 1 ELSE next(f[j - 1])
  <2>1. CASE j = k
    <3>1. k - 1 \in 0 .. k /\ k - 1 # k
      BY <1>4
    <3> HIDE DEF next
    <3>2. f[k - 1] = g[k - 1]
      BY <3>1
    <3>3. QED
      BY <2>1, <3>2, <1>3
  <2>2. CASE j # k
    <3>1. j \in 0 .. k - 1
      BY <2>2, <1>4
    <3>2. g[j] = IF j = 0 THEN 1 ELSE next(g[j - 1])
      BY <1>5, <3>1 DEF PowersOf
    <3>3. j # 0 => j - 1 \in 0 .. k /\ j - 1 # k
      BY <3>1, <1>4
    <3> HIDE DEF next
    <3>4. QED
      BY <2>2, <3>2, <3>3
  <2>3. QED
    BY <2>1, <2>2
<1>7. f = [j \in 0 .. k |-> IF j = 0 THEN 1 ELSE next(f[j - 1])]
  <2>1. f = [j \in 0 .. k |-> f[j]]
    OBVIOUS
  <2> HIDE DEF f, next
  <2>2. QED
    BY <1>6, <2>1
<1>8. PowersOf(x, f, k)
  <2> HIDE DEF f
  <2>1. QED
    BY <1>7 DEF PowersOf
<1>9. QED
  BY <1>2, <1>8

\* The power is the last one.
LEMMA PowerIs ==
    ASSUME NEW x, NEW n \in Nat
    PROVE  \E p : PowersOf(x, p, n) /\ power(x, n) = p[n]
<1> DEFINE p == CHOOSE p : PowersOf(x, p, n)
<1>1. PowersOf(x, p, n)
  BY PowersOfExist
<1>2. power(x, n) = p[n]
  BY Zenon DEF power, PowersOf
<1>3. QED
  BY <1>1, <1>2

\* Step by step.
LEMMA PowersStep ==
    ASSUME NEW x \in Nat, NEW n \in Nat, NEW p, PowersOf(x, p, n)
    PROVE  /\ p[0] = 1
           /\ \A i \in 0 .. n : p[i] \in 0 .. Modulus - 1
           /\ \A i \in 0 .. n : i + 1 \in 0 .. n => p[i + 1] = (p[i] * x) % Modulus
<1>1. p[0] = 1
  BY DEF PowersOf
<1>2. ASSUME NEW i \in 0 .. n, i + 1 \in 0 .. n PROVE p[i + 1] = (p[i] * x) % Modulus
  <2>1. i + 1 # 0 /\ (i + 1) - 1 = i
    OBVIOUS
  <2>2. QED
    BY <1>2, <2>1 DEF PowersOf
<1> DEFINE T == {i \in 0 .. n : p[i] \notin 0 .. Modulus - 1}
<1>3. ASSUME T # {} PROVE FALSE
  <2>1. PICK i \in T : \A y \in T : i =< y
    <3>1. T \subseteq Nat
      OBVIOUS
    <3> HIDE DEF T
    <3>2. QED
      BY <1>3, <3>1, Least
  <2>2. i # 0
    BY <1>1, <2>1, ModulusIs
  <2>3. i - 1 \in 0 .. n /\ i - 1 \notin T /\ (i - 1) + 1 = i /\ i \in 0 .. n
    BY <2>1, <2>2
  <2>4. p[i] = (p[i - 1] * x) % Modulus /\ p[i - 1] \in Int
    BY <1>2, <2>3
  <2> DEFINE v == p[i - 1] * x
  <2>5. v \in Int /\ p[i] = v % Modulus
    BY <2>4
  <2> HIDE DEF v
  <2>6. p[i] \in 0 .. Modulus - 1
    BY <2>5, ModulusIs, ModIs
  <2>7. QED
    BY <2>1, <2>6
<1>4. QED
  BY <1>1, <1>2, <1>3

\* A power is a number below the modulus.
LEMMA PowerType ==
    ASSUME NEW x \in Nat, NEW n \in Nat
    PROVE  power(x, n) \in 0 .. Modulus - 1
<1>1. PICK p : PowersOf(x, p, n) /\ power(x, n) = p[n]
  BY PowerIs
<1>2. \A i \in 0 .. n : p[i] \in 0 .. Modulus - 1
  BY <1>1, PowersStep
<1>3. QED
  BY <1>1, <1>2

\* The power of a product.
LEMMA PowerOfProduct ==
    ASSUME NEW x \in Nat, NEW y \in Nat, NEW n \in Nat
    PROVE  power((x * y) % Modulus, n) = (power(x, n) * power(y, n)) % Modulus
<1> DEFINE xy == x * y
           z == xy % Modulus
<1>1. Modulus \in Nat \ {0} /\ xy \in Int
  BY ModulusIs
<1>2. z \in 0 .. Modulus - 1 /\ Congruent(z, xy, Modulus) /\ z \in Int
  <2> HIDE DEF xy
  <2>1. QED
    BY <1>1, ModIs, CongruentMod
<1>3. z \in Nat
  BY <1>1, <1>2
<1> HIDE DEF z
<1>4. PICK p : PowersOf(z, p, n) /\ power(z, n) = p[n]
  BY PowerIs
<1>5. PICK q : PowersOf(x, q, n) /\ power(x, n) = q[n]
  BY PowerIs
<1>6. PICK r : PowersOf(y, r, n) /\ power(y, n) = r[n]
  BY PowerIs
<1>7. /\ p[0] = 1 /\ \A i \in 0 .. n : p[i] \in 0 .. Modulus - 1
      /\ \A i \in 0 .. n : i + 1 \in 0 .. n => p[i + 1] = (p[i] * z) % Modulus
  BY <1>3, <1>4, PowersStep
<1>8. /\ q[0] = 1 /\ \A i \in 0 .. n : q[i] \in 0 .. Modulus - 1
      /\ \A i \in 0 .. n : i + 1 \in 0 .. n => q[i + 1] = (q[i] * x) % Modulus
  BY <1>5, PowersStep
<1>9. /\ r[0] = 1 /\ \A i \in 0 .. n : r[i] \in 0 .. Modulus - 1
      /\ \A i \in 0 .. n : i + 1 \in 0 .. n => r[i + 1] = (r[i] * y) % Modulus
  BY <1>6, PowersStep
<1> DEFINE P(i) == Congruent(p[i], q[i] * r[i], Modulus)
           T == {i \in 0 .. n : ~P(i)}
<1>10. ASSUME T # {} PROVE FALSE
  <2>1. PICK i \in T : \A j \in T : i =< j
    <3> HIDE DEF P
    <3>1. T \subseteq Nat
      OBVIOUS
    <3> HIDE DEF T
    <3>2. QED
      BY <1>10, <3>1, Least
  <2>2. i # 0
    <3>1. 1 * 1 = 1 /\ Congruent(1, 1, Modulus)
      BY <1>1, CongruentMod
    <3>2. P(0)
      BY <1>7, <1>8, <1>9, <3>1
    <3>3. QED
      BY <2>1, <3>2
  <2> DEFINE a == i - 1
  <2>3. a \in 0 .. n /\ a \notin T /\ a + 1 = i /\ i \in 0 .. n /\ a + 1 \in 0 .. n
    BY <2>1, <2>2
  <2>4. P(a)
    BY <2>3
  <2> HIDE DEF a, T
  <2> DEFINE qa == q[a]
             ra == r[a]
             pa == p[a]
  <2>5. /\ pa \in Int /\ qa \in Int /\ ra \in Int
        /\ p[i] = (pa * z) % Modulus /\ q[i] = (qa * x) % Modulus /\ r[i] = (ra * y) % Modulus
    BY <1>7, <1>8, <1>9, <2>3
  <2>6. Congruent(pa, qa * ra, Modulus)
    BY <2>4
  <2> HIDE DEF pa, qa, ra
  <2> DEFINE pz == pa * z
             qx == qa * x
             ry == ra * y
             qr == qa * ra
  <2>7. pz \in Int /\ qx \in Int /\ ry \in Int /\ qr \in Int
    BY <1>2, <2>5
  <2>8. Congruent(pz, qr * xy, Modulus)
    BY <1>1, <1>2, <2>5, <2>6, <2>7, CongruentKeeps
  <2>9. qr * xy = qx * ry
    BY <2>5
  <2>10. qr * xy \in Int
    BY <1>1, <2>7
  <2> HIDE DEF pz, qx, ry, qr, xy
  <2>11. /\ Congruent(p[i], pz, Modulus) /\ p[i] \in Int
         /\ Congruent(qx, q[i], Modulus) /\ q[i] \in Int
         /\ Congruent(ry, r[i], Modulus) /\ r[i] \in Int
    BY <1>1, <2>5, <2>7, CongruentMod DEF pz, qx, ry
  <2>12. Congruent(qx * ry, q[i] * r[i], Modulus)
    BY <1>1, <2>7, <2>11, CongruentKeeps
  <2>13. Congruent(p[i], qx * ry, Modulus)
    BY <1>1, <2>7, <2>8, <2>9, <2>10, <2>11, CongruentChain
  <2>14. Congruent(p[i], q[i] * r[i], Modulus)
    <3>1. qx * ry \in Int /\ q[i] * r[i] \in Int
      BY <2>7, <2>11
    <3>2. QED
      BY <1>1, <2>11, <2>12, <2>13, <3>1, CongruentChain
  <2>15. QED
    BY <2>1, <2>14 DEF T
<1>11. P(n)
  BY <1>10
<1>12. p[n] \in 0 .. Modulus - 1 /\ q[n] \in Int /\ r[n] \in Int
  BY <1>7, <1>8, <1>9
<1>13. p[n] % Modulus = (q[n] * r[n]) % Modulus /\ p[n] % Modulus = p[n]
  <2>1. p[n] \in Int /\ q[n] * r[n] \in Int
    BY <1>12
  <2>2. QED
    BY <1>1, <1>11, <1>12, <2>1, CongruentIs, ModSmall
<1>14. QED
  BY <1>4, <1>5, <1>6, <1>13 DEF z

\* The powers of one.
LEMMA PowerOfOne ==
    ASSUME NEW n \in Nat
    PROVE  power(1, n) = 1
<1>1. PICK p : PowersOf(1, p, n) /\ power(1, n) = p[n]
  BY PowerIs
<1>2. /\ p[0] = 1
      /\ \A i \in 0 .. n : i + 1 \in 0 .. n => p[i + 1] = (p[i] * 1) % Modulus
  BY <1>1, PowersStep
<1> DEFINE T == {i \in 0 .. n : p[i] # 1}
<1>3. ASSUME T # {} PROVE FALSE
  <2>1. PICK i \in T : \A j \in T : i =< j
    <3>1. T \subseteq Nat
      OBVIOUS
    <3> HIDE DEF T
    <3>2. QED
      BY <1>3, <3>1, Least
  <2>2. i # 0
    BY <1>2, <2>1
  <2>3. i - 1 \in 0 .. n /\ i - 1 \notin T /\ (i - 1) + 1 = i /\ i \in 0 .. n
    BY <2>1, <2>2
  <2>4. p[i] = (p[i - 1] * 1) % Modulus /\ p[i - 1] = 1
    BY <1>2, <2>3
  <2>5. 1 % Modulus = 1 /\ 1 * 1 = 1
    BY ModulusIs, ModSmall
  <2>6. QED
    BY <2>1, <2>4, <2>5
<1>4. QED
  BY <1>1, <1>3

\* A power of a unit is one, with an inverse among them.
LEMMA PowerIsUnit ==
    ASSUME NEW x \in Units, NEW n \in Nat
    PROVE  /\ power(x, n) \in 1 .. Modulus - 1
           /\ \E y \in Units : (power(x, n) * y) % Modulus = 1
<1>1. PICK y \in 1 .. Modulus - 1 : (x * y) % Modulus = 1
  BY DEF Units
<1>2. x \in Nat /\ y \in Nat
  BY ModulusIs DEF Units
<1> DEFINE px == power(x, n)
           py == power(y, n)
<1>3. px \in 0 .. Modulus - 1 /\ py \in 0 .. Modulus - 1
  BY <1>2, PowerType
<1>4. power((x * y) % Modulus, n) = (px * py) % Modulus
  BY <1>2, PowerOfProduct
<1>5. (px * py) % Modulus = 1
  BY <1>1, <1>4, PowerOfOne
<1> HIDE DEF px, py
<1>6. px * py = py * px
  BY <1>3
<1>7. px # 0 /\ py # 0
  <2>1. 0 * py = 0 /\ px * 0 = 0 /\ 0 % Modulus = 0
    BY <1>3, ModulusIs, ModSmall
  <2>2. QED
    BY <1>5, <2>1
<1>8. px \in 1 .. Modulus - 1 /\ py \in 1 .. Modulus - 1
  BY <1>3, <1>7
<1>9. py \in Units
  BY <1>5, <1>6, <1>8 DEF Units
<1>10. QED
  BY <1>5, <1>8, <1>9 DEF px

\* The receiver's key is the one of the message that it chose.
LEMMA KeyIs ==
    ASSUME NEW x \in Units, NEW k \in Units
    PROVE  LET v == (power(k, E) * x) % Modulus
           IN  (power(v, D) * modInverse(power(x, D))) % Modulus = k
<1> DEFINE M == Modulus
           v == (power(k, E) * x) % M
           kE == power(k, E)
           xD == power(x, D)
           inv == modInverse(xD)
<1>1. M \in Nat \ {0} /\ E \in Nat /\ D \in Nat /\ k \in 1 .. M - 1 /\ x \in 1 .. M - 1
  BY ModulusIs DEF Units
<1>2. kE \in 0 .. M - 1 /\ xD \in 0 .. M - 1 /\ k \in Nat /\ x \in Nat
  <2>1. k \in Nat /\ x \in Nat
    BY <1>1
  <2>2. QED
    BY <1>1, <2>1, PowerType
<1>3. power(v, D) = (power(kE, D) * xD) % M
  BY <1>1, <1>2, PowerOfProduct
<1>4. power(kE, D) = k
  BY TransfersAssumption
<1>5. inv \in Units /\ (xD * inv) % M = 1
  <2>1. \E y \in Units : (xD * y) % M = 1
    BY <1>1, PowerIsUnit
  <2>2. QED
    BY <2>1 DEF modInverse
<1>6. inv \in Nat
  BY <1>1, <1>5 DEF Units
<1> DEFINE kx == k * xD
           w == power(v, D)
           one == xD * inv
<1>7. w = kx % M /\ one % M = 1
  BY <1>3, <1>4, <1>5
<1>8. kx \in Int /\ one \in Int
  BY <1>2, <1>6
<1>9. kx * inv = k * one
  BY <1>2, <1>6
<1> HIDE DEF M, kx, w, one, inv
<1>10. w \in Int /\ Congruent(w, kx, M) /\ Congruent(inv, inv, M) /\ Congruent(k, k, M) /\ Congruent(one, 1, M)
  <2>1. Congruent(one, one % M, M) /\ Congruent(kx % M, kx, M) /\ kx % M \in Int
    BY <1>1, <1>8, CongruentMod
  <2>2. Congruent(inv, inv, M) /\ Congruent(k, k, M)
    BY <1>1, <1>2, <1>6, CongruentMod
  <2>3. QED
    BY <1>7, <2>1, <2>2
<1>11. Congruent(w * inv, kx * inv, M) /\ Congruent(k * one, k * 1, M)
  BY <1>1, <1>2, <1>6, <1>8, <1>10, CongruentKeeps
<1>12. /\ k * 1 = k /\ k * one \in Int /\ w * inv \in Int /\ k \in Int
  BY <1>2, <1>6, <1>8, <1>10
<1>13. Congruent(w * inv, k, M)
  BY <1>1, <1>9, <1>11, <1>12, CongruentChain
<1>14. (w * inv) % M = k % M /\ k % M = k
  <2>1. k \in 0 .. M - 1
    BY <1>1, <1>12
  <2>2. k % M = k
    BY <1>1, <2>1, ModSmall
  <2> DEFINE p == w * inv
  <2>3. p \in Int /\ Congruent(p, k, M)
    BY <1>12, <1>13
  <2> HIDE DEF p
  <2>4. p % M = k % M
    BY <1>1, <1>12, <2>3, CongruentIs
  <2>5. QED
    BY <2>2, <2>4 DEF p
<1>15. QED
  BY <1>14 DEF M, w, inv

\* The base transfer gives the message that was chosen, whatever the random numbers and the
\* receiver's key (BaseOtBatchOperator).
THEOREM BaseOtGivesChosen ==
    ASSUME NEW m0, NEW m1, NEW c \in {0, 1}, NEW x0 \in Units, NEW x1 \in Units, NEW k \in Units
    PROVE  BaseOt(m0, m1, c, x0, x1, k) = IF c = 0 THEN m0 ELSE m1
<1> DEFINE x == IF c = 0 THEN x0 ELSE x1
           m == IF c = 0 THEN m0 ELSE m1
           v == (power(k, E) * x) % Modulus
           key(z) == (power(v, D) * modInverse(power(z, D))) % Modulus
<1>1. key(x) = k
  BY KeyIs
<1> HIDE DEF key
<1>2. BaseOt(m0, m1, c, x0, x1, k)
        = SymDiff(IF c = 0 THEN SymDiff(m0, Kdf(key(x0))) ELSE SymDiff(m1, Kdf(key(x1))), Kdf(k))
  BY DEF BaseOt, key
<1>3. CASE c = 0
  BY <1>1, <1>2, <1>3, MaskTwice
<1>4. CASE c = 1
  BY <1>1, <1>2, <1>4, MaskTwice
<1>5. QED
  BY <1>3, <1>4

\* So the seeds fit in every row.
LEMMA PreparedSeedsFit ==
    ASSUME NEW rows \in [Row -> SeedRows]
    PROVE  SeedsFit(rows)
<1> SUFFICES ASSUME NEW i \in Row
             PROVE  /\ rows[i].choice \in {0, 1}
                    /\ rows[i].chosen = rows[i].pair[rows[i].choice + 1]
  BY DEF SeedsFit
<1> DEFINE of(pair, c) ==
        {[pair |-> pair, choice |-> c,
          chosen |-> BaseOt(pair[1], pair[2], c, x0, x1, k)] : x0, x1, k \in Units}
<1>1. PICK pair \in SeedPairs, b \in {0, 1} : rows[i] \in of(pair, b)
  BY DEF SeedRows
<1>2. PICK x0 \in Units, x1 \in Units, k \in Units :
        rows[i] = [pair |-> pair, choice |-> b, chosen |-> BaseOt(pair[1], pair[2], b, x0, x1, k)]
  BY <1>1
<1>3. BaseOt(pair[1], pair[2], b, x0, x1, k) = IF b = 0 THEN pair[1] ELSE pair[2]
  BY BaseOtGivesChosen
<1>4. b = 0 \/ b = 1
  OBVIOUS
<1>5. QED
  BY <1>2, <1>3, <1>4

-----------------------------------------------------------------------------
(* The generators of triples *)

\* Both generators.
Generators == WordGenerators \union NumberGenerators

\* The random factors.
Factors ==
    /\ width \in Nat \ {0}
    /\ packed => \A s \in Servers : xis[s] \in SUBSET Bits(width) /\ yis[s] \in SUBSET Bits(width)
    /\ ~packed => \A s \in Servers : xs[s] \in Int /\ ys[s] \in Int

\* The messages of one server and the choice of the other one share their product.
Mixed(d, m) ==
    IF packed THEN /\ m[0] \in SUBSET Bits(width) /\ m[1] \in SUBSET Bits(width)
                   /\ xor(m[0], m[1]) = xis[d] \intersect yis[1 - d]
    ELSE SharesOf(m, xs[d] * ys[1 - d])

\* What the columns and the messages are, as they are sent.
Offered == [p \in Bits(width) |-> OfferedColumn(seeds, place(p, width, packed), choice(p))]
Sent == [p \in Bits(width) |->
            Masked(seeds, place(p, width, packed), offer[p],
                   message(ss0[p], p), message(corr(p), p), messageBits)]

\* What ResultIsShared says of the generators.
GeneratorResult ==
    /\ op = "BmtBatchGenerator" => reconstructed = Ring(X * Y)
    /\ op = "BitwiseBmtBatchGenerator" =>
            Shared(zw) = Shared(xis) \intersect Shared(yis)

\* Each stage has made its messages; each direction that is done has its product shared.
GeneratorState ==
    op \in Generators =>
        /\ stage \in {"seeds", "offer", "mask", "unmask", "third", "ended"}
        /\ Factors /\ sender \in Servers
        /\ DOMAIN mix = Servers /\ \A d \in Servers : DOMAIN mix[d] = Servers
        /\ stage \in {"offer", "mask", "unmask"} => SeedsFit(seeds)
        /\ stage \in {"mask", "unmask"} =>
                /\ offer = Offered
                /\ IF packed THEN \A p \in Bits(width) : ss0[p] = ss0[0]
                   ELSE \A p \in Bits(width) : ss0[p] \in Int
        /\ stage = "unmask" => ys01 = Sent
        /\ sender = 1 /\ stage # "ended" => Mixed(0, mix[0])
        /\ stage = "third" => sender = 1 /\ Mixed(1, mix[1])
        /\ stage = "ended" => GeneratorResult

\* What the receiver chooses.
LEMMA ChoiceIsBit ==
    ASSUME Factors, sender \in Servers, NEW p \in Bits(width)
    PROVE  /\ receiver \in Servers /\ receiver # sender /\ choice(p) \in {0, 1}
           /\ packed => (choice(p) = 1 <=> p \in yis[receiver])
           /\ ~packed => choice(p) = BitOf(ys[receiver], p)
<1>1. receiver \in Servers /\ receiver # sender
  BY DEF receiver, Servers
<1>2. CASE packed
  BY <1>1, <1>2 DEF choice
<1>3. CASE ~packed
  <2>1. choice(p) = BitOf(ys[receiver], p)
    BY <1>3 DEF choice, BitOf
  <2>2. ys[receiver] \in Int /\ p \in Nat
    BY <1>1, <1>3 DEF Factors, Bits
  <2>3. BitOf(ys[receiver], p) \in {0, 1}
    BY <2>2, NextPart
  <2>4. QED
    BY <1>1, <1>3, <2>1, <2>3
<1>4. QED
  BY <1>2, <1>3

\* The message that the receiver unmasks.
LEMMA UnmaskedIs ==
    ASSUME SeedsFit(seeds), offer = Offered, ys01 = Sent, NEW p \in Bits(width), choice(p) \in {0, 1}
    PROVE  Unmasked(seeds, place(p, width, packed), ys01[p], choice(p), messageBits)
                = IF choice(p) = 0 THEN message(ss0[p], p) ELSE message(corr(p), p)
<1> DEFINE at == place(p, width, packed)
           m0 == message(ss0[p], p)
           m1 == message(corr(p), p)
<1>1. offer[p] = OfferedColumn(seeds, at, choice(p))
  BY DEF Offered
<1>2. ys01[p] = Masked(seeds, at, offer[p], m0, m1, messageBits)
  BY DEF Sent
<1> HIDE DEF at, m0, m1
<1>3. ys01[p] = Masked(seeds, at, OfferedColumn(seeds, at, choice(p)), m0, m1, messageBits)
  BY <1>1, <1>2
<1>4. Unmasked(seeds, at, Masked(seeds, at, OfferedColumn(seeds, at, choice(p)), m0, m1, messageBits),
               choice(p), messageBits) = IF choice(p) = 0 THEN m0 ELSE m1
  BY ChosenMessageArrives
<1>5. QED
  BY <1>3, <1>4 DEF at, m0, m1

\* The packed products.
LEMMA PackedProduct ==
    ASSUME Factors, packed, sender \in Servers, SeedsFit(seeds), offer = Offered, ys01 = Sent,
           \A p \in Bits(width) : ss0[p] = ss0[0],
           NEW m, m[sender] = ss0[0] \intersect Bits(width),
           m[receiver] = {p \in Bits(width) :
                Unmasked(seeds, place(p, width, packed), ys01[p], choice(p), messageBits) = {0}}
    PROVE  Mixed(sender, m)
<1>1. receiver \in Servers /\ receiver = 1 - sender
  BY DEF receiver, Servers
<1> DEFINE result(p) == Unmasked(seeds, place(p, width, packed), ys01[p], choice(p), messageBits)
<1>2. ASSUME NEW p \in Bits(width)
      PROVE  result(p) = {0} <=>
                IF p \in yis[receiver] THEN p \in xor(xis[sender], ss0[0]) ELSE p \in ss0[0]
  <2>1. choice(p) \in {0, 1} /\ (choice(p) = 1 <=> p \in yis[receiver])
    BY ChoiceIsBit
  <2>2. result(p) = IF choice(p) = 0 THEN message(ss0[p], p) ELSE message(corr(p), p)
    BY <2>1, UnmaskedIs
  <2>3. corr(p) = xor(xis[sender], ss0[p])
    BY DEF corr
  <2>4. \A v : message(v, p) = IF p \in v THEN {0} ELSE {}
    BY DEF message
  <2>5. ss0[p] = ss0[0] /\ {0} # {}
    OBVIOUS
  <2> HIDE DEF result
  <2>6. QED
    BY <2>1, <2>2, <2>3, <2>4, <2>5
<1>3. m[sender] \in SUBSET Bits(width) /\ m[receiver] \in SUBSET Bits(width)
  OBVIOUS
<1>4. \/ sender = 0 /\ receiver = 1
      \/ sender = 1 /\ receiver = 0
  BY <1>1 DEF Servers
<1>5. /\ m[0] \in SUBSET Bits(width) /\ m[1] \in SUBSET Bits(width)
      /\ xor(m[0], m[1]) = xor(m[sender], m[receiver])
  <2>1. xor(m[0], m[1]) = xor(m[1], m[0])
    BY DEF xor
  <2>2. CASE sender = 0 /\ receiver = 1
    BY <1>3, <2>2
  <2>3. CASE sender = 1 /\ receiver = 0
    BY <1>3, <2>1, <2>3
  <2>4. QED
    BY <1>4, <2>2, <2>3
<1>6. m[receiver] = {p \in Bits(width) :
            IF p \in yis[receiver] THEN p \in xor(xis[sender], ss0[0]) ELSE p \in ss0[0]}
  BY <1>2
<1>7. xis[sender] \in SUBSET Bits(width) /\ yis[receiver] \in SUBSET Bits(width)
  BY <1>1 DEF Factors
<1>8. xor(m[sender], m[receiver]) = xis[sender] \intersect yis[receiver]
  BY <1>6, <1>7 DEF xor
<1>9. QED
  BY <1>1, <1>5, <1>8 DEF Mixed

\* The terms of the sums share the bit's multiple of the factor.
LEMMA TermsShare ==
    ASSUME Factors, ~packed, sender \in Servers, SeedsFit(seeds), offer = Offered, ys01 = Sent,
           NEW p \in Bits(width), ss0[p] \in Int,
           NEW u, u = (IF choice(p) = 0 THEN -1 ELSE 1) * value(
                Unmasked(seeds, place(p, width, packed), ys01[p], choice(p), messageBits))
    PROVE  /\ u \in Int
           /\ Congruent(ss0[p] + u, xs[sender] * (choice(p) * shifted[p]), shifted[width])
<1> DEFINE M == shifted[width]
           result == Unmasked(seeds, place(p, width, packed), ys01[p], choice(p), messageBits)
           x == xs[sender]
           c == choice(p)
           s == ss0[p]
           xp == x * shifted[p]
<1>1. /\ width \in Nat /\ x \in Int /\ c \in {0, 1} /\ shifted[p] \in Nat /\ xp \in Int /\ s \in Int
  <2>1. shifted[p] \in Nat /\ width \in Nat /\ x \in Int
    BY PowersOfTwo DEF Bits, Factors
  <2>2. QED
    BY <2>1, ChoiceIsBit
<1>2. \A v \in Int : message(v, p) = BitsOf(Ring(v))
  BY DEF message
<1>3. \A v \in Int : value(BitsOf(Ring(v))) = Ring(v) /\ Ring(v) \in Int /\ Congruent(Ring(v), v, M)
  <2> SUFFICES ASSUME NEW v \in Int
               PROVE  value(BitsOf(Ring(v))) = Ring(v) /\ Ring(v) \in Int /\ Congruent(Ring(v), v, M)
    OBVIOUS
  <2>1. Ring(v) \in 0 .. shifted[width] - 1 /\ Ring(v) \in Int /\ Congruent(Ring(v), v, M)
    BY <1>1, RingIs
  <2>2. value(BitsOf(Ring(v))) = Ring(Ring(v))
    BY <1>1, <2>1, BitsOfIs
  <2>3. Ring(Ring(v)) = Ring(v)
    BY <1>1, <2>1, RingIs
  <2>4. QED
    BY <2>1, <2>2, <2>3
<1>4. corr(p) = Ring(xp - s)
  BY DEF corr
<1>5. result = IF c = 0 THEN message(s, p) ELSE message(corr(p), p)
  BY <1>1, UnmaskedIs
<1>6. M \in Nat \ {0}
  BY <1>1, RingIs
<1>7. u = (IF c = 0 THEN -1 ELSE 1) * value(result)
  OBVIOUS
<1>8. Congruent(s, s, M)
  BY <1>1, <1>6, CongruentMod
<1>9. x * (c * shifted[p]) = IF c = 0 THEN 0 ELSE xp
  <2>1. CASE c = 0
    BY <1>1, <2>1
  <2>2. CASE c = 1
    BY <1>1, <2>2
  <2>3. QED
    BY <1>1, <2>1, <2>2
<1> HIDE DEF M, x, c, s, result
<1>10. CASE c = 0
  <2> DEFINE r == Ring(s)
  <2>1. u = -r /\ r \in Int /\ Congruent(r, s, M)
    BY <1>1, <1>2, <1>3, <1>5, <1>7, <1>10
  <2> HIDE DEF r
  <2>2. Congruent(s - r, s - s, M)
    BY <1>1, <1>6, <1>8, <2>1, CongruentKeeps
  <2>3. s - s = 0 /\ s - r = s + u
    BY <1>1, <2>1
  <2>4. QED
    BY <1>9, <1>10, <2>1, <2>2, <2>3 DEF M, s, x, c
<1>11. CASE c = 1
  <2> DEFINE d == xp - s
             q == Ring(d)
             r == Ring(q)
  <2>1. d \in Int
    BY <1>1
  <2>2. q \in Int /\ Congruent(q, d, M)
    BY <1>3, <2>1
  <2>3. u = r /\ r \in Int /\ Congruent(r, q, M)
    <3>1. result = BitsOf(Ring(q))
      BY <1>2, <1>4, <1>5, <1>11, <2>2
    <3>2. value(result) = r /\ r \in Int /\ Congruent(r, q, M)
      BY <1>3, <2>2, <3>1
    <3>3. QED
      BY <1>7, <1>11, <3>2
  <2>4. Congruent(r, d, M)
    <3> HIDE DEF r, q, d
    <3>1. QED
      BY <1>6, <2>1, <2>2, <2>3, CongruentChain
  <2>5. Congruent(s + r, s + d, M)
    <3> HIDE DEF r, q, d
    <3>1. QED
      BY <1>1, <1>6, <1>8, <2>1, <2>3, <2>4, CongruentKeeps
  <2> HIDE DEF r, q, xp
  <2>6. s + d = xp
    BY <1>1
  <2>7. QED
    BY <1>9, <1>11, <2>3, <2>5, <2>6 DEF M, s, x, c
<1>12. QED
  BY <1>1, <1>10, <1>11

\* The products of numbers.
LEMMA NumberProduct ==
    ASSUME Factors, ~packed, sender \in Servers, SeedsFit(seeds), offer = Offered, ys01 = Sent,
           \A p \in Bits(width) : ss0[p] \in Int,
           NEW rest, \A p \in Bits(width) :
                rest[p] = (IF choice(p) = 0 THEN -1 ELSE 1) * value(
                    Unmasked(seeds, place(p, width, packed), ys01[p], choice(p), messageBits)),
           NEW m, m[sender] = sum(ss0), m[receiver] = sum(rest)
    PROVE  Mixed(sender, m)
<1> DEFINE M == shifted[width]
           x == xs[sender]
           y == ys[receiver]
<1>1. /\ width \in Nat /\ receiver \in Servers /\ receiver = 1 - sender /\ 0 \in Bits(width)
      /\ x \in Int /\ y \in Int /\ M \in Nat \ {0}
  <2>1. width \in Nat /\ receiver \in Servers /\ receiver = 1 - sender /\ 0 \in Bits(width)
    BY DEF receiver, Servers, Factors, Bits
  <2>2. QED
    BY <2>1, PowersOfTwo DEF Factors
<1>2. ASSUME NEW p \in Bits(width)
      PROVE  /\ rest[p] \in Int /\ choice(p) \in {0, 1} /\ choice(p) = BitOf(y, p)
             /\ Congruent(ss0[p] + rest[p], x * (choice(p) * shifted[p]), M)
  BY TermsShare, ChoiceIsBit
<1>3. PICK t : /\ t[0] = 0 /\ \A k \in 0 .. width : t[k] \in Int
               /\ \A k \in Bits(width) : t[k + 1] = t[k] + ss0[k]
               /\ SumOf(ss0, Bits(width)) = t[width]
  BY <1>1, SumIs
<1>4. PICK u : /\ u[0] = 0 /\ \A k \in 0 .. width : u[k] \in Int
               /\ \A k \in Bits(width) : u[k + 1] = u[k] + rest[k]
               /\ SumOf(rest, Bits(width)) = u[width]
  BY <1>1, <1>2, SumIs
<1>5. sum(ss0) = Ring(t[width]) /\ sum(rest) = Ring(u[width])
  BY <1>3, <1>4, SumOfIs
<1> DEFINE P(k) == Congruent(t[k] + u[k], x * Low(y, k), M)
           T == {k \in 0 .. width : ~P(k)}
<1> HIDE DEF M, x, y
<1>6. ASSUME T # {} PROVE FALSE
  <2>1. PICK k \in T : \A j \in T : k =< j
    <3> HIDE DEF P
    <3>1. T \subseteq Nat
      OBVIOUS
    <3> HIDE DEF T
    <3>2. QED
      BY <1>6, <3>1, Least
  <2>2. k # 0
    <3>1. y % 1 = 0 /\ x * 0 = 0 /\ 0 + 0 = 0
      BY <1>1
    <3>2. x * Low(y, 0) = 0
      BY <3>1, PowersOfTwo DEF Low
    <3>3. Congruent(0, 0, M)
      BY <1>1, CongruentMod
    <3>4. P(0)
      BY <1>3, <1>4, <3>1, <3>2, <3>3
    <3>5. QED
      BY <2>1, <3>4
  <2> DEFINE i == k - 1
  <2>3. i \in 0 .. width /\ i \in Bits(width) /\ i \notin T /\ i + 1 = k /\ k \in 0 .. width /\ i \in Nat
    <3>1. T \subseteq 0 .. width
      OBVIOUS
    <3>2. k \in 1 .. width
      BY <1>1, <2>1, <2>2, <3>1
    <3> HIDE DEF T
    <3>3. i \in 0 .. width /\ i \in Bits(width) /\ i + 1 = k /\ i \in Nat /\ ~(k =< i)
      BY <1>1, <3>2 DEF Bits
    <3>4. QED
      BY <2>1, <3>2, <3>3
  <2>4. P(i)
    BY <2>3
  <2> HIDE DEF i, T
  <2> DEFINE a == t[i] + u[i]
             b == ss0[i] + rest[i]
             c == choice(i) * shifted[i]
             low == Low(y, i)
  <2>5. /\ t[i] \in Int /\ u[i] \in Int /\ ss0[i] \in Int /\ rest[i] \in Int
        /\ t[k] = t[i] + ss0[i] /\ u[k] = u[i] + rest[i]
    BY <1>2, <1>3, <1>4, <2>3
  <2>6. t[k] + u[k] = a + b /\ a \in Int /\ b \in Int
    BY <2>5
  <2>7. c \in Int /\ Congruent(b, x * c, M)
    <3>1. shifted[i] \in Int
      BY <2>3, PowersOfTwo
    <3>2. QED
      BY <1>2, <2>3, <3>1
  <2>8. low \in Int /\ Low(y, k) = low + c
    <3>1. shifted[i] \in Nat \ {0}
      BY <2>3, PowersOfTwo
    <3>2. y % shifted[i] \in Int
      <4> DEFINE N == shifted[i]
      <4>1. N \in Nat \ {0}
        BY <3>1
      <4> HIDE DEF N
      <4>2. y % N \in Int
        BY <1>1, <4>1, ModIs
      <4>3. QED
        BY <4>2 DEF N
    <3>3. y % shifted[i + 1] = (y % shifted[i]) + BitOf(y, i) * shifted[i]
      BY <1>1, <2>3, NextPart
    <3>4. choice(i) = BitOf(y, i)
      BY <1>2, <2>3
    <3>5. QED
      BY <2>3, <3>2, <3>3, <3>4 DEF Low
  <2>9. Congruent(a, x * low, M)
    BY <2>4
  <2> HIDE DEF a, b, c, low
  <2> DEFINE xl == x * low
             xc == x * c
  <2>10. xl \in Int /\ xc \in Int /\ x * (low + c) = xl + xc
    BY <1>1, <2>7, <2>8
  <2>11. Congruent(a, xl, M) /\ Congruent(b, xc, M)
    BY <2>7, <2>9
  <2> HIDE DEF xl, xc
  <2>12. Congruent(a + b, xl + xc, M)
    BY <1>1, <2>6, <2>10, <2>11, CongruentKeeps
  <2>13. P(k)
    BY <2>6, <2>8, <2>10, <2>12
  <2>14. QED
    BY <2>1, <2>13 DEF T
<1>7. P(width)
  <2>1. width \in 0 .. width
    BY <1>1
  <2>2. QED
    BY <1>6, <2>1
<1> DEFINE tw == t[width]
           uw == u[width]
           yM == Low(y, width)
<1>8. tw \in Int /\ uw \in Int /\ Congruent(tw + uw, x * yM, M)
  BY <1>1, <1>3, <1>4, <1>7
<1>9. yM \in Int /\ Congruent(yM, y, M)
  BY <1>1, CongruentMod DEF Low, M
<1> HIDE DEF tw, uw, yM
<1>10. Congruent(x * yM, x * y, M)
  <2>1. Congruent(x, x, M)
    BY <1>1, CongruentMod
  <2>2. QED
    BY <1>1, <1>9, <2>1, CongruentKeeps
<1>11. /\ m[sender] = Ring(tw) /\ m[receiver] = Ring(uw)
       /\ Ring(tw) \in Int /\ Congruent(Ring(tw), tw, M)
       /\ Ring(uw) \in Int /\ Congruent(Ring(uw), uw, M)
  BY <1>1, <1>5, <1>8, RingIs DEF M, tw, uw
<1>12. Congruent(m[sender] + m[receiver], tw + uw, M)
  BY <1>1, <1>8, <1>11, CongruentKeeps
<1>13. Congruent(m[sender] + m[receiver], x * y, M)
  <2> DEFINE a == m[sender] + m[receiver]
             b == tw + uw
             c == x * yM
             d == x * y
  <2>1. a \in Int /\ b \in Int /\ c \in Int /\ d \in Int
    BY <1>1, <1>8, <1>9, <1>11
  <2>2. Congruent(a, b, M) /\ Congruent(b, c, M) /\ Congruent(c, d, M)
    BY <1>8, <1>10, <1>12
  <2> HIDE DEF a, b, c, d
  <2>3. Congruent(a, c, M)
    BY <1>1, <2>1, <2>2, CongruentChain
  <2>4. Congruent(a, d, M)
    BY <1>1, <2>1, <2>2, <2>3, CongruentChain
  <2>5. QED
    BY <2>4 DEF a, d
<1>14. \/ sender = 0 /\ receiver = 1
       \/ sender = 1 /\ receiver = 0
  BY <1>1 DEF Servers
<1>15. m[0] \in Int /\ m[1] \in Int /\ m[0] + m[1] = m[sender] + m[receiver]
  BY <1>11, <1>14
<1>16. SharesOf(m, x * y)
  BY <1>13, <1>15 DEF SharesOf, M
<1>17. QED
  BY <1>1, <1>16 DEF Mixed, x, y

\* What every step of a generator leaves.
Kept ==
    /\ UNCHANGED <<width, xis, yis, op, xs, ys>>

\* What is defined from it.
LEMMA KeptIs ==
    ASSUME Kept
    PROVE  /\ packed' = packed /\ messageBits' = messageBits /\ Factors' = Factors
           /\ X' = X /\ Y' = Y
           /\ \A d, m : Mixed(d, m)' = Mixed(d, m)
<1>1. packed' = packed
  BY DEF Kept, packed
<1>2. X' = X /\ Y' = Y
  BY DEF Kept, X, Y, Ring
<1>3. Factors' = Factors
  BY <1>1 DEF Kept, Factors
<1>4. messageBits' = messageBits
  BY <1>1 DEF Kept, messageBits, Bits
<1>5. ASSUME NEW d, NEW m PROVE Mixed(d, m)' = Mixed(d, m)
  BY <1>1 DEF Kept, Mixed, SharesOf, Bits
<1>6. QED
  BY <1>1, <1>2, <1>3, <1>4, <1>5

\* While a direction is transferred.
LEMMA DirectionKept ==
    ASSUME Kept, UNCHANGED <<sender, seeds>>
    PROVE  /\ Offered' = Offered
           /\ UNCHANGED <<offer, ss0>> => Sent' = Sent
<1>1. packed' = packed /\ messageBits' = messageBits
  BY KeptIs
<1>2. ASSUME NEW p PROVE choice(p)' = choice(p)
  BY <1>1 DEF choice, receiver, Kept
<1>3. Offered' = Offered
  BY <1>1, <1>2 DEF Offered, Kept, Bits
<1>4. ASSUME UNCHANGED <<offer, ss0>>, NEW p
      PROVE  /\ message(ss0[p], p)' = message(ss0[p], p)
             /\ message(corr(p), p)' = message(corr(p), p)
  <2>1. corr(p)' = corr(p)
    BY <1>1, <1>4 DEF corr, Kept, xor, Ring
  <2>2. ASSUME NEW v PROVE message(v, p)' = message(v, p)
    BY <1>1 DEF message, Kept, BitsOf, Ring
  <2>3. message(corr(p), p)' = message(corr(p), p)
    BY <1>1, <2>1 DEF message, Kept, BitsOf, Ring
  <2>4. QED
    BY <1>1, <1>4, <2>3 DEF message, Kept, BitsOf, Ring
<1>5. ASSUME UNCHANGED <<offer, ss0>> PROVE Sent' = Sent
  BY <1>1, <1>4, <1>5 DEF Sent, Kept, Bits
<1>6. QED
  BY <1>3, <1>5

\* Each step up to the last one.
LEMMA DirectionStep ==
    ASSUME GeneratorState, op \in Generators, Kept, UNCHANGED <<sender, mix>>,
           \/ Prepare \/ Offer \/ Mask
    PROVE  GeneratorState'
<1> DEFINE Frame == /\ op' \in Generators
                    /\ Factors' /\ sender' \in Servers
                    /\ DOMAIN mix' = Servers /\ \A d \in Servers : DOMAIN mix'[d] = Servers
<1>1. Frame
  BY KeptIs DEF GeneratorState, Kept
<1>2. stage # "ended" /\ (sender' = 1 => Mixed(0, mix[0])')
  <2>1. stage # "ended"
    BY DEF Prepare, Offer, Mask
  <2>2. Mixed(0, mix[0])' = Mixed(0, mix[0])
    BY KeptIs DEF Mixed, SharesOf, Kept, Bits
  <2>3. QED
    BY <2>1, <2>2 DEF GeneratorState
<1>3. packed' = packed
  BY KeptIs
<1> HIDE DEF Frame
<1>4. CASE Prepare
  <2>1. stage' = "offer" /\ seeds' \in [Row -> SeedRows]
    BY <1>4 DEF Prepare
  <2>2. SeedsFit(seeds')
    BY <2>1, PreparedSeedsFit
  <2>3. SeedsFit(seeds)'
    BY <2>2 DEF SeedsFit, Row
  <2>4. QED
    BY <1>1, <1>2, <2>1, <2>3 DEF GeneratorState, Frame
<1>5. CASE Offer
  <2>1. /\ stage = "offer" /\ stage' = "mask" /\ UNCHANGED <<sender, seeds>>
        /\ offer' = Offered
        /\ \E r \in IF packed THEN Masks ELSE Randoms :
              ss0' = [p \in Bits(width) |-> IF packed THEN r ELSE r + p]
    BY <1>5 DEF Offer, Offered
  <2>2. offer' = Offered'
    BY <2>1, DirectionKept
  <2>3. SeedsFit(seeds)'
    BY <2>1 DEF GeneratorState, SeedsFit, Row
  <2>4. Bits(width)' = Bits(width) /\ 0 \in Bits(width) /\ Bits(width) \subseteq Int
    BY DEF Kept, Bits, GeneratorState, Factors
  <2>5. IF packed THEN \A p \in Bits(width) : ss0'[p] = ss0'[0]
        ELSE \A p \in Bits(width) : ss0'[p] \in Int
    <3>1. CASE packed
      BY <2>1, <2>4, <3>1
    <3>2. CASE ~packed
      <4>1. PICK r \in Randoms : ss0' = [p \in Bits(width) |-> r + p]
        BY <2>1, <3>2
      <4>2. r \in Int
        BY CircuitsAssumption
      <4>3. QED
        BY <2>4, <3>2, <4>1, <4>2
    <3>3. QED
      BY <3>1, <3>2
  <2>6. (IF packed THEN \A p \in Bits(width) : ss0[p] = ss0[0]
         ELSE \A p \in Bits(width) : ss0[p] \in Int)'
    BY <1>3, <2>4, <2>5
  <2>7. QED
    BY <1>1, <1>2, <2>1, <2>2, <2>3, <2>6 DEF GeneratorState, Frame
<1>6. CASE Mask
  <2>1. /\ stage = "mask" /\ stage' = "unmask" /\ UNCHANGED <<sender, seeds, offer, ss0>>
        /\ ys01' = Sent
    BY <1>6 DEF Mask, Sent
  <2>2. offer' = Offered' /\ ys01' = Sent'
    BY <2>1, DirectionKept DEF GeneratorState
  <2>3. SeedsFit(seeds)'
    BY <2>1 DEF GeneratorState, SeedsFit, Row
  <2>4. Bits(width)' = Bits(width)
    BY DEF Kept, Bits
  <2>5. (IF packed THEN \A p \in Bits(width) : ss0[p] = ss0[0]
         ELSE \A p \in Bits(width) : ss0[p] \in Int)'
    BY <1>3, <2>1, <2>4 DEF GeneratorState
  <2>6. QED
    BY <1>1, <1>2, <2>1, <2>2, <2>3, <2>5 DEF GeneratorState, Frame
<1>7. QED
  BY <1>4, <1>5, <1>6

\* Both servers' shares of a direction's product.
LEMMA MixStep ==
    ASSUME GeneratorState, op \in Generators, Kept, Mix
    PROVE  GeneratorState'
<1> DEFINE result(p) == Unmasked(seeds, place(p, width, packed), ys01[p], choice(p), messageBits)
           rest == [p \in Bits(width) |->
                       (IF choice(p) = 0 THEN -1 ELSE 1) * value(result(p))]
           kept == IF packed THEN ss0[0] \intersect Bits(width) ELSE sum(ss0)
           got == IF packed THEN {p \in Bits(width) : result(p) = {0}} ELSE sum(rest)
<1>1. /\ stage = "unmask" /\ sender' = 1
      /\ stage' = IF sender = 0 THEN "seeds" ELSE "third"
      /\ mix' = [mix EXCEPT ![sender][sender] = kept, ![sender][receiver] = got]
  BY DEF Mix
<1>2. /\ Factors /\ sender \in Servers /\ SeedsFit(seeds) /\ offer = Offered /\ ys01 = Sent
      /\ DOMAIN mix = Servers /\ \A d \in Servers : DOMAIN mix[d] = Servers
      /\ IF packed THEN \A p \in Bits(width) : ss0[p] = ss0[0]
         ELSE \A p \in Bits(width) : ss0[p] \in Int
  BY <1>1 DEF GeneratorState
<1>3. receiver \in Servers /\ receiver # sender
  BY <1>2 DEF receiver, Servers
<1> HIDE DEF result, rest, kept, got
<1>4. /\ DOMAIN mix' = Servers /\ \A d \in Servers : DOMAIN mix'[d] = Servers
      /\ mix'[sender][sender] = kept /\ mix'[sender][receiver] = got
      /\ \A d \in Servers : d # sender => mix'[d] = mix[d]
  BY <1>1, <1>2, <1>3
<1>5. Mixed(sender, mix'[sender])
  <2>1. CASE packed
    BY <1>2, <1>4, <2>1, PackedProduct DEF kept, got, result
  <2>2. CASE ~packed
    <3>1. kept = sum(ss0) /\ got = sum(rest)
      BY <2>2 DEF kept, got
    <3>2. \A p \in Bits(width) : rest[p] = (IF choice(p) = 0 THEN -1 ELSE 1) * value(result(p))
      BY DEF rest
    <3>3. QED
      BY <1>2, <1>4, <2>2, <3>1, <3>2, NumberProduct DEF result
  <2>3. QED
    BY <2>1, <2>2
<1>6. \A d \in Servers : Mixed(d, mix[d])' = Mixed(d, mix'[d])
  BY KeptIs DEF Mixed, SharesOf, Kept, Bits
<1>7. op' \in Generators /\ Factors' /\ sender' \in Servers /\ sender' = 1 /\ 0 \in Servers /\ 1 \in Servers
  BY <1>1, KeptIs DEF GeneratorState, Kept, Servers
<1>8. CASE sender = 0
  <2>1. stage' = "seeds" /\ Mixed(0, mix[0])'
    BY <1>1, <1>5, <1>6, <1>7, <1>8
  <2>2. QED
    BY <1>4, <1>7, <2>1 DEF GeneratorState
<1>9. CASE sender = 1
  <2>1. stage' = "third" /\ Mixed(1, mix[1])'
    <3>1. stage' = "third"
      BY <1>1, <1>9
    <3>2. Mixed(1, mix'[1])
      BY <1>5, <1>9
    <3>3. Mixed(1, mix[1])'
      BY <1>6, <1>7, <3>2
    <3>4. QED
      BY <3>1, <3>3
  <2>2. Mixed(0, mix[0])
    BY <1>1, <1>9 DEF GeneratorState
  <2>3. Mixed(0, mix[0])'
    BY <1>4, <1>6, <1>7, <1>9, <2>2
  <2>4. QED
    BY <1>4, <1>7, <2>1, <2>3 DEF GeneratorState
<1>10. QED
  BY <1>2, <1>8, <1>9 DEF Servers

\* The words' product from the own ones and the mixed ones.
LEMMA PackedThird ==
    ASSUME Factors, packed, NEW m, Mixed(0, m[0]), Mixed(1, m[1]), NEW z,
           z[0] = xor(xis[0] \intersect yis[0], xor(m[0][0], m[1][0])),
           z[1] = xor(xis[1] \intersect yis[1], xor(m[0][1], m[1][1]))
    PROVE  Shared(z) = Shared(xis) \intersect Shared(yis)
<1>1. /\ xor(m[0][0], m[0][1]) = xis[0] \intersect yis[1]
      /\ xor(m[1][0], m[1][1]) = xis[1] \intersect yis[0]
  <2>1. 1 - 0 = 1 /\ 1 - 1 = 0
    OBVIOUS
  <2>2. QED
    BY <2>1 DEF Mixed
<1>2. Shared(z) = xor(xor(xis[0] \intersect yis[0], xis[1] \intersect yis[1]),
                      xor(xor(m[0][0], m[0][1]), xor(m[1][0], m[1][1])))
  BY DEF Shared, xor
<1>3. QED
  BY <1>1, <1>2 DEF Shared, xor

\* The numbers' product.
LEMMA NumberThird ==
    ASSUME Factors, ~packed, NEW m, Mixed(0, m[0]), Mixed(1, m[1]), NEW z,
           z[0] = Ring(xs[0] * ys[0] + m[0][0] + m[1][0]),
           z[1] = Ring(xs[1] * ys[1] + m[0][1] + m[1][1])
    PROVE  SharesOf(z, (xs[0] + xs[1]) * (ys[0] + ys[1]))
<1> DEFINE M == shifted[width]
           x0 == xs[0]
           x1 == xs[1]
           y0 == ys[0]
           y1 == ys[1]
           a == m[0][0] + m[0][1]
           b == m[1][0] + m[1][1]
           u == x0 * y0 + m[0][0] + m[1][0]
           v == x1 * y1 + m[0][1] + m[1][1]
<1>1. /\ x0 \in Int /\ x1 \in Int /\ y0 \in Int /\ y1 \in Int /\ width \in Nat /\ M \in Nat \ {0}
  BY PowersOfTwo DEF Factors, Servers
<1>2. /\ m[0][0] \in Int /\ m[0][1] \in Int /\ Congruent(a, x0 * y1, M)
      /\ m[1][0] \in Int /\ m[1][1] \in Int /\ Congruent(b, x1 * y0, M)
  <2>1. 1 - 0 = 1 /\ 1 - 1 = 0
    OBVIOUS
  <2>2. QED
    BY <2>1 DEF Mixed, SharesOf
<1>3. z[0] = Ring(u) /\ z[1] = Ring(v)
  OBVIOUS
<1> DEFINE p00 == x0 * y0
           p01 == x0 * y1
           p10 == x1 * y0
           p11 == x1 * y1
<1>4. p00 \in Int /\ p01 \in Int /\ p10 \in Int /\ p11 \in Int
  BY <1>1
<1>5. (x0 + x1) * (y0 + y1) = (p00 + p11) + (p01 + p10)
  BY <1>1
<1>6. u = p00 + m[0][0] + m[1][0] /\ v = p11 + m[0][1] + m[1][1]
  OBVIOUS
<1>7. Congruent(a, p01, M) /\ Congruent(b, p10, M) /\ a \in Int /\ b \in Int
  BY <1>2
<1> HIDE DEF M, u, v, p00, p01, p10, p11
<1>8. u \in Int /\ v \in Int /\ u + v = (p00 + p11) + (a + b)
  BY <1>2, <1>4, <1>6
<1>9. /\ z[0] \in Int /\ Congruent(z[0], u, M)
      /\ z[1] \in Int /\ Congruent(z[1], v, M)
  BY <1>1, <1>3, <1>8, RingIs DEF M
<1> HIDE DEF a, b
<1>10. Congruent(z[0] + z[1], u + v, M)
  BY <1>1, <1>8, <1>9, CongruentKeeps
<1>11. Congruent(a + b, p01 + p10, M)
  BY <1>1, <1>4, <1>7, CongruentKeeps
<1>12. Congruent((p00 + p11) + (a + b), (p00 + p11) + (p01 + p10), M)
  <2> DEFINE own0 == p00 + p11
             c == a + b
             d == p01 + p10
  <2>1. own0 \in Int /\ c \in Int /\ d \in Int /\ Congruent(c, d, M)
    BY <1>4, <1>7, <1>11
  <2> HIDE DEF own0, c, d
  <2>2. Congruent(own0, own0, M)
    BY <1>1, <2>1, CongruentMod
  <2>3. Congruent(own0 + c, own0 + d, M)
    BY <1>1, <2>1, <2>2, CongruentKeeps
  <2>4. QED
    BY <2>3 DEF own0, c, d
<1>13. Congruent(z[0] + z[1], (p00 + p11) + (p01 + p10), M)
  <2> DEFINE c == z[0] + z[1]
             d == u + v
             e == (p00 + p11) + (p01 + p10)
  <2>1. c \in Int /\ d \in Int /\ e \in Int /\ Congruent(c, d, M) /\ Congruent(d, e, M)
    BY <1>4, <1>8, <1>9, <1>10, <1>12
  <2> HIDE DEF c, d, e
  <2>2. Congruent(c, e, M)
    BY <1>1, <2>1, CongruentChain
  <2>3. QED
    BY <2>2 DEF c, e
<1>14. QED
  BY <1>5, <1>9, <1>13 DEF SharesOf, M

\* The triples.
LEMMA ThirdStep ==
    ASSUME GeneratorState, op \in Generators, Kept, Third
    PROVE  GeneratorState'
<1>1. /\ stage = "third" /\ stage' = "ended" /\ sender' = sender /\ mix' = mix
      /\ Factors /\ sender = 1 /\ sender \in Servers
      /\ DOMAIN mix = Servers /\ \A d \in Servers : DOMAIN mix[d] = Servers
      /\ Mixed(0, mix[0]) /\ Mixed(1, mix[1])
  BY DEF Third, GeneratorState, idle
<1>2. packed' = packed /\ Factors' /\ X' = X /\ Y' = Y /\ op' = op /\ width' = width
  BY <1>1, KeptIs DEF Kept
<1>3. op = "BitwiseBmtBatchGenerator" => packed
  BY DEF packed, WordGenerators
<1>4. op = "BmtBatchGenerator" => ~packed
  BY DEF packed, WordGenerators
<1>5. ASSUME op = "BitwiseBmtBatchGenerator"
      PROVE  (Shared(zw) = Shared(xis) \intersect Shared(yis))'
  <2>1. zw' = [s \in Servers |-> xor(xis[s] \intersect yis[s], xor(mix[0][s], mix[1][s]))]
    BY <1>3, <1>5 DEF Third
  <2>2. /\ zw'[0] = xor(xis[0] \intersect yis[0], xor(mix[0][0], mix[1][0]))
        /\ zw'[1] = xor(xis[1] \intersect yis[1], xor(mix[0][1], mix[1][1]))
    BY <2>1 DEF Servers
  <2>3. Shared(zw') = Shared(xis) \intersect Shared(yis)
    BY <1>1, <1>3, <1>5, <2>2, PackedThird
  <2>4. QED
    BY <2>3 DEF Shared, Kept
<1>6. ASSUME op = "BmtBatchGenerator"
      PROVE  (reconstructed = Ring(X * Y))'
  <2>1. acc' = [s \in Servers |-> Ring(xs[s] * ys[s] + mix[0][s] + mix[1][s])]
    BY <1>4, <1>6 DEF Third
  <2>2. /\ acc'[0] = Ring(xs[0] * ys[0] + mix[0][0] + mix[1][0])
        /\ acc'[1] = Ring(xs[1] * ys[1] + mix[0][1] + mix[1][1])
    BY <2>1 DEF Servers
  <2> DEFINE x == xs[0] + xs[1]
             y == ys[0] + ys[1]
  <2>3. SharesOf(acc', x * y)
    BY <1>1, <1>4, <1>6, <2>2, NumberThird
  <2>4. /\ width \in Nat /\ x \in Int /\ y \in Int
    BY <1>1, <1>4, <1>6 DEF Factors, Servers
  <2>5. Ring(x * y) = Ring(X * Y)
    <3>1. X = Ring(x) /\ Y = Ring(y)
      BY DEF X, Y
    <3> HIDE DEF x, y
    <3>2. /\ shifted[width] \in Nat \ {0} /\ X \in Int /\ Y \in Int
          /\ Congruent(X, x, shifted[width]) /\ Congruent(Y, y, shifted[width])
      BY <2>4, <3>1, RingIs
    <3>3. Congruent(X * Y, x * y, shifted[width])
      BY <2>4, <3>2, CongruentKeeps
    <3>4. X * Y \in Int /\ x * y \in Int
      BY <2>4, <3>2
    <3>5. QED
      BY <2>4, <3>3, <3>4, RingSame
  <2>6. Ring(acc'[0] + acc'[1]) = Ring(x * y)
    <3>1. /\ acc'[0] + acc'[1] \in Int /\ Congruent(acc'[0] + acc'[1], x * y, shifted[width])
          /\ x * y \in Int
      BY <2>3, <2>4 DEF SharesOf
    <3> HIDE DEF x, y
    <3>2. QED
      BY <2>4, <3>1, RingSame
  <2>7. reconstructed' = Ring(acc'[0] + acc'[1]) /\ Ring(X * Y)' = Ring(X * Y)
    BY <1>2 DEF reconstructed, Ring
  <2>8. QED
    BY <2>5, <2>6, <2>7
<1>7. GeneratorResult'
  BY <1>2, <1>5, <1>6 DEF GeneratorResult
<1>8. QED
  BY <1>1, <1>2, <1>7 DEF GeneratorState

\* Each step of a generator.
LEMMA GeneratorStep ==
    ASSUME GeneratorState, Generate
    PROVE  GeneratorState'
<1>1. Kept
  BY DEF Generate, Kept, vars
<1>2. CASE op \notin Generators
  BY <1>1, <1>2 DEF GeneratorState, Kept
<1>3. CASE op \in Generators
  <2>1. CASE Prepare \/ Offer \/ Mask
    <3>1. UNCHANGED <<sender, mix>>
      BY <2>1 DEF Prepare, Offer, Mask
    <3>2. QED
      BY <1>1, <1>3, <2>1, <3>1, DirectionStep
  <2>2. CASE Mix
    BY <1>1, <1>3, <2>2, MixStep
  <2>3. CASE Third
    BY <1>1, <1>3, <2>3, ThirdStep
  <2>4. QED
    BY <2>1, <2>2, <2>3 DEF Generate
<1>4. QED
  BY <1>2, <1>3

-----------------------------------------------------------------------------
(* All operators *)

\* What the operators on numbers and the generators keep.
Arithmetic == LinearState /\ RippleState /\ GeneratorState

\* No operator is of two kinds.
LEMMA KindsDiffer ==
    /\ LinearOps \intersect RippleOps = {} /\ LinearOps \intersect Generators = {}
    /\ RippleOps \intersect Generators = {}
    /\ CompareOps \intersect (LinearOps \union RippleOps \union Generators) = {}
    /\ BooleanOps \intersect (LinearOps \union RippleOps \union Generators) = {}
  BY DEF LinearOps, RippleOps, Generators, WordGenerators, NumberGenerators, CompareOps, BooleanOps

\* The constructors of what works on words.
LEMMA InitWords ==
    ASSUME CircuitsInit, Words
    PROVE  Arithmetic
<1>1. /\ op \in BooleanOps \union WordGenerators /\ width \in Widths
      /\ op \in WordGenerators => stage = "seeds"
      /\ sender = 0 /\ mix = [d \in Servers |-> Bit(IF packed THEN {} ELSE 0)]
  BY DEF CircuitsInit, Words, Init, BooleanOps, WordGenerators
<1>2. op \notin LinearOps /\ op \notin RippleOps
  BY <1>1 DEF BooleanOps, LinearOps, RippleOps, WordGenerators
<1>3. ASSUME op \in Generators PROVE GeneratorState
  <2>1. op \in WordGenerators /\ packed /\ stage = "seeds"
    BY <1>1, <1>3, KindsDiffer DEF packed
  <2>2. PICK x, y \in SUBSET Bits(width) : xis \in Sharings(y, width) /\ yis \in Sharings(x, width)
    BY DEF Words, Init
  <2>3. \A s \in Servers : xis[s] \in SUBSET Bits(width) /\ yis[s] \in SUBSET Bits(width)
    BY <2>2, SharingIs
  <2>4. width \in Nat \ {0}
    BY <1>1, WidthCases DEF Sizes
  <2>5. DOMAIN mix = Servers /\ \A d \in Servers : DOMAIN mix[d] = Servers
    BY <1>1 DEF Bit
  <2>6. Factors
    BY <2>1, <2>3, <2>4 DEF Factors
  <2>7. QED
    BY <1>1, <2>1, <2>5, <2>6 DEF GeneratorState, Servers
<1>4. GeneratorState
  BY <1>3 DEF GeneratorState
<1>5. QED
  BY <1>2, <1>4 DEF Arithmetic, LinearState, RippleState

\* The constructors of what works on numbers.
LEMMA InitShares ==
    ASSUME CircuitsInit, Shares
    PROVE  Arithmetic
<1>1. /\ op \in LinearOps \union RippleOps \union NumberGenerators /\ width \in Widths
      /\ sender \in Servers /\ (stage # "convert" => sender = 0)
      /\ mix = [d \in Servers |-> Bit(IF packed THEN {} ELSE 0)]
      /\ first = NoBit /\ bitPos = 0
      /\ stage = CASE op = "ArithAdd" -> "add"
                 [] op = "ArithMultiply" -> "multiply"
                 [] op = "BoolToArith" \/ (op = "ArithMutex" /\ width > 1) -> "convert"
                 [] op = "ArithMutex" /\ width = 1 -> "choose"
                 [] op \in NumberGenerators -> "seeds"
                 [] OTHER -> "split"
      /\ acc = IF stage = "choose" THEN cond ELSE Bit(0)
  BY DEF CircuitsInit, Shares, Servers
<1>2. width \in Sizes /\ width \in Nat \ {0}
  BY <1>1, WidthCases DEF Sizes
<1>3. PICK x, y \in 0 .. shifted[width] - 1 : xs \in ArithSharings(x) /\ ys \in ArithSharings(y)
  BY DEF Shares
<1>4. xs[0] \in Int /\ xs[1] \in Int /\ ys[0] \in Int /\ ys[1] \in Int
  <2>1. x \in Int /\ y \in Int /\ width \in Nat
    BY <1>2, PowersOfTwo
  <2>2. SharesOf(xs, x) /\ SharesOf(ys, y)
    BY <1>3, <2>1, ArithSharingIs
  <2>3. QED
    BY <2>2 DEF SharesOf
<1>5. cond[0] \in {0, 1} /\ cond[1] \in {0, 1}
  <2>1. CASE cond = Bit(0)
    BY <2>1 DEF Bit, Servers
  <2>2. CASE cond \in BitSharings(0) \union BitSharings(1)
    BY <2>2, BitSharingIs
  <2>3. QED
    BY <2>1, <2>2 DEF Shares
<1>6. Operands
  BY <1>2, <1>4, <1>5 DEF Operands, Servers
<1>7. CASE op \in LinearOps
  <2>1. op \notin RippleOps /\ op \notin Generators
    BY <1>7, KindsDiffer
  <2>2. /\ stage \in {"add", "multiply", "convert", "choose"}
        /\ stage = "add" => op = "ArithAdd"
        /\ stage = "multiply" => op = "ArithMultiply"
        /\ stage = "convert" => op \in {"BoolToArith", "ArithMutex"}
        /\ stage = "choose" => op = "ArithMutex" /\ width = 1
    <3>1. (width > 1 /\ width # 1) \/ (width = 1 /\ ~(width > 1))
      BY <1>2
    <3>2. op = "ArithAdd" => stage = "add"
      BY <1>1, <2>1 DEF NumberGenerators
    <3>3. op = "ArithMultiply" => stage = "multiply"
      BY <1>1, <2>1 DEF NumberGenerators
    <3>4. op = "BoolToArith" => stage = "convert"
      BY <1>1, <2>1 DEF NumberGenerators
    <3>5. op = "ArithMutex" => stage = IF width > 1 THEN "convert" ELSE "choose"
      BY <1>1, <2>1, <3>1 DEF NumberGenerators
    <3>6. op \in {"ArithAdd", "BoolToArith", "ArithMultiply", "ArithMutex"}
      BY <1>7 DEF LinearOps
    <3>7. QED
      BY <3>1, <3>2, <3>3, <3>4, <3>5, <3>6
  <2>3. stage = "convert" => SharesOf(acc, value(ConvertedWord \intersect Bits(bitPos))) /\ bitPos \in 0 .. width
    <3>1. SUFFICES ASSUME stage = "convert" PROVE SharesOf(acc, value(ConvertedWord \intersect Bits(bitPos)))
      BY <1>1, <1>2
    <3>2. acc = [s \in Servers |-> 0]
      BY <1>1, <3>1 DEF Bit
    <3>3. value(ConvertedWord \intersect Bits(bitPos)) = 0
      BY <1>1, <1>2, ValueOfPart
    <3>4. acc[0] = 0 /\ acc[1] = 0 /\ 0 + 0 = 0
      BY <3>2 DEF Servers
    <3>5. Congruent(0, 0, shifted[width])
      <4>1. shifted[width] \in Nat \ {0} /\ 0 \in Int
        BY <1>2, PowersOfTwo
      <4>2. QED
        BY <4>1, CongruentMod
    <3>6. QED
      BY <3>3, <3>4, <3>5 DEF SharesOf
  <2>4. stage = "choose" => SharesOf(acc, SharedBit(cond))
    <3>1. SUFFICES ASSUME stage = "choose" PROVE SharesOf(acc, SharedBit(cond))
      OBVIOUS
    <3>2. acc = cond /\ width = 1
      BY <1>1, <2>2, <3>1
    <3>3. shifted[1] = 2
      <4>1. 0 \in Nat /\ 0 + 1 = 1 /\ 2 * 1 = 2
        OBVIOUS
      <4>2. QED
        BY <4>1, PowersOfTwo
    <3> DEFINE c == cond[0] + cond[1]
    <3>4. c \in Int /\ Congruent(c, c % 2, 2)
      BY <1>5, CongruentMod
    <3>5. QED
      BY <1>5, <3>2, <3>3, <3>4 DEF SharesOf, SharedBit
  <2>5. LinearState
    BY <1>1, <1>6, <2>2, <2>3, <2>4 DEF LinearState
  <2>6. QED
    BY <2>1, <2>5 DEF Arithmetic, RippleState, GeneratorState
<1>8. CASE op \in RippleOps
  <2>1. op \notin LinearOps /\ op \notin Generators
    BY <1>8, KindsDiffer
  <2>2. stage = "split"
    BY <1>1, <1>8, <2>1 DEF RippleOps, NumberGenerators
  <2>3. RippleState
    BY <1>1, <1>6, <2>2 DEF RippleState
  <2>4. QED
    BY <2>1, <2>3 DEF Arithmetic, LinearState, GeneratorState
<1>9. CASE op \in NumberGenerators
  <2>1. op \notin LinearOps /\ op \notin RippleOps /\ ~packed
    BY <1>9, KindsDiffer DEF Generators, packed, NumberGenerators, WordGenerators
  <2>2. stage = "seeds"
    BY <1>1, <1>9, <2>1 DEF NumberGenerators
  <2>3. DOMAIN mix = Servers /\ \A d \in Servers : DOMAIN mix[d] = Servers
    BY <1>1 DEF Bit
  <2>4. Factors
    BY <1>2, <1>4, <2>1 DEF Factors, Servers
  <2>5. sender = 0
    BY <1>1, <2>2
  <2>6. GeneratorState
    BY <1>1, <2>2, <2>3, <2>4, <2>5 DEF GeneratorState
  <2>7. QED
    BY <2>1, <2>6 DEF Arithmetic, LinearState, RippleState
<1>10. QED
  BY <1>1, <1>7, <1>8, <1>9

\* What the operators' variables say is kept with them.
LEMMA ArithmeticSame ==
    ASSUME Arithmetic, UNCHANGED <<vars, mine>>
    PROVE  Arithmetic'
<1>1. /\ UNCHANGED <<width, xis, yis, lbs, diag, round, allBmts, zis>>
      /\ UNCHANGED <<op, stage, spare, first, cond, xs, ys, own, given, carry, bitPos, sender,
                     acc, zw, zwBack, zb>>
      /\ UNCHANGED <<seeds, offer, ss0, ys01, mix>>
  BY DEF vars, mine, idle
<1>2. X' = X /\ Y' = Y /\ Operands' = Operands /\ reconstructed' = reconstructed
  BY <1>1 DEF X, Y, Ring, Operands, reconstructed
<1>3. /\ \A v : Ring(v)' = Ring(v)
      /\ \A f, v : SharesOf(f, v)' = SharesOf(f, v)
      /\ \A v : BitsOf(v)' = BitsOf(v)
      /\ \A word : value(word)' = value(word)
  BY <1>1 DEF Ring, SharesOf, BitsOf, Bits, value
<1>4. LinearState'
  <2>1. ConvertedWord' = ConvertedWord /\ SharedBit(cond)' = SharedBit(cond)
    BY <1>1 DEF ConvertedWord, BitsOf, Bits, xor, SharedBit
  <2>2. SharesOf(acc, value(ConvertedWord \intersect Bits(bitPos)))'
            = SharesOf(acc, value(ConvertedWord \intersect Bits(bitPos)))
    BY <1>1, <2>1 DEF SharesOf, value, Bits
  <2>3. SharesOf(acc, SharedBit(cond))' = SharesOf(acc, SharedBit(cond))
    BY <1>1, <2>1 DEF SharesOf
  <2>4. LinearResult' = LinearResult
    <3>1. value(xor(BitsOf(xs[0]), BitsOf(xs[1])))' = value(xor(BitsOf(xs[0]), BitsOf(xs[1])))
      BY <1>1 DEF value, xor, BitsOf, Bits
    <3>2. Ring(X + Y)' = Ring(X + Y) /\ Ring(X * Y)' = Ring(X * Y)
      BY <1>1, <1>2 DEF Ring
    <3>3. QED
      BY <1>1, <1>2, <2>1, <3>1, <3>2 DEF LinearResult
  <2>5. QED
    BY <1>1, <1>2, <2>2, <2>3, <2>4 DEF Arithmetic, LinearState
<1>5. RippleState'
  <2>1. /\ SharedBit(first)' = SharedBit(first) /\ IsBit(first)' = IsBit(first)
        /\ HighBit(Ring((xs[0] + xs[1]) - (ys[0] + ys[1])))'
            = HighBit(Ring((xs[0] + xs[1]) - (ys[0] + ys[1])))
    BY <1>1 DEF SharedBit, IsBit, HighBit, Ring
  <2>2. Rippling' = Rippling
    <3>1. /\ \A s : delta(s)' = delta(s)
          /\ Total' = Total
      BY <1>1 DEF delta, Total
    <3>2. /\ \A s : BitsOf(Ring(delta(s)))' = BitsOf(Ring(delta(s)))
          /\ Ring(delta(0))' = Ring(delta(0)) /\ Ring(delta(1))' = Ring(delta(1))
          /\ Ring(Total)' = Ring(Total)
      BY <1>1, <3>1 DEF BitsOf, Ring, Bits
    <3>3. value(Shared(zw))' = value(Shared(zw)) /\ SharedBit(carry)' = SharedBit(carry)
      BY <1>1 DEF value, Shared, xor, SharedBit
    <3>4. QED
      BY <1>1, <3>2, <3>3 DEF Rippling, xor, Bits
  <2>3. RippleResult' = RippleResult
    <3>1. /\ value(Shared(zw))' = value(Shared(zw)) /\ SharedBit(zb)' = SharedBit(zb)
          /\ Signed(X)' = Signed(X) /\ Signed(Y)' = Signed(Y)
      BY <1>1, <1>2 DEF value, Shared, xor, SharedBit, Signed
    <3>2. QED
      BY <1>1, <1>2, <3>1 DEF RippleResult
  <2>4. QED
    BY <1>1, <1>2, <2>1, <2>2, <2>3 DEF Arithmetic, RippleState
<1>6. GeneratorState'
  <2>1. Kept
    BY <1>1 DEF Kept
  <2>2. packed' = packed /\ Factors' = Factors /\ Bits(width)' = Bits(width)
    BY <1>1, <2>1, KeptIs DEF Bits
  <2>3. Offered' = Offered /\ Sent' = Sent
    BY <1>1, <2>1, DirectionKept
  <2>4. SeedsFit(seeds)' = SeedsFit(seeds)
    BY <1>1 DEF SeedsFit, Row
  <2>5. Mixed(0, mix[0])' = Mixed(0, mix[0]) /\ Mixed(1, mix[1])' = Mixed(1, mix[1])
    BY <1>1, <2>2 DEF Mixed, SharesOf
  <2>6. GeneratorResult' = GeneratorResult
    <3>1. /\ Shared(zw)' = Shared(zw) /\ Shared(xis)' = Shared(xis) /\ Shared(yis)' = Shared(yis)
          /\ Ring(X * Y)' = Ring(X * Y)
      BY <1>1, <1>2 DEF Shared, xor, Ring
    <3>2. QED
      BY <1>1, <1>2, <3>1 DEF GeneratorResult
  <2>7. QED
    BY <1>1, <2>2, <2>3, <2>4, <2>5, <2>6 DEF Arithmetic, GeneratorState
<1>7. QED
  BY <1>4, <1>5, <1>6 DEF Arithmetic

\* Every step keeps it: no step is another kind's.
LEMMA NextKeepsArithmetic ==
    ASSUME IInv, Arithmetic, [CircuitsNext]_<<vars, mine>>
    PROVE  Arithmetic'
<1>1. width \in Nat \ {0}
  BY DEF IInv, Sizes
<1>2. ASSUME op' = op, op \notin LinearOps, op \notin RippleOps, op \notin Generators
      PROVE  Arithmetic'
  BY <1>2 DEF Arithmetic, LinearState, RippleState, GeneratorState
<1>3. CASE Less \/ Compared
  <2>1. stage = "less" /\ op' = op
    BY <1>3 DEF Less, Compared, mine
  <2>2. op \in CompareOps
    BY <2>1 DEF IInv
  <2>3. QED
    BY <1>2, <2>1, <2>2, KindsDiffer
<1>4. CASE Select
  <2>1. stage = "select" /\ op' = op
    BY <1>4 DEF Select
  <2>2. QED
    BY <1>2, <2>1 DEF Arithmetic, LinearState, RippleState, GeneratorState
<1>5. CASE Linear
  <2>1. op' = op /\ stage \in {"add", "multiply", "convert", "choose"}
    BY <1>5 DEF Linear, Add, Multiply, TransferBit, Converted, Choose
  <2>2. op \notin RippleOps /\ op \notin Generators
    BY <2>1 DEF Arithmetic, RippleState, GeneratorState
  <2>3. LinearState'
    BY <1>1, <1>5, LinearStep DEF Arithmetic
  <2>4. QED
    BY <2>1, <2>2, <2>3 DEF Arithmetic, RippleState, GeneratorState
<1>6. CASE Ripple
  <2>1. op' = op /\ stage \in {"split", "ripple"}
    BY <1>6 DEF Ripple, Split, AddBit, Rippled
  <2>2. op \notin LinearOps /\ op \notin Generators
    BY <2>1 DEF Arithmetic, LinearState, GeneratorState
  <2>3. RippleState'
    BY <1>1, <1>6, RippleStep DEF Arithmetic
  <2>4. QED
    BY <2>1, <2>2, <2>3 DEF Arithmetic, LinearState, GeneratorState
<1>7. CASE Generate
  <2>1. op' = op /\ stage \in {"seeds", "offer", "mask", "unmask", "third"}
    BY <1>7 DEF Generate, Prepare, Offer, Mask, Mix, Third
  <2>2. op \notin LinearOps /\ op \notin RippleOps
    BY <2>1 DEF Arithmetic, LinearState, RippleState
  <2>3. GeneratorState'
    BY <1>7, GeneratorStep DEF Arithmetic
  <2>4. QED
    BY <2>1, <2>2, <2>3 DEF Arithmetic, LinearState, RippleState
<1>8. CASE UNCHANGED <<vars, mine>>
  BY <1>8, ArithmeticSame
<1>9. QED
  BY <1>3, <1>4, <1>5, <1>6, <1>7, <1>8 DEF CircuitsNext

\* Whatever the random numbers, the seeds, the keys and the functions of the cryptography,
\* at every width: what an operator or a generator leaves is a sharing of its function of
\* the operands.
THEOREM ResultIsSharedHolds == CircuitsSpec => []ResultIsShared
<1>1. CircuitsInit => Arithmetic
  BY InitWords, InitShares DEF CircuitsInit
<1>2. IInv /\ Arithmetic /\ [CircuitsNext]_<<vars, mine>> => Arithmetic'
  BY NextKeepsArithmetic
<1>3. CircuitsSpec => []Arithmetic
  BY <1>1, <1>2, Invariance, PTL DEF CircuitsSpec
<1>4. WordsAreShared /\ Arithmetic => ResultIsShared
  <2> SUFFICES ASSUME WordsAreShared, Arithmetic PROVE ResultIsShared
    OBVIOUS
  <2>1. ASSUME stage = "ended", op \in LinearOps PROVE LinearResult
    BY <2>1 DEF Arithmetic, LinearState
  <2>2. ASSUME stage = "ended", op \in RippleOps PROVE RippleResult
    BY <2>2 DEF Arithmetic, RippleState
  <2>3. ASSUME stage = "ended", op \in Generators PROVE GeneratorResult
    BY <2>3 DEF Arithmetic, GeneratorState
  <2>4. /\ {"ArithAdd", "ArithMultiply", "BoolToArith", "ArithMutex"} \subseteq LinearOps
        /\ {"ArithToBool", "ArithLess", "ArithEqual"} \subseteq RippleOps
        /\ {"BmtBatchGenerator", "BitwiseBmtBatchGenerator"} \subseteq Generators
    BY DEF LinearOps, RippleOps, Generators, WordGenerators, NumberGenerators
  <2>5. ASSUME stage = "ended"
        PROVE  /\ op = "ArithAdd" => reconstructed = Ring(X + Y)
               /\ op \in {"ArithMultiply", "BmtBatchGenerator"} => reconstructed = Ring(X * Y)
               /\ op = "BitwiseBmtBatchGenerator" =>
                        Shared(zw) = Shared(xis) \intersect Shared(yis)
               /\ op = "BoolToArith" => reconstructed = value(xor(BitsOf(xs[0]), BitsOf(xs[1])))
               /\ op = "ArithMutex" => reconstructed = IF SharedBit(cond) = 1 THEN X ELSE Y
    BY <2>1, <2>3, <2>4, <2>5 DEF LinearResult, GeneratorResult
  <2>6. ASSUME stage = "ended"
        PROVE  op \in {"ArithToBool", "ArithLess", "ArithEqual"} => RippleResult
    BY <2>2, <2>4, <2>6
  <2>7. QED
    BY <2>5, <2>6 DEF ResultIsShared, RippleResult
<1>5. QED
  BY <1>3, <1>4, WordsAreSharedHolds, PTL

=============================================================================
