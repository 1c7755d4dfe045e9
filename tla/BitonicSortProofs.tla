-------------------------- MODULE BitonicSortProofs --------------------------
(***************************************************************************)
(* What Secrets::sort() gives back, for every number of secrets, every      *)
(* batch size and every pool: the network sorts, and the two servers, of    *)
(* which one may be a stage ahead, never mix their triples or operands.     *)
(*                                                                          *)
(* The library has no induction that the provers here can instantiate: each *)
(* induction is on the least number for which a claim fails.                *)
(***************************************************************************)
EXTENDS BitonicSort, FiniteSetTheorems, SequenceTheorems, TLAPS

-----------------------------------------------------------------------------
(* Powers of two *)

\* A set of numbers has a least one: what every induction here rests on.
LEMMA Least ==
    ASSUME NEW T, T \subseteq Nat, T # {}
    PROVE  \E x \in T : \A y \in T : x =< y
<1>1. PICK n \in T : TRUE
  OBVIOUS
<1> DEFINE S == 0 .. n
           Segments == {0 .. k : k \in T \cap S}
<1>2. IsWellFoundedOn(StrictSubsetOrdering(S), FiniteSubsetsOf(S))
  BY FS_StrictSubsetOrderingWellFounded
<1>3. Segments \subseteq FiniteSubsetsOf(S) /\ Segments # {}
  <2>1. ASSUME NEW k \in T \cap S PROVE 0 .. k \in FiniteSubsetsOf(S)
    <3>1. IsFiniteSet(0 .. k)
      BY FS_Interval
    <3>2. QED
      BY <3>1 DEF FiniteSubsetsOf
  <2>2. 0 .. n \in Segments
    BY <1>1
  <2>3. QED
    BY <2>1, <2>2
<1>4. \E U \in Segments : \A V \in Segments : ~ (<<V, U>> \in StrictSubsetOrdering(S))
  <2> HIDE DEF Segments, S
  <2>1. QED
    BY <1>2, <1>3, WFMin
<1>5. PICK x \in T \cap S : \A y \in T \cap S : ~ (<<0 .. y, 0 .. x>> \in StrictSubsetOrdering(S))
  BY <1>4
<1>6. ASSUME NEW y \in T, y < x PROVE FALSE
  <2>1. y \in S /\ 0 .. y \subseteq 0 .. x /\ x \in 0 .. x /\ x \notin 0 .. y
    BY <1>6
  <2>2. 0 .. y \subseteq S /\ 0 .. x \subseteq S
    BY <2>1
  <2>3. <<0 .. y, 0 .. x>> \in StrictSubsetOrdering(S)
    BY <2>1, <2>2 DEF StrictSubsetOrdering
  <2>4. QED
    BY <2>1, <2>3, <1>5
<1>7. QED
  BY <1>6

\* f gives the powers of two up to that of n.
Doubles(f, n) == f = [e \in 0 .. n |-> IF e = 0 THEN 1 ELSE 2 * f[e - 1]]

\* There is such a function.
LEMMA DoublesExist ==
    ASSUME NEW n \in Nat
    PROVE  \E f : Doubles(f, n)
<1> DEFINE T == {k \in Nat : ~ \E f : Doubles(f, k)}
<1>1. SUFFICES ASSUME T # {} PROVE FALSE
  OBVIOUS
<1>2. PICK k \in T : \A y \in T : k =< y
  BY <1>1, Least
<1>3. k # 0
  <2>1. Doubles([j \in 0 .. 0 |-> 1], 0)
    BY DEF Doubles
  <2>2. QED
    BY <2>1
<1>4. k \in Nat /\ k - 1 \in Nat /\ k - 1 \notin T
  BY <1>2, <1>3
<1>5. PICK g : Doubles(g, k - 1)
  BY <1>4
<1> DEFINE f == [j \in 0 .. k |-> IF j = k THEN 2 * g[k - 1] ELSE g[j]]
<1>6. ASSUME NEW j \in 0 .. k
      PROVE  f[j] = IF j = 0 THEN 1 ELSE 2 * f[j - 1]
  <2>1. CASE j = k
    <3>1. k - 1 \in 0 .. k /\ k - 1 # k
      BY <1>4
    <3>2. f[k - 1] = g[k - 1]
      BY <3>1
    <3>3. QED
      BY <2>1, <3>2, <1>3
  <2>2. CASE j # k
    <3>1. j \in 0 .. k - 1
      BY <2>2, <1>4
    <3>2. g[j] = IF j = 0 THEN 1 ELSE 2 * g[j - 1]
      BY <1>5, <3>1 DEF Doubles
    <3>3. j # 0 => j - 1 \in 0 .. k /\ j - 1 # k
      BY <3>1, <1>4
    <3>4. QED
      BY <2>2, <3>2, <3>3
  <2>3. QED
    BY <2>1, <2>2
<1>7. f = [j \in 0 .. k |-> IF j = 0 THEN 1 ELSE 2 * f[j - 1]]
  <2>1. f = [j \in 0 .. k |-> f[j]]
    OBVIOUS
  <2> HIDE DEF f
  <2>2. QED
    BY <1>6, <2>1
<1>8. Doubles(f, k)
  <2> HIDE DEF f
  <2>1. QED
    BY <1>7 DEF Doubles
<1>9. QED
  BY <1>2, <1>8

\* Such functions agree.
LEMMA DoublesAgree ==
    ASSUME NEW n \in Nat, NEW m \in Nat, NEW f, NEW g, Doubles(f, n), Doubles(g, m),
           NEW k \in 0 .. n, k =< m
    PROVE  f[k] = g[k]
<1> DEFINE T == {j \in Nat : j =< n /\ j =< m /\ f[j] # g[j]}
<1>1. SUFFICES ASSUME T # {} PROVE FALSE
  OBVIOUS
<1>2. PICK j \in T : \A y \in T : j =< y
  BY <1>1, Least
<1>3. j # 0
  BY <1>2 DEF Doubles
<1>4. j - 1 \in Nat /\ j - 1 \notin T /\ j \in 0 .. n /\ j \in 0 .. m
  BY <1>2, <1>3
<1>5. f[j - 1] = g[j - 1]
  BY <1>4
<1>6. f[j] = 2 * f[j - 1] /\ g[j] = 2 * g[j - 1]
  BY <1>3, <1>4 DEF Doubles
<1>7. QED
  BY <1>2, <1>5, <1>6

\* The recursion of shifted has a solution.
LEMMA ShiftedIs == shifted = [e \in Nat |-> IF e = 0 THEN 1 ELSE 2 * shifted[e - 1]]
<1> DEFINE up(n) == CHOOSE f : Doubles(f, n)
           g == [e \in Nat |-> up(e)[e]]
<1>1. ASSUME NEW n \in Nat PROVE Doubles(up(n), n)
  BY DoublesExist
<1>2. ASSUME NEW e \in Nat PROVE g[e] = IF e = 0 THEN 1 ELSE 2 * g[e - 1]
  <2>1. g[e] = up(e)[e]
    OBVIOUS
  <2> HIDE DEF up
  <2>2. up(e)[e] = IF e = 0 THEN 1 ELSE 2 * up(e)[e - 1]
    BY <1>1 DEF Doubles
  <2>3. CASE e = 0
    BY <2>1, <2>2, <2>3
  <2>4. CASE e # 0
    <3>1. e - 1 \in Nat /\ e - 1 \in 0 .. e - 1 /\ e - 1 =< e
      BY <2>4
    <3>2. up(e - 1)[e - 1] = up(e)[e - 1]
      BY <1>1, <3>1, DoublesAgree
    <3>3. g[e - 1] = up(e - 1)[e - 1]
      BY <3>1
    <3>4. QED
      BY <2>1, <2>2, <2>4, <3>2, <3>3
  <2>5. QED
    BY <2>3, <2>4
<1>3. g = [e \in Nat |-> IF e = 0 THEN 1 ELSE 2 * g[e - 1]]
  <2>1. g = [e \in Nat |-> g[e]]
    OBVIOUS
  <2> HIDE DEF g
  <2>2. QED
    BY <1>2, <2>1
<1> HIDE DEF g
<1>4. QED
  BY <1>3, Zenon DEF shifted

\* Twice as much at every step.
LEMMA Powers ==
    /\ shifted[0] = 1
    /\ \A e \in Nat : shifted[e] \in Nat \ {0} /\ shifted[e + 1] = 2 * shifted[e]
<1>1. shifted[0] = 1
  BY ShiftedIs
<1>2. ASSUME NEW e \in Nat PROVE shifted[e + 1] = 2 * shifted[e]
  <2>1. e + 1 \in Nat /\ e + 1 # 0 /\ e + 1 - 1 = e
    OBVIOUS
  <2>2. QED
    BY <2>1, ShiftedIs
<1> DEFINE T == {e \in Nat : shifted[e] \notin Nat \ {0}}
<1>3. ASSUME T # {} PROVE FALSE
  <2>1. PICK e \in T : \A y \in T : e =< y
    BY <1>3, Least
  <2>2. e # 0
    BY <1>1, <2>1
  <2>3. e - 1 \in Nat /\ e - 1 \notin T /\ e - 1 + 1 = e
    BY <2>1, <2>2
  <2>4. shifted[e - 1] \in Nat \ {0} /\ shifted[e] = 2 * shifted[e - 1]
    BY <1>2, <2>3
  <2>5. QED
    BY <2>1, <2>4
<1>4. QED
  BY <1>1, <1>2, <1>3

\* Larger exponents have larger powers.
LEMMA PowersGrow ==
    ASSUME NEW a \in Nat, NEW b \in Nat, a < b
    PROVE  2 * shifted[a] <= shifted[b]
<1> DEFINE T == {d \in Nat : a < d /\ ~(2 * shifted[a] <= shifted[d])}
<1>1. SUFFICES ASSUME T # {} PROVE FALSE
  OBVIOUS
<1>2. PICK d \in T : \A y \in T : d =< y
  BY <1>1, Least
<1>3. d - 1 \in Nat /\ d - 1 \notin T /\ d - 1 + 1 = d
  BY <1>2
<1>4. shifted[d] = 2 * shifted[d - 1] /\ shifted[d - 1] \in Nat /\ shifted[a] \in Nat
  BY <1>2, <1>3, Powers
<1>5. CASE a = d - 1
  BY <1>2, <1>4, <1>5
<1>6. CASE a # d - 1
  BY <1>2, <1>3, <1>4, <1>6
<1>7. QED
  BY <1>5, <1>6

\* So the exponent is known from the power.
LEMMA PowersDiffer ==
    ASSUME NEW a \in Nat, NEW b \in Nat
    PROVE  /\ shifted[a] = shifted[b] => a = b
           /\ shifted[a] <= shifted[b] <=> a <= b
           /\ shifted[a] < shifted[b] <=> a < b
<1>1. shifted[a] \in Nat \ {0} /\ shifted[b] \in Nat \ {0}
  BY Powers
<1>2. a < b => 2 * shifted[a] <= shifted[b]
  BY PowersGrow
<1>3. b < a => 2 * shifted[b] <= shifted[a]
  BY PowersGrow
<1>4. QED
  BY <1>1, <1>2, <1>3

\* There is always a power that is large enough.
LEMMA PowersReach ==
    ASSUME NEW n \in Nat
    PROVE  n < shifted[n]
<1> DEFINE T == {d \in Nat : ~(d < shifted[d])}
<1>1. SUFFICES ASSUME T # {} PROVE FALSE
  OBVIOUS
<1>2. PICK d \in T : \A y \in T : d =< y
  BY <1>1, Least
<1>3. d # 0
  BY <1>2, Powers
<1>4. d - 1 \in Nat /\ d - 1 \notin T /\ d - 1 + 1 = d
  BY <1>2, <1>3
<1>5. shifted[d] = 2 * shifted[d - 1] /\ shifted[d - 1] \in Nat
  BY <1>4, Powers
<1>6. QED
  BY <1>2, <1>4, <1>5

\* The padded array has a power of two of places, and more secrets than paddings.
LEMMA NextPowerIs ==
    ASSUME NEW n \in Nat \ {0}
    PROVE  /\ \E e \in Nat : NextPow2(n) = shifted[e]
           /\ NextPow2(n) \in Nat /\ n <= NextPow2(n) /\ NextPow2(n) < 2 * n
<1> DEFINE S == {p \in {shifted[e] : e \in 0 .. n} : p >= n}
<1>1. S \subseteq Nat
  BY Powers
<1>2. shifted[n] \in S
  BY PowersReach, Powers
<1>3. \E x \in S : \A y \in S : x =< y
  <2> HIDE DEF S
  <2>1. QED
    BY <1>1, <1>2, Least
<1>4. NextPow2(n) \in S /\ \A y \in S : NextPow2(n) =< y
  <2>1. NextPow2(n) = CHOOSE x \in S : \A y \in S : x =< y
    BY Zenon DEF NextPow2, Min
  <2> HIDE DEF S
  <2>2. QED
    BY <1>3, <2>1
<1>5. PICK e \in 0 .. n : NextPow2(n) = shifted[e]
  BY <1>4
<1>6. n <= shifted[e] /\ shifted[e] \in Nat
  BY <1>4, <1>5, Powers
<1>7. shifted[e] < 2 * n
  <2>1. CASE e = 0
    BY <2>1, Powers
  <2>2. CASE e # 0
    <3>1. e - 1 \in 0 .. n /\ e - 1 \in Nat /\ e - 1 + 1 = e
      BY <2>2
    <3>2. shifted[e] = 2 * shifted[e - 1] /\ shifted[e - 1] \in Nat \ {0}
      BY <3>1, Powers
    <3>3. shifted[e - 1] \notin S
      BY <1>4, <1>5, <3>2
    <3>4. shifted[e - 1] < n
      BY <3>1, <3>2, <3>3
    <3>5. QED
      BY <3>2, <3>4
  <2>3. QED
    BY <2>1, <2>2
<1>8. QED
  BY <1>5, <1>6, <1>7

-----------------------------------------------------------------------------
(* A network on bits: H is the set of the places that hold a one.  The places *)
(* are those of 1 << e, in blocks of 1 << c.                                  *)

\* Blocks of exponent a are sorted upwards and downwards in turn.
Up(x, a) == (x \div shifted[a]) % 2 = 0

-----------------------------------------------------------------------------
(* Quotients, and the blocks of places *)

\* A quotient and its remainder.
LEMMA DivIs ==
    ASSUME NEW x \in Nat, NEW d \in Nat \ {0}
    PROVE  /\ x = d * (x \div d) + (x % d)
           /\ x \div d \in Nat /\ x % d \in 0 .. d - 1
  OBVIOUS

\* There is only one of each.
LEMMA DivUnique ==
    ASSUME NEW q \in Nat, NEW d \in Nat \ {0}, NEW r \in 0 .. d - 1
    PROVE  ((d * q) + r) \div d = q /\ ((d * q) + r) % d = r
  OBVIOUS

\* A block of twice the size.
LEMMA DivTwice ==
    ASSUME NEW x \in Nat, NEW d \in Nat \ {0}
    PROVE  x \div (2 * d) = (x \div d) \div 2
  OBVIOUS

\* What is less is in no later block.
LEMMA DivMonotone ==
    ASSUME NEW x \in Nat, NEW y \in Nat, x <= y, NEW d \in Nat \ {0}
    PROVE  x \div d <= y \div d
  OBVIOUS

\* A number is less than d if and only if its quotient by d is 0.
LEMMA DivZero ==
    ASSUME NEW x \in Nat, NEW d \in Nat \ {0}
    PROVE  x \div d = 0 <=> x < d
  OBVIOUS

\* The places of a block, of which the first half is a block of half the size, and so is
\* the second half.
LEMMA PlaceInBlock ==
    ASSUME NEW B \in Nat, NEW d \in Nat \ {0}, NEW t \in 0 .. d - 1
    PROVE  /\ (B * (2 * d) + t) \div d = 2 * B
           /\ (B * (2 * d) + d + t) \div d = 2 * B + 1
           /\ (B * (2 * d) + t) \div (2 * d) = B
           /\ (B * (2 * d) + d + t) \div (2 * d) = B
<1>1. B * (2 * d) + t = d * (2 * B) + t /\ B * (2 * d) + d + t = d * (2 * B + 1) + t
  OBVIOUS
<1>2. 2 * B \in Nat /\ 2 * B + 1 \in Nat
  OBVIOUS
<1>3. (d * (2 * B) + t) \div d = 2 * B /\ (d * (2 * B + 1) + t) \div d = 2 * B + 1
  BY <1>2, DivUnique
<1>4. 2 * d \in Nat \ {0} /\ t \in 0 .. 2 * d - 1 /\ d + t \in 0 .. 2 * d - 1
  OBVIOUS
<1>5. ((2 * d) * B + t) \div (2 * d) = B /\ ((2 * d) * B + (d + t)) \div (2 * d) = B
  BY <1>4, DivUnique
<1>6. (2 * d) * B + t = B * (2 * d) + t /\ (2 * d) * B + (d + t) = B * (2 * d) + d + t
  OBVIOUS
<1>7. QED
  BY <1>1, <1>3, <1>5, <1>6

\* Every place is in a half of a block.
LEMMA PlaceOf ==
    ASSUME NEW x \in Nat, NEW d \in Nat \ {0}
    PROVE  \E t \in 0 .. d - 1 :
               IF (x \div d) % 2 = 0 THEN x = (x \div (2 * d)) * (2 * d) + t
               ELSE x = (x \div (2 * d)) * (2 * d) + d + t
<1> DEFINE q == x \div d
           B == x \div (2 * d)
           t == x % d
<1>1. x = d * q + t /\ q \in Nat /\ t \in 0 .. d - 1
  BY DivIs
<1>2. B = q \div 2
  BY DivTwice
<1> HIDE DEF q, B, t
<1>3. B \in Nat /\ (IF q % 2 = 0 THEN q = 2 * B ELSE q = 2 * B + 1)
  BY <1>1, <1>2
<1>4. CASE q % 2 = 0
  <2>1. d * (2 * B) = B * (2 * d)
    BY <1>3
  <2>2. x = B * (2 * d) + t
    BY <1>1, <1>3, <1>4, <2>1
  <2>3. QED
    BY <1>1, <1>4, <2>2 DEF q, B
<1>5. CASE q % 2 # 0
  <2>1. d * (2 * B + 1) = B * (2 * d) + d
    BY <1>3
  <2>2. x = B * (2 * d) + d + t
    BY <1>1, <1>3, <1>5, <2>1
  <2>3. QED
    BY <1>1, <1>5, <2>2 DEF q, B
<1>6. QED
  BY <1>4, <1>5

\* Places of one block are in one block of any larger size.
LEMMA SameBlock ==
    ASSUME NEW x \in Nat, NEW y \in Nat, NEW c \in Nat, NEW a \in Nat, c <= a,
           x \div shifted[c] = y \div shifted[c]
    PROVE  x \div shifted[a] = y \div shifted[a]
<1> DEFINE T == {d \in Nat : c <= d /\ x \div shifted[d] # y \div shifted[d]}
<1>1. SUFFICES ASSUME T # {} PROVE FALSE
  OBVIOUS
<1>2. PICK d \in T : \A z \in T : d =< z
  BY <1>1, Least
<1>3. d # c /\ d \in Nat
  BY <1>2
<1>4. d - 1 \in Nat /\ d - 1 \notin T /\ d - 1 + 1 = d /\ c <= d - 1
  BY <1>2, <1>3
<1>5. x \div shifted[d - 1] = y \div shifted[d - 1]
  BY <1>4
<1>6. shifted[d] = 2 * shifted[d - 1] /\ shifted[d - 1] \in Nat \ {0}
  BY <1>4, Powers
<1>7. x \div shifted[d] = (x \div shifted[d - 1]) \div 2
      /\ y \div shifted[d] = (y \div shifted[d - 1]) \div 2
  BY <1>6, DivTwice
<1>8. QED
  BY <1>2, <1>5, <1>7

\* The place with which a place is compared.
LEMMA PartnerIs ==
    ASSUME NEW e \in Nat, NEW b \in Nat, b < e, NEW x \in 0 .. shifted[e] - 1
    PROVE  LET d == shifted[b]
               l == Xor(x, d)
           IN  /\ l \in 0 .. shifted[e] - 1 /\ l # x /\ Xor(l, d) = x
               /\ l \div (2 * d) = x \div (2 * d)
               /\ x < l <=> (x \div d) % 2 = 0
               /\ x < l => l = x + d
               /\ l < x => l = x - d
<1> DEFINE d == shifted[b]
           l == Xor(x, d)
           B == x \div (2 * d)
<1>1. d \in Nat \ {0} /\ x \in Nat /\ shifted[e] \in Nat \ {0}
  BY Powers
<1>2. PICK t \in 0 .. d - 1 :
          IF (x \div d) % 2 = 0 THEN x = B * (2 * d) + t ELSE x = B * (2 * d) + d + t
  BY <1>1, PlaceOf
<1>3. B \in Nat
  <2>1. 2 * d \in Nat \ {0}
    BY <1>1
  <2>2. QED
    BY <1>1, <2>1, DivIs
<1> HIDE DEF B
<1>4. /\ (B * (2 * d) + t) \div d = 2 * B
      /\ (B * (2 * d) + d + t) \div d = 2 * B + 1
      /\ (B * (2 * d) + t) \div (2 * d) = B
      /\ (B * (2 * d) + d + t) \div (2 * d) = B
  BY <1>1, <1>3, PlaceInBlock
<1>5. /\ l \in Nat /\ l # x /\ Xor(l, d) = x
      /\ l \div (2 * d) = B /\ x \div (2 * d) = B
      /\ x < l <=> (x \div d) % 2 = 0
      /\ x < l => l = x + d
      /\ l < x => l = x - d
  <2> DEFINE u == B * (2 * d)
  <2>1. u \in Nat
    BY <1>1, <1>3
  <2>2. (2 * B) % 2 = 0 /\ (2 * B + 1) % 2 # 0
    BY <1>3
  <2> HIDE DEF d, u
  <2>3. CASE (x \div d) % 2 = 0
    <3>1. x = u + t /\ l = u + d + t
      BY <1>1, <1>2, <2>1, <2>3 DEF Xor, u
    <3>2. Xor(l, d) = x
      BY <1>1, <1>4, <2>1, <2>2, <3>1 DEF Xor, u
    <3>3. QED
      BY <1>1, <1>4, <2>1, <2>3, <3>1, <3>2 DEF u
  <2>4. CASE (x \div d) % 2 # 0
    <3>1. x = u + d + t /\ l = u + t
      BY <1>1, <1>2, <2>1, <2>4 DEF Xor, u
    <3>2. Xor(l, d) = x
      BY <1>1, <1>4, <2>1, <2>2, <3>1 DEF Xor, u
    <3>3. QED
      BY <1>1, <1>4, <2>1, <2>4, <3>1, <3>2 DEF u
  <2>5. QED
    BY <2>3, <2>4
<1>6. l < shifted[e]
  <2>1. shifted[b + 1] = 2 * d /\ b + 1 \in Nat /\ b + 1 <= e
    BY Powers
  <2>2. l \div shifted[e] = x \div shifted[e]
    BY <1>1, <1>5, <2>1, SameBlock, SMTT(30)
  <2>3. x \div shifted[e] = 0
    BY <1>1, DivZero
  <2>4. QED
    BY <1>1, <1>5, <2>2, <2>3, DivZero
<1>7. QED
  BY <1>1, <1>5, <1>6

\* Both places of a pair are in a block that is sorted the same way.
LEMMA PartnerSameWay ==
    ASSUME NEW e \in Nat, NEW b \in Nat, b < e, NEW x \in 0 .. shifted[e] - 1,
           NEW a \in Nat, b < a
    PROVE  LET l == Xor(x, shifted[b]) IN
           l \div shifted[a] = x \div shifted[a] /\ (Up(l, a) <=> Up(x, a))
<1> DEFINE l == Xor(x, shifted[b])
<1>1. l \in Nat /\ l \div (2 * shifted[b]) = x \div (2 * shifted[b])
  BY PartnerIs
<1>2. shifted[b + 1] = 2 * shifted[b] /\ b + 1 \in Nat /\ b + 1 <= a /\ x \in Nat
  BY Powers
<1>3. l \div shifted[a] = x \div shifted[a]
  BY <1>1, <1>2, SameBlock
<1>4. QED
  BY <1>3 DEF Up

\* The part of H in block B of n places.
Part(H, B, n) == {t \in 0 .. n - 1 : B * n + t \in H}

\* Seen as a ring of n places, the ones stand side by side.
Bitonic(Q, n) ==
    \E lo, hi \in 0 .. n :
        \/ Q = {t \in 0 .. n - 1 : lo <= t /\ t < hi}
        \/ Q = {t \in 0 .. n - 1 : t < lo \/ hi <= t}

\* In each block of exponent a, the smaller blocks of exponent c are in order.
Graded(H, a, c, e) ==
    \A x, y \in 0 .. shifted[e] - 1 :
        x \div shifted[a] = y \div shifted[a] /\ x \div shifted[c] < y \div shifted[c] =>
            IF Up(x, a) THEN x \in H => y \in H ELSE y \in H => x \in H

\* What the network has achieved when blocks of exponent a are merged and their parts of
\* exponent c are still to be sorted.
Merging(H, a, c, e) ==
    /\ Graded(H, a, c, e)
    /\ \A B \in Nat : B * shifted[c] < shifted[e] => Bitonic(Part(H, B, shifted[c]), shifted[c])

\* The bits after every place has taken the smaller or the larger one of its pair.
Exchange(H, a, b, e) ==
    {x \in 0 .. shifted[e] - 1 :
        LET l == Xor(x, shifted[b]) IN
        IF (x < l) = Up(x, a) THEN x \in H /\ l \in H ELSE x \in H \/ l \in H}

\* The smaller ones and the larger ones of the pairs of a block of 2 * d places.
Lows(Q, d) == {t \in 0 .. d - 1 : t \in Q /\ t + d \in Q}
Highs(Q, d) == {t \in 0 .. d - 1 : t \in Q \/ t + d \in Q}

\* If the ones stand side by side, then so do they in both halves, one of which is uniform.
LEMMA RingOfOnes ==
    ASSUME NEW d \in Nat \ {0}, NEW lo \in 0 .. 2 * d, NEW hi \in 0 .. 2 * d, NEW Q,
           Q = {t \in 0 .. 2 * d - 1 : lo <= t /\ t < hi}
    PROVE  /\ Bitonic(Lows(Q, d), d) /\ Bitonic(Highs(Q, d), d)
           /\ \A t \in Lows(Q, d) : \A u \in 0 .. d - 1 : u \in Highs(Q, d)
<1>1. ASSUME NEW t \in 0 .. d - 1
      PROVE  /\ t \in Q <=> lo <= t /\ t < hi
             /\ t + d \in Q <=> lo <= t + d /\ t + d < hi
  OBVIOUS
<1>2. Bitonic(Lows(Q, d), d)
  <2> DEFINE l == IF lo <= d THEN lo ELSE d
             h == IF d <= hi THEN hi - d ELSE 0
  <2>1. l \in 0 .. d /\ h \in 0 .. d
    OBVIOUS
  <2>2. ASSUME NEW t \in 0 .. d - 1
        PROVE  (t \in Q /\ t + d \in Q) <=> (l <= t /\ t < h)
    BY <1>1
  <2> HIDE DEF l, h
  <2>3. Lows(Q, d) = {t \in 0 .. d - 1 : l <= t /\ t < h}
    BY <2>2 DEF Lows
  <2>4. QED
    BY <2>1, <2>3 DEF Bitonic
<1>3. Bitonic(Highs(Q, d), d)
  <2>1. CASE hi <= d
    <3> DEFINE l == IF lo <= d THEN lo ELSE d
    <3>1. l \in 0 .. d /\ hi \in 0 .. d
      BY <2>1
    <3>2. ASSUME NEW t \in 0 .. d - 1
          PROVE  (t \in Q \/ t + d \in Q) <=> (l <= t /\ t < hi)
      BY <1>1, <2>1
    <3> HIDE DEF l
    <3>3. Highs(Q, d) = {t \in 0 .. d - 1 : l <= t /\ t < hi}
      BY <3>2 DEF Highs
    <3>4. QED
      BY <3>1, <3>3 DEF Bitonic
  <2>2. CASE d < hi /\ d <= lo
    <3>1. lo - d \in 0 .. d /\ hi - d \in 0 .. d
      BY <2>2
    <3>2. ASSUME NEW t \in 0 .. d - 1
          PROVE  (t \in Q \/ t + d \in Q) <=> (lo - d <= t /\ t < hi - d)
      BY <1>1, <2>2
    <3>3. Highs(Q, d) = {t \in 0 .. d - 1 : lo - d <= t /\ t < hi - d}
      BY <3>2 DEF Highs
    <3>4. QED
      BY <3>1, <3>3 DEF Bitonic
  <2>3. CASE d < hi /\ lo < d
    <3>1. hi - d \in 0 .. d /\ lo \in 0 .. d
      BY <2>3
    <3>2. ASSUME NEW t \in 0 .. d - 1
          PROVE  (t \in Q \/ t + d \in Q) <=> (t < hi - d \/ lo <= t)
      BY <1>1, <2>3
    <3>3. Highs(Q, d) = {t \in 0 .. d - 1 : t < hi - d \/ lo <= t}
      BY <3>2 DEF Highs
    <3>4. QED
      BY <3>1, <3>3 DEF Bitonic
  <2>4. QED
    BY <2>1, <2>2, <2>3
<1>4. ASSUME NEW t \in Lows(Q, d), NEW u \in 0 .. d - 1 PROVE u \in Highs(Q, d)
  <2>1. t \in 0 .. d - 1 /\ lo <= t /\ t + d < hi
    BY <1>1, <1>4 DEF Lows
  <2>2. u \in Q \/ u + d \in Q
    BY <1>1, <2>1
  <2>3. QED
    BY <2>2 DEF Highs
<1>5. QED
  BY <1>2, <1>3, <1>4

\* The complement of a bitonic sequence is bitonic.
LEMMA BitonicComplement ==
    ASSUME NEW n \in Nat, NEW Q, Bitonic(Q, n), NEW R, R = (0 .. n - 1) \ Q
    PROVE  Bitonic(R, n)
<1>1. PICK lo \in 0 .. n, hi \in 0 .. n :
          \/ Q = {t \in 0 .. n - 1 : lo <= t /\ t < hi}
          \/ Q = {t \in 0 .. n - 1 : t < lo \/ hi <= t}
  BY DEF Bitonic
<1>2. CASE Q = {t \in 0 .. n - 1 : lo <= t /\ t < hi}
  <2>1. R = {t \in 0 .. n - 1 : t < lo \/ hi <= t}
    BY <1>2
  <2>2. QED
    BY <2>1 DEF Bitonic
<1>3. CASE Q = {t \in 0 .. n - 1 : t < lo \/ hi <= t}
  <2>1. R = {t \in 0 .. n - 1 : lo <= t /\ t < hi}
    BY <1>3
  <2>2. QED
    BY <2>1 DEF Bitonic
<1>4. QED
  BY <1>1, <1>2, <1>3

\* The same where it is the zeros that stand side by side.
LEMMA RingSplits ==
    ASSUME NEW d \in Nat \ {0}, NEW Q, Bitonic(Q, 2 * d)
    PROVE  /\ Bitonic(Lows(Q, d), d) /\ Bitonic(Highs(Q, d), d)
           /\ \A t \in Lows(Q, d) : \A u \in 0 .. d - 1 : u \in Highs(Q, d)
<1>1. PICK lo \in 0 .. 2 * d, hi \in 0 .. 2 * d :
          \/ Q = {t \in 0 .. 2 * d - 1 : lo <= t /\ t < hi}
          \/ Q = {t \in 0 .. 2 * d - 1 : t < lo \/ hi <= t}
  BY DEF Bitonic
<1>2. CASE Q = {t \in 0 .. 2 * d - 1 : lo <= t /\ t < hi}
  BY <1>2, RingOfOnes
<1>3. CASE Q = {t \in 0 .. 2 * d - 1 : t < lo \/ hi <= t}
  <2> DEFINE R == {t \in 0 .. 2 * d - 1 : lo <= t /\ t < hi}
  <2>1. ASSUME NEW t \in 0 .. d - 1
        PROVE  (t \in Q <=> t \notin R) /\ (t + d \in Q <=> t + d \notin R)
    BY <1>3
  <2>2. /\ Bitonic(Lows(R, d), d) /\ Bitonic(Highs(R, d), d)
        /\ \A t \in Lows(R, d) : \A u \in 0 .. d - 1 : u \in Highs(R, d)
    BY RingOfOnes
  <2> HIDE DEF R
  <2>3. Lows(Q, d) = (0 .. d - 1) \ Highs(R, d) /\ Highs(Q, d) = (0 .. d - 1) \ Lows(R, d)
    BY <2>1 DEF Lows, Highs
  <2>4. Bitonic(Lows(Q, d), d) /\ Bitonic(Highs(Q, d), d)
    BY <2>2, <2>3, BitonicComplement
  <2>5. QED
    BY <2>2, <2>3, <2>4
<1>4. QED
  BY <1>1, <1>2, <1>3

\* In a block of twice the size every place takes one of its pair.
LEMMA ExchangeInBlock ==
    ASSUME NEW e \in Nat, NEW b \in Nat, b < e, NEW a \in Nat, b < a, NEW H,
           NEW d, d = shifted[b], NEW B \in Nat, NEW u, u = B * (2 * d), u < shifted[e],
           NEW t \in 0 .. d - 1, NEW x, x = u + t, NEW l, l = u + d + t,
           NEW G, G = Exchange(H, a, b, e), NEW Q, Q = Part(H, B, 2 * d)
    PROVE  /\ x \in 0 .. shifted[e] - 1 /\ l \in 0 .. shifted[e] - 1
           /\ x \in G <=> (IF Up(u, a) THEN t \in Lows(Q, d) ELSE t \in Highs(Q, d))
           /\ l \in G <=> (IF Up(u, a) THEN t \in Highs(Q, d) ELSE t \in Lows(Q, d))
<1>1. d \in Nat \ {0} /\ shifted[e] \in Nat \ {0} /\ u \in Nat /\ x \in Nat /\ l \in Nat
  <2>1. d \in Nat \ {0} /\ shifted[e] \in Nat \ {0}
    BY Powers
  <2>2. u \in Nat
    BY <2>1
  <2>3. QED
    BY <2>1, <2>2
<1>2. shifted[b + 1] = 2 * d /\ b + 1 \in Nat /\ b + 1 <= e /\ b + 1 <= a
  BY Powers
<1>3. x \div d = 2 * B /\ l \div d = 2 * B + 1 /\ x \div (2 * d) = B /\ l \div (2 * d) = B
  BY <1>1, PlaceInBlock, ZenonT(60)
<1>4. u \div (2 * d) = B
  <2>1. 0 \in 0 .. d - 1 /\ B * (2 * d) + 0 = u
    BY <1>1
  <2>2. (B * (2 * d) + 0) \div (2 * d) = B
    BY <1>1, <2>1, PlaceInBlock
  <2>3. QED
    BY <2>1, <2>2
<1>5. ASSUME NEW c \in Nat, b + 1 <= c
      PROVE  x \div shifted[c] = u \div shifted[c] /\ l \div shifted[c] = u \div shifted[c]
  <2>1. /\ x \div shifted[b + 1] = u \div shifted[b + 1]
        /\ l \div shifted[b + 1] = u \div shifted[b + 1]
    BY <1>2, <1>3, <1>4
  <2>2. b + 1 \in Nat /\ x \in Nat /\ l \in Nat /\ u \in Nat
    BY <1>1
  <2>3. x \div shifted[c] = u \div shifted[c]
    BY <1>5, <2>1, <2>2, SameBlock, SMTT(30)
  <2>4. l \div shifted[c] = u \div shifted[c]
    BY <1>5, <2>1, <2>2, SameBlock, SMTT(30)
  <2>5. QED
    BY <2>3, <2>4
<1>6. x \in 0 .. shifted[e] - 1 /\ l \in 0 .. shifted[e] - 1
  <2>1. u \div shifted[e] = 0
    BY <1>1, DivZero
  <2>2. x \div shifted[e] = 0 /\ l \div shifted[e] = 0
    BY <1>2, <1>5, <2>1
  <2>3. x < shifted[e] /\ l < shifted[e]
    BY <1>1, <2>2, DivZero
  <2>4. QED
    BY <1>1, <2>3
<1>7. (Up(x, a) <=> Up(u, a)) /\ (Up(l, a) <=> Up(u, a))
  BY <1>2, <1>5 DEF Up
<1>8. Xor(x, d) = l /\ Xor(l, d) = x /\ x < l /\ ~(l < x)
  <2>1. (2 * B) % 2 = 0 /\ (2 * B + 1) % 2 # 0
    OBVIOUS
  <2>2. (x \div d) % 2 = 0 /\ (l \div d) % 2 # 0
    BY <1>3, <2>1
  <2>3. l = x + d /\ x = l - d /\ x < l /\ ~(l < x)
    BY <1>1
  <2>4. QED
    BY <2>2, <2>3 DEF Xor
<1>9. (t \in Q <=> x \in H) /\ (t + d \in Q <=> l \in H)
  <2>1. t \in 0 .. 2 * d - 1 /\ t + d \in 0 .. 2 * d - 1 /\ u + (t + d) = l
    BY <1>1
  <2>2. QED
    BY <2>1 DEF Part
<1>10. x \in G <=> IF Up(u, a) THEN x \in H /\ l \in H ELSE x \in H \/ l \in H
  <2>1. x \in G <=> IF TRUE = Up(x, a) THEN x \in H /\ l \in H ELSE x \in H \/ l \in H
    BY <1>6, <1>8, Zenon DEF Exchange
  <2>2. QED
    BY <1>7, <2>1 DEF Up
<1>11. l \in G <=> IF Up(u, a) THEN x \in H \/ l \in H ELSE x \in H /\ l \in H
  <2>1. l \in G <=> IF (l < x) = Up(l, a) THEN l \in H /\ x \in H ELSE l \in H \/ x \in H
    BY <1>6, <1>8, Zenon DEF Exchange
  <2>2. QED
    BY <1>7, <1>8, <2>1 DEF Up
<1>12. /\ t \in Lows(Q, d) <=> x \in H /\ l \in H
       /\ t \in Highs(Q, d) <=> x \in H \/ l \in H
  BY <1>9 DEF Lows, Highs
<1>13. QED
  BY <1>6, <1>10, <1>11, <1>12

\* What a place becomes, from itself and its partner.
LEMMA ExchangeTakes ==
    ASSUME NEW e \in Nat, NEW b \in Nat, b < e, NEW a \in Nat, NEW H,
           NEW x \in 0 .. shifted[e] - 1
    PROVE  /\ x \in H /\ Xor(x, shifted[b]) \in H => x \in Exchange(H, a, b, e)
           /\ x \in Exchange(H, a, b, e) => x \in H \/ Xor(x, shifted[b]) \in H
  BY DEF Exchange

\* A stage splits every block of exponent b + 1 into two that are in order, and bitonic.
LEMMA SplitStep ==
    ASSUME NEW e \in Nat, NEW b \in Nat, NEW a \in Nat, b < a, a <= e, NEW H,
           Merging(H, a, b + 1, e)
    PROVE  Merging(Exchange(H, a, b, e), a, b, e)
<1> DEFINE d == shifted[b]
           N == shifted[e]
           G == Exchange(H, a, b, e)
           Q(B) == Part(H, B, 2 * d)
<1>1. d \in Nat \ {0} /\ N \in Nat \ {0} /\ shifted[b + 1] = 2 * d /\ 2 * d \in Nat \ {0}
  <2>1. d \in Nat \ {0} /\ N \in Nat \ {0} /\ shifted[b + 1] = 2 * d
    BY Powers
  <2>2. QED
    BY <2>1
<1>2. b < e /\ b + 1 \in Nat /\ b + 1 <= a
  OBVIOUS
<1>3. ASSUME NEW B \in Nat, B * (2 * d) < N
      PROVE  /\ Bitonic(Lows(Q(B), d), d) /\ Bitonic(Highs(Q(B), d), d)
             /\ \A t \in Lows(Q(B), d) : \A z \in 0 .. d - 1 : z \in Highs(Q(B), d)
  <2>1. Bitonic(Q(B), 2 * d)
    BY <1>1, <1>3 DEF Merging
  <2> HIDE DEF Q, d
  <2>2. QED
    BY <1>1, <2>1, RingSplits
<1>4. ASSUME NEW B \in Nat, B * (2 * d) < N, NEW t \in 0 .. d - 1
      PROVE  /\ B * (2 * d) + t \in 0 .. N - 1 /\ B * (2 * d) + d + t \in 0 .. N - 1
             /\ B * (2 * d) + t \in G <=> (IF Up(B * (2 * d), a) THEN t \in Lows(Q(B), d)
                                           ELSE t \in Highs(Q(B), d))
             /\ B * (2 * d) + d + t \in G <=> (IF Up(B * (2 * d), a) THEN t \in Highs(Q(B), d)
                                               ELSE t \in Lows(Q(B), d))
  BY <1>2, <1>4, ExchangeInBlock
<1>5. ASSUME NEW B2 \in Nat, B2 * d < N
      PROVE  Bitonic(Part(G, B2, d), d)
  <2> DEFINE B == B2 \div 2
             u == B * (2 * d)
  <2>1. B \in Nat /\ (B2 = 2 * B \/ B2 = 2 * B + 1)
    OBVIOUS
  <2> HIDE DEF B, d, G, N, Q
  <2>2. u \in Nat /\ (B2 * d = u \/ B2 * d = u + d)
    BY <1>1, <2>1
  <2>3. u < N
    BY <1>1, <1>5, <2>2
  <2>4. Bitonic(Lows(Q(B), d), d) /\ Bitonic(Highs(Q(B), d), d)
    BY <1>3, <2>1, <2>3
  <2>5. ASSUME NEW t \in 0 .. d - 1
        PROVE  /\ u + t \in G <=> (IF Up(u, a) THEN t \in Lows(Q(B), d) ELSE t \in Highs(Q(B), d))
               /\ u + d + t \in G <=> (IF Up(u, a) THEN t \in Highs(Q(B), d)
                                       ELSE t \in Lows(Q(B), d))
    BY <1>4, <2>1, <2>3
  <2> HIDE DEF u
  <2>6. Part(G, B2, d) = Lows(Q(B), d) \/ Part(G, B2, d) = Highs(Q(B), d)
    <3>1. CASE B2 * d = u
      BY <2>5, <3>1 DEF Part, Lows, Highs
    <3>2. CASE B2 * d = u + d
      BY <2>5, <3>2 DEF Part, Lows, Highs
    <3>3. QED
      BY <2>2, <3>1, <3>2
  <2>7. QED
    BY <2>4, <2>6
<1>6. ASSUME NEW x \in 0 .. N - 1, NEW y \in 0 .. N - 1,
             x \div shifted[a] = y \div shifted[a], x \div d < y \div d
      PROVE  IF Up(x, a) THEN x \in G => y \in G ELSE y \in G => x \in G
  <2> DEFINE X == x \div (2 * d)
             Y == y \div (2 * d)
  <2>1. x \in Nat /\ y \in Nat /\ X \in Nat /\ Y \in Nat
    <3> HIDE DEF d, N
    <3>1. x \in Nat /\ y \in Nat
      BY <1>1
    <3>2. QED
      BY <1>1, <3>1, DivIs
  <2>2. X = (x \div d) \div 2 /\ Y = (y \div d) \div 2
    BY <1>1, <2>1, DivTwice
  <2>3. x \div d \in Nat /\ y \div d \in Nat
    BY <1>1, <2>1, DivIs
  <2>4. X <= Y
    BY <1>6, <2>2, <2>3
  <2>5. Up(x, a) <=> Up(y, a)
    BY <1>6 DEF Up
  <2>6. CASE X = Y
    <3>1. (x \div d) % 2 = 0 /\ (y \div d) % 2 # 0
      BY <1>6, <2>2, <2>3, <2>6
    <3>2. PICK t \in 0 .. d - 1 : x = X * (2 * d) + t
      BY <1>1, <2>1, <3>1, PlaceOf
    <3>3. PICK z \in 0 .. d - 1 : y = X * (2 * d) + d + z
      <4>1. \E z \in 0 .. d - 1 : y = Y * (2 * d) + d + z
        BY <1>1, <2>1, <3>1, PlaceOf, ZenonT(60)
      <4>2. QED
        BY <2>6, <4>1
    <3> DEFINE u == X * (2 * d)
    <3> HIDE DEF X, Y, d, G, N, Q
    <3>4. u \in Nat /\ u <= x
      BY <1>1, <2>1, <3>2
    <3>5. u < N
      BY <1>1, <2>1, <3>4
    <3>6. Up(u, a) <=> Up(x, a)
      <4>1. u \div (2 * d) = X
        <5>1. 0 \in 0 .. d - 1 /\ u + 0 = u
          BY <1>1, <3>4
        <5>2. (X * (2 * d) + 0) \div (2 * d) = X
          BY <1>1, <2>1, <5>1, PlaceInBlock
        <5>3. QED
          BY <5>1, <5>2
      <4>2. u \div shifted[b + 1] = x \div shifted[b + 1]
        BY <1>1, <4>1 DEF X
      <4>3. u \div shifted[a] = x \div shifted[a]
        BY <1>2, <2>1, <3>4, <4>2, SameBlock
      <4>4. QED
        BY <4>3 DEF Up
    <3>7. /\ x \in G <=> (IF Up(u, a) THEN t \in Lows(Q(X), d) ELSE t \in Highs(Q(X), d))
          /\ y \in G <=> (IF Up(u, a) THEN z \in Highs(Q(X), d) ELSE z \in Lows(Q(X), d))
      BY <1>4, <2>1, <3>2, <3>3, <3>5
    <3>8. \A p \in Lows(Q(X), d) : \A q \in 0 .. d - 1 : q \in Highs(Q(X), d)
      BY <1>3, <2>1, <3>5
    <3>9. QED
      BY <3>6, <3>7, <3>8
  <2>7. CASE X < Y
    <3> DEFINE xl == Xor(x, d)
               yl == Xor(y, d)
    <3>1. xl \in 0 .. N - 1 /\ xl \div (2 * d) = X
      BY <1>2, PartnerIs
    <3>2. yl \in 0 .. N - 1 /\ yl \div (2 * d) = Y
      BY <1>2, PartnerIs
    <3>3. /\ xl \div shifted[a] = x \div shifted[a] /\ (Up(xl, a) <=> Up(x, a))
          /\ yl \div shifted[a] = y \div shifted[a] /\ (Up(yl, a) <=> Up(y, a))
      BY <1>2, PartnerSameWay
    <3>4. /\ x \in H /\ xl \in H => x \in G
          /\ x \in G => x \in H \/ xl \in H
          /\ y \in H /\ yl \in H => y \in G
          /\ y \in G => y \in H \/ yl \in H
      BY <1>2, ExchangeTakes
    <3> HIDE DEF xl, yl, G
    <3>5. ASSUME NEW p \in {x, xl}, NEW q \in {y, yl}
          PROVE  IF Up(x, a) THEN p \in H => q \in H ELSE q \in H => p \in H
      <4>1. /\ p \in 0 .. N - 1 /\ q \in 0 .. N - 1
            /\ p \div shifted[a] = q \div shifted[a]
            /\ p \div (2 * d) = X /\ q \div (2 * d) = Y /\ (Up(p, a) <=> Up(x, a))
        BY <1>6, <3>1, <3>2, <3>3
      <4>2. p \div shifted[b + 1] < q \div shifted[b + 1]
        BY <1>1, <2>7, <4>1
      <4>3. IF Up(p, a) THEN p \in H => q \in H ELSE q \in H => p \in H
        BY <4>1, <4>2 DEF Merging, Graded
      <4>4. QED
        BY <4>1, <4>3
    <3>6. QED
      BY <3>4, <3>5
  <2>8. QED
    BY <2>1, <2>4, <2>6, <2>7
<1>7. QED
  BY <1>5, <1>6 DEF Merging, Graded

\* What rises in the first half and falls in the second one is bitonic.
LEMMA PeakIsBitonic ==
    ASSUME NEW k \in Nat, NEW Q, Q \subseteq 0 .. 2 * k - 1,
           \A t, z \in 0 .. k - 1 : t < z /\ t \in Q => z \in Q,
           \A t, z \in k .. 2 * k - 1 : t < z /\ z \in Q => t \in Q
    PROVE  Bitonic(Q, 2 * k)
<1> DEFINE L == {t \in 0 .. k : t \in Q \/ t = k}
           Z == {t \in k .. 2 * k : t \notin Q}
<1>1. PICK lo \in L : \A y \in L : lo =< y
  <2>1. L \subseteq Nat /\ k \in L
    OBVIOUS
  <2> HIDE DEF L
  <2>2. QED
    BY <2>1, Least
<1>2. PICK hi \in Z : \A y \in Z : hi =< y
  <2>1. Z \subseteq Nat /\ 2 * k \in Z
    OBVIOUS
  <2> HIDE DEF Z
  <2>2. QED
    BY <2>1, Least
<1>3. lo \in 0 .. 2 * k /\ hi \in 0 .. 2 * k
  OBVIOUS
<1>4. ASSUME NEW t \in 0 .. 2 * k - 1
      PROVE  t \in Q <=> lo <= t /\ t < hi
  <2>1. CASE t < k
    <3>1. t < hi
      BY <2>1
    <3>2. t \in Q => lo <= t
      BY <1>1, <2>1
    <3>3. lo <= t => t \in Q
      BY <1>1, <2>1
    <3>4. QED
      BY <3>1, <3>2, <3>3
  <2>2. CASE k <= t
    <3>1. lo <= t
      BY <2>2
    <3>2. t < hi => t \in Q
      BY <1>2, <2>2
    <3>3. ASSUME t \in Q PROVE t < hi
      BY <1>2, <2>2, <3>3
    <3>4. QED
      BY <3>1, <3>2, <3>3
  <2>3. QED
    BY <2>1, <2>2
<1>5. Q = {t \in 0 .. 2 * k - 1 : lo <= t /\ t < hi}
  BY <1>4
<1>6. QED
  BY <1>3, <1>5 DEF Bitonic

\* Blocks that are sorted upwards and downwards in turn are bitonic in pairs.
LEMMA MergeStep ==
    ASSUME NEW e \in Nat, NEW a \in Nat, a < e, NEW H, Merging(H, a, 0, e)
    PROVE  Merging(H, a + 1, a + 1, e)
<1> DEFINE k == shifted[a]
           N == shifted[e]
<1>1. k \in Nat \ {0} /\ N \in Nat \ {0} /\ shifted[a + 1] = 2 * k
  BY Powers
<1>2. ASSUME NEW B \in Nat, B * (2 * k) < N
      PROVE  Bitonic(Part(H, B, 2 * k), 2 * k)
  <2> DEFINE u == B * (2 * k)
             Q == Part(H, B, 2 * k)
  <2> HIDE DEF k, N
  <2>1. u \in Nat
    BY <1>1
  <2>2. ASSUME NEW t \in 0 .. k - 1
        PROVE  /\ (u + t) \div k = 2 * B /\ (u + k + t) \div k = 2 * B + 1
               /\ u + t \in 0 .. N - 1 /\ u + k + t \in 0 .. N - 1
    <3>1. (u + t) \div k = 2 * B /\ (u + k + t) \div k = 2 * B + 1
      BY <1>1, PlaceInBlock
    <3>2. u + t \in 0 .. N - 1 /\ u + k + t \in 0 .. N - 1
      BY <1>2, ExchangeInBlock DEF k, N
    <3>3. QED
      BY <3>1, <3>2
  <2>3. ASSUME NEW x \in 0 .. N - 1, NEW y \in 0 .. N - 1, x < y, x \div k = y \div k
        PROVE  IF (x \div k) % 2 = 0 THEN x \in H => y \in H ELSE y \in H => x \in H
    <3>1. x \div shifted[0] = x /\ y \div shifted[0] = y
      BY Powers
    <3>2. QED
      BY <2>3, <3>1 DEF Merging, Graded, Up, k, N
  <2>4. (2 * B) % 2 = 0 /\ (2 * B + 1) % 2 # 0
    OBVIOUS
  <2>5. \A t \in 0 .. 2 * k - 1 : t \in Q <=> u + t \in H
    BY DEF Part
  <2>6. Q \subseteq 0 .. 2 * k - 1
    BY DEF Part
  <2> HIDE DEF u, Q
  <2>7. ASSUME NEW t \in 0 .. k - 1, NEW z \in 0 .. k - 1, t < z, t \in Q PROVE z \in Q
    <3>1. u + t < u + z /\ t \in 0 .. 2 * k - 1 /\ z \in 0 .. 2 * k - 1
      BY <1>1, <2>1, <2>7
    <3>2. u + t \in H => u + z \in H
      BY <2>2, <2>3, <2>4, <3>1
    <3>3. QED
      BY <2>5, <2>7, <3>1, <3>2
  <2>8. ASSUME NEW t \in k .. 2 * k - 1, NEW z \in k .. 2 * k - 1, t < z, z \in Q PROVE t \in Q
    <3> DEFINE p == t - k
               q == z - k
    <3>1. p \in 0 .. k - 1 /\ q \in 0 .. k - 1 /\ t = k + p /\ z = k + q
      BY <1>1
    <3>2. u + t = u + k + p /\ u + z = u + k + q /\ u + t < u + z
          /\ t \in 0 .. 2 * k - 1 /\ z \in 0 .. 2 * k - 1
      BY <1>1, <2>1, <2>8, <3>1
    <3> HIDE DEF p, q
    <3>3. u + z \in H => u + t \in H
      BY <2>2, <2>3, <2>4, <3>1, <3>2
    <3>4. QED
      BY <2>5, <2>8, <3>2, <3>3
  <2>9. QED
    BY <1>1, <2>6, <2>7, <2>8, PeakIsBitonic DEF Q
<1>3. Graded(H, a + 1, a + 1, e)
  <2>1. ASSUME NEW x \in 0 .. N - 1, NEW y \in 0 .. N - 1
        PROVE  ~(x \div shifted[a + 1] = y \div shifted[a + 1]
                 /\ x \div shifted[a + 1] < y \div shifted[a + 1])
    <3>1. shifted[a + 1] \in Nat \ {0} /\ x \in Nat
      BY <1>1
    <3>2. x \div shifted[a + 1] \in Nat
      BY <3>1
    <3>3. QED
      BY <3>2
  <2>2. QED
    BY <2>1 DEF Graded
<1>4. QED
  BY <1>1, <1>2, <1>3 DEF Merging

\* Pairs are bitonic, whatever they hold.
LEMMA NetworkStarts ==
    ASSUME NEW e \in Nat, NEW H
    PROVE  Merging(H, 1, 1, e)
<1>1. shifted[1] = 2
  <2>1. 0 + 1 = 1
    OBVIOUS
  <2>2. QED
    BY <2>1, Powers
<1>2. ASSUME NEW Q, Q \subseteq {0, 1} PROVE Bitonic(Q, 2)
  <2>1. 0 .. 2 - 1 = {0, 1} /\ 0 \in 0 .. 2 /\ 1 \in 0 .. 2 /\ 2 \in 0 .. 2
    OBVIOUS
  <2>2. Q = {} \/ Q = {0} \/ Q = {1} \/ Q = {0, 1}
    BY <1>2
  <2>3. CASE Q = {}
    <3>1. Q = {t \in 0 .. 2 - 1 : 0 <= t /\ t < 0}
      BY <2>3
    <3>2. QED
      BY <2>1, <3>1 DEF Bitonic
  <2>4. CASE Q = {0}
    <3>1. Q = {t \in 0 .. 2 - 1 : 0 <= t /\ t < 1}
      BY <2>4
    <3>2. QED
      BY <2>1, <3>1 DEF Bitonic
  <2>5. CASE Q = {1}
    <3>1. Q = {t \in 0 .. 2 - 1 : 1 <= t /\ t < 2}
      BY <2>5
    <3>2. QED
      BY <2>1, <3>1 DEF Bitonic
  <2>6. CASE Q = {0, 1}
    <3>1. Q = {t \in 0 .. 2 - 1 : 0 <= t /\ t < 2}
      BY <2>6
    <3>2. QED
      BY <2>1, <3>1 DEF Bitonic
  <2>7. QED
    BY <2>2, <2>3, <2>4, <2>5, <2>6
<1>3. ASSUME NEW B \in Nat PROVE Bitonic(Part(H, B, shifted[1]), shifted[1])
  <2>1. Part(H, B, 2) \subseteq {0, 1}
    BY DEF Part
  <2>2. QED
    BY <1>1, <1>2, <2>1
<1>4. Graded(H, 1, 1, e)
  <2>1. ASSUME NEW x \in Nat, NEW y \in Nat
        PROVE  ~(x \div shifted[1] = y \div shifted[1] /\ x \div shifted[1] < y \div shifted[1])
    BY <1>1
  <2>2. shifted[e] \in Nat
    BY Powers
  <2>3. QED
    BY <2>1, <2>2 DEF Graded
<1>5. QED
  BY <1>3, <1>4 DEF Merging

\* When the one block that is left is in order, the zeros come before the ones.
LEMMA NetworkEnds ==
    ASSUME NEW e \in Nat, NEW H, Merging(H, e, 0, e),
           NEW x \in 0 .. shifted[e] - 1, NEW y \in 0 .. shifted[e] - 1, x < y, x \in H
    PROVE  y \in H
<1>1. shifted[e] \in Nat \ {0} /\ x \in Nat /\ y \in Nat
  BY Powers
<1>2. x \div shifted[e] = 0 /\ y \div shifted[e] = 0
  BY <1>1, DivZero
<1>3. x \div shifted[0] < y \div shifted[0]
  BY Powers
<1>4. Up(x, e)
  BY <1>2 DEF Up
<1>5. QED
  BY <1>2, <1>3, <1>4 DEF Merging, Graded

-----------------------------------------------------------------------------
(* Counting *)

\* A set of numbers below a bound is finite.
LEMMA FiniteBelow ==
    ASSUME NEW m \in Nat, NEW S, S \subseteq 0 .. m - 1
    PROVE  IsFiniteSet(S) /\ Cardinality(S) \in Nat /\ S \subseteq Nat
<1>1. 0 \in Int /\ m - 1 \in Int
  OBVIOUS
<1>2. IsFiniteSet(0 .. m - 1)
  BY <1>1, FS_Interval
<1>3. S \in SUBSET (0 .. m - 1)
  OBVIOUS
<1>4. IsFiniteSet(S)
  BY <1>2, <1>3, FS_Subset
<1>5. Cardinality(S) \in Nat
  BY <1>4, FS_CardinalityType
<1>6. QED
  BY <1>4, <1>5

\* A set of numbers is enumerated by InOrder from the least one up, without a gap.
LEMMA OrderExists ==
    ASSUME NEW m \in Nat, NEW S, S \subseteq 0 .. m - 1
    PROVE  \E f \in [1 .. Cardinality(S) -> S] : \A c, d \in DOMAIN f : c < d => f[c] < f[d]
<1> DEFINE Has(U) ==
               \E f \in [1 .. Cardinality(U) -> U] : \A c, d \in DOMAIN f : c < d => f[c] < f[d]
           T == {k \in Nat : ~ \A U \in SUBSET (0 .. k - 1) : Has(U)}
<1>1. SUFFICES ASSUME T # {} PROVE FALSE
  OBVIOUS
<1>2. PICK k \in T : \A y \in T : k =< y
  BY <1>1, Least
<1>3. PICK U \in SUBSET (0 .. k - 1) : ~Has(U)
  BY <1>2
<1>4. IsFiniteSet(U) /\ Cardinality(U) \in Nat
  BY <1>2, <1>3, FiniteBelow
<1>5. U # {}
  <2>1. ASSUME U = {} PROVE Has(U)
    <3>1. Cardinality(U) = 0 /\ 1 .. 0 = {}
      BY <2>1, FS_EmptySet
    <3>2. [c \in 1 .. 0 |-> c] \in [1 .. Cardinality(U) -> U]
      BY <3>1
    <3>3. QED
      BY <3>1, <3>2
  <2>2. QED
    BY <1>3, <2>1
<1>6. k # 0 /\ k - 1 \in Nat /\ k - 1 \notin T
  <2>1. k # 0
    <3>1. PICK i \in U : TRUE
      BY <1>5
    <3>2. i \in 0 .. k - 1
      BY <3>1
    <3>3. QED
      BY <3>2
  <2>2. k - 1 \in Nat /\ ~(k =< k - 1)
    BY <1>2, <2>1
  <2>3. QED
    BY <1>2, <2>1, <2>2
<1>7. ASSUME NEW V \in SUBSET (0 .. (k - 1) - 1) PROVE Has(V)
  BY <1>6
<1>8. k - 1 \in U
  <2>1. ASSUME k - 1 \notin U PROVE U \in SUBSET (0 .. (k - 1) - 1)
    BY <1>2, <1>6, <2>1
  <2>2. QED
    BY <1>3, <1>7, <2>1
<1> DEFINE V == U \ {k - 1}
           n == Cardinality(V)
<1>9. V \in SUBSET (0 .. (k - 1) - 1)
  BY <1>6
<1>10. n \in Nat /\ Cardinality(U) = n + 1
  <2>1. IsFiniteSet(V) /\ n = Cardinality(U) - 1
    BY <1>4, <1>8, FS_RemoveElement
  <2>2. n \in Nat
    BY <2>1, FS_CardinalityType
  <2> HIDE DEF n
  <2>3. QED
    BY <1>4, <2>1, <2>2
<1>11. PICK g \in [1 .. n -> V] : \A c, d \in DOMAIN g : c < d => g[c] < g[d]
  BY <1>7, <1>9
<1> DEFINE f == [c \in 1 .. n + 1 |-> IF c = n + 1 THEN k - 1 ELSE g[c]]
<1>12. ASSUME NEW c \in 1 .. n + 1
       PROVE  f[c] \in U /\ (c # n + 1 => c \in 1 .. n /\ f[c] = g[c] /\ f[c] < k - 1)
  <2> HIDE DEF n
  <2>1. CASE c = n + 1
    BY <1>8, <2>1
  <2>2. CASE c # n + 1
    <3>1. c \in 1 .. n
      BY <1>10, <2>2
    <3>2. f[c] = g[c] /\ g[c] \in V
      BY <1>11, <2>2, <3>1
    <3>3. g[c] < k - 1
      <4>1. \A i \in 0 .. (k - 1) - 1 : i < k - 1
        BY <1>6
      <4>2. QED
        BY <1>9, <3>2, <4>1
    <3>4. QED
      BY <3>1, <3>2, <3>3
  <2>3. QED
    BY <2>1, <2>2
<1>13. f \in [1 .. Cardinality(U) -> U]
  <2> HIDE DEF n
  <2>1. QED
    BY <1>10, <1>12
<1>14. ASSUME NEW c \in 1 .. n + 1, NEW d \in 1 .. n + 1, c < d PROVE f[c] < f[d]
  <2> HIDE DEF n, V
  <2>1. c # n + 1
    BY <1>10, <1>14
  <2>2. CASE d = n + 1
    <3>1. f[d] = k - 1
      BY <2>2
    <3>2. QED
      BY <1>12, <2>1, <3>1
  <2>3. CASE d # n + 1
    <3>1. /\ c \in 1 .. n /\ f[c] = g[c]
          /\ d \in 1 .. n /\ f[d] = g[d]
      BY <1>12, <2>1, <2>3
    <3>2. QED
      BY <1>11, <1>14, <3>1
  <2>4. QED
    BY <2>2, <2>3
<1>15. Has(U)
  <2>1. DOMAIN f = 1 .. n + 1
    OBVIOUS
  <2> HIDE DEF f
  <2>2. QED
    BY <1>13, <1>14, <2>1
<1>16. QED
  BY <1>3, <1>15

\* In order, every number of the set has its place.
LEMMA InOrderIs ==
    ASSUME NEW m \in Nat, NEW S, S \subseteq 0 .. m - 1
    PROVE  /\ IsFiniteSet(S) /\ Cardinality(S) \in Nat
           /\ InOrder(S) \in [1 .. Cardinality(S) -> S]
           /\ \A i \in S : \E c \in 1 .. Cardinality(S) : InOrder(S)[c] = i
<1> DEFINE n == Cardinality(S)
           f == InOrder(S)
<1>1. IsFiniteSet(S) /\ n \in Nat
  BY FiniteBelow
<1>2. f \in [1 .. n -> S] /\ \A c, d \in DOMAIN f : c < d => f[c] < f[d]
  BY OrderExists DEF InOrder
<1> HIDE DEF f, n
<1>3. \A i \in S : i \in Nat /\ ~(i < i)
  OBVIOUS
<1>4. ASSUME NEW c \in 1 .. n, NEW d \in 1 .. n, f[c] = f[d] PROVE c = d
  <2>1. f[c] \in Nat /\ f[d] \in Nat /\ ~(f[c] < f[d]) /\ ~(f[d] < f[c])
    BY <1>2, <1>3, <1>4
  <2>2. ~(c < d) /\ ~(d < c)
    BY <1>2, <2>1
  <2>3. QED
    BY <1>1, <2>2
<1>5. f \in Injection(1 .. n, S)
  BY <1>2, <1>4 DEF Injection, IsInjective
<1>6. Cardinality(1 .. n) = n
  BY <1>1, FS_Interval
<1>7. f \in Surjection(1 .. n, S)
  BY <1>1, <1>5, <1>6, FS_Injection DEF n
<1>8. QED
  BY <1>1, <1>2, <1>7 DEF Surjection, f, n

\* Places trade their values in pairs.
Trades(f, S, A, C) == f \in [S -> S] /\ \A p \in S : f[f[p]] = p /\ C[p] = A[f[p]]
Holders(S, A, v) == {p \in S : A[p] = v}

\* The values stay the same.
LEMMA TradesKeepCounts ==
    ASSUME NEW f, NEW S, NEW A, NEW C, Trades(f, S, A, C), IsFiniteSet(S), NEW v
    PROVE  Cardinality(Holders(S, C, v)) = Cardinality(Holders(S, A, v))
<1> DEFINE U == {p \in S : C[p] = v}
           V == {p \in S : A[p] = v}
           g == [p \in U |-> f[p]]
<1> USE DEF Trades
<1>1. IsFiniteSet(U)
  BY FS_Subset
<1>2. ASSUME NEW p \in U PROVE g[p] \in V
  OBVIOUS
<1>3. ASSUME NEW p \in V PROVE f[p] \in U /\ g[f[p]] = p
  <2>1. f[p] \in S /\ f[f[p]] = p
    OBVIOUS
  <2>2. C[f[p]] = A[p]
    BY <2>1
  <2>3. QED
    BY <2>1, <2>2
<1>4. ASSUME NEW p \in U, NEW q \in U, g[p] = g[q] PROVE p = q
  <2>1. f[p] = f[q]
    BY <1>4
  <2>2. QED
    BY <2>1
<1>5. g \in Bijection(U, V)
  <2>1. DOMAIN g = U /\ g \in [U -> V]
    BY <1>2
  <2> HIDE DEF g, U, V
  <2>2. QED
    BY <1>3, <1>4, <2>1 DEF Bijection, Injection, Surjection, IsInjective
<1>6. ExistsBijection(U, V)
  BY <1>5 DEF ExistsBijection
<1>7. Cardinality(V) = Cardinality(U)
  BY <1>1, <1>6, FS_Bijection
<1>8. QED
  BY <1>7 DEF Holders

-----------------------------------------------------------------------------
(* The array *)

\* Its places, and what they hold at first.
Size == NextPow2(Cardinality(DOMAIN input))
Places == 0 .. Size - 1
Padded == [p \in Places |-> IF p < Cardinality(DOMAIN input) THEN input[p] ELSE Padding]
Real == Values \union {Padding}

\* The order asked for, in which paddings come last.
rank(v) == IF v = Padding THEN 2 ELSE IF asc THEN v ELSE 1 - v

\* A value of rank t or of a higher one counts as a one.
Ones(A, t) == {x \in Places : rank(A[x]) >= t}

\* What a stage of the network makes of the array.
Exchanged(A, st) ==
    [p \in Places |->
        LET l == Xor(p, st.j) IN
        IF (p < l) = IsUp(p, st)
        THEN IF rank(A[p]) <= rank(A[l]) THEN A[p] ELSE A[l]
        ELSE IF rank(A[l]) <= rank(A[p]) THEN A[p] ELSE A[l]]

\* The values of the input, and nothing else but paddings.
Count(A, v) == Cardinality(Holders(Places, A, v))
SameValues(A) == \A v \in Real : Count(A, v) = Count(Padded, v)

\* Stage st merges blocks of exponent a, and exchanges places that are 1 << b apart.
IsStage(st, a, b, e) ==
    /\ Size = shifted[e] /\ a \in 1 .. e /\ b \in 0 .. a - 1
    /\ st = [k |-> shifted[a], j |-> shifted[b]]

\* What the stages before have achieved: the paddings stay in the second half of the array
\* until both halves are merged.
Prepared(A, a, b, e) ==
    /\ \A t \in {1, 2} : Merging(Ones(A, t), a, b + 1, e)
    /\ (a < e \/ b + 1 = e) => \A x \in Places : 2 * x < Size => A[x] # Padding

\* The array A comes to stage st.
Reaches(A, st) ==
    \E e \in Nat : \E a \in Nat : \E b \in Nat : IsStage(st, a, b, e) /\ Prepared(A, a, b, e)

InRankOrder(A) == \A x, y \in Places : x < y => rank(A[x]) <= rank(A[y])

\* The input, as Init leaves it.
GivenInput ==
    asc \in BOOLEAN /\ \E n \in 1 .. MaxSecrets : input \in [0 .. n - 1 -> Values]

\* The array has the least power of two of places that holds the input.
LEMMA SizeIs ==
    ASSUME GivenInput
    PROVE  \E n \in Nat \ {0} :
              /\ DOMAIN input = 0 .. n - 1 /\ Cardinality(DOMAIN input) = n
              /\ input \in [0 .. n - 1 -> Values]
              /\ n <= Size /\ Size < 2 * n /\ Size \in Nat \ {0}
              /\ \E e \in Nat : Size = shifted[e]
<1>1. PICK n \in 1 .. MaxSecrets : input \in [0 .. n - 1 -> Values]
  BY DEF GivenInput
<1>2. n \in Nat \ {0} /\ 0 \in Int /\ n - 1 \in Int /\ ~(0 > n - 1)
  BY BitonicSortAssumption
<1>3. Cardinality(0 .. n - 1) = n
  BY <1>2, FS_Interval
<1>4. DOMAIN input = 0 .. n - 1 /\ Cardinality(DOMAIN input) = n
  BY <1>1, <1>3
<1>5. /\ \E e \in Nat : NextPow2(n) = shifted[e]
      /\ NextPow2(n) \in Nat /\ n <= NextPow2(n) /\ NextPow2(n) < 2 * n
  BY <1>2, NextPowerIs
<1>6. Size = NextPow2(n)
  BY <1>4 DEF Size
<1>7. Size \in Nat \ {0} /\ n <= Size /\ Size < 2 * n
  BY <1>2, <1>5, <1>6
<1>8. QED
  BY <1>1, <1>2, <1>4, <1>5, <1>6, <1>7

\* At first the array holds secrets and paddings.
LEMMA PaddedIs ==
    ASSUME GivenInput
    PROVE  Padded \in [Places -> Real]
<1>1. PICK n \in Nat \ {0} :
        Cardinality(DOMAIN input) = n /\ input \in [0 .. n - 1 -> Values]
        /\ Size \in Nat \ {0}
  BY SizeIs
<1>2. ASSUME NEW p \in Places PROVE p < n => input[p] \in Values
  BY <1>1 DEF Places
<1>3. QED
  BY <1>1, <1>2 DEF Padded, Real

\* The ranks keep the values apart.
LEMMA RankIs ==
    ASSUME GivenInput, NEW v \in Real, NEW w \in Real
    PROVE  /\ rank(v) \in 0 .. 2 /\ rank(w) \in 0 .. 2
           /\ rank(v) = 2 <=> v = Padding
           /\ rank(v) = rank(w) <=> v = w
  BY DEF GivenInput, Real, Values, Padding, rank

\* The places of a pair, and the way they are sorted.
LEMMA PairIs ==
    ASSUME NEW e \in Nat, NEW a \in Nat, NEW b \in Nat, NEW st, IsStage(st, a, b, e),
           NEW x \in Places, NEW l, l = Xor(x, st.j)
    PROVE  /\ x \in Nat /\ l \in Nat
           /\ l \in Places /\ l # x /\ Xor(l, st.j) = x
           /\ IsUp(x, st) \in BOOLEAN /\ IsUp(l, st) = IsUp(x, st)
           /\ IsUp(x, st) = Up(x, a)
<1>1. /\ Size = shifted[e] /\ b < a /\ a <= e /\ b < e
      /\ st.k = shifted[a] /\ st.j = shifted[b]
  BY DEF IsStage
<1>2. x \in 0 .. shifted[e] - 1 /\ shifted[e] \in Nat
  BY <1>1, Powers DEF Places
<1>3. l \in 0 .. shifted[e] - 1 /\ l # x /\ Xor(l, st.j) = x
  BY <1>1, <1>2, PartnerIs
<1>4. Up(l, a) <=> Up(x, a)
  BY <1>1, <1>2, PartnerSameWay
<1>5. IsUp(x, st) = Up(x, a) /\ IsUp(l, st) = Up(l, a) /\ IsUp(x, st) \in BOOLEAN
  BY <1>1 DEF IsUp, Up
<1>6. QED
  BY <1>1, <1>2, <1>3, <1>4, <1>5 DEF Places, Up

\* The partner of every place.
LEMMA PartnersAre ==
    ASSUME NEW e \in Nat, NEW a \in Nat, NEW b \in Nat, NEW st, IsStage(st, a, b, e)
    PROVE  \A x \in Places : LET l == Xor(x, st.j) IN
             x \in Nat /\ l \in Nat /\ l \in Places /\ l # x /\ Xor(l, st.j) = x
BY PairIs

\* Every place keeps its value or takes that of its pair, and the pair does likewise.
LEMMA ExchangedIs ==
    ASSUME GivenInput, NEW e \in Nat, NEW a \in Nat, NEW b \in Nat, NEW st,
           IsStage(st, a, b, e), NEW A \in [Places -> Real], NEW x \in Places,
           NEW l, l = Xor(x, st.j)
    PROVE  LET C == Exchanged(A, st)
               larger == rank(A[l]) > rank(A[x])
               smaller == rank(A[l]) < rank(A[x])
           IN  /\ C[x] = IF (x < l) = IsUp(x, st)
                         THEN IF smaller THEN A[l] ELSE A[x]
                         ELSE IF larger THEN A[l] ELSE A[x]
               /\ C[l] = IF (x < l) = IsUp(x, st)
                         THEN IF smaller THEN A[x] ELSE A[l]
                         ELSE IF larger THEN A[x] ELSE A[l]
<1>1. /\ l \in Places /\ l # x /\ Xor(l, st.j) = x /\ x \in Nat /\ l \in Nat
      /\ IsUp(x, st) \in BOOLEAN /\ IsUp(l, st) = IsUp(x, st)
  BY PairIs
<1>2. A[x] \in Real /\ A[l] \in Real
  BY <1>1
<1>3. rank(A[x]) \in 0 .. 2 /\ rank(A[l]) \in 0 .. 2
  BY <1>2, RankIs
<1>4. Exchanged(A, st)[x] = IF (x < l) = IsUp(x, st)
                            THEN IF rank(A[x]) <= rank(A[l]) THEN A[x] ELSE A[l]
                            ELSE IF rank(A[l]) <= rank(A[x]) THEN A[x] ELSE A[l]
  BY DEF Exchanged
<1>5. Exchanged(A, st)[l] = IF (l < x) = IsUp(l, st)
                            THEN IF rank(A[l]) <= rank(A[x]) THEN A[l] ELSE A[x]
                            ELSE IF rank(A[x]) <= rank(A[l]) THEN A[l] ELSE A[x]
  BY <1>1 DEF Exchanged
<1>6. (l < x) = ~(x < l)
  BY <1>1
<1>7. (l < x) = IsUp(l, st) <=> ~((x < l) = IsUp(x, st))
  BY <1>1, <1>6
<1>8. /\ rank(A[x]) <= rank(A[l]) <=> ~(rank(A[l]) < rank(A[x]))
      /\ rank(A[l]) <= rank(A[x]) <=> ~(rank(A[l]) > rank(A[x]))
  BY <1>3
<1>9. QED
  BY <1>4, <1>5, <1>7, <1>8

\* Seen as bits, it is the exchange of the network.
LEMMA ExchangedBits ==
    ASSUME GivenInput, NEW e \in Nat, NEW a \in Nat, NEW b \in Nat, NEW st,
           IsStage(st, a, b, e), NEW A \in [Places -> Real], NEW t \in {1, 2}
    PROVE  Ones(Exchanged(A, st), t) = Exchange(Ones(A, t), a, b, e)
<1> DEFINE C == Exchanged(A, st)
           H == Ones(A, t)
<1>1. Places = 0 .. shifted[e] - 1 /\ st.j = shifted[b]
  BY DEF Places, IsStage
<1>2. ASSUME NEW x \in Places
      PROVE  LET l == Xor(x, st.j) IN
             rank(C[x]) >= t <=>
               IF (x < l) = Up(x, a) THEN x \in H /\ l \in H ELSE x \in H \/ l \in H
  <2> DEFINE l == Xor(x, st.j)
  <2>1. l \in Places /\ IsUp(x, st) = Up(x, a)
    BY PairIs
  <2>2. rank(A[x]) \in 0 .. 2 /\ rank(A[l]) \in 0 .. 2
    BY <2>1, RankIs
  <2>3. C[x] = IF (x < l) = Up(x, a)
               THEN IF rank(A[l]) < rank(A[x]) THEN A[l] ELSE A[x]
               ELSE IF rank(A[l]) > rank(A[x]) THEN A[l] ELSE A[x]
    BY <2>1, ExchangedIs
  <2>4. (x \in H <=> rank(A[x]) >= t) /\ (l \in H <=> rank(A[l]) >= t)
    BY <2>1 DEF Ones
  <2> HIDE DEF C, H, l
  <2>5. rank(C[x]) = IF (x < l) = Up(x, a)
                     THEN IF rank(A[l]) < rank(A[x]) THEN rank(A[l]) ELSE rank(A[x])
                     ELSE IF rank(A[l]) > rank(A[x]) THEN rank(A[l]) ELSE rank(A[x])
    BY <2>3
  <2>6. QED
    BY <2>2, <2>4, <2>5 DEF l
<1>3. QED
  BY <1>1, <1>2 DEF Ones, Exchange

\* No value is lost.
LEMMA ExchangedKeeps ==
    ASSUME GivenInput, NEW e \in Nat, NEW a \in Nat, NEW b \in Nat, NEW st,
           IsStage(st, a, b, e), NEW A \in [Places -> Real], SameValues(A)
    PROVE  Exchanged(A, st) \in [Places -> Real] /\ SameValues(Exchanged(A, st))
<1> DEFINE C == Exchanged(A, st)
           f == [x \in Places |->
                    LET l == Xor(x, st.j) IN
                    IF (x < l) = IsUp(x, st)
                    THEN IF rank(A[l]) < rank(A[x]) THEN l ELSE x
                    ELSE IF rank(A[l]) > rank(A[x]) THEN l ELSE x]
<1>1. ASSUME NEW x \in Places
      PROVE  f[x] \in Places /\ f[f[x]] = x /\ C[x] = A[f[x]]
  <2> DEFINE l == Xor(x, st.j)
             trade == IF (x < l) = IsUp(x, st) THEN rank(A[l]) < rank(A[x])
                                               ELSE rank(A[l]) > rank(A[x])
  <2>1. /\ l \in Places /\ l # x /\ Xor(l, st.j) = x /\ x \in Nat /\ l \in Nat
        /\ IsUp(x, st) \in BOOLEAN /\ IsUp(l, st) = IsUp(x, st)
    BY PairIs
  <2>2. rank(A[x]) \in 0 .. 2 /\ rank(A[l]) \in 0 .. 2
    BY <2>1, RankIs
  <2>3. f[x] = IF trade THEN l ELSE x
    BY DEF f
  <2>4. f[l] = IF (l < x) = IsUp(l, st)
               THEN IF rank(A[x]) < rank(A[l]) THEN x ELSE l
               ELSE IF rank(A[x]) > rank(A[l]) THEN x ELSE l
    BY <2>1 DEF f
  <2>5. (l < x) = ~(x < l)
    BY <2>1
  <2>6. (l < x) = IsUp(l, st) <=> ~((x < l) = IsUp(x, st))
    BY <2>1, <2>5
  <2>7. /\ rank(A[x]) < rank(A[l]) <=> rank(A[l]) > rank(A[x])
        /\ rank(A[x]) > rank(A[l]) <=> rank(A[l]) < rank(A[x])
    BY <2>2
  <2>8. f[l] = IF trade THEN x ELSE l
    BY <2>4, <2>6, <2>7
  <2>9. C[x] = IF trade THEN A[l] ELSE A[x]
    BY <2>1, ExchangedIs
  <2> HIDE DEF f, l, C, trade
  <2>10. QED
    BY <2>1, <2>3, <2>8, <2>9
<1>2. f \in [Places -> Places]
  <2>1. f = [x \in Places |-> f[x]]
    BY DEF f
  <2> HIDE DEF f
  <2>2. QED
    BY <1>1, <2>1
<1> HIDE DEF f
<1>3. C \in [Places -> Real]
  <2>1. C = [x \in Places |-> C[x]]
    BY DEF Exchanged
  <2> HIDE DEF C
  <2>2. ASSUME NEW x \in Places PROVE C[x] \in Real
    BY <1>1
  <2>3. QED
    BY <2>1, <2>2
<1>4. IsFiniteSet(Places)
  BY SizeIs, FiniteBelow DEF Places
<1>5. ASSUME NEW v \in Real PROVE Count(C, v) = Count(A, v)
  <2> HIDE DEF C
  <2>1. Trades(f, Places, A, C)
    BY <1>1, <1>2 DEF Trades
  <2>2. Cardinality(Holders(Places, C, v)) = Cardinality(Holders(Places, A, v))
    BY <1>4, <2>1, TradesKeepCounts
  <2>3. QED
    BY <2>2 DEF Count, Holders
<1>6. SameValues(C)
  BY <1>5 DEF SameValues
<1>7. QED
  BY <1>3, <1>6

\* Before the comparisons of a stage its paddings trade places; where a padding is, that is
\* all that the stage does.
LEMMA SwappedIs ==
    ASSUME GivenInput, NEW e \in Nat, NEW a \in Nat, NEW b \in Nat, NEW st,
           IsStage(st, a, b, e), NEW A \in [Places -> Real], NEW x \in Places,
           NEW l, l = Xor(x, st.j)
    PROVE  LET B == Swapped(A, st) IN
           /\ (B[x] = Padding \/ B[l] = Padding) <=> (A[x] = Padding \/ A[l] = Padding)
           /\ B[x] # Padding /\ B[l] # Padding => B[x] = A[x] /\ B[l] = A[l]
           /\ B[x] = Padding \/ B[l] = Padding => B[x] = Exchanged(A, st)[x]
           /\ B[x] \in Real
<1> DEFINE B == Swapped(A, st)
           i == IF l > x THEN x ELSE l
           m == IF l > x THEN l ELSE x
<1>1. /\ l \in Places /\ l # x /\ Xor(l, st.j) = x /\ x \in Nat /\ l \in Nat
      /\ IsUp(x, st) \in BOOLEAN /\ IsUp(l, st) = IsUp(x, st)
  BY PairIs
<1>2. A[x] \in Real /\ A[l] \in Real
  BY <1>1
<1>3. DOMAIN A = Places
  OBVIOUS
<1>4. B[x] = (IF MustSwap(A, i, st) THEN A[l] ELSE A[x])
  BY <1>3 DEF Swapped
<1>5. B[l] = (IF MustSwap(A, i, st) THEN A[x] ELSE A[l])
  <2>1. B[l] = (IF MustSwap(A, IF x > l THEN l ELSE x, st) THEN A[x] ELSE A[l])
    BY <1>1, <1>3 DEF Swapped
  <2>2. (IF x > l THEN l ELSE x) = i
    BY <1>1
  <2>3. QED
    BY <2>1, <2>2
<1>6. Xor(i, st.j) = m /\ IsUp(i, st) = IsUp(x, st) /\ (i = x <=> x < l)
  BY <1>1
<1>7. MustSwap(A, i, st) <=>
        /\ ~(A[i] = Padding /\ A[m] = Padding)
        /\ \/ A[i] = Padding /\ IsUp(x, st)
           \/ A[m] = Padding /\ ~IsUp(x, st)
  BY <1>6 DEF MustSwap
<1>8. (i = x /\ m = l /\ x < l) \/ (i = l /\ m = x /\ ~(x < l))
  BY <1>1
<1> HIDE DEF B, i, m
<1>9. /\ (B[x] = Padding \/ B[l] = Padding) <=> (A[x] = Padding \/ A[l] = Padding)
      /\ B[x] # Padding /\ B[l] # Padding => B[x] = A[x] /\ B[l] = A[l]
      /\ B[x] \in Real
  BY <1>2, <1>4, <1>5, <1>7, <1>8
<1>10. /\ rank(A[x]) \in 0 .. 2 /\ rank(A[l]) \in 0 .. 2
       /\ rank(A[x]) = 2 <=> A[x] = Padding
       /\ rank(A[l]) = 2 <=> A[l] = Padding
  BY <1>2, RankIs
<1>11. ASSUME B[x] = Padding \/ B[l] = Padding PROVE B[x] = Exchanged(A, st)[x]
  <2>1. Exchanged(A, st)[x] = IF (x < l) = IsUp(x, st)
                              THEN IF rank(A[l]) < rank(A[x]) THEN A[l] ELSE A[x]
                              ELSE IF rank(A[l]) > rank(A[x]) THEN A[l] ELSE A[x]
    BY <1>1, ExchangedIs
  <2>2. A[x] = Padding \/ A[l] = Padding
    BY <1>9, <1>11
  <2>3. /\ A[x] = Padding /\ A[l] # Padding => rank(A[l]) < rank(A[x])
        /\ A[l] = Padding /\ A[x] # Padding => rank(A[x]) < rank(A[l])
        /\ A[x] = Padding /\ A[l] = Padding => A[x] = A[l]
        /\ rank(A[l]) > rank(A[x]) <=> rank(A[x]) < rank(A[l])
        /\ ~(rank(A[l]) < rank(A[x]) /\ rank(A[x]) < rank(A[l]))
    BY <1>10
  <2>4. CASE i = x /\ m = l /\ x < l
    BY <1>1, <1>4, <1>7, <2>1, <2>2, <2>3, <2>4
  <2>5. CASE i = l /\ m = x /\ ~(x < l)
    BY <1>1, <1>4, <1>7, <2>1, <2>2, <2>3, <2>5
  <2>6. QED
    BY <1>8, <2>4, <2>5
<1>12. QED
  BY <1>9, <1>11 DEF B

\* A stage leads to the next one, and the last one to an array in order.
LEMMA StageDone ==
    ASSUME GivenInput, NEW A \in [Places -> Real], NEW st, Reaches(A, st)
    PROVE  LET C == Exchanged(A, st)
               next == After(st, Size)
           IN  (next = Ended /\ InRankOrder(C)) \/ (next # Ended /\ Reaches(C, next))
<1> DEFINE C == Exchanged(A, st)
           next == After(st, Size)
<1>1. PICK e \in Nat, a \in Nat, b \in Nat : IsStage(st, a, b, e) /\ Prepared(A, a, b, e)
  BY DEF Reaches
<1>2. /\ Size = shifted[e] /\ a \in 1 .. e /\ b \in 0 .. a - 1 /\ b < a /\ a <= e /\ b < e
      /\ st.k = shifted[a] /\ st.j = shifted[b] /\ shifted[b] \in Nat \ {0}
  BY <1>1, Powers DEF IsStage
<1>3. ASSUME NEW t \in {1, 2} PROVE Merging(Ones(C, t), a, b, e)
  <2>1. Merging(Ones(A, t), a, b + 1, e)
    BY <1>1 DEF Prepared
  <2>2. Merging(Exchange(Ones(A, t), a, b, e), a, b, e)
    BY <1>2, <2>1, SplitStep
  <2>3. QED
    BY <1>1, <2>2, ExchangedBits
<1>4. ASSUME a < e, NEW x \in Places, 2 * x < Size PROVE C[x] # Padding
  <2> DEFINE l == Xor(x, st.j)
  <2>1. l \in Places /\ x \in Nat /\ l \in Nat
    BY <1>1, PairIs
  <2>2. e - 1 \in Nat /\ e - 1 + 1 = e /\ b < e - 1 /\ b < e
    BY <1>2, <1>4
  <2>3. x \in 0 .. shifted[e] - 1
    BY <1>2 DEF Places
  <2>4. l \div shifted[e - 1] = x \div shifted[e - 1]
    BY <1>2, <2>2, <2>3, PartnerSameWay
  <2>5. Size = 2 * shifted[e - 1] /\ shifted[e - 1] \in Nat \ {0}
    BY <1>2, <2>2, Powers
  <2>6. x < shifted[e - 1]
    BY <1>4, <2>1, <2>5
  <2>7. x \div shifted[e - 1] = 0
    BY <2>1, <2>5, <2>6, DivZero
  <2>8. l < shifted[e - 1]
    BY <2>1, <2>4, <2>5, <2>7, DivZero
  <2>9. 2 * l < Size
    BY <2>1, <2>5, <2>8
  <2>10. A[x] # Padding /\ A[l] # Padding
    BY <1>1, <1>4, <2>1, <2>9 DEF Prepared
  <2>11. C[x] = A[x] \/ C[x] = A[l]
    BY <1>1, ExchangedIs
  <2>12. QED
    BY <2>10, <2>11
<1>5. CASE b # 0
  <2>1. b - 1 \in Nat /\ b - 1 + 1 = b
    BY <1>5
  <2>2. shifted[b] = 2 * shifted[b - 1] /\ shifted[b - 1] \in Nat \ {0}
    BY <2>1, Powers
  <2>3. next = [k |-> shifted[a], j |-> shifted[b - 1]]
    BY <1>2, <2>2 DEF After
  <2>4. next # Ended
    BY <2>2, <2>3 DEF Ended
  <2>5. IsStage(next, a, b - 1, e)
    BY <1>2, <1>5, <2>1, <2>3 DEF IsStage
  <2>6. b - 1 + 1 # e
    BY <1>2
  <2>7. Prepared(C, a, b - 1, e)
    BY <1>3, <1>4, <2>1, <2>6 DEF Prepared
  <2>8. QED
    BY <2>1, <2>4, <2>5, <2>7 DEF Reaches
<1>6. CASE b = 0 /\ a < e
  <2>1. shifted[b] = 1 /\ shifted[a + 1] = 2 * shifted[a] /\ a + 1 \in Nat /\ a + 1 <= e
    BY <1>2, <1>6, Powers
  <2>2. shifted[a + 1] <= shifted[e]
    BY <1>2, <2>1, PowersDiffer
  <2>3. next = [k |-> shifted[a + 1], j |-> shifted[a]]
    BY <1>2, <2>1, <2>2 DEF After
  <2>4. next # Ended
    <3>1. shifted[a] # 0
      BY Powers
    <3>2. QED
      BY <2>3, <3>1 DEF Ended
  <2>5. IsStage(next, a + 1, a, e)
    BY <1>2, <2>1, <2>3 DEF IsStage
  <2>6. ASSUME NEW t \in {1, 2} PROVE Merging(Ones(C, t), a + 1, a + 1, e)
    BY <1>2, <1>3, <1>6, MergeStep
  <2>7. Prepared(C, a + 1, a, e)
    BY <1>4, <1>6, <2>6 DEF Prepared
  <2>8. QED
    BY <2>1, <2>4, <2>5, <2>7 DEF Reaches
<1>7. CASE b = 0 /\ a = e
  <2>1. /\ shifted[b] = 1 /\ shifted[a] = Size /\ shifted[a] \in Nat \ {0}
        /\ ~(2 * shifted[a] <= Size)
    BY <1>2, <1>7, Powers
  <2>2. next = Ended
    BY <1>2, <2>1 DEF After
  <2>3. ASSUME NEW x \in Places, NEW y \in Places, x < y PROVE rank(C[x]) <= rank(C[y])
    <3>1. C[x] \in Real /\ C[y] \in Real
      <4>1. (C[x] = A[x] \/ C[x] = A[Xor(x, st.j)]) /\ (C[y] = A[y] \/ C[y] = A[Xor(y, st.j)])
        BY <1>1, ExchangedIs
      <4>2. Xor(x, st.j) \in Places /\ Xor(y, st.j) \in Places
        BY <1>1, PairIs
      <4>3. QED
        BY <4>1, <4>2
    <3>2. rank(C[x]) \in 0 .. 2 /\ rank(C[y]) \in 0 .. 2
      BY <3>1, RankIs
    <3>3. ASSUME NEW t \in {1, 2}, rank(C[x]) >= t PROVE rank(C[y]) >= t
      <4>1. x \in Ones(C, t)
        BY <3>3 DEF Ones
      <4>2. Merging(Ones(C, t), e, 0, e)
        BY <1>3, <1>7
      <4>3. x \in 0 .. shifted[e] - 1 /\ y \in 0 .. shifted[e] - 1
        BY <1>2 DEF Places
      <4>4. y \in Ones(C, t)
        BY <2>3, <4>1, <4>2, <4>3, NetworkEnds
      <4>5. QED
        BY <4>4 DEF Ones
    <3> HIDE DEF C
    <3>4. QED
      BY <3>2, <3>3
  <2>4. QED
    BY <2>2, <2>3 DEF InRankOrder
<1>8. QED
  BY <1>2, <1>5, <1>6, <1>7

\* The network starts from the padded input, or has nothing to do.
LEMMA NetworkBegins ==
    ASSUME GivenInput
    PROVE  LET first == FirstStage(Size) IN
           (first = Ended /\ InRankOrder(Padded)) \/ (first # Ended /\ Reaches(Padded, first))
<1>1. PICK n \in Nat \ {0} :
        /\ DOMAIN input = 0 .. n - 1 /\ Cardinality(DOMAIN input) = n
        /\ input \in [0 .. n - 1 -> Values]
        /\ n <= Size /\ Size < 2 * n /\ Size \in Nat \ {0}
        /\ \E e \in Nat : Size = shifted[e]
  BY SizeIs
<1>2. CASE Size >= 2
  <2>1. PICK e \in Nat : Size = shifted[e]
    BY <1>1
  <2>2. shifted[0] = 1 /\ shifted[1] = 2
    <3>1. 0 + 1 = 1
      OBVIOUS
    <3>2. QED
      BY <3>1, Powers
  <2>3. e # 0
    BY <1>2, <2>1, <2>2
  <2>4. FirstStage(Size) = [k |-> shifted[1], j |-> shifted[0]]
    BY <1>2, <2>2 DEF FirstStage
  <2>5. FirstStage(Size) # Ended
    BY <2>2, <2>4 DEF Ended
  <2>6. IsStage(FirstStage(Size), 1, 0, e)
    BY <2>1, <2>3, <2>4 DEF IsStage
  <2>7. ASSUME NEW x \in Places, 2 * x < Size PROVE Padded[x] # Padding
    <3>1. x < n /\ x \in 0 .. n - 1
      BY <1>1, <2>7 DEF Places
    <3>2. Padded[x] = input[x] /\ input[x] \in Values
      BY <1>1, <3>1 DEF Padded
    <3>3. QED
      BY <3>2 DEF Values, Padding
  <2>8. Prepared(Padded, 1, 0, e)
    <3>1. 0 + 1 = 1
      OBVIOUS
    <3>2. \A t \in {1, 2} : Merging(Ones(Padded, t), 1, 0 + 1, e)
      BY <3>1, NetworkStarts
    <3>3. QED
      BY <2>7, <3>2 DEF Prepared
  <2>9. QED
    BY <2>5, <2>6, <2>8 DEF Reaches
<1>3. CASE ~(Size >= 2)
  <2>1. Size = 1
    BY <1>1, <1>3
  <2>2. InRankOrder(Padded)
    BY <2>1 DEF InRankOrder, Places
  <2>3. QED
    BY <1>3, <2>2 DEF FirstStage
<1>4. QED
  BY <1>2, <1>3

\* Of the paddings there are as many as at first: less than half of the places.
LEMMA PaddingsAre ==
    ASSUME GivenInput, NEW A \in [Places -> Real], SameValues(A)
    PROVE  LET n == Cardinality(DOMAIN input) IN
           /\ n \in Nat /\ Size \in Nat /\ n <= Size /\ Size < 2 * n
           /\ IsFiniteSet(Holders(Places, A, Padding))
           /\ Cardinality(Holders(Places, A, Padding)) = Size - n
<1>1. PICK n \in Nat \ {0} :
        /\ DOMAIN input = 0 .. n - 1 /\ Cardinality(DOMAIN input) = n
        /\ input \in [0 .. n - 1 -> Values]
        /\ n <= Size /\ Size < 2 * n /\ Size \in Nat \ {0}
  BY SizeIs
<1>2. ASSUME NEW x \in Places PROVE Padded[x] = Padding <=> n <= x
  <2>1. x \in Nat
    BY <1>1 DEF Places
  <2>2. CASE x < n
    <3>1. Padded[x] = input[x] /\ input[x] \in Values
      BY <1>1, <2>1, <2>2 DEF Padded
    <3>2. QED
      BY <2>1, <2>2, <3>1 DEF Values, Padding
  <2>3. CASE ~(x < n)
    BY <1>1, <2>1, <2>3 DEF Padded
  <2>4. QED
    BY <2>2, <2>3
<1>3. Holders(Places, Padded, Padding) = n .. Size - 1
  <2>1. \A x \in n .. Size - 1 : x \in Places
    BY <1>1 DEF Places
  <2>2. \A x \in Places : x \in n .. Size - 1 <=> n <= x
    BY <1>1 DEF Places
  <2>3. QED
    BY <1>2, <2>1, <2>2 DEF Holders
<1>4. Cardinality(n .. Size - 1) = Size - n
  <2>1. n \in Int /\ Size - 1 \in Int /\ (n > Size - 1 => Size = n)
    BY <1>1
  <2>2. Cardinality(n .. Size - 1) = IF n > Size - 1 THEN 0 ELSE Size - 1 - n + 1
    BY <2>1, FS_Interval
  <2>3. QED
    BY <1>1, <2>1, <2>2
<1>5. Count(A, Padding) = Count(Padded, Padding)
  BY DEF SameValues, Real
<1>6. IsFiniteSet(Holders(Places, A, Padding))
  <2>1. Holders(Places, A, Padding) \subseteq 0 .. Size - 1
    BY DEF Holders, Places
  <2>2. QED
    BY <1>1, <2>1, FiniteBelow
<1>7. QED
  BY <1>1, <1>3, <1>4, <1>5, <1>6 DEF Count

\* The first place holds a secret at every stage.
LEMMA FirstIsSecret ==
    ASSUME GivenInput, NEW A \in [Places -> Real], SameValues(A), NEW st, Reaches(A, st)
    PROVE  0 \in Places /\ A[0] # Padding
<1> DEFINE n == Cardinality(DOMAIN input)
<1>1. PICK e \in Nat, a \in Nat, b \in Nat : IsStage(st, a, b, e) /\ Prepared(A, a, b, e)
  BY DEF Reaches
<1>2. /\ Size = shifted[e] /\ a \in 1 .. e /\ b \in 0 .. a - 1 /\ b + 1 \in Nat
      /\ Size \in Nat \ {0}
  BY <1>1, Powers DEF IsStage
<1>3. 0 \in Places /\ 2 * 0 < Size
  BY <1>2 DEF Places
<1>4. CASE a < e \/ b + 1 = e
  BY <1>1, <1>3, <1>4 DEF Prepared
<1>5. CASE a = e /\ b + 1 < e
  <2>1. SUFFICES ASSUME A[0] = Padding PROVE FALSE
    BY <1>3
  <2> DEFINE h == shifted[e - 1]
  <2>2. e - 1 \in Nat /\ e - 1 + 1 = e /\ b + 1 <= e - 1
    BY <1>2, <1>5
  <2>3. Size = 2 * h /\ h \in Nat \ {0}
    BY <1>2, <2>2, Powers
  <2>4. shifted[b + 1] <= h /\ shifted[b + 1] \in Nat \ {0}
    BY <1>2, <2>2, Powers, PowersDiffer
  <2>5. 0 \in Ones(A, 2)
    BY <1>3, <2>1 DEF Ones, rank
  <2>6. Merging(Ones(A, 2), e, b + 1, e)
    BY <1>1, <1>5 DEF Prepared
  <2> HIDE DEF h
  <2>7. ASSUME NEW y \in h .. Size - 1 PROVE y \in Holders(Places, A, Padding)
    <3>1. y \in Nat /\ y \in Places /\ y < Size /\ h <= y
      BY <1>2, <2>3 DEF Places
    <3>2. 0 \div Size = 0 /\ y \div Size = 0
      BY <1>2, <3>1, DivZero
    <3>3. 0 \div shifted[b + 1] = 0 /\ y \div shifted[b + 1] # 0 /\ y \div shifted[b + 1] \in Nat
      <4>1. 0 \div shifted[b + 1] = 0
        BY <2>4, DivZero
      <4>2. ~(y < shifted[b + 1])
        BY <2>3, <2>4, <3>1
      <4>3. QED
        BY <2>4, <3>1, <4>1, <4>2, DivZero, DivIs
    <3>4. 0 \div shifted[b + 1] < y \div shifted[b + 1]
      BY <3>3
    <3>5. Up(0, e)
      BY <1>2, <3>2 DEF Up
    <3>6. 0 \in 0 .. shifted[e] - 1 /\ y \in 0 .. shifted[e] - 1
      BY <1>2, <1>3, <3>1 DEF Places
    <3>7. y \in Ones(A, 2)
      BY <1>2, <2>5, <2>6, <3>2, <3>4, <3>5, <3>6 DEF Merging, Graded
    <3>8. rank(A[y]) >= 2 /\ A[y] \in Real
      BY <3>1, <3>7 DEF Ones
    <3>9. A[y] = Padding
      BY <3>8, RankIs
    <3>10. QED
      BY <3>1, <3>9 DEF Holders
  <2>8. /\ n \in Nat /\ Size < 2 * n
        /\ IsFiniteSet(Holders(Places, A, Padding))
        /\ Cardinality(Holders(Places, A, Padding)) = Size - n
    BY PaddingsAre
  <2>9. Cardinality(h .. Size - 1) = h
    <3>1. h \in Int /\ Size - 1 \in Int /\ ~(h > Size - 1)
      BY <2>3
    <3>2. Cardinality(h .. Size - 1) = Size - 1 - h + 1
      BY <3>1, FS_Interval
    <3>3. QED
      BY <2>3, <3>2
  <2>10. Cardinality(h .. Size - 1) <= Cardinality(Holders(Places, A, Padding))
    <3>1. h .. Size - 1 \in SUBSET Holders(Places, A, Padding)
      BY <2>7
    <3>2. QED
      BY <2>8, <3>1, FS_Subset
  <2> HIDE DEF n
  <2>11. QED
    BY <1>2, <2>3, <2>8, <2>9, <2>10
<1>6. QED
  BY <1>2, <1>3, <1>4, <1>5

\* Every stage has a pair of secrets to compare, and its first place holds a secret.
LEMMA StageIsReal ==
    ASSUME GivenInput, NEW A \in [Places -> Real], SameValues(A), NEW st, Reaches(A, st),
           NEW B, B = Swapped(A, st)
    PROVE  /\ B[0] # Padding
           /\ \E x \in Places :
                 LET l == Xor(x, st.j) IN l > x /\ B[x] # Padding /\ B[l] # Padding
<1> DEFINE n == Cardinality(DOMAIN input)
           Pads == Holders(Places, A, Padding)
<1>1. PICK e \in Nat, a \in Nat, b \in Nat : IsStage(st, a, b, e) /\ Prepared(A, a, b, e)
  BY DEF Reaches
<1>2. 0 \in Places /\ A[0] # Padding
  BY FirstIsSecret
<1>3. B[0] # Padding
  <2> DEFINE l == Xor(0, st.j)
  <2>1. SUFFICES ASSUME B[0] = Padding PROVE FALSE
    OBVIOUS
  <2>2. l \in Places /\ l # 0 /\ l \in Nat
    BY <1>1, <1>2, PairIs
  <2>3. IsUp(0, st)
    <3>1. st.k \in Nat \ {0}
      BY <1>1, Powers DEF IsStage
    <3>2. 0 \div st.k = 0
      BY <3>1
    <3>3. QED
      BY <3>2 DEF IsUp
  <2>4. B[0] = Exchanged(A, st)[0]
    BY <1>1, <1>2, <2>1, SwappedIs
  <2>5. 0 < l
    BY <2>2
  <2>6. (0 < l) = IsUp(0, st)
    BY <2>3, <2>5 DEF IsUp
  <2>7. B[0] = IF rank(A[l]) < rank(A[0]) THEN A[l] ELSE A[0]
    BY <1>1, <1>2, <2>4, <2>6, ExchangedIs
  <2>8. A[l] \in Real /\ A[0] \in Real
    BY <1>2, <2>2
  <2>9. /\ rank(A[l]) \in 0 .. 2 /\ rank(A[0]) \in 0 .. 2
        /\ rank(A[l]) = 2 <=> A[l] = Padding
    BY <2>8, RankIs
  <2>10. rank(A[l]) < rank(A[0]) => A[l] # Padding
    BY <2>9
  <2>11. QED
    BY <1>2, <2>1, <2>7, <2>10
<1>4. \E x \in Places : A[x] # Padding /\ A[Xor(x, st.j)] # Padding
  <2>1. SUFFICES ASSUME \A x \in Places : A[x] = Padding \/ A[Xor(x, st.j)] = Padding
                 PROVE  FALSE
    OBVIOUS
  <2> DEFINE Rest == Places \ Pads
             f == [x \in Rest |-> Xor(x, st.j)]
  <2>2. ASSUME NEW x \in Rest PROVE Xor(x, st.j) \in Pads /\ Xor(Xor(x, st.j), st.j) = x
    <3>1. x \in Places /\ A[x] # Padding
      BY DEF Holders
    <3>2. Xor(x, st.j) \in Places /\ Xor(Xor(x, st.j), st.j) = x
      BY <1>1, <3>1, PairIs
    <3>3. QED
      BY <2>1, <3>1, <3>2 DEF Holders
  <2>3. f \in Injection(Rest, Pads)
    <3> HIDE DEF Rest, Pads
    <3>1. f \in [Rest -> Pads] /\ DOMAIN f = Rest
      BY <2>2
    <3>2. ASSUME NEW x \in Rest, NEW y \in Rest, f[x] = f[y] PROVE x = y
      <4>1. Xor(x, st.j) = Xor(y, st.j)
        BY <3>2
      <4>2. QED
        BY <2>2, <4>1
    <3> HIDE DEF f
    <3>3. QED
      BY <3>1, <3>2 DEF Injection, IsInjective
  <2>4. n \in Nat /\ Size < 2 * n /\ Size \in Nat /\ IsFiniteSet(Pads)
        /\ Cardinality(Pads) = Size - n
    BY PaddingsAre
  <2>5. Cardinality(Rest) <= Cardinality(Pads)
    <3> HIDE DEF f, Rest, Pads
    <3>1. QED
      BY <2>3, <2>4, FS_Injection
  <2>6. IsFiniteSet(Places) /\ Cardinality(Places) = Size
    <3>1. 0 \in Int /\ Size - 1 \in Int /\ Size - 1 - 0 + 1 = Size /\ (0 > Size - 1 => Size = 0)
      BY <2>4
    <3>2. QED
      BY <2>4, <3>1, FS_Interval DEF Places
  <2>7. Cardinality(Rest) = Size - Cardinality(Pads)
    <3>1. Places \cap Pads = Pads
      BY DEF Holders
    <3> HIDE DEF Pads
    <3>2. Cardinality(Places \ Pads) = Cardinality(Places) - Cardinality(Places \cap Pads)
      BY <2>6, FS_Difference
    <3>3. QED
      BY <2>6, <3>1, <3>2
  <2> HIDE DEF n, Rest, Pads
  <2>8. QED
    BY <2>4, <2>5, <2>7
<1>5. PICK x \in Places : A[x] # Padding /\ A[Xor(x, st.j)] # Padding
  BY <1>4
<1> DEFINE l == Xor(x, st.j)
<1>6. /\ l \in Places /\ l # x /\ Xor(l, st.j) = x /\ x \in Nat /\ l \in Nat
  BY <1>1, PairIs
<1>7. B[x] # Padding /\ B[l] # Padding
  BY <1>1, <1>5, SwappedIs
<1>8. CASE l > x
  BY <1>3, <1>7, <1>8
<1>9. CASE ~(l > x)
  <2>1. x > l
    BY <1>6, <1>9
  <2>2. QED
    BY <1>3, <1>6, <1>7, <2>1
<1>10. QED
  BY <1>8, <1>9

\* An array in order has its paddings at the end.
LEMMA PaddingsLast ==
    ASSUME GivenInput, NEW A \in [Places -> Real], SameValues(A), InRankOrder(A),
           NEW x \in Places
    PROVE  A[x] = Padding <=> Cardinality(DOMAIN input) <= x
<1> DEFINE n == Cardinality(DOMAIN input)
           Pads == Holders(Places, A, Padding)
<1>1. n \in Nat /\ Size \in Nat /\ n <= Size /\ IsFiniteSet(Pads) /\ Cardinality(Pads) = Size - n
  BY PaddingsAre
<1>2. x \in Nat /\ x < Size
  BY <1>1 DEF Places
<1>3. ASSUME NEW y \in Places, NEW z \in Places, y < z, A[y] = Padding PROVE A[z] = Padding
  <2>1. A[y] \in Real /\ A[z] \in Real
    OBVIOUS
  <2>2. rank(A[y]) <= rank(A[z])
    BY <1>3 DEF InRankOrder
  <2>3. rank(A[y]) \in 0 .. 2 /\ rank(A[z]) \in 0 .. 2 /\ rank(A[y]) = 2
    BY <1>3, <2>1, RankIs
  <2>4. rank(A[z]) = 2
    BY <2>2, <2>3
  <2>5. QED
    BY <2>1, <2>4, RankIs
<1> HIDE DEF n
<1>4. ASSUME A[x] = Padding, x < n PROVE FALSE
  <2>1. ASSUME NEW y \in x .. Size - 1 PROVE y \in Pads
    <3>1. y \in Places /\ (y = x \/ x < y)
      BY <1>1, <1>2 DEF Places
    <3>2. A[y] = Padding
      BY <1>3, <1>4, <3>1
    <3>3. QED
      BY <3>1, <3>2 DEF Holders
  <2> HIDE DEF Pads
  <2>2. Cardinality(x .. Size - 1) <= Cardinality(Pads)
    BY <1>1, <2>1, FS_Subset
  <2>3. Cardinality(x .. Size - 1) = Size - x
    <3>1. x \in Int /\ Size - 1 \in Int /\ ~(x > Size - 1)
      BY <1>1, <1>2
    <3>2. Cardinality(x .. Size - 1) = Size - 1 - x + 1
      BY <3>1, FS_Interval
    <3>3. QED
      BY <1>1, <1>2, <3>2
  <2>4. QED
    BY <1>1, <1>2, <1>4, <2>2, <2>3
<1>5. ASSUME A[x] # Padding, n <= x PROVE FALSE
  <2>1. ASSUME NEW y \in Pads PROVE y \in x + 1 .. Size - 1
    <3>1. y \in Places /\ A[y] = Padding /\ y \in Nat /\ y < Size
      BY <1>1 DEF Holders, Places
    <3>2. ~(y < x) /\ y # x
      BY <1>3, <1>5, <3>1
    <3>3. QED
      BY <1>1, <1>2, <3>1, <3>2
  <2> HIDE DEF Pads
  <2>2. /\ IsFiniteSet(x + 1 .. Size - 1)
        /\ Cardinality(x + 1 .. Size - 1) = Size - 1 - x
    <3>1. x + 1 \in Int /\ Size - 1 \in Int /\ (x + 1 > Size - 1 => Size - 1 - x = 0)
      BY <1>1, <1>2
    <3>2. /\ IsFiniteSet(x + 1 .. Size - 1)
          /\ Cardinality(x + 1 .. Size - 1)
               = IF x + 1 > Size - 1 THEN 0 ELSE Size - 1 - (x + 1) + 1
      BY <3>1, FS_Interval
    <3>3. QED
      BY <1>1, <1>2, <3>1, <3>2
  <2>3. Cardinality(Pads) <= Cardinality(x + 1 .. Size - 1)
    BY <2>1, <2>2, FS_Subset
  <2>4. QED
    BY <1>1, <1>2, <1>5, <2>2, <2>3
<1>6. QED
  BY <1>1, <1>2, <1>4, <1>5 DEF n

\* What is left of an array in order without its paddings is the input in the order asked for.
LEMMA OutputIs ==
    ASSUME GivenInput, NEW A \in [Places -> Real], SameValues(A), InRankOrder(A)
    PROVE  LET n == Cardinality(DOMAIN input)
               out == [p \in 0 .. n - 1 |-> A[p]]
           IN  /\ \A p \in 1 .. n - 1 : IF asc THEN out[p - 1] <= out[p] ELSE out[p - 1] >= out[p]
               /\ \A v \in Values : Cardinality({p \in 0 .. n - 1 : out[p] = v})
                                      = Cardinality({p \in 0 .. n - 1 : input[p] = v})
<1> DEFINE n == Cardinality(DOMAIN input)
           out == [p \in 0 .. n - 1 |-> A[p]]
<1>1. n \in Nat /\ Size \in Nat /\ n <= Size
  BY PaddingsAre
<1> HIDE DEF n
<1>2. ASSUME NEW p \in 0 .. n - 1
      PROVE  p \in Places /\ out[p] = A[p] /\ A[p] \in Values /\ Padded[p] = input[p]
  <2>1. p \in Places /\ p \in Nat /\ p < n
    BY <1>1 DEF Places
  <2>2. A[p] # Padding
    BY <1>1, <2>1, PaddingsLast DEF n
  <2>3. A[p] \in Real
    BY <2>1
  <2>4. QED
    BY <2>1, <2>2, <2>3 DEF Real, Padded, n
<1>3. ASSUME NEW p \in Places PROVE p \in 0 .. n - 1 <=> A[p] # Padding
  <2>1. A[p] = Padding <=> n <= p
    BY PaddingsLast DEF n
  <2>2. QED
    BY <1>1, <2>1 DEF Places
<1>4. ASSUME NEW p \in Places PROVE p \in 0 .. n - 1 <=> Padded[p] # Padding
  <2>1. CASE p \in 0 .. n - 1
    <3>1. Padded[p] = input[p] /\ input[p] \in Values
      <4>1. PICK m \in Nat \ {0} : Cardinality(DOMAIN input) = m /\ input \in [0 .. m - 1 -> Values]
        BY SizeIs
      <4>2. QED
        BY <1>2, <2>1, <4>1 DEF n
    <3>2. QED
      BY <2>1, <3>1 DEF Values, Padding
  <2>2. CASE p \notin 0 .. n - 1
    <3>1. p \in Nat /\ ~(p < n)
      BY <1>1, <2>2 DEF Places
    <3>2. Padded[p] = Padding
      BY <3>1 DEF Padded, n
    <3>3. QED
      BY <2>2, <3>2
  <2>3. QED
    BY <2>1, <2>2
<1>5. ASSUME NEW p \in 1 .. n - 1
      PROVE  IF asc THEN out[p - 1] <= out[p] ELSE out[p - 1] >= out[p]
  <2>1. p - 1 \in 0 .. n - 1 /\ p \in 0 .. n - 1 /\ p - 1 < p
    BY <1>1
  <2>2. /\ out[p - 1] = A[p - 1] /\ A[p - 1] \in Values /\ p - 1 \in Places
        /\ out[p] = A[p] /\ A[p] \in Values /\ p \in Places
    BY <1>2, <2>1
  <2>3. rank(A[p - 1]) <= rank(A[p])
    BY <2>1, <2>2 DEF InRankOrder
  <2>4. QED
    BY <2>2, <2>3 DEF GivenInput, rank, Values, Padding
<1>6. ASSUME NEW v \in Values
      PROVE  Cardinality({p \in 0 .. n - 1 : out[p] = v})
               = Cardinality({p \in 0 .. n - 1 : input[p] = v})
  <2>1. v # Padding /\ v \in Real
    BY DEF Values, Padding, Real
  <2>2. {p \in 0 .. n - 1 : out[p] = v} = Holders(Places, A, v)
    <3>1. ASSUME NEW p \in 0 .. n - 1, out[p] = v PROVE p \in Holders(Places, A, v)
      BY <1>2, <3>1 DEF Holders
    <3>2. ASSUME NEW p \in Holders(Places, A, v) PROVE p \in 0 .. n - 1 /\ out[p] = v
      BY <1>2, <1>3, <2>1 DEF Holders
    <3> HIDE DEF out
    <3>3. QED
      BY <3>1, <3>2
  <2>3. {p \in 0 .. n - 1 : input[p] = v} = Holders(Places, Padded, v)
    <3>1. ASSUME NEW p \in 0 .. n - 1, input[p] = v PROVE p \in Holders(Places, Padded, v)
      BY <1>2, <3>1 DEF Holders
    <3>2. ASSUME NEW p \in Holders(Places, Padded, v) PROVE p \in 0 .. n - 1 /\ input[p] = v
      BY <1>2, <1>4, <2>1 DEF Holders
    <3>3. QED
      BY <3>1, <3>2
  <2>4. QED
    BY <2>1, <2>2, <2>3 DEF SameValues, Count
<1>7. QED
  BY <1>5, <1>6 DEF n

-----------------------------------------------------------------------------
(* The comparisons of a stage, and its batches *)

\* The places whose secrets a stage compares with a later one, and what it compares.
Compared(B, st) ==
    {i \in Places : LET l == Xor(i, st.j) IN l > i /\ B[i] # Padding /\ B[l] # Padding}
PairAt(B, st, i) ==
    LET l == Xor(i, st.j) IN [i |-> i, l |-> l, x |-> B[i], y |-> B[l], up |-> Wanted(i, st)]

\* What a comparison finds, and what becomes of its pair.
Keeps(p) == (p.x < p.y) = p.up
Turned(p) ==
    [i |-> p.i, l |-> p.l,
     first |-> IF Keeps(p) THEN p.x ELSE p.y, second |-> IF Keeps(p) THEN p.y ELSE p.x]

\* The results of a batch, computed from clean operands and triples.
RightConds(s, b) ==
    [c \in DOMAIN BatchOf(s, b) |-> IF Keeps(BatchOf(s, b)[c]) THEN 1 ELSE 0]
RightResults(s, b) == [c \in DOMAIN BatchOf(s, b) |-> Turned(BatchOf(s, b)[c])]

\* Every pair of secrets is compared, and nothing else is.
LEMMA ComparisonsAre ==
    ASSUME GivenInput, NEW e \in Nat, NEW a \in Nat, NEW b \in Nat, NEW st,
           IsStage(st, a, b, e), NEW A \in [Places -> Real], NEW B, B = Swapped(A, st),
           NEW P, P = Comparisons(B, st)
    PROVE  /\ P \in Seq({PairAt(B, st, i) : i \in Compared(B, st)})
           /\ \A i \in Compared(B, st) : \E c \in 1 .. Len(P) : P[c] = PairAt(B, st, i)
<1> DEFINE S == Compared(B, st)
           f == InOrder(S)
           n == Cardinality(S)
<1>1. DOMAIN B = Places
  BY DEF Swapped
<1>2. Size \in Nat
  BY SizeIs
<1>3. S \subseteq 0 .. Size - 1
  BY DEF Compared, Places
<1>4. n \in Nat /\ f \in [1 .. n -> S] /\ \A i \in S : \E c \in 1 .. n : f[c] = i
  <2> HIDE DEF S
  <2>1. QED
    BY <1>2, <1>3, InOrderIs
<1>5. P = [c \in 1 .. n |-> PairAt(B, st, f[c])]
  BY <1>1, Zenon DEF Comparisons, PairAt, Compared
<1> HIDE DEF S, f, n
<1>6. Len(P) = n /\ DOMAIN P = 1 .. n
  BY <1>4, <1>5
<1>7. P \in Seq({PairAt(B, st, i) : i \in S})
  <2>1. \A c \in 1 .. n : PairAt(B, st, f[c]) \in {PairAt(B, st, i) : i \in S}
    BY <1>4
  <2>2. P \in [1 .. n -> {PairAt(B, st, i) : i \in S}]
    BY <1>5, <2>1
  <2>3. QED
    BY <1>4, <2>2
<1>8. ASSUME NEW i \in S PROVE \E c \in 1 .. Len(P) : P[c] = PairAt(B, st, i)
  <2>1. PICK c \in 1 .. n : f[c] = i
    BY <1>4
  <2>2. P[c] = PairAt(B, st, i)
    BY <1>5, <2>1
  <2>3. QED
    BY <1>6, <2>2
<1>9. QED
  BY <1>7, <1>8 DEF S

\* The lesser one of two numbers.
LEMMA MinOfTwo ==
    ASSUME NEW p \in Nat, NEW q \in Nat
    PROVE  Min({p, q}) = IF p <= q THEN p ELSE q
<1> DEFINE m == IF p <= q THEN p ELSE q
<1>1. Min({p, q}) = CHOOSE x \in {p, q} : \A y \in {p, q} : x =< y
  BY Zenon DEF Min
<1>2. m \in {p, q} /\ \A y \in {p, q} : m =< y
  OBVIOUS
<1>3. ASSUME NEW x \in {p, q}, \A y \in {p, q} : x =< y PROVE x = m
  BY <1>3
<1>4. QED
  BY <1>1, <1>2, <1>3

\* The batch in which item c is, of items of which sz make a batch.
LEMMA BatchFor ==
    ASSUME NEW n \in Nat, NEW sz \in Nat \ {0}, NEW d \in 1 .. n
    PROVE  \E b \in 1 .. ((n + sz - 1) \div sz) : (b - 1) * sz < d /\ d <= b * sz
<1> DEFINE q == (d - 1) \div sz
           r == (d - 1) % sz
<1>1. d - 1 = sz * q + r /\ q \in Nat /\ r \in 0 .. sz - 1
  OBVIOUS
<1>2. q + 1 <= (n + sz - 1) \div sz
  <2>1. d - 1 + sz \in Nat /\ n + sz - 1 \in Nat /\ d - 1 + sz <= n + sz - 1
    OBVIOUS
  <2>2. (d - 1 + sz) \div sz <= (n + sz - 1) \div sz
    BY <2>1, DivMonotone
  <2>3. d - 1 + sz = sz * (q + 1) + r
    BY <1>1
  <2>4. (sz * (q + 1) + r) \div sz = q + 1
    <3>1. q + 1 \in Nat
      BY <1>1
    <3> HIDE DEF q, r
    <3>2. QED
      BY <1>1, <3>1, DivUnique
  <2>5. QED
    BY <2>2, <2>3, <2>4
<1>3. (n + sz - 1) \div sz \in Nat
  OBVIOUS
<1>4. (q + 1 - 1) * sz < d /\ d <= (q + 1) * sz
  <2> HIDE DEF q, r
  <2>1. q * sz = sz * q /\ (q + 1) * sz = sz * q + sz
    BY <1>1
  <2>2. QED
    BY <1>1, <2>1
<1> HIDE DEF q, r
<1>5. QED
  BY <1>1, <1>2, <1>3, <1>4

\* The batches of a stage hold its comparisons: all of them, and no others.
LEMMA BatchesAre ==
    ASSUME NEW s, NEW T, pairs[s] \in Seq(T), pairs[s] # <<>>, batchSize \in Nat
    PROVE  /\ NumBatches(s) \in Nat \ {0}
           /\ \A b \in 1 .. NumBatches(s) : BatchOf(s, b) \in Seq(T)
           /\ \A d \in 1 .. Len(pairs[s]) : \E b \in 1 .. NumBatches(s) :
                 \E c \in DOMAIN BatchOf(s, b) : BatchOf(s, b)[c] = pairs[s][d]
<1> DEFINE P == pairs[s]
           n == Len(P)
           sz == batchSize
<1>1. n \in Nat \ {0} /\ DOMAIN P = 1 .. n
  OBVIOUS
<1>2. CASE batchSize = 0
  <2>1. NumBatches(s) = 1 /\ \A b : BatchOf(s, b) = P
    BY <1>2 DEF NumBatches, BatchOf, InOneBatch
  <2>2. 1 \in 1 .. NumBatches(s)
    BY <2>1
  <2>3. \A b \in 1 .. NumBatches(s) : BatchOf(s, b) \in Seq(T)
    BY <2>1
  <2>4. ASSUME NEW d \in 1 .. n
        PROVE  \E b \in 1 .. NumBatches(s) :
                  \E c \in DOMAIN BatchOf(s, b) : BatchOf(s, b)[c] = P[d]
    <3>1. d \in DOMAIN BatchOf(s, 1) /\ BatchOf(s, 1)[d] = P[d]
      BY <1>1, <2>1
    <3>2. QED
      BY <2>2, <3>1
  <2>5. NumBatches(s) \in Nat \ {0}
    BY <2>1
  <2>6. QED
    BY <2>3, <2>4, <2>5
<1>3. CASE batchSize # 0
  <2> DEFINE N == (n + sz - 1) \div sz
  <2>1. sz \in Nat \ {0}
    BY <1>3
  <2>2. NumBatches(s) = N
    BY <1>3 DEF NumBatches, InOneBatch
  <2> HIDE DEF P, n, sz
  <2>3. ASSUME NEW d \in 1 .. n
        PROVE  \E b \in 1 .. N : (b - 1) * sz < d /\ d <= b * sz
    BY <1>1, <2>1, BatchFor
  <2>4. N \in Nat \ {0}
    <3>1. 1 \in 1 .. n
      BY <1>1
    <3>2. PICK b \in 1 .. N : (b - 1) * sz < 1 /\ 1 <= b * sz
      BY <2>3, <3>1
    <3>3. N \in Int
      BY <1>1, <2>1
    <3> HIDE DEF N
    <3>4. QED
      BY <3>2, <3>3
  <2> HIDE DEF N
  <2>5. ASSUME NEW b \in 1 .. N
        PROVE  /\ BatchOf(s, b) \in Seq(T)
               /\ \A d \in 1 .. n : (b - 1) * sz < d /\ d <= b * sz =>
                     \E c \in DOMAIN BatchOf(s, b) : BatchOf(s, b)[c] = P[d]
    <3> DEFINE lo == (b - 1) * sz
               hi == IF b * sz <= n THEN b * sz ELSE n
    <3>1. lo \in Nat /\ b * sz \in Nat /\ hi \in Nat /\ hi <= n
      BY <1>1, <2>1, <2>4
    <3>2. Min({b * sz, n}) = hi
      BY <1>1, <3>1, MinOfTwo
    <3>3. BatchOf(s, b) = SubSeq(P, lo + 1, hi)
      BY <1>3, <3>2 DEF BatchOf, InOneBatch, P, n, sz
    <3> HIDE DEF hi, lo
    <3>4. \A i \in lo + 1 .. hi : P[i] \in T
      <4>1. \A i \in 1 .. n : P[i] \in T
        BY <1>1 DEF P
      <4>2. \A i \in lo + 1 .. hi : i \in 1 .. n
        BY <1>1, <3>1
      <4>3. QED
        BY <4>1, <4>2
    <3>5. lo + 1 \in Int /\ hi \in Int
      BY <3>1
    <3>6. /\ BatchOf(s, b) \in Seq(T)
          /\ Len(BatchOf(s, b)) = IF lo + 1 <= hi THEN hi - (lo + 1) + 1 ELSE 0
          /\ \A i \in 1 .. hi - (lo + 1) + 1 : BatchOf(s, b)[i] = P[lo + 1 + i - 1]
      BY <3>3, <3>4, <3>5, SubSeqProperties
    <3>7. ASSUME NEW d \in 1 .. n, (b - 1) * sz < d, d <= b * sz
          PROVE  \E c \in DOMAIN BatchOf(s, b) : BatchOf(s, b)[c] = P[d]
      <4>1. lo < d /\ d <= hi
        BY <1>1, <3>1, <3>7 DEF lo, hi
      <4> DEFINE c == d - lo
      <4>2. c \in 1 .. hi - (lo + 1) + 1 /\ lo + 1 + c - 1 = d /\ lo + 1 <= hi
        BY <1>1, <3>1, <4>1
      <4>3. c \in DOMAIN BatchOf(s, b)
        BY <3>6, <4>2
      <4>4. BatchOf(s, b)[c] = P[d]
        BY <3>6, <4>2
      <4>5. QED
        BY <4>3, <4>4
    <3>8. QED
      BY <3>6, <3>7
  <2>6. ASSUME NEW d \in 1 .. n
        PROVE  \E b \in 1 .. N : \E c \in DOMAIN BatchOf(s, b) : BatchOf(s, b)[c] = P[d]
    <3>1. PICK b \in 1 .. N : (b - 1) * sz < d /\ d <= b * sz
      BY <2>3
    <3>2. QED
      BY <2>5, <3>1
  <2>7. \A b \in 1 .. N : BatchOf(s, b) \in Seq(T)
    BY <2>5
  <2>8. \A d \in 1 .. Len(pairs[s]) : \E b \in 1 .. N :
           \E c \in DOMAIN BatchOf(s, b) : BatchOf(s, b)[c] = pairs[s][d]
    BY <2>6 DEF P, n
  <2>9. QED
    BY <2>2, <2>4, <2>7, <2>8
<1>4. QED
  BY <1>2, <1>3

\* A pair that is compared comes to hold what the exchange makes of it.
LEMMA TurnedIs ==
    ASSUME GivenInput, NEW e \in Nat, NEW a \in Nat, NEW b \in Nat, NEW st,
           IsStage(st, a, b, e), NEW A \in [Places -> Real], NEW B, B = Swapped(A, st),
           NEW i \in Compared(B, st), NEW l, l = Xor(i, st.j)
    PROVE  LET z == Turned(PairAt(B, st, i)) IN
           /\ z.i = i /\ z.l = l
           /\ z.first = Exchanged(A, st)[i] /\ z.second = Exchanged(A, st)[l]
<1> DEFINE z == Turned(PairAt(B, st, i))
           up == IsUp(i, st)
           x == A[i]
           y == A[l]
<1>1. i \in Places /\ l > i /\ B[i] # Padding /\ B[l] # Padding
  BY DEF Compared
<1>2. l \in Places /\ i \in Nat /\ l \in Nat /\ up \in BOOLEAN
  BY <1>1, PairIs
<1>3. B[i] = x /\ B[l] = y
  BY <1>1, SwappedIs
<1>4. x \in Values /\ y \in Values
  <2>1. x \in Real /\ y \in Real
    BY <1>1, <1>2
  <2>2. QED
    BY <1>1, <1>3, <2>1 DEF Real
<1>5. PairAt(B, st, i) = [i |-> i, l |-> l, x |-> x, y |-> y, up |-> (up = asc)]
  BY <1>3 DEF PairAt, Wanted
<1> HIDE DEF x, y, up
<1>6. /\ z.i = i /\ z.l = l
      /\ z.first = IF (x < y) = (up = asc) THEN x ELSE y
      /\ z.second = IF (x < y) = (up = asc) THEN y ELSE x
  BY <1>5 DEF Turned, Keeps
<1>7. (i < l) = up <=> up
  BY <1>1, <1>2
<1>8. /\ Exchanged(A, st)[i] = IF up THEN IF rank(y) < rank(x) THEN y ELSE x
                                     ELSE IF rank(y) > rank(x) THEN y ELSE x
      /\ Exchanged(A, st)[l] = IF up THEN IF rank(y) < rank(x) THEN x ELSE y
                                     ELSE IF rank(y) > rank(x) THEN x ELSE y
  BY <1>1, <1>7, ExchangedIs DEF x, y, up
<1>9. asc \in BOOLEAN
  BY DEF GivenInput
<1>10. /\ rank(x) = IF asc THEN x ELSE 1 - x
       /\ rank(y) = IF asc THEN y ELSE 1 - y
  BY <1>4 DEF rank, Values, Padding
<1>11. (x = 0 \/ x = 1) /\ (y = 0 \/ y = 1)
  BY <1>4 DEF Values
<1> HIDE DEF z
<1>12. z.first = Exchanged(A, st)[i] /\ z.second = Exchanged(A, st)[l]
  <2>1. ((x < y) = (up = asc)) <=> IF up THEN IF asc THEN x < y ELSE ~(x < y)
                                         ELSE IF asc THEN ~(x < y) ELSE x < y
    <3>1. (x < y) \in BOOLEAN
      BY <1>11
    <3> DEFINE less == x < y
    <3> HIDE DEF less
    <3>2. less \in BOOLEAN
      BY <3>1 DEF less
    <3>3. (less = (up = asc)) <=> IF up THEN IF asc THEN less ELSE ~less
                                        ELSE IF asc THEN ~less ELSE less
      BY <1>2, <1>9, <3>2
    <3>4. QED
      BY <3>3 DEF less
  <2>2. z.first = IF IF up THEN IF asc THEN x < y ELSE ~(x < y)
                           ELSE IF asc THEN ~(x < y) ELSE x < y
                  THEN x ELSE y
    BY <1>6, <2>1
  <2>3. z.second = IF IF up THEN IF asc THEN x < y ELSE ~(x < y)
                            ELSE IF asc THEN ~(x < y) ELSE x < y
                   THEN y ELSE x
    BY <1>6, <2>1
  <2>4. QED
    BY <1>8, <1>10, <1>11, <2>2, <2>3
<1>13. QED
  BY <1>6, <1>12 DEF z

\* With the results of all batches the stage is done.
LEMMA WrittenIs ==
    ASSUME GivenInput, NEW e \in Nat, NEW a \in Nat, NEW b \in Nat, NEW st,
           IsStage(st, a, b, e), NEW A \in [Places -> Real],
           NEW s, secrets[s] = Swapped(A, st), pairs[s] = Comparisons(secrets[s], st),
           pairs[s] # <<>>, batchSize \in Nat, DOMAIN results[s] = 1 .. NumBatches(s),
           \A n \in 1 .. NumBatches(s) : results[s][n] = RightResults(s, n)
    PROVE  Written(s) = Exchanged(A, st)
<1> DEFINE B == secrets[s]
           S == Compared(B, st)
           pair(i) == PairAt(B, st, i)
           C == Exchanged(A, st)
           zs == UNION {ToSet(results[s][n]) : n \in DOMAIN results[s]}
           Of(p) == {z \in zs : p \in {z.i, z.l}}
<1>1. DOMAIN B = Places /\ DOMAIN C = Places
  BY DEF Swapped, Exchanged
<1>2. /\ pairs[s] \in Seq({pair(i) : i \in S})
      /\ \A i \in S : \E c \in 1 .. Len(pairs[s]) : pairs[s][c] = pair(i)
  <2> HIDE DEF B
  <2>1. B = Swapped(A, st) /\ pairs[s] = Comparisons(B, st)
    BY DEF B
  <2>2. QED
    BY <2>1, ComparisonsAre, SMTT(30)
<1>3. /\ \A n \in 1 .. NumBatches(s) : BatchOf(s, n) \in Seq({pair(i) : i \in S})
      /\ \A d \in 1 .. Len(pairs[s]) : \E n \in 1 .. NumBatches(s) :
            \E c \in DOMAIN BatchOf(s, n) : BatchOf(s, n)[c] = pairs[s][d]
  BY <1>2, BatchesAre
<1>4. zs = {Turned(pair(i)) : i \in S}
  <2> HIDE DEF S, pair
  <2>1. ASSUME NEW z \in zs PROVE \E i \in S : z = Turned(pair(i))
    <3>1. PICK n \in 1 .. NumBatches(s) : z \in ToSet(RightResults(s, n))
      OBVIOUS
    <3>2. PICK c \in DOMAIN BatchOf(s, n) : z = Turned(BatchOf(s, n)[c])
      BY <3>1 DEF ToSet, RightResults
    <3> DEFINE T == {pair(i) : i \in S}
    <3>3. BatchOf(s, n) \in Seq(T)
      BY <1>3
    <3> HIDE DEF T
    <3>4. BatchOf(s, n)[c] \in T
      BY <3>3
    <3>5. QED
      BY <3>2, <3>4 DEF T
  <2>2. ASSUME NEW i \in S PROVE Turned(pair(i)) \in zs
    <3>1. PICK d \in 1 .. Len(pairs[s]) : pairs[s][d] = pair(i)
      BY <1>2
    <3>2. PICK n \in 1 .. NumBatches(s) :
            \E c \in DOMAIN BatchOf(s, n) : BatchOf(s, n)[c] = pairs[s][d]
      BY <1>3
    <3>3. Turned(pair(i)) \in ToSet(RightResults(s, n))
      BY <3>1, <3>2 DEF ToSet, RightResults
    <3>4. QED
      BY <3>3
  <2> HIDE DEF zs
  <2>3. QED
    BY <2>1, <2>2
<1> HIDE DEF zs
<1>5. ASSUME NEW i \in S
      PROVE  LET l == Xor(i, st.j) IN
             /\ i \in Places /\ l \in Places /\ i # l /\ Xor(l, st.j) = i /\ ~(i > l) /\ l > i
             /\ Turned(pair(i)).i = i /\ Turned(pair(i)).l = l
             /\ Turned(pair(i)).first = C[i] /\ Turned(pair(i)).second = C[l]
  <2> DEFINE l == Xor(i, st.j)
  <2>1. i \in Places /\ l > i
    BY DEF Compared
  <2>2. l \in Places /\ i # l /\ Xor(l, st.j) = i /\ i \in Nat /\ l \in Nat
    BY <2>1, PartnersAre
  <2>3. /\ Turned(pair(i)).i = i /\ Turned(pair(i)).l = l
        /\ Turned(pair(i)).first = C[i] /\ Turned(pair(i)).second = C[l]
    BY TurnedIs
  <2>4. QED
    BY <2>1, <2>2, <2>3
<1>6. ASSUME NEW p \in Places
      PROVE  (IF Of(p) = {} THEN B[p]
              ELSE LET z == CHOOSE z \in Of(p) : TRUE IN IF p = z.i THEN z.first ELSE z.second)
             = C[p]
  <2> DEFINE q == Xor(p, st.j)
  <2>1. q \in Places /\ q # p /\ Xor(q, st.j) = p /\ p \in Nat /\ q \in Nat
    <3>1. \A x \in Places : LET l == Xor(x, st.j) IN
            x \in Nat /\ l \in Nat /\ l \in Places /\ l # x /\ Xor(l, st.j) = x
      BY PartnersAre
    <3>2. QED
      BY <3>1
  <2>2. ASSUME NEW z \in Of(p) PROVE C[p] = IF p = z.i THEN z.first ELSE z.second
    <3>1. PICK i \in S : z = Turned(pair(i))
      BY <1>4
    <3>2. p = i \/ p = Xor(i, st.j)
      BY <1>5, <3>1
    <3>3. QED
      BY <1>5, <3>1, <3>2
  <2>3. CASE Of(p) # {}
    <3> HIDE DEF Of
    <3>1. (CHOOSE z \in Of(p) : TRUE) \in Of(p)
      BY <2>3
    <3>2. QED
      BY <2>2, <2>3, <3>1
  <2>4. CASE Of(p) = {}
    <3>1. \A i \in S : p # i /\ p # Xor(i, st.j)
      BY <1>4, <1>5, <2>4
    <3>2. p \notin S /\ q \notin S
      BY <2>1, <3>1
    <3>3. B[p] = Padding \/ B[q] = Padding
      BY <2>1, <3>2 DEF Compared
    <3>4. B[p] = C[p]
      BY <3>3, SwappedIs
    <3>5. QED
      BY <2>4, <3>4
  <2>5. QED
    BY <2>3, <2>4
<1>7. C = [p \in Places |-> C[p]]
  BY DEF Exchanged
<1>8. Written(s) = [p \in Places |->
          IF Of(p) = {} THEN B[p]
          ELSE LET z == CHOOSE z \in Of(p) : TRUE IN IF p = z.i THEN z.first ELSE z.second]
  BY <1>1, Zenon DEF Written, zs
<1> HIDE DEF Of, B
<1>9. Written(s) = C
  <2> HIDE DEF C
  <2>1. QED
    BY <1>6, <1>7, <1>8
<1>10. QED
  BY <1>9

-----------------------------------------------------------------------------
(* The inductive invariant *)

\* With pipelined triples there is one batch: several would take their triples in an order
\* of their own.
Configured ==
    /\ GivenInput /\ method \in Methods /\ batchSize \in BatchSizes
    /\ PolledInOrder

PerServer(f) == f = [s \in Servers |-> f[s]]
Shape ==
    /\ PerServer(secrets) /\ PerServer(stage) /\ PerServer(pairs)
    /\ PerServer(submitted) /\ PerServer(started) /\ PerServer(triples) /\ PerServer(polled)
    /\ PerServer(conds) /\ PerServer(results)

\* A server's array is one that has come to its stage, with its paddings traded; after the
\* last stage it is in order.
Holds(B, st, A) ==
    IF st = Ended THEN B = A /\ InRankOrder(A) ELSE B = Swapped(A, st) /\ Reaches(A, st)

Progress(s) ==
    \E A \in [Places -> Real] : SameValues(A) /\ Holds(secrets[s], stage[s], A)

Listed(q, n) == q = [c \in 1 .. n |-> q[c]]

Batches(s) ==
    /\ pairs[s] = IF stage[s] = Ended THEN <<>> ELSE Comparisons(secrets[s], stage[s])
    /\ submitted[s] \in Nat /\ started[s] \in Nat /\ started[s] <= submitted[s]
    /\ IF stage[s] = Ended THEN submitted[s] = 0 ELSE submitted[s] <= NumBatches(s)
    /\ Listed(triples[s], submitted[s])
    /\ Listed(conds[s], submitted[s]) /\ Listed(results[s], submitted[s])

\* What the servers have computed is right.
NoNoise(s) ==
    \A b \in 1 .. submitted[s] :
        /\ conds[s][b] \in {None, RightConds(s, b)}
        /\ results[s][b] \in {None, RightResults(s, b)}

\* What a server has polled in its stage, and before it.
Taken(s) ==
    IF method = "background" THEN 2 * submitted[s]
    ELSE IF method = "pipeline" /\ submitted[s] # 0 THEN Len(triples[s][1])
    ELSE 0
PolledBefore(s) == polled[s] - Taken(s)

\* The triples of a batch follow those of the batch before it.
Polled(s) ==
    /\ polled[s] \in Nat
    /\ \A b \in 1 .. submitted[s] :
         /\ triples[s][b] \in Seq(Nat) /\ Len(triples[s][b]) \in 0 .. 2
         /\ \A r \in 1 .. Len(triples[s][b]) :
              triples[s][b][r] = PolledBefore(s) + 2 * (b - 1) + r
         /\ method = "background" => Len(triples[s][b]) = 2
         /\ method = "pipeline" /\ results[s][b] # None => Len(triples[s][b]) = 2

ServerInv(s) == Progress(s) /\ Batches(s) /\ NoNoise(s) /\ Polled(s)

\* What a server has of a batch; nothing before it submits it.
Cond(s, b) == IF b \in 1 .. submitted[s] THEN conds[s][b] ELSE None
Result(s, b) == IF b \in 1 .. submitted[s] THEN results[s][b] ELSE None

\* Both servers are in one stage.
Level ==
    /\ stage[0] = stage[1] /\ secrets[0] = secrets[1] /\ PolledBefore(0) = PolledBefore(1)
    /\ \A b \in Nat : Cond(0, b) = Cond(1, b) /\ Result(0, b) = Result(1, b)

\* The array a server goes on with.
Onward(s) ==
    LET next == After(stage[s], Cardinality(DOMAIN secrets[s])) IN
    IF next = Ended THEN Written(s) ELSE Swapped(Written(s), next)

\* Server s is a stage ahead of server o, which has nothing left to compute in its own.
Ahead(s, o) ==
    /\ stage[o] # Ended
    /\ \A b \in 1 .. NumBatches(o) : Result(o, b) # None
    /\ stage[s] = After(stage[o], Cardinality(DOMAIN secrets[o]))
    /\ secrets[s] = Onward(o)
    /\ PolledBefore(s) = PolledBefore(o) + (IF method = "jit" THEN 0 ELSE 2 * NumBatches(o))
    /\ \A b \in Nat : Cond(s, b) = None /\ Result(s, b) = None

Together == Level \/ Ahead(0, 1) \/ Ahead(1, 0)

IInv == Configured /\ Shape /\ (\A s \in Servers : ServerInv(s)) /\ Together

-----------------------------------------------------------------------------
(* What a step leaves alone *)

\* The configuration decides what the array may be.
LEMMA ConfigKept ==
    ASSUME UNCHANGED config
    PROVE  /\ Places' = Places /\ (Configured' <=> Configured)
           /\ \A A : SameValues(A)' <=> SameValues(A)
           /\ \A B, st, A : Holds(B, st, A)' <=> Holds(B, st, A)
<1>1. Places' = Places /\ Size' = Size /\ Padded' = Padded
  BY DEF config, Places, Size, Padded
<1>2. \A v : rank(v)' = rank(v)
  BY DEF config, rank
<1>3. \A A : SameValues(A)' <=> SameValues(A)
  BY <1>1 DEF SameValues, Count
<1>4. \A A, t : Ones(A, t)' = Ones(A, t)
  BY <1>1, <1>2 DEF Ones
<1>5. \A st, a, b, e : IsStage(st, a, b, e)' <=> IsStage(st, a, b, e)
  BY <1>1 DEF IsStage
<1>6. \A A, a, b, e : Prepared(A, a, b, e)' <=> Prepared(A, a, b, e)
  BY <1>1, <1>4 DEF Prepared
<1>7. \A A, st : Reaches(A, st)' <=> Reaches(A, st)
  BY <1>5, <1>6 DEF Reaches
<1>8. \A A : InRankOrder(A)' <=> InRankOrder(A)
  BY <1>1, <1>2 DEF InRankOrder
<1>9. \A B, st, A : Holds(B, st, A)' <=> Holds(B, st, A)
  BY <1>7, <1>8 DEF Holds
<1>10. Configured' <=> Configured
  BY DEF config, Configured, GivenInput, PolledInOrder, InOneBatch
<1>11. QED
  BY <1>1, <1>3, <1>9, <1>10

\* The comparisons of a stage decide its batches.
LEMMA BatchesKept ==
    ASSUME NEW s, UNCHANGED config, pairs'[s] = pairs[s]
    PROVE  /\ NumBatches(s)' = NumBatches(s)
           /\ \A b : /\ BatchOf(s, b)' = BatchOf(s, b)
                     /\ RightConds(s, b)' = RightConds(s, b)
                     /\ RightResults(s, b)' = RightResults(s, b)
<1>1. batchSize' = batchSize
  BY DEF config
<1>2. NumBatches(s)' = NumBatches(s)
  BY <1>1 DEF NumBatches, InOneBatch
<1>3. \A b : BatchOf(s, b)' = BatchOf(s, b)
  BY <1>1 DEF BatchOf, InOneBatch
<1>4. QED
  BY <1>2, <1>3 DEF RightConds, RightResults

\* The state of one server.
Local(s) ==
    <<secrets[s], stage[s], pairs[s], submitted[s], started[s], triples[s], polled[s],
      conds[s], results[s]>>

\* What the other server has to do with.
Seen(s) == <<stage[s], secrets[s], PolledBefore(s), NumBatches(s)>>
SeenKept(s) ==
    /\ Seen(s)' = Seen(s)
    /\ \A b \in Nat : Cond(s, b)' = Cond(s, b) /\ Result(s, b)' = Result(s, b)
    /\ Written(s)' = Written(s) \/ \E b \in 1 .. NumBatches(s) : Result(s, b) = None

\* A server whose state is left alone keeps what is said of it, and shows the other nothing new.
LEMMA LocalKept ==
    ASSUME NEW s, UNCHANGED config, UNCHANGED Local(s)
    PROVE  /\ ServerInv(s) => ServerInv(s)'
           /\ SeenKept(s)
<1>1. /\ secrets'[s] = secrets[s] /\ stage'[s] = stage[s] /\ pairs'[s] = pairs[s]
      /\ submitted'[s] = submitted[s] /\ started'[s] = started[s] /\ triples'[s] = triples[s]
      /\ polled'[s] = polled[s] /\ conds'[s] = conds[s] /\ results'[s] = results[s]
      /\ method' = method
  BY DEF Local, config
<1>2. Progress(s)' <=> Progress(s)
  BY <1>1, ConfigKept DEF Progress
<1>3. /\ NumBatches(s)' = NumBatches(s)
      /\ \A b : /\ RightConds(s, b)' = RightConds(s, b)
                /\ RightResults(s, b)' = RightResults(s, b)
  BY <1>1, BatchesKept
<1>4. Comparisons(secrets[s], stage[s])' = Comparisons(secrets[s], stage[s])
  BY <1>1 DEF Comparisons, Wanted, config
<1>5. Batches(s)' <=> Batches(s)
  BY <1>1, <1>3, <1>4 DEF Batches
<1>6. NoNoise(s)' <=> NoNoise(s)
  BY <1>1, <1>3 DEF NoNoise
<1>7. PolledBefore(s)' = PolledBefore(s)
  BY <1>1 DEF PolledBefore, Taken
<1>8. Polled(s)' <=> Polled(s)
  BY <1>1, <1>7 DEF Polled
<1>9. /\ \A b \in Nat : Cond(s, b)' = Cond(s, b) /\ Result(s, b)' = Result(s, b)
      /\ Written(s)' = Written(s)
  BY <1>1 DEF Cond, Result, Written
<1>10. QED
  BY <1>1, <1>2, <1>3, <1>5, <1>6, <1>7, <1>8, <1>9 DEF ServerInv, SeenKept, Seen

\* A server stays ahead as long as no more is seen of the two than before.
LEMMA AheadKept ==
    ASSUME NEW s \in Servers, NEW o \in Servers, UNCHANGED config, SeenKept(s), SeenKept(o),
           Ahead(s, o)
    PROVE  Ahead(s, o)'
<1>1. /\ method' = method
      /\ stage'[s] = stage[s] /\ secrets'[s] = secrets[s] /\ PolledBefore(s)' = PolledBefore(s)
      /\ stage'[o] = stage[o] /\ secrets'[o] = secrets[o] /\ PolledBefore(o)' = PolledBefore(o)
      /\ NumBatches(o)' = NumBatches(o)
      /\ \A b \in Nat : Cond(s, b)' = Cond(s, b) /\ Result(s, b)' = Result(s, b)
      /\ \A b \in Nat : Result(o, b)' = Result(o, b)
  BY DEF SeenKept, Seen, config
<1>2. Written(o)' = Written(o)
  BY DEF SeenKept, Ahead
<1>3. Onward(o)' = Onward(o)
  BY <1>1, <1>2 DEF Onward
<1>4. \A b \in 1 .. NumBatches(o) : b \in Nat
  OBVIOUS
<1>5. QED
  BY <1>1, <1>3, <1>4 DEF Ahead

\* The servers stay together in the same way.
LEMMA TogetherKept ==
    ASSUME UNCHANGED config, SeenKept(0), SeenKept(1), Together
    PROVE  Together'
<1>1. 0 \in Servers /\ 1 \in Servers
  BY DEF Servers
<1>2. CASE Level
  <2>1. Level'
    BY <1>2 DEF Level, SeenKept, Seen
  <2>2. QED
    BY <2>1 DEF Together
<1>3. CASE Ahead(0, 1)
  BY <1>1, <1>3, AheadKept DEF Together
<1>4. CASE Ahead(1, 0)
  BY <1>1, <1>4, AheadKept DEF Together
<1>5. QED
  BY <1>2, <1>3, <1>4 DEF Together

-----------------------------------------------------------------------------
(* A stage *)

\* A stage has something to compare, and compares secrets.
LEMMA StageFacts ==
    ASSUME NEW s, Configured, Progress(s), Batches(s), stage[s] # Ended
    PROVE  /\ Cardinality(DOMAIN secrets[s]) = Size
           /\ secrets[s][0] # Padding /\ pairs[s] # <<>>
           /\ NumBatches(s) \in Nat \ {0} /\ (method = "pipeline" => NumBatches(s) = 1)
           /\ \A b \in 1 .. NumBatches(s) : \A c \in DOMAIN BatchOf(s, b) :
                 BatchOf(s, b)[c].x \in Values /\ BatchOf(s, b)[c].y \in Values
<1> DEFINE st == stage[s]
           B == secrets[s]
           P == pairs[s]
           T == {PairAt(B, st, i) : i \in Compared(B, st)}
<1>1. GivenInput /\ batchSize \in Nat
  BY BitonicSortAssumption DEF Configured
<1>2. PICK A \in [Places -> Real] :
          SameValues(A) /\ B = Swapped(A, st) /\ Reaches(A, st)
  BY DEF Progress, Holds
<1>3. PICK e \in Nat, a \in Nat, b \in Nat : IsStage(st, a, b, e)
  BY <1>2 DEF Reaches
<1>4. P = Comparisons(B, st)
  BY DEF Batches
<1> HIDE DEF st, B, P
<1>5. DOMAIN B = Places /\ Cardinality(DOMAIN B) = Size
  <2>1. DOMAIN B = Places
    BY <1>2 DEF Swapped
  <2>2. Size \in Nat
    BY <1>1, SizeIs
  <2>3. 0 \in Int /\ Size - 1 \in Int /\ (0 > Size - 1 => Size = 0) /\ Size - 1 - 0 + 1 = Size
    BY <2>2
  <2>4. Cardinality(0 .. Size - 1) = IF 0 > Size - 1 THEN 0 ELSE Size - 1 - 0 + 1
    BY <2>3, FS_Interval
  <2>5. QED
    BY <2>1, <2>3, <2>4 DEF Places
<1>6. P \in Seq(T) /\ \A i \in Compared(B, st) : \E c \in 1 .. Len(P) : P[c] = PairAt(B, st, i)
  BY <1>1, <1>2, <1>3, <1>4, ComparisonsAre
<1>7. B[0] # Padding /\ Compared(B, st) # {}
  <2>1. /\ B[0] # Padding
        /\ \E x \in Places :
              LET l == Xor(x, st.j) IN l > x /\ B[x] # Padding /\ B[l] # Padding
    BY <1>1, <1>2, StageIsReal
  <2>2. QED
    BY <2>1 DEF Compared
<1>8. P # <<>>
  <2>1. PICK i \in Compared(B, st) : TRUE
    BY <1>7
  <2>2. PICK c \in 1 .. Len(P) : P[c] = PairAt(B, st, i)
    BY <1>6, <2>1
  <2>3. Len(<<>>) = 0 /\ 1 .. 0 = {}
    OBVIOUS
  <2>4. QED
    BY <2>2, <2>3
<1>9. /\ NumBatches(s) \in Nat \ {0}
      /\ \A n \in 1 .. NumBatches(s) : BatchOf(s, n) \in Seq(T)
  <2> HIDE DEF T
  <2>1. QED
    BY <1>1, <1>6, <1>8, BatchesAre DEF P
<1>10. method = "pipeline" => NumBatches(s) = 1
  BY DEF Configured, PolledInOrder, NumBatches
<1>11. ASSUME NEW p \in T PROVE p.x \in Values /\ p.y \in Values
  <2>1. PICK i \in Compared(B, st) : p = PairAt(B, st, i)
    OBVIOUS
  <2> DEFINE l == Xor(i, st.j)
  <2>2. i \in Places /\ B[i] # Padding /\ B[l] # Padding
    BY <2>1 DEF Compared
  <2>3. l \in Places /\ B[i] = A[i] /\ B[l] = A[l]
    BY <1>1, <1>2, <1>3, <2>2, SwappedIs, PairIs
  <2>4. A[i] \in Real /\ A[l] \in Real
    BY <2>2, <2>3
  <2>5. B[i] \in Values /\ B[l] \in Values
    BY <2>2, <2>3, <2>4 DEF Real
  <2>6. QED
    BY <2>1, <2>5 DEF PairAt
<1>12. ASSUME NEW n \in 1 .. NumBatches(s), NEW c \in DOMAIN BatchOf(s, n)
       PROVE  BatchOf(s, n)[c] \in T
  <2> HIDE DEF T
  <2>1. BatchOf(s, n) \in Seq(T)
    BY <1>9
  <2>2. QED
    BY <2>1
<1> HIDE DEF T
<1>13. QED
  BY <1>5, <1>7, <1>8, <1>9, <1>10, <1>11, <1>12 DEF st, B, P

\* When all results are there the server goes on to the next stage.
LEMMA StageEnds ==
    ASSUME NEW s, Configured, Progress(s), Batches(s), NoNoise(s), stage[s] # Ended,
           submitted[s] = NumBatches(s), \A b \in 1 .. NumBatches(s) : results[s][b] # None
    PROVE  LET next == After(stage[s], Cardinality(DOMAIN secrets[s])) IN
           \E A \in [Places -> Real] : SameValues(A) /\ Holds(Onward(s), next, A)
<1> DEFINE st == stage[s]
           next == After(st, Size)
<1>1. GivenInput /\ batchSize \in Nat
  BY BitonicSortAssumption DEF Configured
<1>2. PICK A \in [Places -> Real] :
          SameValues(A) /\ secrets[s] = Swapped(A, st) /\ Reaches(A, st)
  BY DEF Progress, Holds
<1>3. PICK e \in Nat, a \in Nat, b \in Nat : IsStage(st, a, b, e)
  BY <1>2 DEF Reaches
<1>4. pairs[s] = Comparisons(secrets[s], st) /\ pairs[s] # <<>>
      /\ Cardinality(DOMAIN secrets[s]) = Size
  BY StageFacts DEF Batches
<1>5. DOMAIN results[s] = 1 .. NumBatches(s)
  BY DEF Batches, Listed
<1>6. \A n \in 1 .. NumBatches(s) : results[s][n] = RightResults(s, n)
  BY DEF NoNoise
<1> HIDE DEF st
<1>7. Written(s) = Exchanged(A, st)
  BY <1>1, <1>2, <1>3, <1>4, <1>5, <1>6, WrittenIs
<1> DEFINE C == Exchanged(A, st)
<1>8. C \in [Places -> Real] /\ SameValues(C)
  BY <1>1, <1>2, <1>3, ExchangedKeeps
<1>9. (next = Ended /\ InRankOrder(C)) \/ (next # Ended /\ Reaches(C, next))
  BY <1>1, <1>2, StageDone
<1>10. Onward(s) = IF next = Ended THEN C ELSE Swapped(C, next)
  BY <1>4, <1>7 DEF Onward, st
<1> HIDE DEF C, next
<1>11. Holds(Onward(s), next, C)
  BY <1>9, <1>10 DEF Holds
<1>12. QED
  BY <1>4, <1>8, <1>11 DEF next, st

\* What a list is.
LEMMA ListedIs ==
    ASSUME NEW n \in Nat, NEW q, Listed(q, n)
    PROVE  /\ Len(q) = n /\ DOMAIN q = 1 .. n
           /\ \A v : /\ Listed(Append(q, v), n + 1)
                     /\ \A c \in 1 .. n + 1 : Append(q, v)[c] = IF c = n + 1 THEN v ELSE q[c]
           /\ \A b \in 1 .. n : \A v :
                 /\ Listed([q EXCEPT ![b] = v], n)
                 /\ \A c \in 1 .. n : [q EXCEPT ![b] = v][c] = IF c = b THEN v ELSE q[c]
<1>1. q = [c \in 1 .. n |-> q[c]]
  BY DEF Listed
<1>2. q \in Seq({q[c] : c \in 1 .. n}) /\ Len(q) = n /\ DOMAIN q = 1 .. n
  BY <1>1
<1>3. ASSUME NEW v
      PROVE  /\ Listed(Append(q, v), n + 1)
             /\ \A c \in 1 .. n + 1 : Append(q, v)[c] = IF c = n + 1 THEN v ELSE q[c]
  <2> DEFINE r == Append(q, v)
             T == {q[c] : c \in 1 .. n} \union {v}
  <2>1. q \in Seq(T) /\ v \in T
    <3>1. \A c \in 1 .. n : q[c] \in T
      OBVIOUS
    <3>2. v \in T
      OBVIOUS
    <3> HIDE DEF T
    <3>3. QED
      BY <1>2, <3>1, <3>2
  <2> HIDE DEF T
  <2>2. r \in Seq(T) /\ Len(r) = n + 1
    BY <1>2, <2>1
  <2>3. \A c \in 1 .. n + 1 : r[c] = IF c = n + 1 THEN v ELSE q[c]
    BY <1>2, <2>1
  <2> HIDE DEF r
  <2>4. r = [c \in 1 .. n + 1 |-> r[c]]
    BY <2>2
  <2>5. QED
    BY <2>3, <2>4 DEF Listed, r
<1>4. ASSUME NEW b \in 1 .. n, NEW v
      PROVE  /\ Listed([q EXCEPT ![b] = v], n)
             /\ \A c \in 1 .. n : [q EXCEPT ![b] = v][c] = IF c = b THEN v ELSE q[c]
  BY <1>2 DEF Listed
<1>5. QED
  BY <1>2, <1>3, <1>4

-----------------------------------------------------------------------------
(* The steps *)

\* The comparisons of a stage make a number of batches.
LEMMA SomeBatches ==
    ASSUME Configured, NEW st, st # Ended, NEW A \in [Places -> Real], NEW B, Holds(B, st, A),
           NEW P, P = Comparisons(B, st)
    PROVE  (IF InOneBatch THEN 1 ELSE (Len(P) + batchSize - 1) \div batchSize) \in Nat
<1> DEFINE T == {PairAt(B, st, i) : i \in Compared(B, st)}
<1>1. GivenInput /\ batchSize \in Nat
  BY BitonicSortAssumption DEF Configured
<1>2. B = Swapped(A, st) /\ Reaches(A, st)
  BY DEF Holds
<1>3. PICK e \in Nat, a \in Nat, b \in Nat : IsStage(st, a, b, e)
  BY <1>2 DEF Reaches
<1>4. P \in Seq(T)
  BY <1>1, <1>2, <1>3, ComparisonsAre
<1> HIDE DEF T
<1>5. PICK n \in Nat : Len(P) = n
  BY <1>4
<1>6. CASE batchSize = 0
  BY <1>6 DEF InOneBatch
<1>7. CASE batchSize # 0
  <2>1. batchSize \in Nat \ {0} /\ n + batchSize - 1 \in Nat
    BY <1>1, <1>7
  <2>2. (n + batchSize - 1) \div batchSize \in Nat
    BY <2>1, DivIs
  <2>3. QED
    BY <1>5, <1>7, <2>2 DEF InOneBatch
<1>8. QED
  BY <1>6, <1>7

\* The servers begin on the same array.
LEMMA InitHolds ==
    ASSUME Init, PolledInOrder
    PROVE  IInv
<1> DEFINE first == FirstStage(Size)
<1>1. GivenInput
  <2>1. PICK n \in 1 .. MaxSecrets : input \in [0 .. n - 1 -> Values]
    BY DEF Init
  <2>2. QED
    BY <2>1 DEF Init, GivenInput
<1>2. Configured
  BY <1>1 DEF Init, Configured
<1>3. /\ stage = [s \in Servers |-> first]
      /\ secrets = [s \in Servers |-> IF first = Ended THEN Padded ELSE Swapped(Padded, first)]
  BY DEF Init, Padded, Places, Size
<1>4. /\ pairs = [s \in Servers |-> IF stage[s] = Ended THEN <<>>
                                    ELSE Comparisons(secrets[s], stage[s])]
      /\ submitted = [s \in Servers |-> 0] /\ started = [s \in Servers |-> 0]
      /\ polled = [s \in Servers |-> 0] /\ triples = [s \in Servers |-> <<>>]
      /\ conds = [s \in Servers |-> <<>>] /\ results = [s \in Servers |-> <<>>]
  BY DEF Init
<1>5. Shape
  BY <1>3, <1>4 DEF Shape, PerServer
<1>6. Padded \in [Places -> Real] /\ SameValues(Padded)
  BY <1>1, PaddedIs DEF SameValues
<1>7. (first = Ended /\ InRankOrder(Padded)) \/ (first # Ended /\ Reaches(Padded, first))
  BY <1>1, NetworkBegins
<1> HIDE DEF first
<1>8. ASSUME NEW s \in Servers PROVE ServerInv(s)
  <2>1. Holds(secrets[s], stage[s], Padded)
    BY <1>3, <1>7 DEF Holds
  <2>2. Progress(s)
    BY <1>6, <2>1 DEF Progress
  <2>3. /\ pairs[s] = IF stage[s] = Ended THEN <<>> ELSE Comparisons(secrets[s], stage[s])
        /\ submitted[s] = 0 /\ started[s] = 0 /\ polled[s] = 0
        /\ triples[s] = <<>> /\ conds[s] = <<>> /\ results[s] = <<>>
    BY <1>4
  <2>4. Listed(<<>>, 0)
    BY DEF Listed
  <2>5. Batches(s)
    <3>1. stage[s] # Ended => NumBatches(s) \in Nat
      <4>1. ASSUME stage[s] # Ended PROVE NumBatches(s) \in Nat
        <5>1. /\ pairs[s] = Comparisons(secrets[s], stage[s])
              /\ Padded \in [Places -> Real] /\ Holds(secrets[s], stage[s], Padded)
          BY <1>6, <2>1, <2>3, <4>1
        <5>2. QED
          BY <1>2, <4>1, <5>1, SomeBatches DEF NumBatches
      <4>2. QED
        BY <4>1
    <3>2. stage[s] # Ended => 0 <= NumBatches(s)
      BY <3>1
    <3>3. QED
      BY <2>3, <2>4, <3>2 DEF Batches
  <2>6. NoNoise(s) /\ Polled(s)
    BY <2>3 DEF NoNoise, Polled
  <2>7. QED
    BY <2>2, <2>5, <2>6 DEF ServerInv
<1>9. Level
  <2>1. /\ stage[0] = stage[1] /\ secrets[0] = secrets[1] /\ polled[0] = polled[1]
        /\ submitted[0] = 0 /\ submitted[1] = 0
    BY <1>3, <1>4 DEF Servers
  <2>2. Taken(0) = 0 /\ Taken(1) = 0
    BY <2>1 DEF Taken
  <2>3. QED
    BY <2>1, <2>2 DEF Level, PolledBefore, Cond, Result
<1>10. QED
  BY <1>2, <1>5, <1>8, <1>9 DEF IInv, Together

\* A step of one server that the other one does not see.
LEMMA LocalStep ==
    ASSUME IInv, UNCHANGED config, Shape', NEW s \in Servers, ServerInv(s)', SeenKept(s),
           \A o \in Servers \ {s} : UNCHANGED Local(o)
    PROVE  IInv'
<1>1. \A o \in Servers \ {s} : ServerInv(o)' /\ SeenKept(o)
  BY LocalKept DEF IInv
<1>2. SeenKept(0) /\ SeenKept(1)
  BY <1>1 DEF Servers
<1>3. Together'
  BY <1>2, TogetherKept DEF IInv
<1>4. Configured'
  BY ConfigKept DEF IInv
<1>5. \A o \in Servers : ServerInv(o)'
  BY <1>1
<1>6. QED
  BY <1>3, <1>4, <1>5 DEF IInv

\* A thread that takes a batch changes nothing but which batches run.
LEMMA StartHolds ==
    ASSUME IInv, NEW s \in Servers, Start(s)
    PROVE  IInv'
<1>1. /\ UNCHANGED config /\ UNCHANGED <<secrets, stage, pairs, submitted, triples, polled>>
      /\ UNCHANGED <<conds, results>> /\ started' = [started EXCEPT ![s] = @ + 1]
      /\ started[s] < submitted[s]
  BY DEF Start
<1>2. Shape /\ ServerInv(s)
  BY DEF IInv
<1>3. Shape'
  BY <1>1, <1>2 DEF Shape, PerServer
<1>4. started'[s] = started[s] + 1 /\ \A o \in Servers \ {s} : started'[o] = started[o]
  BY <1>1, <1>2 DEF Shape, PerServer
<1>5. \A o \in Servers \ {s} : UNCHANGED Local(o)
  BY <1>1, <1>4 DEF Local
<1>6. /\ NumBatches(s)' = NumBatches(s)
      /\ \A b : /\ RightConds(s, b)' = RightConds(s, b)
                /\ RightResults(s, b)' = RightResults(s, b)
  BY <1>1, BatchesKept
<1>7. Progress(s)'
  BY <1>1, <1>2, ConfigKept DEF Progress, ServerInv
<1>8. Comparisons(secrets[s], stage[s])' = Comparisons(secrets[s], stage[s])
  BY <1>1 DEF Comparisons, Wanted, config
<1>9. Batches(s)'
  <2>1. started'[s] \in Nat /\ started'[s] <= submitted[s]
    BY <1>1, <1>2, <1>4 DEF ServerInv, Batches
  <2>2. QED
    BY <1>1, <1>2, <1>6, <1>8, <2>1 DEF ServerInv, Batches
<1>10. NoNoise(s)'
  BY <1>1, <1>2, <1>6 DEF ServerInv, NoNoise
<1>11. PolledBefore(s)' = PolledBefore(s)
  BY <1>1 DEF PolledBefore, Taken, config
<1>12. Polled(s)'
  BY <1>1, <1>2, <1>11 DEF ServerInv, Polled, config
<1>13. SeenKept(s)
  BY <1>1, <1>6, <1>11 DEF SeenKept, Seen, Cond, Result, Written
<1>14. QED
  BY <1>1, <1>3, <1>5, <1>7, <1>9, <1>10, <1>12, <1>13, LocalStep DEF ServerInv

\* A batch that is submitted is new, and its triples follow those polled before.
LEMMA SubmitHolds ==
    ASSUME IInv, NEW s \in Servers, Submit(s)
    PROVE  IInv'
<1> DEFINE n == submitted[s]
           b == n + 1
           ordered == method = "background"
           taken == IF ordered THEN <<polled[s] + 1, polled[s] + 2>> ELSE <<>>
<1>1. /\ UNCHANGED config /\ UNCHANGED <<secrets, stage, pairs, started>>
      /\ stage[s] # Ended /\ b <= NumBatches(s)
      /\ submitted' = [submitted EXCEPT ![s] = b]
      /\ polled' = [polled EXCEPT ![s] = IF ordered THEN @ + 2 ELSE @]
      /\ triples' = [triples EXCEPT ![s] = Append(@, taken)]
      /\ conds' = [conds EXCEPT ![s] = Append(@, None)]
      /\ results' = [results EXCEPT ![s] = Append(@, None)]
  BY DEF Submit
<1>2. Configured /\ Shape /\ ServerInv(s)
  BY DEF IInv
<1>3. Shape'
  BY <1>1, <1>2 DEF Shape, PerServer
<1>4. /\ submitted'[s] = b
      /\ polled'[s] = (IF ordered THEN polled[s] + 2 ELSE polled[s])
      /\ triples'[s] = Append(triples[s], taken)
      /\ conds'[s] = Append(conds[s], None) /\ results'[s] = Append(results[s], None)
  BY <1>1, <1>2 DEF Shape, PerServer
<1>5. \A o \in Servers \ {s} : UNCHANGED Local(o)
  BY <1>1, <1>2 DEF Local, Shape, PerServer
<1>6. /\ n \in Nat /\ started[s] \in Nat /\ started[s] <= n /\ polled[s] \in Nat
      /\ Listed(triples[s], n) /\ Listed(conds[s], n) /\ Listed(results[s], n)
  BY <1>2 DEF ServerInv, Batches, Polled
<1> HIDE DEF n, taken
<1>7. /\ Listed(triples'[s], b) /\ Listed(conds'[s], b) /\ Listed(results'[s], b)
      /\ \A c \in 1 .. b : /\ triples'[s][c] = IF c = b THEN taken ELSE triples[s][c]
                           /\ conds'[s][c] = IF c = b THEN None ELSE conds[s][c]
                           /\ results'[s][c] = IF c = b THEN None ELSE results[s][c]
  <2>1. /\ Listed(triples'[s], b)
        /\ \A c \in 1 .. b : triples'[s][c] = IF c = b THEN taken ELSE triples[s][c]
    <3> DEFINE q == triples[s]
    <3>1. triples'[s] = Append(q, taken)
      BY <1>4
    <3>2. Listed(q, n) /\ n \in Nat
      BY <1>6
    <3> HIDE DEF q
    <3>3. QED
      BY <3>1, <3>2, ListedIs DEF q
  <2>2. /\ Listed(conds'[s], b)
        /\ \A c \in 1 .. b : conds'[s][c] = IF c = b THEN None ELSE conds[s][c]
    BY <1>4, <1>6, ListedIs
  <2>3. /\ Listed(results'[s], b)
        /\ \A c \in 1 .. b : results'[s][c] = IF c = b THEN None ELSE results[s][c]
    BY <1>4, <1>6, ListedIs
  <2>4. QED
    BY <2>1, <2>2, <2>3
<1>8. /\ NumBatches(s)' = NumBatches(s)
      /\ \A c : /\ RightConds(s, c)' = RightConds(s, c)
                /\ RightResults(s, c)' = RightResults(s, c)
  BY <1>1, BatchesKept
<1>9. Progress(s)'
  BY <1>1, <1>2, ConfigKept DEF Progress, ServerInv
<1>10. Comparisons(secrets[s], stage[s])' = Comparisons(secrets[s], stage[s])
  BY <1>1 DEF Comparisons, Wanted, config
<1>11. Batches(s)'
  <2>1. b \in Nat /\ started[s] <= b
    BY <1>6
  <2>2. QED
    BY <1>1, <1>2, <1>4, <1>6, <1>7, <1>8, <1>10, <2>1 DEF ServerInv, Batches
<1>12. \A c \in 1 .. b : c = b \/ c \in 1 .. n
  BY <1>6
<1>13. NoNoise(s)'
  BY <1>2, <1>4, <1>7, <1>8, <1>12 DEF ServerInv, NoNoise, n
<1>14. PolledBefore(s)' = PolledBefore(s) /\ (ordered => PolledBefore(s) = polled[s] - 2 * n)
  <2>1. method' = method
    BY <1>1 DEF config
  <2>2. CASE ordered
    <3>1. polled'[s] = polled[s] + 2 /\ submitted'[s] = b
      BY <1>4, <2>2
    <3>2. PolledBefore(s) = polled[s] - 2 * n
      BY <2>2 DEF PolledBefore, Taken, n
    <3>3. PolledBefore(s)' = polled'[s] - 2 * submitted'[s]
      BY <2>1, <2>2 DEF PolledBefore, Taken
    <3>4. QED
      BY <1>6, <3>1, <3>2, <3>3
  <2>3. CASE method = "pipeline"
    <3>1. NumBatches(s) = 1
      BY <1>1, <1>2, <2>3, StageFacts DEF ServerInv
    <3>2. n = 0 /\ b = 1
      BY <1>1, <1>6, <3>1
    <3>3. triples'[s][1] = <<>>
      BY <1>7, <2>3, <3>2 DEF taken
    <3>4. QED
      BY <1>4, <1>6, <2>1, <2>3, <3>2, <3>3 DEF PolledBefore, Taken, n
  <2>4. CASE ~ordered /\ method # "pipeline"
    BY <1>4, <2>1, <2>4 DEF PolledBefore, Taken
  <2>5. QED
    BY <2>2, <2>3, <2>4
<1>15. Polled(s)'
  <2>1. polled'[s] \in Nat /\ method' = method
    BY <1>1, <1>4, <1>6 DEF config
  <2>2. ASSUME NEW c \in 1 .. b
        PROVE  /\ triples'[s][c] \in Seq(Nat) /\ Len(triples'[s][c]) \in 0 .. 2
               /\ \A r \in 1 .. Len(triples'[s][c]) :
                    triples'[s][c][r] = PolledBefore(s) + 2 * (c - 1) + r
               /\ method = "background" => Len(triples'[s][c]) = 2
               /\ method = "pipeline" /\ results'[s][c] # None => Len(triples'[s][c]) = 2
    <3>1. CASE c = b
      <4>1. triples'[s][c] = taken /\ results'[s][c] = None
        BY <1>7, <3>1
      <4>2. CASE ordered
        <5>1. taken = <<polled[s] + 1, polled[s] + 2>>
          BY <4>2 DEF taken
        <5>2. taken \in Seq(Nat) /\ Len(taken) = 2
          BY <1>6, <5>1
        <5>3. \A r \in 1 .. 2 : taken[r] = PolledBefore(s) + 2 * (c - 1) + r
          <6>1. PolledBefore(s) + 2 * (c - 1) = polled[s]
            BY <1>6, <1>14, <3>1, <4>2
          <6>2. \A r \in 1 .. 2 : r = 1 \/ r = 2
            OBVIOUS
          <6>3. taken[1] = polled[s] + 1 /\ taken[2] = polled[s] + 2
            BY <5>1
          <6>4. QED
            BY <6>1, <6>2, <6>3
        <5>4. QED
          BY <4>1, <5>2, <5>3
      <4>3. CASE ~ordered
        <5>1. taken = <<>> /\ taken \in Seq(Nat) /\ Len(taken) = 0 /\ 1 .. 0 = {}
          BY <4>3 DEF taken
        <5>2. QED
          BY <4>1, <4>3, <5>1
      <4>4. QED
        BY <4>2, <4>3
    <3>2. CASE c # b
      <4>1. c \in 1 .. n
        BY <1>12, <3>2
      <4>2. triples'[s][c] = triples[s][c] /\ results'[s][c] = results[s][c]
        BY <1>7, <3>2
      <4>3. QED
        BY <1>2, <4>1, <4>2 DEF ServerInv, Polled, n
    <3>3. QED
      BY <3>1, <3>2
  <2>3. QED
    BY <1>4, <1>14, <2>1, <2>2 DEF Polled
<1>16. SeenKept(s)
  <2>1. ASSUME NEW c \in Nat PROVE Cond(s, c)' = Cond(s, c) /\ Result(s, c)' = Result(s, c)
    <3>1. CASE c \in 1 .. n
      <4>1. c \in 1 .. b /\ c # b
        BY <1>6, <3>1
      <4>2. conds'[s][c] = conds[s][c] /\ results'[s][c] = results[s][c]
        BY <1>7, <4>1
      <4>3. QED
        BY <1>4, <3>1, <4>1, <4>2 DEF Cond, Result, n
    <3>2. CASE c = b
      <4>1. c \in 1 .. b /\ c \notin 1 .. n
        BY <1>6, <3>2
      <4>2. QED
        BY <1>4, <1>7, <3>2, <4>1 DEF Cond, Result, n
    <3>3. CASE c \notin 1 .. b
      <4>1. c \notin 1 .. n
        BY <1>6, <3>3
      <4>2. QED
        BY <1>4, <3>3, <4>1 DEF Cond, Result, n
    <3>4. QED
      BY <1>12, <3>1, <3>2, <3>3
  <2>2. b \in 1 .. NumBatches(s) /\ Result(s, b) = None
    <3>1. NumBatches(s) \in Nat
      BY <1>1, <1>2, StageFacts DEF ServerInv
    <3>2. b \in 1 .. NumBatches(s) /\ b \notin 1 .. n
      BY <1>1, <1>6, <3>1
    <3>3. QED
      BY <3>2 DEF Result, n
  <2>3. Seen(s)' = Seen(s)
    BY <1>1, <1>8, <1>14 DEF Seen
  <2>4. QED
    BY <2>1, <2>2, <2>3 DEF SeenKept
<1>17. QED
  BY <1>1, <1>3, <1>5, <1>9, <1>11, <1>13, <1>15, <1>16, LocalStep DEF ServerInv

\* The one batch of pipelined triples polls its chunks in order.
LEMMA PollHolds ==
    ASSUME IInv, NEW s \in Servers, NEW b \in 1 .. started[s], OperatorPolls(s, b)
    PROVE  IInv'
<1> DEFINE n == submitted[s]
           t == triples[s][b]
<1>1. /\ UNCHANGED config
      /\ UNCHANGED <<secrets, stage, pairs, submitted, started, conds, results>>
      /\ method = "pipeline" /\ b \in Running(s) /\ Len(t) < Round(s, b)
      /\ polled' = [polled EXCEPT ![s] = @ + 1]
      /\ triples' = [triples EXCEPT ![s][b] = Append(@, polled[s] + 1)]
  BY DEF OperatorPolls
<1>2. Configured /\ Shape /\ ServerInv(s)
  BY DEF IInv
<1>3. Shape'
  BY <1>1, <1>2 DEF Shape, PerServer
<1>4. /\ polled'[s] = polled[s] + 1
      /\ triples'[s] = [triples[s] EXCEPT ![b] = Append(t, polled[s] + 1)]
  BY <1>1, <1>2 DEF Shape, PerServer
<1>5. \A o \in Servers \ {s} : UNCHANGED Local(o)
  BY <1>1, <1>2 DEF Local, Shape, PerServer
<1>6. /\ n \in Nat /\ started[s] \in Nat /\ started[s] <= n /\ polled[s] \in Nat
      /\ Listed(triples[s], n) /\ b \in 1 .. n
  BY <1>2 DEF ServerInv, Batches, Polled
<1>7. results[s][b] = None
  BY <1>1 DEF Running
<1>8. stage[s] # Ended /\ n <= NumBatches(s)
  BY <1>2, <1>6 DEF ServerInv, Batches
<1>9. NumBatches(s) = 1
  BY <1>1, <1>2, <1>8, StageFacts DEF ServerInv
<1>10. n = 1 /\ b = 1
  BY <1>6, <1>8, <1>9
<1>11. t \in Seq(Nat) /\ Len(t) \in 0 .. 2
       /\ \A r \in 1 .. Len(t) : t[r] = PolledBefore(s) + 2 * (b - 1) + r
  BY <1>2, <1>6 DEF ServerInv, Polled
<1>12. Len(t) \in 0 .. 1
  <2>1. Round(s, b) = 1 \/ Round(s, b) = 2
    BY <1>7 DEF Round
  <2>2. QED
    BY <1>1, <1>11, <2>1
<1> HIDE DEF n
<1>13. /\ Listed(triples'[s], n)
       /\ triples'[s][b] = Append(t, polled[s] + 1)
  <2> DEFINE v == Append(t, polled[s] + 1)
  <2>1. triples'[s] = [triples[s] EXCEPT ![b] = v]
    BY <1>4
  <2> HIDE DEF v, t
  <2>2. Listed(triples'[s], n)
        /\ \A c \in 1 .. n : triples'[s][c] = IF c = b THEN v ELSE triples[s][c]
    <3>1. PICK q : q = triples[s]
      OBVIOUS
    <3>2. Listed(q, n) /\ n \in Nat /\ b \in 1 .. n
      BY <1>6, <3>1
    <3>3. \A d \in 1 .. n : \A w :
            /\ Listed([q EXCEPT ![d] = w], n)
            /\ \A c \in 1 .. n : [q EXCEPT ![d] = w][c] = IF c = d THEN w ELSE q[c]
      BY <3>2, ListedIs
    <3>4. /\ Listed([q EXCEPT ![b] = v], n)
          /\ \A c \in 1 .. n : [q EXCEPT ![b] = v][c] = IF c = b THEN v ELSE q[c]
      BY <3>2, <3>3, SMTT(30)
    <3>5. triples'[s] = [q EXCEPT ![b] = v]
      BY <2>1, <3>1
    <3>6. QED
      BY <3>1, <3>4, <3>5
  <2>3. QED
    BY <1>6, <2>2 DEF v
<1>14. PolledBefore(s)' = PolledBefore(s) /\ PolledBefore(s) = polled[s] - Len(t)
  <2>1. method' = method /\ submitted'[s] = submitted[s]
    BY <1>1 DEF config
  <2>2. Len(Append(t, polled[s] + 1)) = Len(t) + 1
    BY <1>6, <1>11
  <2>3. PolledBefore(s) = polled[s] - Len(t)
    BY <1>1, <1>10 DEF PolledBefore, Taken, n
  <2>4. PolledBefore(s)' = (polled[s] + 1) - (Len(t) + 1)
    BY <1>1, <1>4, <1>10, <1>13, <2>1, <2>2 DEF PolledBefore, Taken, n
  <2>5. Len(t) \in Nat
    BY <1>11
  <2> HIDE DEF t
  <2>6. QED
    BY <1>6, <2>3, <2>4, <2>5
<1>15. /\ NumBatches(s)' = NumBatches(s)
       /\ \A c : /\ RightConds(s, c)' = RightConds(s, c)
                 /\ RightResults(s, c)' = RightResults(s, c)
  BY <1>1, BatchesKept
<1>16. Progress(s)'
  BY <1>1, <1>2, ConfigKept DEF Progress, ServerInv
<1>17. Comparisons(secrets[s], stage[s])' = Comparisons(secrets[s], stage[s])
  BY <1>1 DEF Comparisons, Wanted, config
<1>18. Batches(s)'
  BY <1>1, <1>2, <1>13, <1>15, <1>17 DEF ServerInv, Batches, n
<1>19. NoNoise(s)'
  BY <1>1, <1>2, <1>15 DEF ServerInv, NoNoise
<1>20. Polled(s)'
  <2> DEFINE u == Append(t, polled[s] + 1)
  <2>1. u \in Seq(Nat) /\ Len(u) = Len(t) + 1
    BY <1>6, <1>11
  <2>2. \A r \in 1 .. Len(u) : u[r] = PolledBefore(s) + 2 * (b - 1) + r
    <3>1. ASSUME NEW r \in 1 .. Len(u) PROVE u[r] = PolledBefore(s) + 2 * (b - 1) + r
      <4>1. CASE r = Len(t) + 1
        <5>1. u[r] = polled[s] + 1
          BY <1>11, <4>1
        <5>2. QED
          BY <1>6, <1>10, <1>11, <1>14, <4>1, <5>1
      <4>2. CASE r # Len(t) + 1
        <5>1. r \in 1 .. Len(t)
          BY <1>11, <2>1, <4>2
        <5>2. u[r] = t[r]
          BY <1>11, <5>1
        <5>3. QED
          BY <1>11, <5>1, <5>2
      <4>3. QED
        BY <4>1, <4>2
    <3>2. QED
      BY <3>1
  <2>3. polled'[s] \in Nat /\ method' = method
    BY <1>1, <1>4, <1>6 DEF config
  <2>4. Len(u) \in 0 .. 2
    <3>1. PICK k \in 0 .. 1 : Len(t) = k
      BY <1>12
    <3>2. k + 1 \in 0 .. 2
      OBVIOUS
    <3>3. Len(u) = k + 1
      BY <2>1, <3>1
    <3> HIDE DEF u
    <3>4. QED
      BY <3>2, <3>3
  <2> HIDE DEF u, t
  <2>5. ASSUME NEW c \in 1 .. n
        PROVE  /\ triples'[s][c] \in Seq(Nat) /\ Len(triples'[s][c]) \in 0 .. 2
               /\ \A r \in 1 .. Len(triples'[s][c]) :
                    triples'[s][c][r] = PolledBefore(s) + 2 * (c - 1) + r
               /\ method = "background" => Len(triples'[s][c]) = 2
               /\ method = "pipeline" /\ results'[s][c] # None => Len(triples'[s][c]) = 2
    <3>1. c = b
      BY <1>10
    <3>2. triples'[s][c] = u /\ results'[s][c] = None
      BY <1>1, <1>7, <1>13, <3>1 DEF u
    <3>3. QED
      BY <1>1, <2>1, <2>2, <2>4, <3>1, <3>2
  <2>6. submitted'[s] = n
    BY <1>1 DEF n
  <2>7. QED
    BY <1>14, <2>3, <2>5, <2>6 DEF Polled
<1>21. SeenKept(s)
  BY <1>1, <1>14, <1>15 DEF SeenKept, Seen, Cond, Result, Written
<1>22. QED
  BY <1>1, <1>3, <1>5, <1>16, <1>18, <1>19, <1>20, <1>21, LocalStep DEF ServerInv

\* What the servers compute together they compute from the same operands and triples.
LEMMA ComputedRight ==
    ASSUME IInv, NEW b, NEW round \in 1 .. 2, \A s \in Servers : b \in Running(s),
           \A s \in Servers : Round(s, b) = round /\ HasTriples(s, b, round)
    PROVE  /\ Level /\ pairs[0] = pairs[1]
           /\ \A s \in Servers : stage[s] # Ended /\ submitted[s] \in Nat /\ b \in 1 .. submitted[s]
           /\ \A s \in Servers : results[s][b] = None
           /\ round = 1 => Less(b) = RightConds(0, b)
           /\ round = 2 => Mutex(b) = RightResults(0, b)
<1>1. Configured /\ \A s \in Servers : ServerInv(s)
  BY DEF IInv
<1>2. 0 \in Servers /\ 1 \in Servers
  BY DEF Servers
<1>3. ASSUME NEW s \in Servers
      PROVE  /\ stage[s] # Ended /\ submitted[s] \in Nat /\ b \in 1 .. submitted[s]
             /\ results[s][b] = None
             /\ NumBatches(s) \in Nat /\ b \in 1 .. NumBatches(s) /\ Result(s, b) = None
  <2>1. /\ submitted[s] \in Nat /\ started[s] \in Nat /\ started[s] <= submitted[s]
        /\ IF stage[s] = Ended THEN submitted[s] = 0 ELSE submitted[s] <= NumBatches(s)
    BY <1>1 DEF ServerInv, Batches
  <2>2. b \in 1 .. started[s] /\ results[s][b] = None
    BY DEF Running
  <2>3. b \in 1 .. submitted[s]
    BY <2>1, <2>2
  <2>4. stage[s] # Ended
    BY <2>1, <2>3
  <2>5. NumBatches(s) \in Nat
    BY <1>1, <2>4, StageFacts DEF ServerInv
  <2>6. b \in 1 .. NumBatches(s)
    BY <2>1, <2>3, <2>4, <2>5
  <2>7. Result(s, b) = None
    BY <2>2, <2>3 DEF Result
  <2>8. QED
    BY <2>1, <2>2, <2>3, <2>4, <2>5, <2>6, <2>7
<1>4. Level
  <2>1. ASSUME NEW s \in Servers, NEW o \in Servers PROVE ~Ahead(s, o)
    BY <1>3 DEF Ahead
  <2>2. QED
    BY <1>2, <2>1 DEF IInv, Together
<1>5. pairs[0] = pairs[1]
  <2>1. /\ pairs[0] = Comparisons(secrets[0], stage[0])
        /\ pairs[1] = Comparisons(secrets[1], stage[1])
    BY <1>1, <1>2, <1>3 DEF ServerInv, Batches
  <2>2. secrets[0] = secrets[1] /\ stage[0] = stage[1]
    BY <1>4 DEF Level
  <2>3. QED
    BY <2>1, <2>2
<1>6. Clean(b)
  BY <1>5 DEF Clean, BatchOf
<1>7. SameTriples(b, round)
  <2>1. CASE method = "jit"
    BY <2>1 DEF SameTriples
  <2>2. CASE method # "jit"
    <3>1. ASSUME NEW s \in Servers
          PROVE  triples[s][b][round] = PolledBefore(s) + 2 * (b - 1) + round
      <4>1. /\ Len(triples[s][b]) \in 0 .. 2
            /\ \A r \in 1 .. Len(triples[s][b]) :
                 triples[s][b][r] = PolledBefore(s) + 2 * (b - 1) + r
        BY <1>1, <1>3 DEF ServerInv, Polled
      <4>2. Len(triples[s][b]) >= round
        BY <2>2 DEF HasTriples
      <4>3. round \in 1 .. Len(triples[s][b])
        BY <4>1, <4>2
      <4>4. QED
        BY <4>1, <4>3
    <3>2. PolledBefore(0) = PolledBefore(1)
      BY <1>4 DEF Level
    <3>3. QED
      BY <1>2, <3>1, <3>2 DEF SameTriples
  <2>3. QED
    BY <2>1, <2>2
<1>8. \A c \in DOMAIN BatchOf(0, b) :
        BatchOf(0, b)[c].x \in Values /\ BatchOf(0, b)[c].y \in Values
  BY <1>1, <1>2, <1>3, StageFacts DEF ServerInv
<1>9. Noise \notin Values /\ 1 # Noise /\ 0 # Noise
  BY DEF Noise, Values
<1>10. CASE round = 1
  <2>1. ASSUME NEW c \in DOMAIN BatchOf(0, b)
        PROVE  Less(b)[c] = IF Keeps(BatchOf(0, b)[c]) THEN 1 ELSE 0
    <3> DEFINE p == BatchOf(0, b)[c]
    <3>1. Noise \notin {p.x, p.y}
      BY <1>8, <1>9
    <3>2. Less(b)[c] = IF ~Clean(b) \/ ~SameTriples(b, 1) \/ Noise \in {p.x, p.y} THEN Noise
                       ELSE IF (p.x < p.y) = p.up THEN 1 ELSE 0
      BY DEF Less
    <3>3. QED
      BY <1>6, <1>7, <1>10, <3>1, <3>2 DEF Keeps
  <2>2. Less(b) = [c \in DOMAIN BatchOf(0, b) |-> Less(b)[c]]
    BY DEF Less
  <2>3. Less(b) = RightConds(0, b)
    BY <2>1, <2>2 DEF RightConds
  <2>4. QED
    BY <1>3, <1>4, <1>5, <1>10, <2>3
<1>11. CASE round = 2
  <2>1. conds[0][b] = RightConds(0, b)
    <3>1. conds[0][b] # None
      BY <1>2, <1>11 DEF Round
    <3>2. QED
      BY <1>1, <1>2, <1>3, <3>1 DEF ServerInv, NoNoise
  <2>2. ASSUME NEW c \in DOMAIN BatchOf(0, b)
        PROVE  Mutex(b)[c] = Turned(BatchOf(0, b)[c])
    <3> DEFINE p == BatchOf(0, b)[c]
               cond == conds[0][b][c]
               noise == ~Clean(b) \/ ~SameTriples(b, 2) \/ cond = Noise
    <3>1. cond = IF Keeps(p) THEN 1 ELSE 0
      BY <2>1 DEF RightConds
    <3>2. (cond = 1 <=> Keeps(p)) /\ ~noise
      BY <1>6, <1>7, <1>9, <1>11, <3>1
    <3>3. Mutex(b)[c] =
            [i |-> p.i, l |-> p.l,
             first |-> IF noise THEN Noise ELSE IF cond = 1 THEN p.x ELSE p.y,
             second |-> IF noise THEN Noise ELSE IF cond = 1 THEN p.y ELSE p.x]
      BY DEF Mutex
    <3> HIDE DEF p, cond, noise
    <3>4. QED
      BY <3>2, <3>3 DEF Turned, p
  <2>3. Mutex(b) = [c \in DOMAIN BatchOf(0, b) |-> Mutex(b)[c]]
    BY DEF Mutex
  <2>4. Mutex(b) = RightResults(0, b)
    BY <2>2, <2>3 DEF RightResults
  <2>5. QED
    BY <1>3, <1>4, <1>5, <1>11, <2>4
<1>12. QED
  BY <1>10, <1>11

\* What two level servers compute for a batch they both have, without noise.
LEMMA ComputeHolds ==
    ASSUME IInv, NEW b, Compute(b)
    PROVE  IInv'
<1>1. PICK round \in 1 .. 2 :
        /\ \A s \in Servers : Round(s, b) = round /\ HasTriples(s, b, round)
        /\ IF round = 1
           THEN /\ conds' = [s \in Servers |-> [conds[s] EXCEPT ![b] = Less(b)]]
                /\ UNCHANGED results
           ELSE /\ results' = [s \in Servers |-> [results[s] EXCEPT ![b] = Mutex(b)]]
                /\ UNCHANGED conds
  BY DEF Compute
<1>2. /\ UNCHANGED config
      /\ UNCHANGED <<secrets, stage, pairs, submitted, started, triples, polled>>
      /\ \A s \in Servers : b \in Running(s)
  BY DEF Compute
<1>3. /\ Level /\ pairs[0] = pairs[1]
      /\ \A s \in Servers : stage[s] # Ended /\ submitted[s] \in Nat /\ b \in 1 .. submitted[s]
      /\ \A s \in Servers : results[s][b] = None
      /\ round = 1 => Less(b) = RightConds(0, b)
      /\ round = 2 => Mutex(b) = RightResults(0, b)
  BY <1>1, <1>2, ComputedRight
<1>4. Configured /\ Shape /\ \A s \in Servers : ServerInv(s)
  BY DEF IInv
<1>5. ASSUME NEW s \in Servers
      PROVE  RightConds(0, b) = RightConds(s, b) /\ RightResults(0, b) = RightResults(s, b)
  <2>1. pairs[s] = pairs[0]
    BY <1>3 DEF Servers
  <2>2. BatchOf(s, b) = BatchOf(0, b)
    BY <2>1 DEF BatchOf
  <2>3. QED
    BY <2>2 DEF RightConds, RightResults
<1>6. ASSUME NEW s \in Servers
      PROVE  /\ conds'[s] = IF round = 1 THEN [conds[s] EXCEPT ![b] = RightConds(s, b)]
                            ELSE conds[s]
             /\ results'[s] = IF round = 1 THEN results[s]
                              ELSE [results[s] EXCEPT ![b] = RightResults(s, b)]
  BY <1>1, <1>3, <1>5
<1>7. Shape'
  BY <1>1, <1>2, <1>4 DEF Shape, PerServer
<1>8. ASSUME NEW s \in Servers
      PROVE  /\ Listed(conds'[s], submitted[s]) /\ Listed(results'[s], submitted[s])
             /\ \A c \in 1 .. submitted[s] :
                  /\ conds'[s][c] = IF round = 1 /\ c = b THEN RightConds(s, b) ELSE conds[s][c]
                  /\ results'[s][c] = IF round = 2 /\ c = b THEN RightResults(s, b)
                                      ELSE results[s][c]
  <2>1. /\ submitted[s] \in Nat /\ b \in 1 .. submitted[s]
        /\ Listed(conds[s], submitted[s]) /\ Listed(results[s], submitted[s])
    BY <1>3, <1>4 DEF ServerInv, Batches
  <2>2. PICK n, f, g : n = submitted[s] /\ f = conds[s] /\ g = results[s]
    OBVIOUS
  <2>3. n \in Nat /\ b \in 1 .. n /\ Listed(f, n) /\ Listed(g, n)
    BY <2>1, <2>2
  <2>4. \A d \in 1 .. n : \A w :
          /\ Listed([f EXCEPT ![d] = w], n)
          /\ \A c \in 1 .. n : [f EXCEPT ![d] = w][c] = IF c = d THEN w ELSE f[c]
    BY <2>3, ListedIs
  <2>5. \A d \in 1 .. n : \A w :
          /\ Listed([g EXCEPT ![d] = w], n)
          /\ \A c \in 1 .. n : [g EXCEPT ![d] = w][c] = IF c = d THEN w ELSE g[c]
    BY <2>3, ListedIs
  <2>6. PICK v, w : v = RightConds(s, b) /\ w = RightResults(s, b)
    OBVIOUS
  <2>7. CASE round = 1
    <3>1. conds'[s] = [f EXCEPT ![b] = v] /\ results'[s] = g
      BY <1>6, <2>2, <2>6, <2>7
    <3>2. Listed(conds'[s], n) /\ \A c \in 1 .. n : conds'[s][c] = IF c = b THEN v ELSE f[c]
      BY <2>3, <2>4, <3>1
    <3>3. QED
      BY <2>2, <2>3, <2>6, <2>7, <3>1, <3>2
  <2>8. CASE round = 2
    <3>1. results'[s] = [g EXCEPT ![b] = w] /\ conds'[s] = f
      BY <1>6, <2>2, <2>6, <2>8
    <3>2. Listed(results'[s], n) /\ \A c \in 1 .. n : results'[s][c] = IF c = b THEN w ELSE g[c]
      BY <2>3, <2>5, <3>1
    <3>3. QED
      BY <2>2, <2>3, <2>6, <2>8, <3>1, <3>2
  <2>9. QED
    BY <2>7, <2>8
<1>9. ASSUME NEW s \in Servers
      PROVE  /\ NumBatches(s)' = NumBatches(s) /\ PolledBefore(s)' = PolledBefore(s)
             /\ \A c : /\ RightConds(s, c)' = RightConds(s, c)
                       /\ RightResults(s, c)' = RightResults(s, c)
             /\ Progress(s)'
             /\ Comparisons(secrets[s], stage[s])' = Comparisons(secrets[s], stage[s])
  <2>1. NumBatches(s)' = NumBatches(s)
        /\ \A c : /\ RightConds(s, c)' = RightConds(s, c)
                  /\ RightResults(s, c)' = RightResults(s, c)
    BY <1>2, BatchesKept
  <2>2. PolledBefore(s)' = PolledBefore(s)
    BY <1>2 DEF PolledBefore, Taken, config
  <2>3. Progress(s)'
    BY <1>2, <1>4, ConfigKept DEF Progress, ServerInv
  <2>4. Comparisons(secrets[s], stage[s])' = Comparisons(secrets[s], stage[s])
    BY <1>2 DEF Comparisons, Wanted, config
  <2>5. QED
    BY <2>1, <2>2, <2>3, <2>4
<1>10. ASSUME NEW s \in Servers PROVE ServerInv(s)'
  <2>1. Batches(s)'
    BY <1>2, <1>4, <1>8, <1>9 DEF ServerInv, Batches
  <2>2. NoNoise(s)'
    <3>1. ASSUME NEW c \in 1 .. submitted[s]
          PROVE  /\ conds'[s][c] \in {None, RightConds(s, c)}
                 /\ results'[s][c] \in {None, RightResults(s, c)}
      <4>1. /\ conds[s][c] \in {None, RightConds(s, c)}
            /\ results[s][c] \in {None, RightResults(s, c)}
        BY <1>4 DEF ServerInv, NoNoise
      <4>2. QED
        BY <1>8, <4>1
    <3>2. QED
      BY <1>2, <1>9, <3>1 DEF NoNoise
  <2>3. Polled(s)'
    <3>1. ASSUME NEW c \in 1 .. submitted[s], method = "pipeline", results'[s][c] # None
          PROVE  Len(triples[s][c]) = 2
      <4>1. Len(triples[s][c]) \in 0 .. 2
            /\ (results[s][c] # None => Len(triples[s][c]) = 2)
        BY <1>4, <3>1 DEF ServerInv, Polled
      <4>2. CASE round = 2 /\ c = b
        <5>1. Len(triples[s][c]) >= 2
          BY <1>1, <3>1, <4>2 DEF HasTriples
        <5>2. PICK k \in 0 .. 2 : Len(triples[s][c]) = k
          BY <4>1
        <5>3. k >= 2
          BY <5>1, <5>2
        <5>4. QED
          BY <5>2, <5>3
      <4>3. CASE ~(round = 2 /\ c = b)
        <5>1. results'[s][c] = results[s][c]
          BY <1>8, <4>3
        <5>2. QED
          BY <3>1, <4>1, <5>1
      <4>4. QED
        BY <4>2, <4>3
    <3>2. method' = method
      BY <1>2 DEF config
    <3>3. QED
      BY <1>2, <1>4, <1>9, <3>1, <3>2, ZenonT(60) DEF ServerInv, Polled
  <2>4. QED
    BY <1>9, <2>1, <2>2, <2>3 DEF ServerInv
<1>11. Level'
  <2>1. 0 \in Servers /\ 1 \in Servers
    BY DEF Servers
  <2>2. /\ stage[0] = stage[1] /\ secrets[0] = secrets[1] /\ PolledBefore(0) = PolledBefore(1)
        /\ \A c \in Nat : Cond(0, c) = Cond(1, c) /\ Result(0, c) = Result(1, c)
    BY <1>3 DEF Level
  <2>3. ASSUME NEW s \in Servers, NEW c \in Nat
        PROVE  /\ Cond(s, c)' = IF round = 1 /\ c = b THEN RightConds(s, b) ELSE Cond(s, c)
               /\ Result(s, c)' = IF round = 2 /\ c = b THEN RightResults(s, b) ELSE Result(s, c)
    <3>1. b \in 1 .. submitted[s] /\ submitted'[s] = submitted[s]
      BY <1>2, <1>3
    <3>2. CASE c \in 1 .. submitted[s]
      BY <1>8, <3>1, <3>2 DEF Cond, Result
    <3>3. CASE c \notin 1 .. submitted[s]
      BY <3>1, <3>3 DEF Cond, Result
    <3>4. QED
      BY <3>2, <3>3
  <2>4. RightConds(0, b) = RightConds(1, b) /\ RightResults(0, b) = RightResults(1, b)
    BY <1>5, <2>1
  <2>5. ASSUME NEW c \in Nat
        PROVE  Cond(0, c)' = Cond(1, c)' /\ Result(0, c)' = Result(1, c)'
    BY <2>1, <2>2, <2>3, <2>4
  <2>6. PolledBefore(0)' = PolledBefore(1)'
    BY <1>9, <2>1, <2>2
  <2>7. QED
    BY <1>2, <2>2, <2>5, <2>6 DEF Level
<1>12. Configured'
  BY <1>2, <1>4, ConfigKept
<1>13. QED
  BY <1>7, <1>10, <1>11, <1>12 DEF IInv, Together

\* A server that has all its results has taken two chunks for every batch.
LEMMA TakenInStage ==
    ASSUME NEW s, Configured, ServerInv(s), stage[s] # Ended, submitted[s] = NumBatches(s),
           \A b \in 1 .. NumBatches(s) : results[s][b] # None
    PROVE  polled[s] = PolledBefore(s) + (IF method = "jit" THEN 0 ELSE 2 * NumBatches(s))
<1>1. /\ NumBatches(s) \in Nat \ {0} /\ (method = "pipeline" => NumBatches(s) = 1)
      /\ polled[s] \in Nat
  BY StageFacts DEF ServerInv, Polled
<1>2. method \in {"jit", "background", "pipeline"}
  BY BitonicSortAssumption DEF Configured
<1>3. Taken(s) = IF method = "jit" THEN 0 ELSE 2 * NumBatches(s)
  <2>1. CASE method = "pipeline"
    <3>1. submitted[s] = 1 /\ 1 \in 1 .. NumBatches(s)
      BY <1>1, <2>1
    <3>2. Len(triples[s][1]) = 2
      BY <2>1, <3>1 DEF ServerInv, Polled
    <3>3. QED
      BY <1>1, <2>1, <3>1, <3>2 DEF Taken
  <2>2. CASE method = "background"
    BY <2>2 DEF Taken
  <2>3. CASE method = "jit"
    BY <2>3 DEF Taken
  <2>4. QED
    BY <1>2, <2>1, <2>2, <2>3
<1>4. PICK k \in Nat : Taken(s) = k
  BY <1>1, <1>3
<1>5. PolledBefore(s) = polled[s] - k
  BY <1>4 DEF PolledBefore
<1>6. PolledBefore(s) + k = polled[s]
  BY <1>1, <1>5
<1>7. QED
  BY <1>3, <1>4, <1>6

\* Two servers that are level have the same results when one has them all.
LEMMA SameResults ==
    ASSUME NEW s \in Servers, NEW o \in Servers, Configured, ServerInv(s), ServerInv(o),
           Level, stage[s] # Ended, submitted[s] = NumBatches(s),
           \A b \in 1 .. NumBatches(s) : results[s][b] # None
    PROVE  /\ NumBatches(o) = NumBatches(s)
           /\ \A b \in 1 .. NumBatches(o) : Result(o, b) # None
           /\ Onward(o) = Onward(s)
<1>1. /\ stage[s] = stage[o] /\ secrets[s] = secrets[o]
      /\ \A b \in Nat : Result(s, b) = Result(o, b)
  BY DEF Level, Servers
<1>2. pairs[s] = pairs[o]
  <2>1. /\ pairs[s] = Comparisons(secrets[s], stage[s])
        /\ pairs[o] = Comparisons(secrets[o], stage[o])
    BY <1>1 DEF ServerInv, Batches
  <2>2. QED
    BY <1>1, <2>1
<1>3. NumBatches(o) = NumBatches(s)
  BY <1>2 DEF NumBatches
<1>4. PICK n \in Nat \ {0} : n = NumBatches(s)
  BY StageFacts DEF ServerInv
<1>5. submitted[s] = n /\ submitted[o] \in Nat /\ submitted[o] <= n
  BY <1>1, <1>3, <1>4 DEF ServerInv, Batches
<1>6. ASSUME NEW b \in 1 .. n PROVE Result(o, b) = results[s][b] /\ results[s][b] # None
  BY <1>1, <1>4, <1>5 DEF Result
<1>7. submitted[o] = n
  <2>1. n \in 1 .. n
    BY <1>4
  <2>2. n \in 1 .. submitted[o]
    BY <1>6, <2>1 DEF Result
  <2>3. QED
    BY <1>5, <2>2
<1>8. results[o] = results[s]
  <2>1. Listed(results[s], n) /\ Listed(results[o], n)
    BY <1>5, <1>7 DEF ServerInv, Batches
  <2>2. \A b \in 1 .. n : results[o][b] = results[s][b]
    BY <1>6, <1>7 DEF Result
  <2>3. QED
    BY <2>1, <2>2 DEF Listed
<1>9. Onward(o) = Onward(s)
  BY <1>1, <1>8 DEF Onward, Written
<1>10. QED
  BY <1>3, <1>4, <1>6, <1>9

\* A server goes on to the next stage, or the other one is there already.
LEMMA GatherHolds ==
    ASSUME IInv, NEW s \in Servers, Gather(s)
    PROVE  IInv'
<1> DEFINE next == After(stage[s], Cardinality(DOMAIN secrets[s]))
           B == Onward(s)
<1>1. /\ stage[s] # Ended /\ submitted[s] = NumBatches(s)
      /\ \A b \in 1 .. NumBatches(s) : results[s][b] # None
      /\ stage' = [stage EXCEPT ![s] = next] /\ secrets' = [secrets EXCEPT ![s] = B]
      /\ pairs' = [pairs EXCEPT ![s] = IF next = Ended THEN <<>> ELSE Comparisons(B, next)]
      /\ submitted' = [submitted EXCEPT ![s] = 0] /\ started' = [started EXCEPT ![s] = 0]
      /\ triples' = [triples EXCEPT ![s] = <<>>]
      /\ conds' = [conds EXCEPT ![s] = <<>>] /\ results' = [results EXCEPT ![s] = <<>>]
      /\ UNCHANGED config /\ UNCHANGED polled
  BY DEF Gather, Onward
<1>2. Configured /\ Shape /\ \A o \in Servers : ServerInv(o)
  BY DEF IInv
<1> HIDE DEF next, B
<1>3. Shape'
  BY <1>1, <1>2 DEF Shape, PerServer
<1>4. /\ stage'[s] = next /\ secrets'[s] = B
      /\ pairs'[s] = IF next = Ended THEN <<>> ELSE Comparisons(B, next)
      /\ submitted'[s] = 0 /\ started'[s] = 0 /\ polled'[s] = polled[s]
      /\ triples'[s] = <<>> /\ conds'[s] = <<>> /\ results'[s] = <<>>
  BY <1>1, <1>2 DEF Shape, PerServer
<1>5. \A o \in Servers \ {s} : UNCHANGED Local(o)
  BY <1>1, <1>2 DEF Local, Shape, PerServer
<1>6. \A o \in Servers \ {s} : ServerInv(o)' /\ SeenKept(o)
  BY <1>1, <1>2, <1>5, LocalKept
<1>7. PICK A \in [Places -> Real] : SameValues(A) /\ Holds(B, next, A)
  BY <1>1, <1>2, StageEnds DEF ServerInv, next, B
<1>8. Configured' /\ Progress(s)'
  BY <1>1, <1>2, <1>4, <1>7, ConfigKept DEF Progress
<1>9. Batches(s)'
  <2>1. pairs'[s] = IF stage'[s] = Ended THEN <<>> ELSE Comparisons(secrets[s], stage[s])'
    <3>1. \A C, st : Comparisons(C, st)' = Comparisons(C, st)
      BY <1>1 DEF Comparisons, Wanted, config
    <3>2. Comparisons(secrets[s], stage[s])' = Comparisons(B, next)
      BY <1>4, <3>1
    <3>3. QED
      BY <1>4, <3>2
  <2>2. stage'[s] # Ended => 0 <= NumBatches(s)'
    <3>1. ASSUME stage'[s] # Ended PROVE 0 <= NumBatches(s)'
      <4>1. PICK P : P = Comparisons(B, next)
        OBVIOUS
      <4>2. pairs'[s] = P /\ next # Ended
        BY <1>4, <3>1, <4>1
      <4>3. (IF InOneBatch THEN 1 ELSE (Len(P) + batchSize - 1) \div batchSize) \in Nat
        BY <1>2, <1>7, <4>1, <4>2, SomeBatches
      <4>4. NumBatches(s)' = IF InOneBatch THEN 1 ELSE (Len(P) + batchSize - 1) \div batchSize
        BY <1>1, <4>2 DEF NumBatches, InOneBatch, config
      <4>5. QED
        BY <4>3, <4>4
    <3>2. QED
      BY <3>1
  <2>3. Listed(<<>>, 0)
    BY DEF Listed
  <2>4. QED
    BY <1>4, <2>1, <2>2, <2>3 DEF Batches
<1>10. NoNoise(s)' /\ Polled(s)'
  <2>1. polled[s] \in Nat
    BY <1>2 DEF ServerInv, Polled
  <2>2. QED
    BY <1>4, <2>1 DEF NoNoise, Polled
<1>11. \A o \in Servers : ServerInv(o)'
  BY <1>6, <1>8, <1>9, <1>10 DEF ServerInv
<1>12. PolledBefore(s)'
         = PolledBefore(s) + (IF method = "jit" THEN 0 ELSE 2 * NumBatches(s))
  <2>1. Taken(s)' = 0
    BY <1>4 DEF Taken
  <2>2. polled[s] \in Nat
    BY <1>2 DEF ServerInv, Polled
  <2>3. PolledBefore(s)' = polled[s]
    BY <1>4, <2>1, <2>2 DEF PolledBefore
  <2>4. QED
    BY <1>1, <1>2, <2>3, TakenInStage
<1>13. \A b \in Nat : Cond(s, b)' = None /\ Result(s, b)' = None
  BY <1>4 DEF Cond, Result
<1>14. PICK o \in Servers : o # s /\ Servers = {s, o}
  BY DEF Servers
<1>15. SeenKept(o) /\ UNCHANGED Local(o) /\ ServerInv(o)
  BY <1>2, <1>5, <1>6, <1>14
<1>16. /\ stage'[o] = stage[o] /\ secrets'[o] = secrets[o]
       /\ PolledBefore(o)' = PolledBefore(o) /\ NumBatches(o)' = NumBatches(o)
       /\ \A b \in Nat : Cond(o, b)' = Cond(o, b) /\ Result(o, b)' = Result(o, b)
       /\ Onward(o)' = Onward(o) /\ method' = method
  <2>1. /\ stage'[o] = stage[o] /\ secrets'[o] = secrets[o] /\ results'[o] = results[o]
        /\ method' = method
    BY <1>1, <1>15 DEF Local, config
  <2>2. /\ PolledBefore(o)' = PolledBefore(o) /\ NumBatches(o)' = NumBatches(o)
        /\ \A b \in Nat : Cond(o, b)' = Cond(o, b) /\ Result(o, b)' = Result(o, b)
    BY <1>15 DEF SeenKept, Seen
  <2>3. Onward(o)' = Onward(o)
    BY <2>1 DEF Onward, Written
  <2>4. QED
    BY <2>1, <2>2, <2>3
<1>17. ASSUME Level PROVE Together'
  <2>1. /\ stage[s] = stage[o] /\ secrets[s] = secrets[o]
        /\ PolledBefore(s) = PolledBefore(o)
    BY <1>14, <1>17 DEF Level, Servers
  <2>2. /\ NumBatches(o) = NumBatches(s)
        /\ \A b \in 1 .. NumBatches(o) : Result(o, b) # None
        /\ Onward(o) = B
    BY <1>1, <1>2, <1>17, SameResults DEF B
  <2>3. \A b \in 1 .. NumBatches(o) : b \in Nat
    OBVIOUS
  <2>4. stage'[s] = After(stage'[o], Cardinality(DOMAIN secrets'[o]))
    BY <1>4, <1>16, <2>1 DEF next
  <2>5. PolledBefore(s)' = PolledBefore(o)' + (IF method' = "jit" THEN 0 ELSE 2 * NumBatches(o)')
    BY <1>12, <1>16, <2>1, <2>2
  <2>6. \A b \in 1 .. NumBatches(o)' : Result(o, b)' # None
    BY <1>16, <2>2, <2>3
  <2>7. secrets'[s] = Onward(o)'
    BY <1>4, <1>16, <2>2
  <2>8. stage'[o] # Ended
    BY <1>1, <1>16, <2>1
  <2>9. Ahead(s, o)'
    BY <1>13, <2>4, <2>5, <2>6, <2>7, <2>8 DEF Ahead
  <2>10. QED
    BY <1>14, <2>9 DEF Together, Servers
<1>18. ASSUME Ahead(s, o) PROVE Together'
  <2>1. 1 \in 1 .. NumBatches(s)
    BY <1>1, <1>2, StageFacts DEF ServerInv
  <2>2. Result(s, 1) = results[s][1] /\ results[s][1] # None
    BY <1>1, <2>1 DEF Result
  <2>3. QED
    BY <1>18, <2>2 DEF Ahead
<1>19. ASSUME Ahead(o, s) PROVE Together'
  <2>1. /\ stage[o] = next /\ secrets[o] = B
        /\ PolledBefore(o) = PolledBefore(s) + (IF method = "jit" THEN 0 ELSE 2 * NumBatches(s))
        /\ \A b \in Nat : Cond(o, b) = None /\ Result(o, b) = None
    BY <1>19 DEF Ahead, next, B
  <2>2. /\ stage'[s] = stage'[o] /\ secrets'[s] = secrets'[o]
        /\ PolledBefore(s)' = PolledBefore(o)'
    BY <1>4, <1>12, <1>16, <2>1
  <2>3. \A b \in Nat : Cond(s, b)' = Cond(o, b)' /\ Result(s, b)' = Result(o, b)'
    BY <1>13, <1>16, <2>1
  <2>4. Level'
    BY <1>14, <2>2, <2>3 DEF Level, Servers
  <2>5. QED
    BY <2>4 DEF Together
<1>20. Together'
  BY <1>14, <1>17, <1>18, <1>19 DEF IInv, Together, Servers
<1>21. QED
  BY <1>3, <1>8, <1>11, <1>20 DEF IInv

\* Every step keeps the inductive invariant.
LEMMA NextHolds ==
    ASSUME IInv, [Next]_vars
    PROVE  IInv'
<1>1. CASE UNCHANGED vars
  <2>1. UNCHANGED config /\ \A s \in Servers : UNCHANGED Local(s)
    BY <1>1 DEF vars, Local
  <2>2. Shape'
    BY <1>1 DEF IInv, Shape, PerServer, vars
  <2>3. \A s \in Servers : ServerInv(s)' /\ SeenKept(s)
    BY <2>1, LocalKept DEF IInv
  <2>4. 0 \in Servers
    BY DEF Servers
  <2>5. QED
    BY <2>1, <2>2, <2>3, <2>4, LocalStep
<1>2. ASSUME NEW s \in Servers, ServerStep(s) PROVE IInv'
  <2>1. CASE Submit(s)
    BY <2>1, SubmitHolds
  <2>2. CASE Start(s)
    BY <2>2, StartHolds
  <2>3. CASE Gather(s)
    BY <2>3, GatherHolds
  <2>4. ASSUME NEW b \in 1 .. started[s], OperatorPolls(s, b) PROVE IInv'
    BY <2>4, PollHolds
  <2>5. QED
    BY <1>2, <2>1, <2>2, <2>3, <2>4 DEF ServerStep
<1>3. ASSUME NEW b, Compute(b) PROVE IInv'
  BY <1>3, ComputeHolds
<1>4. QED
  BY <1>1, <1>2, <1>3 DEF Next

-----------------------------------------------------------------------------
(* What it says of the sort *)

\* Whatever the number of secrets, the batches and the threads, two servers that sort are in
\* the same stage or one is a stage ahead, with nothing left for the other to compute; each
\* has the triples of its batches in their order, and results without noise.
THEOREM InvHolds == Spec /\ PolledInOrder => []IInv
<1>1. Init /\ PolledInOrder => IInv
  BY InitHolds
<1>2. IInv /\ [Next]_vars => IInv'
  BY NextHolds
<1>3. QED
  BY <1>1, <1>2, PTL DEF Spec

\* The arrays keep their size, a stage exchanges inside the blocks it merges, no thread takes
\* a batch that was not submitted, and every batch of the stage is submitted once.
THEOREM SortTypeOK == Spec /\ PolledInOrder => []TypeOK
<1>1. ASSUME IInv PROVE TypeOK
  <2>1. /\ Configured /\ GivenInput /\ batchSize \in Nat
        /\ secrets = [s \in Servers |-> secrets[s]] /\ \A s \in Servers : ServerInv(s)
    BY <1>1, BitonicSortAssumption DEF IInv, Configured, Shape, PerServer
  <2>2. ASSUME NEW s \in Servers
        PROVE  /\ secrets[s] \in [Places -> Real]
               /\ stage[s] = Ended \/ stage[s].j \in 1 .. stage[s].k - 1
    <3>1. PICK A \in [Places -> Real] : Holds(secrets[s], stage[s], A)
      BY <2>1 DEF ServerInv, Progress
    <3>2. CASE stage[s] = Ended
      BY <3>1, <3>2 DEF Holds
    <3>3. CASE stage[s] # Ended
      <4>1. PICK st, B : st = stage[s] /\ B = secrets[s]
        OBVIOUS
      <4>2. B = Swapped(A, st) /\ Reaches(A, st)
        BY <3>1, <3>3, <4>1 DEF Holds
      <4>3. PICK e \in Nat, a \in Nat, b \in Nat : IsStage(st, a, b, e)
        BY <4>2 DEF Reaches
      <4>4. \A x \in Places : Swapped(A, st)[x] \in Real
        BY <2>1, <4>3, SwappedIs
      <4>5. B \in [Places -> Real]
        BY <4>2, <4>4 DEF Swapped
      <4>6. st.j = shifted[b] /\ st.k = shifted[a] /\ b < a
        BY <4>3 DEF IsStage
      <4>7. st.j \in 1 .. st.k - 1
        BY <4>6, Powers, PowersDiffer
      <4>8. QED
        BY <4>1, <4>5, <4>7
    <3>4. QED
      BY <3>2, <3>3
  <2>3. ASSUME NEW s \in Servers
        PROVE  /\ started[s] <= submitted[s] /\ submitted[s] <= NumBatches(s)
               /\ Len(triples[s]) = submitted[s] /\ Len(conds[s]) = submitted[s]
               /\ Len(results[s]) = submitted[s]
    <3>1. /\ submitted[s] \in Nat /\ started[s] <= submitted[s]
          /\ Listed(triples[s], submitted[s])
          /\ Listed(conds[s], submitted[s]) /\ Listed(results[s], submitted[s])
      BY <2>1 DEF ServerInv, Batches
    <3>2. /\ Len(triples[s]) = submitted[s] /\ Len(conds[s]) = submitted[s]
          /\ Len(results[s]) = submitted[s]
      BY <3>1, ListedIs
    <3>3. submitted[s] <= NumBatches(s)
      <4>1. CASE stage[s] # Ended
        BY <2>1, <4>1 DEF ServerInv, Batches
      <4>2. CASE stage[s] = Ended
        <5>1. submitted[s] = 0 /\ pairs[s] = <<>>
          BY <2>1, <4>2 DEF ServerInv, Batches
        <5>2. CASE batchSize = 0
          BY <5>1, <5>2 DEF NumBatches, InOneBatch
        <5>3. CASE batchSize # 0
          <6>1. batchSize \in Nat \ {0} /\ 0 + batchSize - 1 \in Nat
            BY <2>1, <5>3
          <6>2. (0 + batchSize - 1) \div batchSize \in Nat
            BY <6>1, DivIs
          <6>3. NumBatches(s) = (0 + batchSize - 1) \div batchSize
            BY <5>1, <5>3 DEF NumBatches, InOneBatch
          <6>4. QED
            BY <5>1, <6>2, <6>3
        <5>4. QED
          BY <5>2, <5>3
      <4>3. QED
        BY <4>1, <4>2
    <3>4. QED
      BY <3>1, <3>2, <3>3
  <2>4. secrets \in [Servers -> [Places -> Values \union {Padding, Noise}]]
    <3>1. \A s \in Servers : secrets[s] \in [Places -> Values \union {Padding, Noise}]
      BY <2>2 DEF Real
    <3>2. QED
      BY <2>1, <3>1
  <2>5. QED
    BY <2>2, <2>3, <2>4 DEF TypeOK, Places, Size
<1>2. IInv => TypeOK
  BY <1>1
<1>3. QED
  BY <1>2, InvHolds, PTL

\* Both servers return with the secrets they were given, in the order asked for, whatever the
\* number of secrets: the network sorts, the paddings end up last, and no batch is computed
\* from triples or operands that do not belong together.
THEOREM SortSorts == Spec /\ PolledInOrder => []Sorted
<1>1. ASSUME IInv PROVE Sorted
  <2>1. SUFFICES ASSUME AllEnded, NEW s \in Servers
                 PROVE  LET n == Cardinality(DOMAIN input)
                            out == [p \in 0 .. n - 1 |-> secrets[s][p]]
                        IN  /\ \A p \in 1 .. n - 1 :
                                 IF asc THEN out[p - 1] <= out[p] ELSE out[p - 1] >= out[p]
                            /\ \A v \in Values : Cardinality({p \in 0 .. n - 1 : out[p] = v})
                                   = Cardinality({p \in 0 .. n - 1 : input[p] = v})
    BY Zenon DEF Sorted
  <2>2. GivenInput /\ stage[s] = Ended /\ Progress(s)
    BY <1>1, <2>1 DEF IInv, ServerInv, Configured, AllEnded
  <2>3. PICK A \in [Places -> Real] : SameValues(A) /\ secrets[s] = A /\ InRankOrder(A)
    BY <2>2 DEF Progress, Holds
  <2>4. QED
    BY <2>2, <2>3, OutputIs
<1>2. IInv => Sorted
  BY <1>1
<1>3. QED
  BY <1>2, InvHolds, PTL

\* No stage is without something to compare, and the entry that gives the width of the
\* comparisons is never a padding.
THEOREM SortStagesAreReal == Spec /\ PolledInOrder => []StagesAreReal
<1>1. ASSUME IInv PROVE StagesAreReal
  BY <1>1, StageFacts DEF IInv, ServerInv, StagesAreReal
<1>2. IInv => StagesAreReal
  BY <1>1
<1>3. QED
  BY <1>2, InvHolds, PTL

=============================================================================
