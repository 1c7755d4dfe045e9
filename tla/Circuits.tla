------------------------------ MODULE Circuits -----------------------------
(***************************************************************************)
(* The batch operators on shared numbers, as two servers run them on one    *)
(* element of a batch.  The Boolean ones work on words whose exclusive or   *)
(* is the secret, the arithmetic ones on numbers whose sum modulo 2^width   *)
(* is.  What one server computes alone is a function of its own shares.     *)
(* What takes triples leaves any sharing of its result that the random      *)
(* numbers of the model produce, and what takes a transfer gets the chosen  *)
(* message: the generators of triples, which are here as well, show both by *)
(* the messages of the transfers.                                           *)
(***************************************************************************)
EXTENDS BoolLess, Transfers

CONSTANTS
    Ops,            \* operators to run, by the name of their class
    Numbers,        \* bound of the model on the second operand
    Randoms         \* bound of the model on the random numbers

NoBit == [s \in Servers |-> -1]
BooleanOps == {"BoolLess", "BoolEqual", "BoolMutex", "BoolMutexBoth"}
LinearOps == {"ArithAdd", "BoolToArith", "ArithMultiply", "ArithMutex"}
RippleOps == {"ArithToBool", "ArithLess", "ArithEqual"}
WordGenerators == {"BitwiseBmtBatchGenerator"}
NumberGenerators == {"BmtBatchGenerator"}

ASSUME CircuitsAssumption ==
    /\ Ops \subseteq BooleanOps \union LinearOps \union RippleOps
                     \union WordGenerators \union NumberGenerators
    /\ Numbers \subseteq Nat
    /\ Randoms \subseteq Nat

VARIABLES
    op,         \* the operator
    stage,      \* what it does next
    spare,      \* BoolEqual: triples kept for what follows the running comparison
    first,      \* equality: shares of the negated first comparison
    cond,       \* shares of a mutex's condition: a bit each
    xs, ys,     \* shares of the operands that are numbers
    own, given, \* ArithToBool: the words a server makes of its share, kept and sent
    carry,      \* shares of the carry
    bitPos,     \* the bit that is converted next
    sender,     \* the server that offers the messages
    acc,        \* shares of the number being built
    zw, zwBack, \* shares of the word that is the result, of a mutex's second half
    zb,         \* shares of the bit that is the result of what calls a comparison
    seeds,      \* generators: the seeds of the direction that is transferred
    offer,      \* the columns that the receiver has sent
    ss0, ys01,  \* the sender's first messages, and both as they are sent
    mix         \* the shares of each direction's product: _usi and _vsi

idle == <<seeds, offer, ss0, ys01, mix>>
mine == <<op, stage, spare, first, cond, xs, ys, own, given, carry, bitPos, sender,
          acc, zw, zwBack, zb, idle>>

\* 1 << e
shifted[e \in Nat] == IF e = 0 THEN 1 ELSE 2 * shifted[e - 1]

Ring(v) == v % shifted[width]
BitsOf(v) == {i \in Bits(width) : (v \div shifted[i]) % 2 = 1}
Bit(v) == [s \in Servers |-> v]

\* ArithBatchOperator(), AbstractBatchOperator::ring(): the sharings of a number.
ArithSharings(v) ==
    {[s \in Servers |-> IF s = 1 THEN Ring(r) ELSE Ring(v - r)] : r \in Randoms}

\* Sharings of a bit by exclusive or.
BitSharings(b) == {[s \in Servers |-> IF s = 0 THEN (b + r) % 2 ELSE r] : r \in {0, 1}}
SharedBit(b) == (b[0] + b[1]) % 2

\* BoolAndBatchOperator on words of one bit.
AndBit(a, b) == BitSharings(SharedBit(a) * SharedBit(b))

XorBit(a, b) == [s \in Servers |-> (a[s] + b[s]) % 2]

\* Mutant of NotBit: both servers turn their share.
NotBitTwice(b) == [s \in Servers |-> (b[s] + 1) % 2]

\* v ^ Comm::rank()
NotBit(b) == [s \in Servers |-> (b[s] + s) % 2]

-----------------------------------------------------------------------------
(* The linear operators. *)

\* Both operands are opened under a triple's masks a and b; c shares the masks' product.
Products(p, q) ==
    LET Factors == [Servers -> Randoms] IN
    UNION {{[s \in Servers |->
        LET e == Ring(p[0] - a[0] + p[1] - a[1])
            f == Ring(q[0] - b[0] + q[1] - b[1])
        IN  Ring(s * e * f + f * a[s] + e * b[s] + c[s])] :
        c \in ArithSharings((a[0] + a[1]) * (b[0] + b[1]))} : a, b \in Factors}

\* The sums are not reduced.
Add ==
    /\ stage = "add"
    /\ acc' = [s \in Servers |-> xs[s] + ys[s]]
    /\ stage' = "ended"
    /\ UNCHANGED <<bitPos, xs, ys>>

Multiply ==
    /\ stage = "multiply"
    /\ acc' \in Products(xs, ys)
    /\ stage' = "ended"
    /\ UNCHANGED <<bitPos, xs, ys>>

\* One oblivious transfer for each bit: the sender offers the bit's value for either bit
\* of the receiver, less a random number that it keeps.
TransferBit ==
    /\ stage = "convert" /\ bitPos < width
    /\ LET word(s) == IF op = "ArithMutex" THEN cond[s] ELSE xs[s]
           b(s) == (word(s) \div shifted[bitPos]) % 2
       IN  \E r \in Randoms :
             acc' = [s \in Servers |-> Ring(acc[s] +
                IF s = sender THEN r
                ELSE (IF b(s) = 0 THEN b(sender) ELSE 1 - b(sender)) * shifted[bitPos] - r)]
    /\ bitPos' = bitPos + 1
    /\ UNCHANGED <<stage, xs, ys>>

Converted ==
    /\ stage = "convert" /\ bitPos = width
    /\ stage' = IF op = "ArithMutex" THEN "choose" ELSE "ended"
    /\ UNCHANGED <<acc, bitPos, xs, ys>>

\* ArithMutex: the condition times each operand, by triples of their own.
Choose ==
    /\ stage = "choose"
    /\ \E cx \in Products(acc, xs), cy \in Products(acc, ys) :
         acc' = [s \in Servers |-> Ring(cx[s] + ys[s] - cy[s])]
    /\ stage' = "ended"
    /\ UNCHANGED <<bitPos, xs, ys>>

Linear ==
    /\ Add \/ Multiply \/ TransferBit \/ Converted \/ Choose
    /\ UNCHANGED <<op, spare, first, cond, own, given, carry, sender, zw, zwBack, zb>>
    /\ UNCHANGED <<vars, idle>>

-----------------------------------------------------------------------------
(* From numbers to words. *)

\* ArithLess subtracts, ArithEqual in both directions; the width is cut to later.
delta(s) ==
    CASE op = "ArithToBool" -> xs[s]
      [] op # "ArithToBool" /\ first = NoBit -> xs[s] - ys[s]
      [] OTHER -> ys[s] - xs[s]

\* Each server shares its share with the other one as a word.
Split ==
    /\ stage = "split"
    /\ \E masks \in [Servers -> Masks] :
        /\ own' = [s \in Servers |-> masks[s] \intersect Bits(width)]
        /\ given' = [s \in Servers |-> xor(own'[s], BitsOf(Ring(delta(s))))]
    /\ carry' = Bit(0)
    /\ zw' = [s \in Servers |-> {}]
    /\ bitPos' = 0
    /\ stage' = "ripple"
    /\ UNCHANGED <<first, zb>>

\* One bit of the sum of the two shares: the bit is sent, the carry takes three conjunctions.
AddBit ==
    /\ stage = "ripple" /\ bitPos < width
    /\ LET bit(word) == IF bitPos \in word THEN 1 ELSE 0
           a == [s \in Servers |-> bit(IF s = 0 THEN own[0] ELSE given[0])]
           b == [s \in Servers |-> bit(IF s = 1 THEN own[1] ELSE given[1])]
           propagate == XorBit(a, b)
       IN  /\ zw' = [s \in Servers |->
                IF XorBit(propagate, carry)[s] = 1 THEN zw[s] \union {bitPos} ELSE zw[s]]
           /\ IF bitPos = width - 1 THEN carry' = carry
              ELSE \E generate \in AndBit(a, b), tempCarry \in AndBit(propagate, carry) :
                   \E both \in AndBit(generate, tempCarry) :
                      carry' = XorBit(XorBit(generate, tempCarry), both)
    /\ bitPos' = bitPos + 1
    /\ UNCHANGED <<stage, first, own, given, zb>>

\* ArithLess takes the sign.  ArithEqual negates it, starts again with the operands
\* swapped, and joins the two.
Rippled ==
    /\ stage = "ripple" /\ bitPos = width
    /\ LET sign == [s \in Servers |-> IF width - 1 \in zw[s] THEN 1 ELSE 0] IN
       CASE op = "ArithToBool" -> stage' = "ended" /\ UNCHANGED <<first, zb>>
         [] op = "ArithLess" -> stage' = "ended" /\ zb' = sign /\ UNCHANGED first
         [] op = "ArithEqual" /\ first = NoBit ->
                stage' = "split" /\ first' = NotBit(sign) /\ UNCHANGED zb
         [] OTHER ->
                stage' = "ended" /\ zb' \in AndBit(NotBit(sign), first) /\ UNCHANGED first
    /\ UNCHANGED <<own, given, carry, bitPos, zw>>

Ripple ==
    /\ Split \/ AddBit \/ Rippled
    /\ UNCHANGED <<op, spare, cond, xs, ys, sender, acc, zwBack>>
    /\ UNCHANGED <<vars, idle>>

-----------------------------------------------------------------------------
(* The operators on words. *)

\* What BoolLessBatchOperator::execute computes before it needs the other server.
StartLess(ys0, xs0) ==
    [s \in Servers |-> LET eq == xor(xs0[s], ys0[s]) IN
                       IF s = 0 THEN eq ELSE xor(eq, Bits(width))]

Compared ==
    /\ stage = "less" /\ round = Ended
    /\ UNCHANGED <<width, op, cond, xs, ys, own, given, carry, bitPos, sender, acc, zw, zwBack, idle>>
    /\ CASE op = "BoolLess" ->
              stage' = "ended" /\ UNCHANGED <<xis, yis, lbs, diag, round, allBmts, zis, spare, first, zb>>
         [] op = "BoolEqual" /\ first = NoBit ->
              /\ first' = NotBit(zis)
              /\ xis' = yis /\ yis' = xis
              /\ lbs' = StartLess(yis, xis)
              /\ diag' = [s \in Servers |-> {}]
              /\ round' = 0
              /\ zis' = [s \in Servers |-> 0]
              /\ allBmts' = bmtCount(width)
              /\ spare' = spare - bmtCount(width)
              /\ UNCHANGED <<stage, zb>>
         [] OTHER ->
              /\ zb' \in AndBit(first, NotBit(zis))
              /\ spare' = spare - 1
              /\ stage' = "ended"
              /\ UNCHANGED <<xis, yis, lbs, diag, round, allBmts, zis, first>>

\* Both operands joined with one word, in one exchange: the first's results come first.
executeForMutex(conds) == And(xis, conds) \X And(yis, conds)

\* BoolMutex: the condition is spread over the width.
Select ==
    /\ stage = "select"
    /\ LET conds == [s \in Servers |-> IF cond[s] # 0 THEN Bits(width) ELSE {}]
           choice(z, word) == [s \in Servers |-> xor(xor(z[1][s], word[s]), z[2][s])]
       IN  \E z \in executeForMutex(conds) :
             /\ zw' = choice(z, yis)
             /\ zwBack' = IF op = "BoolMutexBoth" THEN choice(z, xis) ELSE zwBack
    /\ stage' = "ended"
    /\ UNCHANGED <<vars, op, spare, first, cond, xs, ys, own, given, carry, bitPos, sender, acc, zb, idle>>

Less ==
    /\ stage = "less"
    /\ Next
    /\ UNCHANGED mine

-----------------------------------------------------------------------------
(* The generators of triples: xis and yis, or xs and ys, are the random factors. *)

packed == op \in WordGenerators
receiver == 1 - sender
choice(p) ==
    IF packed THEN IF p \in yis[receiver] THEN 1 ELSE 0
    ELSE (ys[receiver] \div shifted[p]) % 2

\* A message of transfer p as a word, in the packed form of one bit.
messageBits == IF packed THEN {0} ELSE Bits(width)
message(v, p) == IF packed THEN IF p \in v THEN {0} ELSE {} ELSE BitsOf(Ring(v))

\* The second message: the first one off by the factor, or by the factor's multiple.
corr(p) == IF packed THEN xor(xis[sender], ss0[p]) ELSE Ring(xs[sender] * shifted[p] - ss0[p])

Prepare ==
    /\ stage = "seeds"
    /\ seeds' \in [Row -> SeedRows]
    /\ stage' = "offer"
    /\ UNCHANGED <<sender, offer, ss0, ys01, mix, acc, zw>>

\* The receiver sends its columns; the sender has drawn its first messages.
Offer ==
    /\ stage = "offer"
    /\ offer' = [p \in Bits(width) |-> OfferedColumn(seeds, place(p, width, packed), choice(p))]
    /\ \E r \in IF packed THEN Masks ELSE Randoms :
         ss0' = [p \in Bits(width) |-> IF packed THEN r ELSE r + p]
    /\ stage' = "mask"
    /\ UNCHANGED <<sender, seeds, ys01, mix, acc, zw>>

Mask ==
    /\ stage = "mask"
    /\ ys01' = [p \in Bits(width) |->
            Masked(seeds, place(p, width, packed), offer[p],
                   message(ss0[p], p), message(corr(p), p), messageBits)]
    /\ stage' = "unmask"
    /\ UNCHANGED <<sender, seeds, offer, ss0, mix, acc, zw>>

\* A share of the product: the sum over the bits.
sum(f) == Ring(MapThenSumSet(LAMBDA p : f[p], Bits(width)))

\* Sums of what was offered first, of what was received, negated if it was that.
Mix ==
    /\ stage = "unmask"
    /\ LET result(p) == Unmasked(seeds, place(p, width, packed), ys01[p], choice(p), messageBits)
           received == [p \in Bits(width) |->
                           (IF choice(p) = 0 THEN -1 ELSE 1) * value(result(p))]
       IN  mix' = [mix EXCEPT
                ![sender][sender] = IF packed THEN ss0[0] \intersect Bits(width) ELSE sum(ss0),
                ![sender][receiver] = IF packed THEN {p \in Bits(width) : result(p) = {0}}
                                      ELSE sum(received)]
    /\ stage' = IF sender = 0 THEN "seeds" ELSE "third"
    /\ sender' = 1
    /\ UNCHANGED <<seeds, offer, ss0, ys01, acc, zw>>

\* computeC: each server's own product and its shares of the two mixed ones.
Third ==
    /\ stage = "third"
    /\ IF packed
       THEN /\ zw' = [s \in Servers |-> xor(xis[s] \intersect yis[s], xor(mix[0][s], mix[1][s]))]
            /\ UNCHANGED acc
       ELSE /\ acc' = [s \in Servers |-> Ring(xs[s] * ys[s] + mix[0][s] + mix[1][s])]
            /\ UNCHANGED zw
    /\ stage' = "ended"
    /\ UNCHANGED <<sender, idle>>

Generate ==
    /\ Prepare \/ Offer \/ Mask \/ Mix \/ Third
    /\ UNCHANGED <<vars, op, spare, first, cond, xs, ys, own, given, carry, bitPos, zwBack, zb>>

-----------------------------------------------------------------------------

\* BoolEqualBatchOperator::bmtCount
equalBmtCount(w) == 2 * bmtCount(w) + 1

\* The constructors share the operands.
Words ==
    /\ op \in BooleanOps \union WordGenerators
    /\ Init
    /\ stage = CASE op \in {"BoolLess", "BoolEqual"} -> "less"
                 [] op \in WordGenerators -> "seeds"
                 [] OTHER -> "select"
    /\ spare = IF op = "BoolEqual" THEN equalBmtCount(width) - bmtCount(width) ELSE 0
    /\ \/ cond = Bit(0)
       \/ op \in {"BoolMutex", "BoolMutexBoth"} /\ cond \in BitSharings(0) \union BitSharings(1)
    /\ xs = Bit(0) /\ ys = Bit(0)
    /\ acc = Bit(0) /\ sender = 0

\* BoolToArith converts words: its shares are those of a word.
Shares ==
    /\ op \in LinearOps \union RippleOps \union NumberGenerators
    /\ width \in Widths
    /\ xis = Bit({}) /\ yis = Bit({}) /\ lbs = Bit({}) /\ diag = Bit({})
    /\ round = 0 /\ allBmts = 0 /\ zis = Bit(0) /\ spare = 0
    /\ \E x, y \in 0 .. shifted[width] - 1 :
        /\ y \in Numbers
        /\ xs \in ArithSharings(x)
        /\ ys \in ArithSharings(y)
    /\ stage = CASE op = "ArithAdd" -> "add"
                 [] op = "ArithMultiply" -> "multiply"
                 [] op = "BoolToArith" \/ (op = "ArithMutex" /\ width > 1) -> "convert"
                 [] op = "ArithMutex" /\ width = 1 -> "choose"
                 [] op \in NumberGenerators -> "seeds"
                 [] OTHER -> "split"
    /\ \/ cond = Bit(0)
       \/ op = "ArithMutex" /\ cond \in BitSharings(0) \union BitSharings(1)
    /\ acc = IF stage = "choose" THEN cond ELSE Bit(0)
    /\ sender \in IF stage = "convert" THEN Servers ELSE {0}

CircuitsInit ==
    /\ op \in Ops
    /\ Words \/ Shares
    /\ first = NoBit
    /\ own = Bit({}) /\ given = Bit({}) /\ carry = Bit(0) /\ bitPos = 0
    /\ zw = Bit({}) /\ zwBack = Bit({}) /\ zb = Bit(0)
    /\ seeds = <<>> /\ offer = <<>> /\ ss0 = <<>> /\ ys01 = <<>>
    /\ mix = [d \in Servers |-> Bit(IF packed THEN {} ELSE 0)]

CircuitsNext == Less \/ Compared \/ Select \/ Linear \/ Ripple \/ Generate

CircuitsSpec == CircuitsInit /\ [][CircuitsNext]_<<vars, mine>>

-----------------------------------------------------------------------------

X == Ring(xs[0] + xs[1])
Y == Ring(ys[0] + ys[1])
Signed(v) == IF v >= shifted[width - 1] THEN v - shifted[width] ELSE v

\* ArithBatchOperator::reconstruct, to the width.
reconstructed == Ring(acc[0] + acc[1])

(* What the operators on words leave is a sharing of their function of the    *)
(* operands, whatever sharings the conjunctions leave.  Both halves of a      *)
(* mutex swap the operands exactly if the condition holds.                    *)
WordsAreShared ==
    stage = "ended" =>
        LET chosen == SharedBit(cond) = 1 IN
        /\ op = "BoolEqual" => (SharedBit(zb) = 1) = (Shared(xis) = Shared(yis))
        /\ op \in {"BoolMutex", "BoolMutexBoth"} =>
                Shared(zw) = Shared(IF chosen THEN xis ELSE yis)
        /\ op = "BoolMutexBoth" => Shared(zwBack) = Shared(IF chosen THEN yis ELSE xis)

(* Whatever the random numbers: the shares an operator leaves are a sharing   *)
(* of its function of the operands.  Equality of numbers is right for all of  *)
(* them, though the comparison that it calls twice is right only where the    *)
(* difference has the width.                                                  *)
ResultIsShared ==
    /\ WordsAreShared
    /\ stage = "ended" =>
        LET chosen == SharedBit(cond) = 1
            holds == SharedBit(zb) = 1
        IN
        /\ op = "ArithAdd" => reconstructed = Ring(X + Y)
        /\ op \in {"ArithMultiply", "BmtBatchGenerator"} => reconstructed = Ring(X * Y)
        /\ op = "BitwiseBmtBatchGenerator" =>
                Shared(zw) = Shared(xis) \intersect Shared(yis)
        /\ op = "BoolToArith" => reconstructed = value(xor(BitsOf(xs[0]), BitsOf(xs[1])))
        /\ op = "ArithMutex" => reconstructed = IF chosen THEN X ELSE Y
        /\ op = "ArithToBool" => value(Shared(zw)) = X
        /\ op = "ArithLess" /\ Signed(X) - Signed(Y) \in -(shifted[width - 1]) .. shifted[width - 1] - 1 =>
                holds = (Signed(X) < Signed(Y))
        /\ op = "ArithEqual" => holds = (X = Y)

(* bmtCount() pays for every conjunction: each one gets triples that no other *)
(* one uses, the last one at least as many as the others; equality keeps      *)
(* enough for its second comparison and for what follows it.                  *)
TriplesSuffice ==
    stage = "less" =>
        /\ round <= Last => allBmts >= 1
        /\ op = "BoolEqual" => spare >= IF first = NoBit THEN bmtCount(width) + 1 ELSE 1

=============================================================================
