----------------------------- MODULE Transfers -----------------------------
(***************************************************************************)
(* Oblivious transfer: one server offers two messages, the other one gets   *)
(* the one that it chooses.  BaseOtBatchOperator transfers the seeds, one   *)
(* pair for each row of a matrix; IknpOtBatchOperator extends the seeds to  *)
(* as many transfers as an operator needs.  A message, a seed and a pad are *)
(* words, that is, sets of bits.  The expansion of a seed, the hash and the *)
(* key derivation come from a library of cryptography.                      *)
(***************************************************************************)
EXTENDS Integers, FiniteSetsExt

CONSTANTS
    Rows,               \* TILE_ROWS and SECURITY_PARAM
    TileWidth,          \* MAX_TILE_WIDTH
    SeedPairs,          \* bound of the model on the pairs of seeds
    Modulus, E, D,      \* the RSA key
    Kdf(_),             \* the pad from a key
    Prg(_, _, _),       \* a bit of the matrix: from the seed of a row, at a place
    Hash(_, _)          \* the pad from an index and a column of the matrix

\* x ^ n modulo the key's modulus.
power(x, n) ==
    LET p[i \in 0 .. n] == IF i = 0 THEN 1 ELSE (p[i - 1] * x) % Modulus
    IN  p[n]

Units == {x \in 1 .. Modulus - 1 : \E y \in 1 .. Modulus - 1 : (x * y) % Modulus = 1}

ASSUME TransfersAssumption ==
    /\ Rows \in Nat \ {0} /\ TileWidth \in Nat \ {0}
    /\ Modulus \in Nat \ {0, 1} /\ E \in Nat /\ D \in Nat
    /\ \A x \in Units : power(power(x, E), D) = x

modInverse(x) == CHOOSE y \in Units : (x * y) % Modulus = 1

\* The sender's random numbers x0 and x1, the receiver's key k, and what it gets.
BaseOt(m0, m1, choice, x0, x1, k) ==
    LET v == (power(k, E) * (IF choice = 0 THEN x0 ELSE x1)) % Modulus
        key(x) == (power(v, D) * modInverse(power(x, D))) % Modulus
        c0 == SymDiff(m0, Kdf(key(x0)))
        c1 == SymDiff(m1, Kdf(key(x1)))
    IN  SymDiff(IF choice = 0 THEN c0 ELSE c1, Kdf(k))

\* What prepareIknp() leaves for one row: the receiver of the extension has a pair of
\* seeds, its sender chooses one.
SeedRows ==
    UNION {{[pair |-> pair, choice |-> choice,
             chosen |-> BaseOt(pair[1], pair[2], choice, x0, x1, k)] :
        x0, x1, k \in Units} : pair \in SeedPairs, choice \in {0, 1}}

Row == 0 .. Rows - 1

\* Where the transfer p of n is in the matrix.  The packed form, of transfers of one bit
\* each, puts TileWidth blocks into a tile and deals the transfers out to them in turn.
place(p, n, packed) ==
    LET tileSize == IF packed THEN Rows * TileWidth ELSE Rows
        offset == (p \div tileSize) * tileSize
        chunk == Min({tileSize, n - offset})
        blocks == (chunk + Rows - 1) \div Rows
        blk == (p - offset) % blocks
        k == (p - offset) \div blocks
    IN  [tile |-> p \div tileSize, blk |-> blk, k |-> k,
         index |-> offset + blk * Rows + k,
         valid |-> k < Min({Rows, chunk - blk * Rows})]

\* Both sides hash the valid columns of a block only.
pad(at, column) == IF at.valid THEN Hash(at.index, column) ELSE {}

\* The receiver's columns, from the first seed of each row.
Column(seeds, at) == {i \in Row : Prg(seeds[i].pair[1], i, at) = 1}

\* What the receiver sends: the rows from both seeds and the choice, in every row.
OfferedColumn(seeds, at, choice) ==
    SymDiff(SymDiff(Column(seeds, at), {i \in Row : Prg(seeds[i].pair[2], i, at) = 1}),
            IF choice = 1 THEN Row ELSE {})

\* The sender's column: the receiver's one if the choice is 0, else the one that differs
\* from it in the rows where the sender chose the second seed.
senderBlock(seeds) == {i \in Row : seeds[i].choice = 1}
SenderColumn(seeds, at, offered) ==
    SymDiff({i \in Row : Prg(seeds[i].chosen, i, at) = 1}, offered \intersect senderBlock(seeds))

\* Both messages, as they are sent.
Masked(seeds, at, offered, m0, m1, bits) ==
    LET col == SenderColumn(seeds, at, offered)
    IN  <<SymDiff(m0, pad(at, col) \intersect bits),
          SymDiff(m1, pad(at, SymDiff(col, senderBlock(seeds))) \intersect bits)>>

\* The one that was chosen.
Unmasked(seeds, at, masked, choice, bits) ==
    SymDiff(masked[choice + 1], pad(at, Column(seeds, at)) \intersect bits)

=============================================================================
