----------------------------- MODULE MCCircuits ----------------------------
(* Words and numbers of one, two and four bits, the random ones from two.  A  *)
(* matrix of two rows: four transfers take two tiles, or two blocks of one    *)
(* tile.  The functions of the cryptography mix their arguments.              *)
EXTENDS Circuits

MCMasks == {{}, {0, 1, 3}}
MCOps == BooleanOps \union LinearOps \union RippleOps \union WordGenerators \union NumberGenerators

MCWord(n) == {i \in 0 .. 3 : (n \div 2 ^ i) % 2 = 1}
MCNumber(word) == MapThenSumSet(LAMBDA i : 2 ^ i, word)
MCSeedPairs == {<<{1}, {0, 3}>>}
MCKdf(k) == MCWord(7 * k + 3)
MCPrg(seed, row, at) ==
    (((MCNumber(seed) + row * 6 + at.tile) * 5 + at.blk * 3 + at.k * 7) \div 2) % 2
MCHash(index, column) == MCWord(index * 3 + MCNumber(column) * 5 + 1)

=============================================================================
