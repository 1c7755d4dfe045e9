---------------------------- MODULE BitonicSort ----------------------------
(***************************************************************************)
(* Secrets::sort() for Boolean secrets: a bitonic sorting network over      *)
(* shared values.  The two servers run the same network on their shares; a  *)
(* stage compares its pairs in batches that run in the thread pool, and the *)
(* multiplication triples of a batch are taken from the queues of BmtPool.  *)
(* A batch that the servers compute with different triples, or on different *)
(* operands, gives shares of Noise.  What a share says of the secret is     *)
(* modelled, not its bits: BoolAnd and BoolLess are about those.            *)
(* Without batches the main thread computes the stage itself: submitting,   *)
(* starting and polling are then its own steps, one after the other.        *)
(***************************************************************************)
EXTENDS Integers, FiniteSets, Sequences, SequencesExt, FiniteSetsExt

CONSTANTS
    MaxSecrets,     \* bound of the model on the number of secrets to sort
    BatchSizes,     \* values of batch_size to try; 0, or no threads: all pairs at once
    Methods,        \* values of bmt_method to try (bmt_fixed pairs as bmt_jit does)
    Workers         \* threads of the pool of each server

Servers == {0, 1}

ASSUME BitonicSortAssumption ==
    /\ MaxSecrets \in Nat \ {0}
    /\ BatchSizes \subseteq Nat
    /\ Methods \subseteq {"jit", "background", "pipeline"}
    /\ Workers \in [Servers -> Nat \ {0}]

Noise == -2
Padding == -1
\* A network that sorts every input of zeros and ones sorts every input.
Values == {0, 1}

VARIABLES
    method, batchSize, asc, \* the configuration and the order asked for
    input,                  \* the secrets
    secrets,                \* the array of each server
    stage,                  \* (k, j) of the network, or Sorting ended
    pairs,                  \* xIdx, yIdx, ascs: the comparisons of the stage, in order
    submitted, started,     \* batches handed to the pool and taken by a thread
    triples,                \* triples polled for each batch: a chunk for Less, one for Mutex
    polled,                 \* chunks this server has polled
    conds, results          \* zs1 and zs2 of each batch

config == <<method, batchSize, asc, input>>
vars == <<config, secrets, stage, pairs, submitted, started, triples, polled, conds, results>>

Ended == [k |-> 0, j |-> 0]

-----------------------------------------------------------------------------
(* The network. *)

\* 1 << e
shifted[e \in Nat] == IF e = 0 THEN 1 ELSE 2 * shifted[e - 1]

NextPow2(n) == Min({p \in {shifted[e] : e \in 0 .. n} : p >= n})

\* i ^ j, for j a power of two.
Xor(i, j) == IF (i \div j) % 2 = 0 THEN i + j ELSE i - j

IsUp(i, st) == (i \div st.k) % 2 = 0

\* Mutant of MustSwap: paddings go to the lower index.
SwapsTheOthers(sec, i, st) ==
    LET l == Xor(i, st.j) IN
    /\ ~(sec[i] = Padding /\ sec[l] = Padding)
    /\ \/ sec[i] = Padding /\ ~IsUp(i, st)
       \/ sec[l] = Padding /\ IsUp(i, st)

\* Padding counts as greater than every secret, without a comparison.
MustSwap(sec, i, st) ==
    LET l == Xor(i, st.j) IN
    /\ ~(sec[i] = Padding /\ sec[l] = Padding)
    /\ \/ sec[i] = Padding /\ IsUp(i, st)
       \/ sec[l] = Padding /\ ~IsUp(i, st)

Swapped(sec, st) ==
    [p \in DOMAIN sec |->
        LET l == Xor(p, st.j) IN
        IF MustSwap(sec, IF l > p THEN p ELSE l, st) THEN sec[l] ELSE sec[p]]

\* Mutant of Wanted: asc is ignored.
WantedAscending(i, st) == IsUp(i, st)

\* dir ^ !asc
Wanted(i, st) == IsUp(i, st) = asc

\* The numbers of a set, from the least one up.
InOrder(S) ==
    CHOOSE f \in [1 .. Cardinality(S) -> S] : \A c, d \in DOMAIN f : c < d => f[c] < f[d]

\* The pairs of secrets, in the order of the loop, with the order wanted.
Comparisons(sec, st) ==
    LET compared == {i \in DOMAIN sec :
            LET l == Xor(i, st.j) IN l > i /\ sec[i] # Padding /\ sec[l] # Padding}
        pair(i) ==
            LET l == Xor(i, st.j) IN
            [i |-> i, l |-> l, x |-> sec[i], y |-> sec[l], up |-> Wanted(i, st)]
    IN  [c \in 1 .. Cardinality(compared) |-> pair(InOrder(compared)[c])]

After(st, n) ==
    CASE st.j > 1 -> [k |-> st.k, j |-> st.j \div 2]
      [] st.j = 1 /\ 2 * st.k <= n -> [k |-> 2 * st.k, j |-> st.k]
      [] OTHER -> Ended

FirstStage(n) == IF n >= 2 THEN [k |-> 2, j |-> 1] ELSE Ended

-----------------------------------------------------------------------------
(* The batches of a stage. *)

InOneBatch == batchSize = 0

\* Pipelined triples go to the batch that polls first; of several batches that is no certain
\* one.
PolledInOrder == method = "pipeline" => InOneBatch

NumBatches(s) ==
    IF InOneBatch THEN 1 ELSE (Len(pairs[s]) + batchSize - 1) \div batchSize

BatchOf(s, b) ==
    IF InOneBatch THEN pairs[s]
    ELSE SubSeq(pairs[s], (b - 1) * batchSize + 1, Min({b * batchSize, Len(pairs[s])}))

Init ==
    /\ method \in Methods /\ batchSize \in BatchSizes /\ asc \in BOOLEAN
    /\ \E n \in 1 .. MaxSecrets : input \in [0 .. n - 1 -> Values]
    /\ LET n == Cardinality(DOMAIN input)
           first == FirstStage(NextPow2(n))
           padded == [p \in 0 .. NextPow2(n) - 1 |-> IF p < n THEN input[p] ELSE Padding]
       IN  /\ stage = [s \in Servers |-> first]
           /\ secrets = [s \in Servers |-> IF first = Ended THEN padded ELSE Swapped(padded, first)]
    /\ pairs = [s \in Servers |-> IF stage[s] = Ended THEN <<>>
                                 ELSE Comparisons(secrets[s], stage[s])]
    /\ submitted = [s \in Servers |-> 0]
    /\ started = [s \in Servers |-> 0]
    /\ polled = [s \in Servers |-> 0]
    /\ triples = [s \in Servers |-> <<>>]
    /\ conds = [s \in Servers |-> <<>>]
    /\ results = [s \in Servers |-> <<>>]

-----------------------------------------------------------------------------
(* What the two servers compute together for a batch. *)

Clean(b) == BatchOf(0, b) = BatchOf(1, b)

SameTriples(b, round) ==
    method = "jit" \/ triples[0][b][round] = triples[1][b][round]

\* BoolLess of the pairs, negated where the second is to come first.
Less(b) ==
    [c \in DOMAIN BatchOf(0, b) |->
        LET p == BatchOf(0, b)[c] IN
        IF ~Clean(b) \/ ~SameTriples(b, 1) \/ Noise \in {p.x, p.y} THEN Noise
        ELSE IF (p.x < p.y) = p.up THEN 1 ELSE 0]

\* BoolMutex both ways: the first of the pair, then the second.
Mutex(b) ==
    [c \in DOMAIN BatchOf(0, b) |->
        LET p == BatchOf(0, b)[c]
            cond == conds[0][b][c]
            noise == ~Clean(b) \/ ~SameTriples(b, 2) \/ cond = Noise
        IN  [i |-> p.i, l |-> p.l,
             first |-> IF noise THEN Noise ELSE IF cond = 1 THEN p.x ELSE p.y,
             second |-> IF noise THEN Noise ELSE IF cond = 1 THEN p.y ELSE p.x]]

None == <<>>

HasTriples(s, b, round) == method = "jit" \/ Len(triples[s][b]) >= round

Round(s, b) ==
    CASE conds[s][b] = None -> 1
      [] conds[s][b] # None /\ results[s][b] = None -> 2
      [] OTHER -> 3

-----------------------------------------------------------------------------

\* The loop of the main thread over the batches: with the background queues it
\* polls for the batch before it submits it.
Submit(s) ==
    LET b == submitted[s] + 1
        ordered == method = "background"
    IN  /\ stage[s] # Ended /\ b <= NumBatches(s)
        /\ submitted' = [submitted EXCEPT ![s] = b]
        /\ polled' = [polled EXCEPT ![s] = IF ordered THEN @ + 2 ELSE @]
        /\ triples' = [triples EXCEPT ![s] =
               Append(@, IF ordered THEN <<polled[s] + 1, polled[s] + 2>> ELSE <<>>)]
        /\ conds' = [conds EXCEPT ![s] = Append(@, None)]
        /\ results' = [results EXCEPT ![s] = Append(@, None)]
        /\ UNCHANGED <<config, secrets, stage, pairs, started>>

Running(s) == {b \in 1 .. started[s] : results[s][b] = None}

\* Mutant of Start: a thread looks for a task that is not there yet.
StartEarly(s) ==
    /\ started[s] <= submitted[s]
    /\ Cardinality(Running(s)) < Workers[s]
    /\ started' = [started EXCEPT ![s] = @ + 1]
    /\ UNCHANGED <<config, secrets, stage, pairs, submitted, triples, polled, conds, results>>

\* Mutant of Start: a thread of the pool serves one task.
StartOnce(s) ==
    /\ started[s] < submitted[s]
    /\ started[s] < Workers[s]
    /\ started' = [started EXCEPT ![s] = @ + 1]
    /\ UNCHANGED <<config, secrets, stage, pairs, submitted, triples, polled, conds, results>>

\* A thread of the pool takes the oldest task.
Start(s) ==
    /\ started[s] < submitted[s]
    /\ Cardinality(Running(s)) < Workers[s]
    /\ started' = [started EXCEPT ![s] = @ + 1]
    /\ UNCHANGED <<config, secrets, stage, pairs, submitted, triples, polled, conds, results>>

\* An operator without setBmts() takes its triples when it runs.
OperatorPolls(s, b) ==
    /\ method = "pipeline"
    /\ b \in Running(s) /\ Len(triples[s][b]) < Round(s, b)
    /\ polled' = [polled EXCEPT ![s] = @ + 1]
    /\ triples' = [triples EXCEPT ![s][b] = Append(@, polled[s] + 1)]
    /\ UNCHANGED <<config, secrets, stage, pairs, submitted, started, conds, results>>

\* The messages of batch b have its own tags, so it is computed with batch b of
\* the other server.
Compute(b) ==
    /\ \A s \in Servers : b \in Running(s)
    /\ \E round \in 1 .. 2 :
          /\ \A s \in Servers : Round(s, b) = round /\ HasTriples(s, b, round)
          /\ IF round = 1
             THEN /\ conds' = [s \in Servers |-> [conds[s] EXCEPT ![b] = Less(b)]]
                  /\ UNCHANGED results
             ELSE /\ results' = [s \in Servers |-> [results[s] EXCEPT ![b] = Mutex(b)]]
                  /\ UNCHANGED conds
    /\ UNCHANGED <<config, secrets, stage, pairs, submitted, started, triples, polled>>

\* The array with the results of all batches.
Written(s) ==
    LET zs == UNION {ToSet(results[s][b]) : b \in DOMAIN results[s]}
        Of(p) == {z \in zs : p \in {z.i, z.l}}
    IN  [p \in DOMAIN secrets[s] |->
            IF Of(p) = {} THEN secrets[s][p]
            ELSE LET z == CHOOSE z \in Of(p) : TRUE IN IF p = z.i THEN z.first ELSE z.second]

\* Every future has been waited for; the main thread goes on with the next stage.
Gather(s) ==
    /\ stage[s] # Ended
    /\ submitted[s] = NumBatches(s)
    /\ \A b \in 1 .. NumBatches(s) : results[s][b] # None
    /\ LET next == After(stage[s], Cardinality(DOMAIN secrets[s])) IN
       \E written \in {Written(s)} :
       \E swapped \in {IF next = Ended THEN written ELSE Swapped(written, next)} :
         /\ stage' = [stage EXCEPT ![s] = next]
         /\ secrets' = [secrets EXCEPT ![s] = swapped]
         /\ pairs' = [pairs EXCEPT ![s] =
                         IF next = Ended THEN <<>> ELSE Comparisons(swapped, next)]
    /\ submitted' = [submitted EXCEPT ![s] = 0]
    /\ started' = [started EXCEPT ![s] = 0]
    /\ triples' = [triples EXCEPT ![s] = <<>>]
    /\ conds' = [conds EXCEPT ![s] = <<>>]
    /\ results' = [results EXCEPT ![s] = <<>>]
    /\ UNCHANGED <<config, polled>>

ServerStep(s) ==
    \/ Submit(s) \/ Start(s) \/ Gather(s)
    \/ \E b \in 1 .. started[s] : OperatorPolls(s, b)

Next ==
    \/ \E s \in Servers : ServerStep(s)
    \/ \E b \in 1 .. Min({started[s] : s \in Servers}) : Compute(b)

Spec == Init /\ [][Next]_vars
Fairness ==
    /\ \A s \in Servers : WF_vars(ServerStep(s))
    /\ WF_vars(\E b \in 1 .. Min({started[s] : s \in Servers}) : Compute(b))

FairSpec == Spec /\ Fairness

-----------------------------------------------------------------------------

TypeOK ==
    /\ secrets \in [Servers -> [0 .. NextPow2(Cardinality(DOMAIN input)) - 1
                                  -> Values \union {Padding, Noise}]]
    /\ \A s \in Servers :
        /\ stage[s] = Ended \/ stage[s].j \in 1 .. stage[s].k - 1
        /\ started[s] <= submitted[s] /\ submitted[s] <= NumBatches(s)
        /\ Len(triples[s]) = submitted[s] /\ Len(conds[s]) = submitted[s]
        /\ Len(results[s]) = submitted[s]

AllEnded == \A s \in Servers : stage[s] = Ended

(* When both servers return from Secrets::sort(), what is left after the      *)
(* paddings are cut off is the input, in the order asked for.                 *)
Sorted ==
    AllEnded => \A s \in Servers :
        LET n == Cardinality(DOMAIN input)
            out == [p \in 0 .. n - 1 |-> secrets[s][p]]
        IN  /\ \A p \in 1 .. n - 1 : IF asc THEN out[p - 1] <= out[p] ELSE out[p - 1] >= out[p]
            /\ \A v \in Values : Cardinality({p \in 0 .. n - 1 : out[p] = v})
                                   = Cardinality({p \in 0 .. n - 1 : input[p] = v})

(* secrets[0] gives the width of every comparison and every comparison has    *)
(* operands: the first entry is never a padding, which has no width, and no   *)
(* stage is left with nothing to compare, which the operators do not handle.  *)
StagesAreReal ==
    \A s \in Servers : stage[s] # Ended => secrets[s][0] # Padding /\ pairs[s] # <<>>

(* No batch waits for a batch of the other server that never runs: sorting    *)
(* ends, whatever the number of threads of each server.                       *)
SortEnds == <>AllEnded

=============================================================================
