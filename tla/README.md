# Parsec in TLA+

Parsec runs secure computations between three processes: ranks 0 and 1 are the
servers, which hold shares of every secret; rank 2 is the client, which shares
its data and learns results. This directory models the parts of it whose
correctness depends on order: messages and their tags, the queues of
multiplication triples and the order in which both servers consume them, the
operators built on these, and the database built on the operators. TLC checks the models
on small instances; TLAPS proves the main results for every value of the constants.

Paths are relative to the repository's root.

## The system

| Part | State | Operations | What is hard |
| --- | --- | --- | --- |
| TCP backend (`runtime/comm/src/comm/TcpComm.cpp`) | one socket per peer, send mutexes, pending messages per (rank, tag), reader error, shutdown flag | connect and accept, send, receive, reader thread per peer, finalize | several senders on one socket, receivers of different tags on one condition variable, a peer that dies, shutdown against blocked readers |
| Facade (`Comm.cpp`) and MPI backend (`MpiComm.cpp`) | the chosen implementation | the same calls, synchronous and asynchronous | exceptions swallowed; buffers and widths of MPI requests |
| Queues (`runtime/parallel/include/sync`) | items, mutex, two condition variables | offer, poll | lost wakeups, order, capacity |
| Thread pools (`runtime/parallel/include/parallel`) | threads, tasks | submit | tasks that wait for tasks or for the peer's tasks |
| Triples (`primitives/src/intermediate`) | queues, the current triple and the uses left of it | background generation, polling, generation on demand, pipelined generation | the servers must pair the same triples without talking about it; full queues on one side |
| Oblivious transfer (`primitives/src/ot`) | keys, seeds, choices | base, random and extended transfer | tags of the two directions |
| Operators (`primitives/src/compute`) | shares in, shares out | AND, comparison, selection, arithmetic | operators of one task side by side; constants only one server applies |
| Sorting (`primitives/src/secret/Secrets.cpp`) | the array of shares | bitonic network in one batch or many | batches in threads, paddings, triples per batch |
| System (`primitives/src/system/System.cpp`) | shutdown flag, task tag | init, finalize, nextTask | tags of concurrent streams, order of shutdown |
| Views (`db/src/basis`) | columns of shares, a hidden valid column and a hidden padding column | filter, group, count, extrema, distinct, sort, compaction; joins, membership | rows that are not valid stay in the columns; each operator trusts what the one before it left |
| Session (`db/src/dbms`, `db/src/operator`) | catalogues of the client and of both servers, tables of shares | create, use, drop, insert, select, exit | one tag for everything, three catalogues checked each by its own process, validation after sending |

The parts meet in this way. An operator runs on both servers at once; each of
its steps computes on the local shares and exchanges masked words through
`Comm`, under a tag made of a task tag and a message tag. Each AND uses up one
multiplication triple per word; the two halves of a triple come from a
generator pair, one thread on each server, through a bounded queue on each
server. Nothing numbers the triples: only the order of consumption pairs them.
Large operators split their work into batches that the thread pool runs.
The database turns SQL into such operators.

What makes the parts correct:

- communication: per sender, receiver and tag, what is received is what was
  sent, in order, once; frames are never torn; who waits for a message that was
  sent gets it; a failure wakes everyone who waits;
- start-up: whatever order the processes start in, each holds the right
  connection to each peer, or does not come up;
- queues: bounded, first in first out, no thread sleeps beside work;
- triples: the n-th triple one server uses is the n-th the other uses, no more
  often than the limit, and full queues stop nobody for ever;
- operators: the shares of the result are shares of what the operator names,
  whatever else is running;
- sorting: the output is the sorted input, for either order and any number of
  secrets, and both servers return;
- views: after any sequence of statements the valid rows are those relational
  algebra says, in every mode of compaction;
- sessions: client and servers agree on the catalogue, nobody takes a message for
  another one, an answer shows the rows asked for, and every command is answered.

## The modules

| Module | Models | Proofs |
| --- | --- | --- |
| `LockBlockingQueue` | `LockBlockingQueue.h`: offer and poll, each section under the mutex one step, waiting threads, `notify_one`, spurious wakeups | `LockBlockingQueueProofs` |
| `TagMailbox` | what `Comm::send` and `Comm::receive` promise: one FIFO per sender, receiver and tag | implemented: `TcpCommProofs` |
| `TcpComm` | `TcpComm.cpp` once connected: header and payload written separately under the send mutex, reader threads, pending messages, sleeping receivers, `finalize_()`, processes that die | `TcpCommProofs` |
| `TcpMesh` | `TcpComm::init_()`: listen, connect, greet, accept, read the peer's rank | `TcpMeshProofs` |
| `BmtPool` | background generators, one pair per queue, bounded queues, `pollBitwiseBmts()` and operators that exchange masked words | `BmtPoolProofs` |
| `BoolAnd` | one or several AND operators of one task with triples generated on demand, message by message and tag by tag | `BoolAndProofs` |
| `BoolLess` | the comparison circuit of `BoolLessBatchOperator`, on shares, and its count of triples | `CircuitsProofs` |
| `Transfers` | base transfers and the extension of IKNP as operators: what each message holds, and where each transfer is in the matrix | `CircuitsProofs` |
| `Circuits` | the batch operators on words and numbers and both generators of triples, on shares | `CircuitsProofs` |
| `BitonicSort` | `Secrets::sort()` on Boolean secrets: network, paddings, batches, pool, triples of each batch | `BitonicSortProofs` |
| `View` | the operators of `View.cpp` on one view: select, sort, compaction, filters, groups, counts, extrema, distinct | |
| `Views` | the operators of `Views.cpp`: scan, nested-loop, hash and outer joins, membership | |
| `Query` | what a sequence of statements promises: relational algebra on bags | |
| `ViewQueries` | sequences of statements on `View` and `Views`, in the modes of `DbConf` | |
| `Sql` | what the service promises its user: one catalogue, one statement at a time, refused or answered | |
| `DbSession` | client and servers: commands, catalogues, sharing of records, results | `DbSessionProofs` |

`MC...` modules give the constants their values.

How they build on each other: `TcpComm` implements `TagMailbox`, with the
variables of the same names as the refinement mapping (`sent` and `got` are
histories of what the application handed in and was given). `BmtPool` and
`BoolAnd` send over channels with the promise of `TagMailbox`, and so does `DbSession`; `BmtPool`
takes from queues with the promise of `LockBlockingQueue`. `BoolLess` takes the
conjunction of two shared words as one step, which leaves any of a set of
sharings: this is what `BoolAnd` shows (`AndIsShared`). `BitonicSort` takes a
comparison and a selection as steps that need the same triples on both servers:
correct then is what `BoolLess` shows (`LessIsShared`); and that the n-th poll of
both servers gives the same triple is what `BmtPool` shows (`SameTriples`).
`Circuits` extends `BoolLess` with the operators that call a comparison, and
`Transfers` with the generators that call the extension. `Views` extends `View`;
`ViewQueries` and `DbSession` both run their operators. A view holds the secrets and
not their shares: that an operator on shares computes its function of the secrets is
what `Circuits` shows (`ResultIsShared`, and `WordsAreShared`, the part of it about words).

Three refinements tie a detailed module to an abstract one: `TcpComm` implements
`TagMailbox` (`MailboxSpec`), `ViewQueries` implements `Query` under the mapping of a
view to the bag of its valid rows (`ImplementsQuery`), and `DbSession` implements
`Sql` under the mapping of client and servers to what the servers will hold once
everything under way is served (`ImplementsSql`).

### LockBlockingQueue

`pc` says of each thread whether it is outside, asleep in `wait()`, or awake and
on its way back to the mutex. `Offer` is `offer()` from the last check of its
predicate to the return, `OfferWaits` the check that fails; likewise `Poll`.
`NotifyOne` wakes any one sleeper, if there is one, and `SpuriousWakeup` any
thread at any time. `put` and `taken` are histories.

### TcpComm

A connection is a sequence of parts, headers and payloads; an empty message has
no payload part. `SendHeader` takes the send mutex and writes the header,
`SendPayload` writes the payload and returns. A reader goes through
`CallRecv`, `ReadHeader`, `ReadPayload`, `Push`. A receiver takes the head of its
queue, throws, or sleeps, in the order in which `receivePayload` asks. A process
that dies (`Crash`, `SigPipe`: sending to a closed peer raises a signal nobody
handles) loses its threads; what it had written stays readable. `close()` on a
descriptor in which a thread is blocked does not wake the thread; this is what the
socket calls of Linux do and is marked external.

### BmtPool

Triples are numbered by generator and position: `<<i, n>>` is the same pair of
halves on both servers. `Offer` blocks on a full queue in the middle of a batch.
`UseAgain` and `PollNext` are the loop of `pollBitwiseBmts()`: the current triple
is used until its uses are spent, then the next queue in turn is polled. An
operator then sends its masked words and waits for those of the peer.

### BoolAnd

Words are sets of bit positions. Both directions of the oblivious transfer run
for each operator, in one thread or two. Every message has its tag; the tags of
operator k start at `FirstTag(k)`. The first tag of an operator carries a matrix
first and its masked operands later: that they never meet is part of what is
proved. The extension itself is its two messages, the matrix of the receiver's
choices and the pair of masked answers.

### BoolLess

Each server computes on its own word; `And` leaves one of several sharings of the
conjunction. The constructor swaps the operands, so the circuit asks whether the
second is smaller than the first.

### BitonicSort

Inputs are zeros and ones: a comparison network sorts everything if it sorts
these. Each server has its own array, stage, batches and count of polled triples.
`Submit` is the loop of the main thread over the batches, `Start` the pool,
`Compute` a round of one batch, which both servers make together (its messages
carry its own tags), `Gather` the loop over the futures and both loops over the
pairs of the next stage. A batch for which the servers hold different triples or
different operands computes `Noise`. A comparison takes one poll here where the
code polls for each of its conjunctions. `shifted` is `1 << e`, and `InOrder` lists the
numbers of a set from the least one up, as the loop over the pairs meets them.
`PolledInOrder` is the configuration in which the order of polls is certain: on demand,
from the background queues, or pipelined with one batch.

### Transfers and Circuits

A message, a seed and a pad are words. `BaseOt` is the RSA protocol with a small key;
`SeedRows` is what `prepareIknp()` leaves for a row of the matrix. `place` says in which
tile, block and position transfer p of n is, for the plain form and for the packed form
of one bit each; `OfferedColumn` is what the receiver sends, `SenderColumn` what the sender
makes of it, `Masked` and `Unmasked` the two messages. Expansion, hash and key derivation
are parameters: nothing depends on which functions they are.

In `Circuits` an operator goes through stages. `Linear` has addition, multiplication,
conversion of words to numbers by transfers of one bit, and selection; `Ripple` splits
each server's number into a word and adds the two words bit by bit, for conversion, for
the comparison by the sign of a difference and for equality; `Compared` and `Select` are
equality and selection of words; `Generate` is a generator of triples from its seeds to
its third shares, one direction after the other. A step that takes triples leaves any of
the sharings of its result that the random numbers of the instance produce. `shifted` is
`1 << e`, `power` of `Transfers` is `modExp()`, and both are recursive functions, so that they can be
reasoned about at any width and for any key. `sum` is what a generator adds up over the bits.

### View, Views and ViewQueries

A view is a sequence of rows; a row gives each field and the two hidden columns a
value. `clearInvalidEntries` sorts by the valid column and cuts: exactly, after the
leading bit of the number of valid rows, or not at all, by the mode. `Sort` pads to a power
of two, runs the network and cuts. `Scan` is the segmented scan behind counts and extrema,
`GroupTails` the rows that stand for their groups. `butterflyPermutation` takes the rows to
the bucket of their tag layer by layer, with compaction after each layer.

The actions of `ViewQueries` are statements as the queries of `db/exp` compose them, with
every choice an operator's parameters leave. A guard says what a call needs of the calls
before it; where the code goes wrong without it, it is among the disagreements below.
Filters, sorts, compaction and joins run in one batch and in batches. Scans (counts and
extrema) run in one batch only (`InOneBatch`), where a round reads every pair before it
writes, as `countSingleBatch` and `maxSingleBatch` do; the batches of a longer scan race.

### DbSession

The client takes a statement it accepts, changes its own catalogue, and sends to both
servers, message by message (`ClientSends`); then it receives what it expects, in order
(`ClientReceives`). A server takes the first message as a command or as the share of a
record, by what it is waiting for, and answers. A sharing is known by its number, so that
shares of two different records would open to noise. A receive takes what comes first,
whatever it is: `RowsOf` says what a message shows that is taken for rows, and a number
taken for "done" is looked at by nobody. After exit the session goes on, as the process
does with the next connection; `late` is a history: a SELECT was executed after an exit.
Without an order a server answers a
SELECT alone; sorting and joining need both servers (`serverSelect`), and use the
operators of `Views`.

`Sql` answers a SELECT with exactly the rows asked for (`Answer`), in the order asked for.
`ImplementsSql` says that every step of the session is a step of `Sql`, but for three kinds of
statement that it names, because the code does not keep the promise there: a SELECT with
WHERE on one table and, with approximate compaction, a join may show other rows of the tables
beside those asked for (`Overfull`, `AnswerMore`), and who selects after an exit may be shown
anything (`late`, `AnswerAny`). None of the three exceptions can be left out: TLC then finds the
property violated. They are among the disagreements below.

## The runs

| Run | Instance | Shows |
| --- | --- | --- |
| `queue` | 2 producers, 3 consumers, capacity 2, 3 offers each | `Capacity`, `FifoOrder`, `NoLostWakeup`, `EverythingArrives` |
| `tcp` | two plans: 2 threads of one rank send 2 tags to 2 receivers, empty and full payloads; ranks finalize or die while one sends and one receives | `FramesWhole`, `NothingLost`, `SleepJustified`, `MailboxSpec`, `ReceiveCompletes`, `FinalizeReturnsWhenPeersDie` |
| `tcp_finalize` | all three ranks finalize | violates `FinalizeTerminates` |
| `mesh` | 3 processes, each may die | `MeshComplete`, `UpHeardFromHigherRanks`, `EveryoneUp` |
| `bmt_pool` | 2 queues of capacity 1, batches of 2, 2 uses per triple, operators of 1, 3 and 2 triples | `SameTriples`, `ReuseLimited`, `OpsComplete` |
| `and` | 2 operators of 1 bit, in both threadings; with one direction after the other every sharing of the first one's operands and triple | `AndIsShared`, `NoCrossTalk`, `AllDone` |
| `circuits` | every batch operator and both generators, on 1, 2 and 4 bits | `LessIsShared`, `ResultIsShared`, `TriplesSuffice` |
| `sort` | up to 5 secrets, both orders, one batch or batches of one, pools of 1 and 2 threads, triples on demand, from the background, or pipelined with one batch | `Sorted`, `StagesAreReal`, `SortEnds` |
| `sort_pipeline` | up to 4 secrets, batches of one, pipelined triples | violates `Sorted` |
| `view` | tables of 1 to 5 rows, every mode of compaction, in one batch and in batches of two (scans in one batch), 4 buckets, up to 3 statements | `PreciseMeansAllValid`, `ImplementsQuery`, `SortedResult`, `CompactedTwice` |
| `session` | 4 openings, the longest with two filled tables, and 3 commands of 14 after each, exit among them, with precise and with approximate compaction | `CataloguesAgree`, `ReadInStep`, `ImplementsSql`, `Answered` |
| `session_exit` | the same with 2 commands, approximate compaction | violates `NothingMisread` |

Each property has a mutant of the code that breaks it: a row of PROJECT.json names
the definition and its mutated form. Runs whose system may stop (an operator ends, a
program has made its calls, full queues stop the generators) do not check deadlock;
what must not stop is stated as liveness there.

### Bounds

- Queue: three consumers on one condition variable and two producers on the
  other are enough for a notification to go to any of several sleepers while
  another thread takes the item; capacity 2 lets two items wait at once.
- TCP: two threads of a rank on one connection can interleave their frames; two
  tags and two receivers are enough for a message to wake the wrong one. A rigid
  variable, `plan`, says who sends, receives, finalizes and may die; in the plan of the
  shutdown one tag and one receiver are enough, as tags do not matter to it.
- Start-up: the number of ranks is three in the code.
- Triples: two queues make the round robin matter; a capacity below the batch size
  blocks a generator inside a batch; an operator of three triples crosses queues
  and a reuse.
- AND: everything is bitwise, so that one bit stands for all; the proof has words
  of any width. Two operators show every overlap of tags, which are laid out
  evenly. A rigid variable, `intra`, says whether both directions run at once.
- Comparison: 4 bits have two rounds of accumulation, 1 bit has none. The
  database admits only widths that are powers of two (`CreateSupport.cpp:46`); for
  others the circuit rounds the logarithm down and its result is wrong, which is
  why the module assumes them.
- Other circuits: numbers of 4 bits overflow, change sign and carry through the whole
  width. The second operand, the random numbers and the masks come from small sets with
  extremes and mixed values (`Numbers`, `Randoms`, `Masks`); the first operand is any.
- Transfers: with two rows and tiles of two, four transfers fill two tiles in the plain
  form and two blocks of a tile in the packed form, one or two leave the last one cut.
  The RSA modulus is 15; there is one pair of seeds, so that the choices and keys make
  the difference. The base transfers run just before each direction, and the sender
  draws its first messages when the columns are sent; nothing reads either earlier. A
  batch has one element: elements are independent but for their place in the matrix.
- Views: five rows are padded to eight and scanned in three rounds; groups have one to
  three rows, and there are ties. Batches of two rows split every longer filter, sort and
  join; a table whose scan they would split is not counted or searched for extrema. Four
  buckets have two layers of the butterfly. Longer sequences are run on shorter tables
  (`Setups`).
- Session: the openings are the commands of `db/client/precmd`, cut at different
  places; three commands are enough to create, fill and look at a table, to drop and
  use databases in the wrong order, or to exit twice and select. Records have two columns, one of them the key.
- Sorting: five secrets are padded to eight, which gives all of the network's
  directions, two batches at once, and paddings that cross a whole half. Pipelined
  triples are in the passing run without batches, where one thread polls.

### Fairness

Weak fairness for each thread: a thread that can go on eventually does, which is
what an operating system's scheduler gives. A thread that waits for a mutex or a
condition is enabled only when it can have it. Nothing is assumed about the choice
of `notify_one()`, about spurious wakeups, about which thread gets a mutex next,
or about crashes: none of these has fairness. `ReceiveCompletes` and
`EverythingArrives` hold without strong fairness because no other thread can
take a receiver's message and the number of calls is bounded. `EveryoneUp` is
stated for executions in which nobody dies.

A rank that may die does so without notice; the properties of delivery are about
ranks that live. In `DbSession` the client's work, the receiving of each server and
its answers are fair, each for itself; typing is not, so that a session may end after
any command. With the rigid variables fairness is about the steps of the variables that
change.

### Disagreements with what the repository says

- `tcp_finalize`: `README.md` has every program end with `System::finalize()`;
  when all three do, `finalize_()` closes the descriptors and joins reader threads
  that nothing wakes. `System.cpp:32` prints a hint to press Ctrl + C;
  `FinalizeReturnsWhenPeersDie` shows that a rank does return when its peers are
  gone.
- `sort_pipeline`: `Secrets::sort()` polls the triples of its batches in order with
  `bmt_background` only; `bmt_pipeline` polls the same queues in whatever order the
  threads run.
- `session_exit`: `db/client/main.cpp:29` says that exit ends the session. The servers
  say "done" to it at `SystemManager.cpp:252` and again at 294, and `notifyServersSync()`
  awaits one of each. The processes go on; the next SELECT takes the "done" left over for its
  rows and shows none, and every answer after it is behind by one. `ReadInStep` is what is
  true: no server ever misreads, and the client does not as long as no SELECT follows.

Others were met while modelling and are left out by a guard or a restriction, so that
what is checked is what the code does elsewhere. Of the views:

- In several batches, the tasks of a scan's round read the arrays by reference while the
  main thread writes back the batches that have finished (`View.cpp:622-704`, `972-1078`,
  likewise `1315-1413`, `2331-2446`), without a lock. What a round leaves depends on who is
  first, so that counts and extrema in several batches promise nothing: the model has them in
  one batch, and nothing here says anything of the others. Two mistakes that bite there
  only are left out with them: the valid column's index is computed before a column is
  inserted and used after it (`View.cpp:959`, `1119`), so that `max` writes flags over the
  maxima; and `countMultiBatches` does not know the column of matched rows.
- With precise compaction unmatched rows count as one: `Count` leaves this out.
- With precise compaction a filter replaces the valid column, and rows that were not
  cleared come back: `Where` then clears. Rows made zero by a hash join without
  compaction match each other; `NO_COMPACTION` runs with the valid column only.
- Grouping by several fields in one batch does not look at the baseline mode
  (`View.cpp:295`): `groupByFields` has it as it is; the steps after it ask for the valid
  column themselves.
- The neutral value of a minimum is the same share on both servers, that is, the secret
  0 (`View.cpp:1158`): the model has 0; the rows it stands for are not valid.
- A hash join of no rows leaves the bucket tags under names that do not hide them
  (`Views.cpp:519-526`): `Visible` hides them.
- A filter by an unknown column takes the first one; every statement of the model names
  columns there are. Precise compaction sends a sum of 64 bits with a width of 32
  (`View.cpp:1830`); sums of the model fit.

Of the session:

- The client always says whether a SELECT is a join (`SelectSupport.cpp:234`) and the
  server asks whether the word is absent (`SelectSupport.cpp:435`), so that WHERE on one
  table is never applied, though `README.md:47` names filters among the operations. No run
  is about this one: `Sql` promises the filtered rows, and `ImplementsSql` excepts these
  statements by name.
- Rows that a join by approximate compaction has found invalid are shown, because
  `selectColumns` makes all rows valid (`SelectSupport.cpp:421`, `Views.cpp:72-74`); this is the
  second exception.
- INSERT is forwarded before its values are validated (`InsertSupport.cpp:65` against
  `77-101`): if they are refused, the servers wait for a record for ever. The statements of
  the model have values the columns admit.
- With MPI a message that is too long for the number it is taken for ends the process; the
  model has the TCP backend there, which reads as much as it wants. That the rows of an
  earlier SELECT are cut into another number of columns, after several exits, is not modelled:
  they are shown as they were.
- `dropTable` erases nothing (`Database.cpp:26-32`); `Sql` says so.
- The key of a table is the first letter of its name (`CreateSupport.cpp:36`): keys of
  the model have one letter. A table without a key takes no rows.
- ORDER BY of a column that is not selected passes the client, which looks for it in the table
  (`SelectSupport.cpp:210-215`), and the servers index the selected columns with -1: undefined
  behaviour that the assumption `OrderIsSelected` on what is typed leaves out. ORDER BY on a
  join and joins of joins go through a null pointer or an index of -1 too and are not among the
  statements.

Of the system: `README.md:240` says "Use `System::nextTask()` to allocate a task tag for an
independent operator stream.", and `nextTask()` (`System.cpp:43-51`) never advances: everybody
gets the same tag, which with `bmt_pipeline` and three queues is also that of a generator
(`IntermediateDataSupport.cpp:264`). Benchmarks and experiments alone call it; no run is about it.

Of the operators: sums and differences are not reduced to their width until they are
opened; `ArithLess` is right only if the difference has the width, while `ArithEqual` is
always right (`ResultIsShared` states both).

## The proofs

Each is a theorem of the form `Spec => []P`, or a refinement, from the named assumptions
on the constants only; those about sorting also assume `PolledInOrder` of the
configuration, without which `sort_pipeline` shows `Sorted` violated. The assumptions on
constants say that counts are natural numbers and capacities positive; that a thread of
`TcpComm` neither sends to its own rank nor receives from it; that only ranks die in
`TcpMesh`; that a width of `BoolLess` is a power of two up to 64, as
`CreateSupport.cpp:46` demands; that the exponents of the key of `Transfers` are inverse on the
units of its modulus; and that what is typed in `DbSession` consists of
statements, one after the other, where an INSERT names a table and a SELECT orders by
columns it selects (which no proof uses). TLC evaluates them on the
instances of the runs. Each inductive invariant was an invariant of a run before it was
proved.

- `LockBlockingQueueProofs`: `CapacityHolds`, `FifoOrderHolds`,
  `NoLostWakeupHolds` and `TypesHold`, for any finite sets of producers and consumers. The
  invariant is the conjunction of what TLC checks: `NoLostWakeup` is stated with the numbers
  of awake threads, items and free slots, which is what makes it inductive. `WakesUp`
  and `LeaveAndNotify` say what a notification does to these numbers; each action
  has its lemma.
- `TcpCommProofs`: `TypesHold`, `FramesWholeHolds`, `SleepJustifiedHolds`,
  `NothingLostHolds` and `MailboxImplemented`, for any threads, tags, sizes and plans, and
  whoever dies. The mutex of a connection is held by the one thread that has written a header
  and not its payload (`Holding`), and a reader has in hand the message whose header it
  has read (`Hands`). `FramesWhole` is about the parts that are on the wire, and what keeps it
  true is the end of the wire: as long as a rank can write, its last part is complete, or it
  is the header of the message that the holder of the mutex is sending (`Frames`). `Delivery` is what nothing is lost means at
  every moment: per sender, receiver and tag, what was sent is what was taken, then what is
  pending, then what is in the reader's hand, then what the headers on the wire announce. A
  connection whose reader is gone only loses the end of this. `OldestIsNext`
  takes from it that a receiver gets the oldest message that it has not got: that
  is the step of `TagMailbox`, and every other step is a stutter (`StepRefines`).
- `TcpMeshProofs`: `TypesHold`, `MeshCompleteHolds`, `UpHeardHolds`, whoever dies and
  whenever. A connection comes once (`ComesOnce`: it is in the backlog, accepted, or filed,
  from a higher rank) and only after the other side has made it (`NothingBefore`). The
  loop of accept counts connections and not ranks; that the count is right at its
  end needs `FiledCounted`: as many higher ranks are filed as the loop has gone round.
- `BmtPoolProofs`: `TypesHold`, `SameTriplesHold`, `ReuseLimitedHolds`, for any number of
  queues, capacity, batch size, limit and program. `SameTriples` compares two servers that
  never agree on anything, so it is not inductive. The invariant says of each server
  alone that a queue holds the consecutive last triples its generator has offered
  (`OffersLast`, `QueueOrder`) and that what the server has used follows a fixed
  order (`TraceOf`): the uses of one triple up to the limit, then the next triple of
  the queue whose turn it is. Two sequences that start and go on in the same way agree
  where both are defined (`Agreement`). For `ReuseLimited` the uses of one triple lie
  side by side in the trace and the uses that are left go down along them
  (`TakenGrows`, `UsesRunOut`), so that there are at most as many as the limit.
- `BoolAndProofs`: `TypesHold`, `AndHolds`, `NoCrossTalkHolds`, for words of any
  width, any number of operators and either threading. The invariant says of each
  tag of each operator what is on the wire under it, as a function of how far the
  threads are. `TagsApart` shows that no two operators share a tag. The algebra of
  the shares is in `TripleIsShared` and `ProductIsShared`.
- `CircuitsProofs`: `LessIsSharedHolds`, `TriplesSufficeHolds`, `WordsAreSharedHolds` and
  `ResultIsSharedHolds`, for every admitted width, all operands, and whatever sharings the
  conjunctions leave; the last one also for all random numbers, seeds and keys. Each
  round of the accumulation doubles the parts of the word in which a bit of `lbs` says that
  the operands agree from it to the end of its part (`Accumulates`, with the halves of
  a part apart: `Halves`). In the end one part is the word, so that the last conjunction
  leaves at most one bit, the highest in which the operands differ, and its parity is the
  result (`ParityIs`). `OrderOfWords` says that this bit decides which number is smaller; it
  goes over the bits from the highest one, and that is why `value` is defined so. `Paid`
  says at each round what is left of the triples. Equality keeps the negated first
  comparison while it runs the second one; for a selection `ChoiceIs` is the
  algebra. `WordsAreShared` is the part of `ResultIsShared` about words; the rest has
  an invariant of its own for each kind of operator, on top of facts about powers of two, sums
  over bits and remainders (`PowersOfTwo`, `SumIs`, `Congruent`, `ValueOfPart`) that come by least
  counterexamples. `LinearState`: while a word is converted, the shares add up to the
  value of its bits so far, and each transfer adds the next one (`TransferIs`). `RippleState`:
  what is added up of the two shares so far, with the carry in its place, is the sum of
  their lower parts (`Rippling`, `SumGrows`), so that in the end it is the sum; the
  highest bit of a difference is the order where it has the width (`SignIsOrder`), and
  neither difference has it only if there is none (`NeitherSign`), which is why `ArithEqual` is
  always right. `GeneratorState`: the messages of a stage are made from seeds that fit, and the
  direction that is done shares its product (`Mixed`); for numbers the offered and the
  received messages of each bit differ by the factor's multiple if the choice is 1, and
  these add up to the product (`NumberProduct`), for words bit by bit (`PackedProduct`).
  Of the transfers below the generators: `ChosenMessageArrives`, for any number of rows, any
  width, any place in the matrix and any expansion and hash, from what the base transfers
  leave (`SeedsFit`: the sender has of each row the seed that it chose). The
  sender's column is the receiver's one, or that one off by the sender's choices
  (`ColumnsDiffer`); so the pad of the chosen message is the same on both sides. That the base
  transfers leave it is `BaseOtGivesChosen`, with `PreparedSeedsFit`: for any modulus
  and any exponents that are inverse on its units (`TransfersAssumption`), dividing the
  decrypted number by the power of the chosen random number gives the key (`KeyIs`).
- `BitonicSortProofs`: `SortTypeOK`, `SortSorts` and `SortStagesAreReal`, for every number of
  secrets, either order, every batch size and any pools. In the order asked for, paddings rank
  last; an array is known by its sets `Ones(A, t)`, the places of rank at least t.
  `Progress` says that the array has come to its stage: for each t the blocks of `2 * j` are
  bitonic and graded from one to the next, and the blocks of k are to be sorted by turns
  (`Prepared`). Exchanging the pairs of a stage leads to the next one: `SplitStep` for a bitonic
  block, `PeakIsBitonic` and `MergeStep` where two blocks sorted in opposite directions are the
  next bitonic one, `NetworkBegins` and `NetworkEnds` for both ends. Swapping the
  paddings and then sorting the pairs of secrets is such an exchange (`SwappedIs`,
  `WrittenIs`), it exchanges each pair or keeps it, so that the counts of the values stay
  (`TradesKeepCounts`), and the batches hold each comparison once (`ComparisonsAre`,
  `BatchesAre`). Since fewer than half of the places are paddings, each stage leaves the first
  entry a secret and some pair to compare (`StageIsReal`). Of the servers, the inductive
  invariant `IInv` says that no value is noise (`NoNoise`), that the triples of each
  batch follow those of the batch before it (`Polled`), and that the two are `Together`: in
  the same stage with the same polls before it, or one is `Ahead` by a stage, has nothing computed
  in it, and the other has only to gather. That is what pairs the n-th batch of one
  with the n-th of the other and gives both the same triples. Inductions, on the exponents and
  on the sizes of sets, go by the least counterexample (`Least`).
- `DbSessionProofs`: `ReadInStepHolds` and `CataloguesAgreeHolds`, for any statements,
  tables and records, exit and what follows it included. Until somebody types exit, the
  messages of one statement are under way and nothing else is (`InStep`, `Quiet`); `Turns` says
  how many of them are those of a server. From then on a server is one "done" ahead of the
  client and may fall behind by any number of statements, but until somebody selects only
  "done" is said and waited for (`OnlyDone`). After that nothing is known of the answers, which
  the run `session_exit` shows to be misread; what the servers receive stays in order whatever
  happens (`InboxInv`), and this is all that the catalogues need. The catalogues are
  those that the servers have once they have served all that is under way (`CaughtUp`, a
  fold over messages): sending a statement and serving it both leave the two of them equal
  and matched with the client's (`CatalogueInv`). That serving goes message by message
  (`ServedSplit`) is a fact of the fold of the community modules, and is derived from its
  definition: there is one function that folds (`FoldExists`, `FoldUnique`), by the least number
  of messages for which there would be none or two (`Least`).

Only model-checked:

- all liveness properties (`EverythingArrives`, `ReceiveCompletes`,
  `FinalizeReturnsWhenPeersDie`, `EveryoneUp`, `OpsComplete`, `AllDone`, `SortEnds`,
  `Answered`), which are out of the prover's reach;
- the views and the session's results: `ImplementsQuery`, `ImplementsSql`,
  `PreciseMeansAllValid`, `SortedResult`, `CompactedTwice`, `ViewQueries.TypeOK`. They
  are about recursive definitions (sort, scan, joins), that is, inductions over data.

## Not modelled

- The MPI backend, the lock-free queues (vendored), the threads of asynchronous
  requests, the threads of the pipelined generator, random transfers (nobody calls them),
  the operators on single elements, arithmetic triples kept in queues.
- Number encodings on the wire, SIMD loops, timing, logging, configuration, experiments.
- Scans of views in several batches.
- The SQL parser; joins of joins; an INSERT whose values are refused after it is sent.
- `System::nextTask()`.
- Computations with undefined behaviour that no caller reaches, such as sorting
  no secrets.

## Plan

1. Views: scans in batches with their races, as steps of threads, with the outcomes that the
   build can produce; then the run that shows what is wrong with them.
2. Proofs: `TypeOK` and `PreciseMeansAllValid` of `ViewQueries`, which need of `Sort`, `Scan` and
   the joins only what fields and how many rows they leave.
3. Pipelined generator (`PipelineBitwiseBmt`): main, sub and transfer threads,
   shutdown; composed with the polls of `BmtPool`.
4. Thread pool with nested tasks (`ThreadPool`), against the batches of `BitonicSort`.
5. Asynchronous requests and encodings in `TcpComm`; MPI requests.
