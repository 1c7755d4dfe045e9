------------------------------ MODULE BoolAnd ------------------------------
(***************************************************************************)
(* The AND of two XOR-shared vectors with bmt_method=bmt_jit: each operator *)
(* (BoolAndBatchOperator) first generates its own multiplication triples    *)
(* with the other server (BitwiseBmtBatchGenerator, two extensions of IKNP  *)
(* OT in opposite directions), then exchanges operands masked with them.    *)
(* Several operators of one task run at once, each in a thread of its own;  *)
(* on the wire only the message tag keeps them apart, and an operator uses  *)
(* the first of its tags for two different messages.                        *)
(*                                                                         *)
(* A word is the set of its bits that are one: everything here is bitwise.  *)
(* OT is modelled by its messages and what it delivers; the matrix by which *)
(* the receiver hides its choices carries nothing that anyone reads here.   *)
(***************************************************************************)
EXTENDS Integers, Sequences

CONSTANTS
    Lanes,          \* the bits of a vector of shares
    NumOperators    \* operators running at once

ASSUME BoolAndAssumption == NumOperators \in Nat \ {0}

Servers == {0, 1}
Operators == 0 .. NumOperators - 1
Words == SUBSET Lanes
Xor(v, w) == (v \ w) \cup (w \ v)

-----------------------------------------------------------------------------
(* Tags and messages *)

IknpTagStride == 2
TagStride == 2 * IknpTagStride
Tags == 0 .. NumOperators * TagStride - 1

\* Mutant of FirstTag: ranges as wide as one OT needs.
FirstTagOfOt(k) == k * IknpTagStride

\* The operators are given disjoint ranges of TagStride tags.
FirstTag(k) == k * TagStride
\* computeMix(m) sends a matrix and its answer, the operator its masked operands.
MatrixTag(k, m) == FirstTag(k) + m * IknpTagStride
AnswerTag(k, m) == MatrixTag(k, m) + 1
MaskedTag(k) == FirstTag(k)

MatrixMsg == [kind |-> "matrix"]
AnswerMsg(w0, w1) == [kind |-> "answer", m0 |-> w0, m1 |-> w1]
\* Mutant of MaskedMsg: the masked operands sent as if they were an OT answer.
MaskedMsgMistyped(w0, w1) == [kind |-> "answer", e |-> w0, f |-> w1]

MaskedMsg(w0, w1) == [kind |-> "masked", e |-> w0, f |-> w1]
Messages ==
    {MatrixMsg} \cup [kind : {"answer"}, m0 : Words, m1 : Words]
                \cup [kind : {"masked"}, e : Words, f : Words]

VARIABLES
    intra,      \* ENABLE_INTRA_OPERATOR_PARALLELISM, set once: both directions at once
    x, y,       \* the shares of the operands, [operator][server]
    a, b,       \* the shares of the triples that each server draws
    r,          \* the random message of each server as OT sender
    c,          \* the third share of the triples (computeC)
    z,          \* the shares of the result
    mixing,     \* [operator][server][m]: the progress of computeMix(m)
    mix,        \* its result, _usi for m = 0 and _vsi for m = 1
    pc,         \* [operator][server]: the progress of the operator
    net         \* [server][tag]: messages on their way to a server

inputs == <<intra, x, y, a, b, r>>
vars == <<inputs, c, z, mixing, mix, pc, net>>

PerServer(S) == [Operators -> [Servers -> S]]

Init ==
    /\ intra \in BOOLEAN
    /\ x \in PerServer(Words) /\ y \in PerServer(Words)
    /\ a \in PerServer(Words) /\ b \in PerServer(Words) /\ r \in PerServer(Words)
    /\ c = [k \in Operators |-> [s \in Servers |-> {}]]
    /\ z = [k \in Operators |-> [s \in Servers |-> {}]]
    /\ mixing = [k \in Operators |-> [s \in Servers |-> [m \in Servers |-> "start"]]]
    /\ mix = [k \in Operators |-> [s \in Servers |-> [m \in Servers |-> {}]]]
    /\ pc = [k \in Operators |-> [s \in Servers |-> "generate"]]
    /\ net = [s \in Servers |-> [t \in Tags |-> <<>>]]

\* Send a message to server s, and take the next one that came to it.
Sent(s, t, msg) == net' = [net EXCEPT ![s][t] = Append(@, msg)]
Arrived(s, t, kind) == net[s][t] # <<>> /\ Head(net[s][t]).kind = kind
Consumed(s, t) == net' = [net EXCEPT ![s][t] = Tail(@)]

-----------------------------------------------------------------------------
(* computeMix(m): server m is the sender, the other one the receiver, choosing *)
(* by its b.  Direction 1 comes after direction 0 unless each has a thread.     *)

\* Mutant of Begins: each server starts with the direction in which it sends.
BeginsAsSender(k, s, m) ==
    /\ mixing[k][s][m] = "start"
    /\ m = s \/ intra \/ mixing[k][s][1 - m] = "done"

Begins(k, s, m) ==
    /\ mixing[k][s][m] = "start"
    /\ m = 0 \/ intra \/ mixing[k][s][0] = "done"

\* The receiver sends its matrix and waits for the answer.
SendMatrix(k, m) ==
    /\ Begins(k, 1 - m, m)
    /\ mixing' = [mixing EXCEPT ![k][1 - m][m] = "wait"]
    /\ Sent(m, MatrixTag(k, m), MatrixMsg)
    /\ UNCHANGED <<inputs, c, z, mix, pc>>

\* The sender has the matrix, and answers with its two messages.  A matrix is
\* read into a buffer of its size: anything else that comes first is an error.
AnswerMatrix(k, m) ==
    /\ Begins(k, m, m)
    /\ Arrived(m, MatrixTag(k, m), "matrix")
    /\ mixing' = [mixing EXCEPT ![k][m][m] = "wait"]
    /\ Consumed(m, MatrixTag(k, m))
    /\ UNCHANGED <<inputs, c, z, mix, pc>>

SendAnswer(k, m) ==
    /\ mixing[k][m][m] = "wait"
    /\ mixing' = [mixing EXCEPT ![k][m][m] = "done"]
    /\ mix' = [mix EXCEPT ![k][m][m] = r[k][m]]
    /\ Sent(1 - m, AnswerTag(k, m), AnswerMsg(r[k][m], Xor(a[k][m], r[k][m])))
    /\ UNCHANGED <<inputs, c, z, pc>>

\* The receiver opens in each lane the message it chose.
Chosen(msg, choices) == (msg.m0 \ choices) \cup (msg.m1 \cap choices)

ReceiveAnswer(k, m) ==
    LET s == 1 - m
    IN  /\ mixing[k][s][m] = "wait"
        /\ Arrived(s, AnswerTag(k, m), "answer")
        /\ mixing' = [mixing EXCEPT ![k][s][m] = "done"]
        /\ mix' = [mix EXCEPT ![k][s][m] = Chosen(Head(net[s][AnswerTag(k, m)]), b[k][s])]
        /\ Consumed(s, AnswerTag(k, m))
        /\ UNCHANGED <<inputs, c, z, pc>>

-----------------------------------------------------------------------------
(* The operator *)

\* Mutant of Mixed: the other direction is not waited for.
MixedByHalf(k, s) == mixing[k][s][0] = "done"

Mixed(k, s) == mixing[k][s][0] = "done" /\ mixing[k][s][1] = "done"
ThirdShare(k, s) == Xor(Xor(a[k][s] \cap b[k][s], mix[k][s][0]), mix[k][s][1])

\* What a server sends: its operands, masked with its triple.
Masked(k, s) == MaskedMsg(Xor(x[k][s], a[k][s]), Xor(y[k][s], b[k][s]))

\* Both directions have been waited for: computeC, and the masked operands go out.
SendMasked(k, s) ==
    /\ pc[k][s] = "generate"
    /\ Mixed(k, s)
    /\ c' = [c EXCEPT ![k][s] = ThirdShare(k, s)]
    /\ pc' = [pc EXCEPT ![k][s] = "exchange"]
    /\ Sent(1 - s, MaskedTag(k), Masked(k, s))
    /\ UNCHANGED <<inputs, z, mixing, mix>>

\* Mutant of ProductShare: both servers add e & f.
ProductShareTwice(k, s, e, f) ==
    Xor(Xor(f \cap a[k][s], e \cap b[k][s]), Xor(c[k][s], e \cap f))

\* The share of the product, given the opened e and f; server 1 alone adds e & f.
ProductShare(k, s, e, f) ==
    Xor(Xor(f \cap a[k][s], e \cap b[k][s]),
        Xor(c[k][s], IF s = 1 THEN e \cap f ELSE {}))

ReceiveMasked(k, s) ==
    LET mine == Masked(k, s)
        theirs == Head(net[s][MaskedTag(k)])
    IN  /\ pc[k][s] = "exchange"
        /\ Arrived(s, MaskedTag(k), "masked")
        /\ z' = [z EXCEPT ![k][s] =
                    ProductShare(k, s, Xor(mine.e, theirs.e), Xor(mine.f, theirs.f))]
        /\ pc' = [pc EXCEPT ![k][s] = "done"]
        /\ Consumed(s, MaskedTag(k))
        /\ UNCHANGED <<inputs, c, mixing, mix>>

-----------------------------------------------------------------------------

MixStep(k, m) ==
    SendMatrix(k, m) \/ AnswerMatrix(k, m) \/ SendAnswer(k, m) \/ ReceiveAnswer(k, m)
OperatorStep(k, s) == SendMasked(k, s) \/ ReceiveMasked(k, s)

Next == \E k \in Operators : \E s \in Servers : MixStep(k, s) \/ OperatorStep(k, s)

Spec == Init /\ [][Next]_vars

\* The threads of an operator keep running on both servers.
Fairness ==
    \A k \in Operators : \A s \in Servers :
        /\ WF_vars(SendMatrix(k, s)) /\ WF_vars(AnswerMatrix(k, s))
        /\ WF_vars(SendAnswer(k, s)) /\ WF_vars(ReceiveAnswer(k, s))
        /\ WF_vars(OperatorStep(k, s))

FairSpec == Spec /\ Fairness

-----------------------------------------------------------------------------

TypeOK ==
    /\ intra \in BOOLEAN
    /\ x \in PerServer(Words) /\ y \in PerServer(Words)
    /\ a \in PerServer(Words) /\ b \in PerServer(Words) /\ r \in PerServer(Words)
    /\ c \in PerServer(Words) /\ z \in PerServer(Words)
    /\ mixing \in PerServer([Servers -> {"start", "wait", "done"}])
    /\ mix \in PerServer([Servers -> Words])
    /\ pc \in PerServer({"generate", "exchange", "done"})
    /\ net \in [Servers -> [Tags -> Seq(Messages)]]

(* What the AND is for: once both servers are through, their shares of the    *)
(* result are shares of the AND of what was shared.                           *)
AndIsShared ==
    \A k \in Operators : (\A s \in Servers : pc[k][s] = "done") =>
        Xor(z[k][0], z[k][1]) = Xor(x[k][0], x[k][1]) \cap Xor(y[k][0], y[k][1])

(* A thread that receives finds the message it means at the head of its tag,  *)
(* or nothing yet: never one of another operator, of the other direction, or  *)
(* of the other use of the same tag.                                          *)
Heads(s, t, kind) == net[s][t] # <<>> => Head(net[s][t]).kind = kind
NoCrossTalk ==
    \A k \in Operators :
        /\ \A m \in Servers :
            /\ mixing[k][m][m] = "start" => Heads(m, MatrixTag(k, m), "matrix")
            /\ mixing[k][1 - m][m] = "wait" => Heads(1 - m, AnswerTag(k, m), "answer")
        /\ \A s \in Servers : pc[k][s] = "exchange" => Heads(s, MaskedTag(k), "masked")

(* Neither server waits for the other in a circle: every operator ends.       *)
AllDone == <>(\A k \in Operators : \A s \in Servers : pc[k][s] = "done")

=============================================================================
