--------------------------- MODULE BoolAndProofs ---------------------------
(* Proofs about BoolAnd, for words of any width and any number of operators.  *)
(*                                                                            *)
(* The invariant says of each operator what is on its way under each of its   *)
(* tags, which the progress of its threads decides, and what they have        *)
(* computed.  Its first tag carries a matrix before it carries operands, and  *)
(* the invariant is what shows that it never carries both.                    *)
EXTENDS BoolAnd, TLAPS

\* The queue that holds one message while a condition holds.
While(cond, msg) == IF cond THEN <<msg>> ELSE <<>>

\* The pair of masked answers with which m offers its halves.
AnswerOf(k, m) == AnswerMsg(r[k][m], Xor(a[k][m], r[k][m]))

\* The matrix of direction m is under way: sent, not read.
MatrixUnread(k, m) == mixing[k][1 - m][m] # "start" /\ mixing[k][m][m] = "start"
\* So are the answers to m.
AnswerUnread(k, m) == mixing[k][m][m] = "done" /\ mixing[k][1 - m][m] # "done"
\* So are the masked operands for server s.
MaskedUnread(k, s) == pc[k][1 - s] # "generate" /\ pc[k][s] # "done"

\* The i-th tag of an operator.
TagAt(k, i) == FirstTag(k) + i

\* What is on its way between the servers for one operator.
Wire(k) ==
    /\ net[0][TagAt(k, 0)] =
            IF MatrixUnread(k, 0) THEN <<MatrixMsg>> ELSE While(MaskedUnread(k, 0), Masked(k, 1))
    /\ net[1][TagAt(k, 0)] = While(MaskedUnread(k, 1), Masked(k, 0))
    /\ net[1][TagAt(k, 1)] = While(AnswerUnread(k, 0), AnswerOf(k, 0))
    /\ net[1][TagAt(k, 2)] = While(MatrixUnread(k, 1), MatrixMsg)
    /\ net[0][TagAt(k, 3)] = While(AnswerUnread(k, 1), AnswerOf(k, 1))

\* How far the threads of one operator can be from each other.
Progress(k) ==
    /\ \A m \in Servers :
        /\ mixing[k][1 - m][m] = "start" => mixing[k][m][m] = "start"
        /\ mixing[k][1 - m][m] = "done" => mixing[k][m][m] = "done"
    /\ \A s \in Servers :
        /\ pc[k][s] # "generate" => Mixed(k, s)
        /\ pc[k][s] = "done" => pc[k][1 - s] # "generate"

\* The operands as both servers see them opened.
OpenedE(k) == Xor(Xor(x[k][0], a[k][0]), Xor(x[k][1], a[k][1]))
OpenedF(k) == Xor(Xor(y[k][0], b[k][0]), Xor(y[k][1], b[k][1]))

\* What the threads of one operator have computed.
Results(k) ==
    /\ \A m \in Servers :
        /\ mixing[k][m][m] = "done" => mix[k][m][m] = r[k][m]
        /\ mixing[k][1 - m][m] = "done" =>
                mix[k][1 - m][m] = Chosen(AnswerOf(k, m), b[k][1 - m])
    /\ \A s \in Servers :
        /\ pc[k][s] # "generate" => c[k][s] = ThirdShare(k, s)
        /\ pc[k][s] = "done" => z[k][s] = ProductShare(k, s, OpenedE(k), OpenedF(k))

OpInv(k) == Wire(k) /\ Progress(k) /\ Results(k)

IInv == TypeOK /\ \A k \in Operators : OpInv(k)

-----------------------------------------------------------------------------
(* Words *)

LEMMA XorTyped ==
    ASSUME NEW v \in Words, NEW w \in Words
    PROVE  Xor(v, w) \in Words
  BY DEF Words, Xor

\* Addition of shares commutes.
LEMMA XorCommutes ==
    ASSUME NEW v, NEW w
    PROVE  Xor(v, w) = Xor(w, v)
  BY DEF Xor

\* The triple that two servers have after both extensions is a triple.
LEMMA TripleIsShared ==
    ASSUME NEW a0, NEW a1, NEW b0, NEW b1, NEW r0, NEW r1
    PROVE  Xor(Xor(Xor(a0 \cap b0, r0), Chosen(AnswerMsg(r1, Xor(a1, r1)), b0)),
               Xor(Xor(a1 \cap b1, Chosen(AnswerMsg(r0, Xor(a0, r0)), b1)), r1))
           = Xor(a0, a1) \cap Xor(b0, b1)
<1>1. \A l : (l \in Chosen(AnswerMsg(r1, Xor(a1, r1)), b0)) <=>
              (IF l \in b0 THEN (l \in a1) # (l \in r1) ELSE l \in r1)
  BY DEF Chosen, AnswerMsg, Xor
<1>2. \A l : (l \in Chosen(AnswerMsg(r0, Xor(a0, r0)), b1)) <=>
              (IF l \in b1 THEN (l \in a0) # (l \in r0) ELSE l \in r0)
  BY DEF Chosen, AnswerMsg, Xor
<1> DEFINE g1 == Chosen(AnswerMsg(r1, Xor(a1, r1)), b0)
           g0 == Chosen(AnswerMsg(r0, Xor(a0, r0)), b1)
<1> HIDE DEF g0, g1
<1>3. ASSUME NEW l,
             (l \in g1) <=> (IF l \in b0 THEN (l \in a1) # (l \in r1) ELSE l \in r1),
             (l \in g0) <=> (IF l \in b1 THEN (l \in a0) # (l \in r0) ELSE l \in r0)
      PROVE  (l \in Xor(Xor(Xor(a0 \cap b0, r0), g1), Xor(Xor(a1 \cap b1, g0), r1)))
                <=> (l \in Xor(a0, a1) \cap Xor(b0, b1))
  BY <1>3 DEF Xor
<1>4. QED
  BY <1>1, <1>2, <1>3 DEF g0, g1

\* Beaver's identity: with a triple, the opened operands give shares of the product.
LEMMA ProductIsShared ==
    ASSUME NEW x0, NEW x1, NEW y0, NEW y1, NEW a0, NEW a1, NEW b0, NEW b1, NEW c0, NEW c1,
           NEW e, e = Xor(Xor(x0, a0), Xor(x1, a1)),
           NEW f, f = Xor(Xor(y0, b0), Xor(y1, b1)),
           Xor(c0, c1) = Xor(a0, a1) \cap Xor(b0, b1)
    PROVE  Xor(Xor(Xor(f \cap a0, e \cap b0), Xor(c0, {})),
               Xor(Xor(f \cap a1, e \cap b1), Xor(c1, e \cap f)))
           = Xor(x0, x1) \cap Xor(y0, y1)
<1> DEFINE Sum(p, q) == (p /\ ~ q) \/ (q /\ ~ p)
<1>1. ASSUME NEW l
      PROVE  (l \in Xor(Xor(Xor(f \cap a0, e \cap b0), Xor(c0, {})),
                        Xor(Xor(f \cap a1, e \cap b1), Xor(c1, e \cap f))))
             <=> (l \in Xor(x0, x1) \cap Xor(y0, y1))
  <2>1. (l \in e) <=> Sum(Sum(l \in x0, l \in a0), Sum(l \in x1, l \in a1))
    BY DEF Xor
  <2>2. (l \in f) <=> Sum(Sum(l \in y0, l \in b0), Sum(l \in y1, l \in b1))
    BY DEF Xor
  <2>3. Sum(l \in c0, l \in c1) <=> (Sum(l \in a0, l \in a1) /\ Sum(l \in b0, l \in b1))
    BY DEF Xor
  <2>4. (l \in Xor(Xor(Xor(f \cap a0, e \cap b0), Xor(c0, {})),
                   Xor(Xor(f \cap a1, e \cap b1), Xor(c1, e \cap f))))
        <=> Sum(Sum(Sum(l \in f /\ l \in a0, l \in e /\ l \in b0), l \in c0),
                Sum(Sum(l \in f /\ l \in a1, l \in e /\ l \in b1),
                    Sum(l \in c1, l \in e /\ l \in f)))
    BY DEF Xor
  <2>5. (l \in Xor(x0, x1) \cap Xor(y0, y1))
        <=> (Sum(l \in x0, l \in x1) /\ Sum(l \in y0, l \in y1))
    BY DEF Xor
  <2>6. QED
    BY <2>1, <2>2, <2>3, <2>4, <2>5
<1>2. QED
  BY <1>1

\* So the invariant gives what the operator is for.
LEMMA ResultsAreShares ==
    ASSUME NEW k \in Operators, OpInv(k), \A s \in Servers : pc[k][s] = "done"
    PROVE  Xor(z[k][0], z[k][1]) = Xor(x[k][0], x[k][1]) \cap Xor(y[k][0], y[k][1])
<1>s. 0 \in Servers /\ 1 \in Servers /\ 1 - 0 = 1 /\ 1 - 1 = 0
  BY DEF Servers
<1>1. /\ c[k][0] = ThirdShare(k, 0) /\ c[k][1] = ThirdShare(k, 1)
      /\ Mixed(k, 0) /\ Mixed(k, 1)
  BY <1>s DEF OpInv, Results, Progress
<1>2. /\ mix[k][0][0] = r[k][0] /\ mix[k][1][1] = r[k][1]
      /\ mix[k][1][0] = Chosen(AnswerMsg(r[k][0], Xor(a[k][0], r[k][0])), b[k][1])
      /\ mix[k][0][1] = Chosen(AnswerMsg(r[k][1], Xor(a[k][1], r[k][1])), b[k][0])
  BY <1>1, <1>s DEF OpInv, Results, Mixed, AnswerOf
<1>3. Xor(c[k][0], c[k][1]) = Xor(a[k][0], a[k][1]) \cap Xor(b[k][0], b[k][1])
  <2>1. c[k][0] = Xor(Xor(a[k][0] \cap b[k][0], r[k][0]),
                      Chosen(AnswerMsg(r[k][1], Xor(a[k][1], r[k][1])), b[k][0]))
    BY <1>1, <1>2, Zenon DEF ThirdShare
  <2>2. c[k][1] = Xor(Xor(a[k][1] \cap b[k][1],
                          Chosen(AnswerMsg(r[k][0], Xor(a[k][0], r[k][0])), b[k][1])), r[k][1])
    BY <1>1, <1>2, Zenon DEF ThirdShare
  <2>3. Xor(Xor(Xor(a[k][0] \cap b[k][0], r[k][0]),
                Chosen(AnswerMsg(r[k][1], Xor(a[k][1], r[k][1])), b[k][0])),
            Xor(Xor(a[k][1] \cap b[k][1],
                    Chosen(AnswerMsg(r[k][0], Xor(a[k][0], r[k][0])), b[k][1])), r[k][1]))
        = Xor(a[k][0], a[k][1]) \cap Xor(b[k][0], b[k][1])
    BY TripleIsShared
  <2>4. QED
    BY <2>1, <2>2, <2>3
<1>4. /\ z[k][0] = Xor(Xor(OpenedF(k) \cap a[k][0], OpenedE(k) \cap b[k][0]),
                       Xor(c[k][0], {}))
      /\ z[k][1] = Xor(Xor(OpenedF(k) \cap a[k][1], OpenedE(k) \cap b[k][1]),
                       Xor(c[k][1], OpenedE(k) \cap OpenedF(k)))
  <2>1. /\ z[k][0] = ProductShare(k, 0, OpenedE(k), OpenedF(k))
        /\ z[k][1] = ProductShare(k, 1, OpenedE(k), OpenedF(k))
    BY <1>s DEF OpInv, Results
  <2>2. /\ (IF 0 = 1 THEN OpenedE(k) \cap OpenedF(k) ELSE {}) = {}
        /\ (IF 1 = 1 THEN OpenedE(k) \cap OpenedF(k) ELSE {}) = OpenedE(k) \cap OpenedF(k)
    OBVIOUS
  <2>3. QED
    BY <2>1, <2>2, Zenon DEF ProductShare
<1>5. QED
  BY <1>3, <1>4, ProductIsShared DEF OpenedE, OpenedF

-----------------------------------------------------------------------------
(* Tags *)

\* The four tags of an operator, and no other operator's, lie in its range.
LEMMA TagsOfOperator ==
    ASSUME NEW k \in Operators
    PROVE  /\ \A i \in 0 .. 3 : TagAt(k, i) \in Tags
           /\ MatrixTag(k, 0) = TagAt(k, 0) /\ MatrixTag(k, 1) = TagAt(k, 2)
           /\ AnswerTag(k, 0) = TagAt(k, 1) /\ AnswerTag(k, 1) = TagAt(k, 3)
           /\ MaskedTag(k) = TagAt(k, 0)
<1>1. FirstTag(k) = 4 * k /\ k \in 0 .. NumOperators - 1 /\ Tags = 0 .. 4 * NumOperators - 1
  BY BoolAndAssumption DEF Operators, FirstTag, TagStride, IknpTagStride, Tags
<1>2. QED
  BY <1>1, BoolAndAssumption
     DEF TagAt, MatrixTag, AnswerTag, MaskedTag, TagStride, IknpTagStride

\* Two operators have no tag in common.
LEMMA TagsApart ==
    ASSUME NEW k \in Operators, NEW l \in Operators,
           NEW i \in 0 .. 3, NEW j \in 0 .. 3, k # l \/ i # j
    PROVE  TagAt(k, i) # TagAt(l, j)
<1>1. /\ FirstTag(k) = 4 * k /\ k \in Int
      /\ FirstTag(l) = 4 * l /\ l \in Int
  BY BoolAndAssumption DEF Operators, FirstTag, TagStride, IknpTagStride
<1>2. QED
  BY <1>1 DEF TagAt

\* Changing one queue changes no other.
LEMMA OneQueue ==
    ASSUME net \in [Servers -> [Tags -> Seq(Messages)]],
           NEW s \in Servers, NEW t \in Tags, NEW q \in Seq(Messages),
           net' = [net EXCEPT ![s][t] = q]
    PROVE  /\ net'[s][t] = q
           /\ \A p \in Servers : \A u \in Tags : (p # s \/ u # t) => net'[p][u] = net[p][u]
           /\ net' \in [Servers -> [Tags -> Seq(Messages)]]
  OBVIOUS

\* A step that changes the queue of one tag of operator k changes no other queue
\* of that operator, and none of another.
LEMMA StepOnWire ==
    ASSUME net \in [Servers -> [Tags -> Seq(Messages)]],
           NEW k \in Operators, NEW s \in Servers, NEW j \in 0 .. 3, NEW q \in Seq(Messages),
           net' = [net EXCEPT ![s][TagAt(k, j)] = q]
    PROVE  /\ net' \in [Servers -> [Tags -> Seq(Messages)]]
           /\ net'[s][TagAt(k, j)] = q
           /\ \A p \in Servers : \A i \in 0 .. 3 :
                (p # s \/ i # j) => net'[p][TagAt(k, i)] = net[p][TagAt(k, i)]
           /\ \A l \in Operators \ {k} : \A p \in Servers : \A i \in 0 .. 3 :
                net'[p][TagAt(l, i)] = net[p][TagAt(l, i)]
<1>1. \A l \in Operators : \A i \in 0 .. 3 : TagAt(l, i) \in Tags
  BY TagsOfOperator
<1>2. /\ net'[s][TagAt(k, j)] = q
      /\ \A p \in Servers : \A u \in Tags :
            (p # s \/ u # TagAt(k, j)) => net'[p][u] = net[p][u]
      /\ net' \in [Servers -> [Tags -> Seq(Messages)]]
  BY <1>1, OneQueue
<1>3. ASSUME NEW p \in Servers, NEW i \in 0 .. 3, p # s \/ i # j
      PROVE  net'[p][TagAt(k, i)] = net[p][TagAt(k, i)]
  BY <1>1, <1>2, <1>3, TagsApart
<1>4. ASSUME NEW l \in Operators \ {k}, NEW p \in Servers, NEW i \in 0 .. 3
      PROVE  net'[p][TagAt(l, i)] = net[p][TagAt(l, i)]
  <2>1. TagAt(l, i) # TagAt(k, j)
    BY TagsApart
  <2>2. QED
    BY <2>1, <1>1, <1>2
<1>5. QED
  BY <1>2, <1>3, <1>4

\* What a step of operator k leaves alone.
OthersUnchanged(k) ==
    /\ UNCHANGED inputs
    /\ \A l \in Operators \ {k} :
        /\ c'[l] = c[l] /\ z'[l] = z[l] /\ mixing'[l] = mixing[l] /\ mix'[l] = mix[l]
        /\ pc'[l] = pc[l]
        /\ \A p \in Servers : \A i \in 0 .. 3 : net'[p][TagAt(l, i)] = net[p][TagAt(l, i)]

\* A step of one operator disturbs no other.
LEMMA OthersKeepOpInv ==
    ASSUME NEW k \in Operators, OthersUnchanged(k), NEW l \in Operators \ {k}, OpInv(l)
    PROVE  OpInv(l)'
<1>1. /\ UNCHANGED <<x, y, a, b, r>>
      /\ c'[l] = c[l] /\ z'[l] = z[l] /\ mixing'[l] = mixing[l] /\ mix'[l] = mix[l]
      /\ pc'[l] = pc[l]
  BY DEF OthersUnchanged, inputs
<1>2. /\ net'[0][TagAt(l, 0)] = net[0][TagAt(l, 0)]
      /\ net'[1][TagAt(l, 0)] = net[1][TagAt(l, 0)]
      /\ net'[1][TagAt(l, 1)] = net[1][TagAt(l, 1)]
      /\ net'[1][TagAt(l, 2)] = net[1][TagAt(l, 2)]
      /\ net'[0][TagAt(l, 3)] = net[0][TagAt(l, 3)]
  <2>1. \A p \in Servers : \A i \in 0 .. 3 : net'[p][TagAt(l, i)] = net[p][TagAt(l, i)]
    BY DEF OthersUnchanged
  <2>2. 0 \in Servers /\ 1 \in Servers /\ 0 \in 0 .. 3 /\ 1 \in 0 .. 3 /\ 2 \in 0 .. 3 /\ 3 \in 0 .. 3
    BY DEF Servers
  <2>3. QED
    BY <2>1, <2>2
<1>3. Wire(l)'
  BY <1>1, <1>2 DEF OpInv, Wire, While, MatrixUnread, AnswerUnread, MaskedUnread, Masked,
                    AnswerOf
<1>4. Progress(l)'
  BY <1>1 DEF OpInv, Progress, Mixed
<1>5. Results(l)'
  <2>1. /\ OpenedE(l)' = OpenedE(l) /\ OpenedF(l)' = OpenedF(l)
        /\ \A m : AnswerOf(l, m)' = AnswerOf(l, m)
        /\ \A s : ThirdShare(l, s)' = ThirdShare(l, s)
    BY <1>1 DEF OpenedE, OpenedF, AnswerOf, ThirdShare
  <2>2. \A s : ProductShare(l, s, OpenedE(l), OpenedF(l))'
               = ProductShare(l, s, OpenedE(l), OpenedF(l))
    BY <1>1, <2>1 DEF ProductShare
  <2>3. QED
    BY <1>1, <2>1, <2>2 DEF OpInv, Results
<1>6. QED
  BY <1>3, <1>4, <1>5 DEF OpInv

-----------------------------------------------------------------------------
(* Types *)

LEMMA ServersTwo == 0 \in Servers /\ 1 \in Servers /\ \A s \in Servers : 1 - s \in Servers
  BY DEF Servers

\* What the threads put on the wire are messages.
LEMMA MessagesTyped ==
    ASSUME TypeOK, NEW k \in Operators, NEW s \in Servers
    PROVE  /\ MatrixMsg \in Messages
           /\ AnswerOf(k, s) \in Messages
           /\ Masked(k, s) \in Messages
           /\ Xor(a[k][s] \cap b[k][s], r[k][s]) \in Words
<1>1. /\ x[k][s] \in Words /\ y[k][s] \in Words /\ a[k][s] \in Words
      /\ b[k][s] \in Words /\ r[k][s] \in Words
  BY DEF TypeOK, PerServer
<1>2. Xor(a[k][s], r[k][s]) \in Words /\ Xor(x[k][s], a[k][s]) \in Words
      /\ Xor(y[k][s], b[k][s]) \in Words
  BY <1>1, XorTyped
<1>3. a[k][s] \cap b[k][s] \in Words
  BY <1>1 DEF Words
<1>4. QED
  BY <1>1, <1>2, <1>3, XorTyped
     DEF MatrixMsg, AnswerOf, AnswerMsg, Masked, MaskedMsg, Messages

\* The queue of server s under the j-th tag of operator k becomes q, the rest stays.
OnWire(k, s, j, q) ==
    /\ net' \in [Servers -> [Tags -> Seq(Messages)]]
    /\ net'[s][TagAt(k, j)] = q
    /\ \A p \in Servers : \A i \in 0 .. 3 :
        (p # s \/ i # j) => net'[p][TagAt(k, i)] = net[p][TagAt(k, i)]
    /\ \A l \in Operators \ {k} : \A p \in Servers : \A i \in 0 .. 3 :
        net'[p][TagAt(l, i)] = net[p][TagAt(l, i)]

\* A message is sent under a tag that has none.
LEMMA SentOnWire ==
    ASSUME TypeOK, NEW k \in Operators, NEW s \in Servers, NEW j \in 0 .. 3,
           NEW msg \in Messages, net[s][TagAt(k, j)] = <<>>, Sent(s, TagAt(k, j), msg)
    PROVE  OnWire(k, s, j, <<msg>>)
<1>1. net \in [Servers -> [Tags -> Seq(Messages)]] /\ TagAt(k, j) \in Tags
  BY TagsOfOperator DEF TypeOK
<1>2. net' = [net EXCEPT ![s][TagAt(k, j)] = <<msg>>]
  <2>1. net' = [net EXCEPT ![s][TagAt(k, j)] = Append(<<>>, msg)]
    BY <1>1 DEF Sent
  <2>2. QED
    BY <2>1
<1>3. <<msg>> \in Seq(Messages)
  OBVIOUS
<1>4. QED
  BY <1>1, <1>2, <1>3, StepOnWire DEF OnWire

\* The only message under a tag is received.
LEMMA ConsumedOnWire ==
    ASSUME TypeOK, NEW k \in Operators, NEW s \in Servers, NEW j \in 0 .. 3,
           NEW msg \in Messages, net[s][TagAt(k, j)] = <<msg>>, Consumed(s, TagAt(k, j))
    PROVE  OnWire(k, s, j, <<>>)
<1>1. net \in [Servers -> [Tags -> Seq(Messages)]] /\ TagAt(k, j) \in Tags
  BY TagsOfOperator DEF TypeOK
<1>2. net' = [net EXCEPT ![s][TagAt(k, j)] = <<>>]
  <2>1. net' = [net EXCEPT ![s][TagAt(k, j)] = Tail(<<msg>>)]
    BY <1>1 DEF Consumed
  <2>2. Tail(<<msg>>) = <<>>
    OBVIOUS
  <2>3. QED
    BY <2>1, <2>2
<1>3. <<>> \in Seq(Messages)
  OBVIOUS
<1>4. QED
  BY <1>1, <1>2, <1>3, StepOnWire DEF OnWire

-----------------------------------------------------------------------------
(* Steps: each keeps the types, leaves the other operators alone and keeps the *)
(* invariant of its own.                                                       *)

\* mixing' after thread m of server s went on.
MixingMoves(k, s, m, to) ==
    /\ mixing' \in PerServer([Servers -> {"start", "wait", "done"}])
    /\ mixing'[k][s][m] = to
    /\ \A p, n \in Servers : (p # s \/ n # m) => mixing'[k][p][n] = mixing[k][p][n]
    /\ \A l \in Operators \ {k} : mixing'[l] = mixing[l]

\* Where the threads of the directions are after a step of one of them.
LEMMA MixingMoved ==
    ASSUME TypeOK, NEW k \in Operators, NEW s \in Servers, NEW m \in Servers,
           NEW to \in {"start", "wait", "done"}, mixing' = [mixing EXCEPT ![k][s][m] = to]
    PROVE  MixingMoves(k, s, m, to)
  BY DEF TypeOK, PerServer, MixingMoves

\* The receiver of computeMix(m) puts its matrix under a tag that has nothing yet.
LEMMA SendMatrixStep ==
    ASSUME IInv, NEW k \in Operators, NEW m \in Servers, SendMatrix(k, m)
    PROVE  TypeOK' /\ OthersUnchanged(k) /\ OpInv(k)'
<1> USE ServersTwo
<1>t. TypeOK /\ OpInv(k)
  BY DEF IInv
<1>g. /\ mixing[k][1 - m][m] = "start" /\ mixing[k][m][m] = "start"
      /\ mixing' = [mixing EXCEPT ![k][1 - m][m] = "wait"]
      /\ UNCHANGED <<inputs, c, z, mix, pc>>
  BY <1>t DEF SendMatrix, Begins, OpInv, Progress
<1>p. pc[k][0] = "generate" /\ pc[k][1] = "generate"
  BY <1>g, <1>t DEF OpInv, Progress, Mixed, Servers
<1>m. MixingMoves(k, 1 - m, m, "wait")
  BY <1>g, <1>t, MixingMoved
<1>w. OnWire(k, m, 2 * m, <<MatrixMsg>>)
  <2>1. net[m][TagAt(k, 2 * m)] = <<>>
    BY <1>g, <1>p, <1>t DEF OpInv, Wire, MatrixUnread, MaskedUnread, While, Servers
  <2>2. Sent(m, TagAt(k, 2 * m), MatrixMsg)
    BY TagsOfOperator DEF SendMatrix, Servers
  <2>3. MatrixMsg \in Messages /\ 2 * m \in 0 .. 3
    BY DEF MatrixMsg, Messages, Servers
  <2>4. QED
    BY <2>1, <2>2, <2>3, <1>t, SentOnWire
<1>1. TypeOK'
  BY <1>g, <1>t, <1>m, <1>w DEF TypeOK, inputs, MixingMoves, OnWire
<1>2. OthersUnchanged(k)
  BY <1>g, <1>m, <1>w DEF OthersUnchanged, MixingMoves, OnWire
<1>3. Wire(k)'
  <2>1. /\ MaskedUnread(k, 0)' = MaskedUnread(k, 0) /\ MaskedUnread(k, 1)' = MaskedUnread(k, 1)
        /\ \A p \in Servers : Masked(k, p)' = Masked(k, p) /\ AnswerOf(k, p)' = AnswerOf(k, p)
    BY <1>g DEF MaskedUnread, Masked, AnswerOf, inputs
  <2>2. /\ MatrixUnread(k, m)'
        /\ \A n \in Servers : n # m => MatrixUnread(k, n)' = MatrixUnread(k, n)
        /\ \A n \in Servers : AnswerUnread(k, n)' = AnswerUnread(k, n)
    BY <1>g, <1>m DEF MatrixUnread, AnswerUnread, MixingMoves, Servers
  <2>3. /\ net'[m][TagAt(k, 2 * m)] = <<MatrixMsg>>
        /\ \A p \in Servers : \A i \in 0 .. 3 :
                (p # m \/ i # 2 * m) => net'[p][TagAt(k, i)] = net[p][TagAt(k, i)]
    BY <1>w DEF OnWire
  <2>4. CASE m = 0
    BY <2>1, <2>2, <2>3, <2>4, <1>t DEF OpInv, Wire, While
  <2>5. CASE m = 1
    BY <2>1, <2>2, <2>3, <2>5, <1>t DEF OpInv, Wire, While
  <2>6. QED
    BY <2>4, <2>5 DEF Servers
<1>4. Progress(k)'
  BY <1>g, <1>t, <1>m, <1>p DEF OpInv, Progress, Mixed, Servers, MixingMoves
<1>5. Results(k)'
  BY <1>g, <1>t, <1>m, <1>p DEF OpInv, Results, AnswerOf, inputs, Servers, MixingMoves
<1>6. QED
  BY <1>1, <1>2, <1>3, <1>4, <1>5 DEF OpInv

\* The sender takes a matrix: that of this extension, the only thing there.
LEMMA AnswerMatrixStep ==
    ASSUME IInv, NEW k \in Operators, NEW m \in Servers, AnswerMatrix(k, m)
    PROVE  TypeOK' /\ OthersUnchanged(k) /\ OpInv(k)'
<1> USE ServersTwo
<1>t. TypeOK /\ OpInv(k)
  BY DEF IInv
<1>g. /\ mixing[k][m][m] = "start"
      /\ mixing' = [mixing EXCEPT ![k][m][m] = "wait"]
      /\ UNCHANGED <<inputs, c, z, mix, pc>>
  BY DEF AnswerMatrix, Begins
<1>p. pc[k][0] = "generate" /\ pc[k][1] = "generate"
  BY <1>g, <1>t DEF OpInv, Progress, Mixed, Servers
<1>u. MatrixUnread(k, m) /\ net[m][TagAt(k, 2 * m)] = <<MatrixMsg>>
  <2>1. net[m][TagAt(k, 2 * m)] # <<>>
    BY TagsOfOperator DEF AnswerMatrix, Arrived, Servers
  <2>2. ~ MaskedUnread(k, 0)
    BY <1>p DEF MaskedUnread
  <2>3. QED
    BY <2>1, <2>2, <1>t DEF OpInv, Wire, While, Servers
<1>m. MixingMoves(k, m, m, "wait")
  BY <1>g, <1>t, MixingMoved
<1>w. OnWire(k, m, 2 * m, <<>>)
  <2>1. Consumed(m, TagAt(k, 2 * m))
    BY TagsOfOperator DEF AnswerMatrix, Servers
  <2>2. MatrixMsg \in Messages /\ 2 * m \in 0 .. 3
    BY DEF MatrixMsg, Messages, Servers
  <2>3. QED
    BY <2>1, <2>2, <1>t, <1>u, ConsumedOnWire
<1>1. TypeOK'
  BY <1>g, <1>t, <1>m, <1>w DEF TypeOK, inputs, MixingMoves, OnWire
<1>2. OthersUnchanged(k)
  BY <1>g, <1>m, <1>w DEF OthersUnchanged, MixingMoves, OnWire
<1>3. Wire(k)'
  <2>1. /\ ~ MaskedUnread(k, 0)' /\ ~ MaskedUnread(k, 1)'
        /\ ~ MaskedUnread(k, 0) /\ ~ MaskedUnread(k, 1)
        /\ \A p \in Servers : AnswerOf(k, p)' = AnswerOf(k, p)
    BY <1>g, <1>p DEF MaskedUnread, AnswerOf, inputs
  <2>2. /\ ~ MatrixUnread(k, m)'
        /\ \A n \in Servers : n # m => MatrixUnread(k, n)' = MatrixUnread(k, n)
        /\ \A n \in Servers : AnswerUnread(k, n)' = AnswerUnread(k, n)
    BY <1>g, <1>m DEF MatrixUnread, AnswerUnread, MixingMoves, Servers
  <2>3. /\ net'[m][TagAt(k, 2 * m)] = <<>>
        /\ \A p \in Servers : \A i \in 0 .. 3 :
                (p # m \/ i # 2 * m) => net'[p][TagAt(k, i)] = net[p][TagAt(k, i)]
    BY <1>w DEF OnWire
  <2>4. CASE m = 0
    BY <2>1, <2>2, <2>3, <2>4, <1>t DEF OpInv, Wire, While
  <2>5. CASE m = 1
    BY <2>1, <2>2, <2>3, <2>5, <1>t DEF OpInv, Wire, While
  <2>6. QED
    BY <2>4, <2>5 DEF Servers
<1>4. Progress(k)'
  BY <1>g, <1>t, <1>m, <1>p, <1>u DEF OpInv, Progress, Mixed, MatrixUnread, Servers, MixingMoves
<1>5. Results(k)'
  BY <1>g, <1>t, <1>m, <1>p DEF OpInv, Results, AnswerOf, inputs, Servers, MixingMoves
<1>6. QED
  BY <1>1, <1>2, <1>3, <1>4, <1>5 DEF OpInv

\* mix' after thread m of server s came to its result.
MixMoves(k, s, m, to) ==
    /\ mix' \in PerServer([Servers -> Words])
    /\ mix'[k][s][m] = to
    /\ \A p, n \in Servers : (p # s \/ n # m) => mix'[k][p][n] = mix[k][p][n]
    /\ \A l \in Operators \ {k} : mix'[l] = mix[l]

\* What is in mix after a thread came to its result.
LEMMA MixMoved ==
    ASSUME TypeOK, NEW k \in Operators, NEW s \in Servers, NEW m \in Servers,
           NEW to \in Words, mix' = [mix EXCEPT ![k][s][m] = to]
    PROVE  MixMoves(k, s, m, to)
  BY DEF TypeOK, PerServer, MixMoves

\* The sender answers, and the answer waits until the receiver takes it.
LEMMA SendAnswerStep ==
    ASSUME IInv, NEW k \in Operators, NEW m \in Servers, SendAnswer(k, m)
    PROVE  TypeOK' /\ OthersUnchanged(k) /\ OpInv(k)'
<1> USE ServersTwo
<1>t. TypeOK /\ OpInv(k)
  BY DEF IInv
<1>g. /\ mixing[k][m][m] = "wait" /\ mixing[k][1 - m][m] # "done" /\ mixing[k][1 - m][m] # "start"
      /\ mixing' = [mixing EXCEPT ![k][m][m] = "done"]
      /\ mix' = [mix EXCEPT ![k][m][m] = r[k][m]]
      /\ UNCHANGED <<inputs, c, z, pc>>
  BY <1>t DEF SendAnswer, OpInv, Progress
<1>p. pc[k][0] = "generate" /\ pc[k][1] = "generate"
  BY <1>g, <1>t DEF OpInv, Progress, Mixed, Servers
<1>m. MixingMoves(k, m, m, "done")
  BY <1>g, <1>t, MixingMoved
<1>x. MixMoves(k, m, m, r[k][m])
  <2>1. r[k][m] \in Words
    BY <1>t DEF TypeOK, PerServer
  <2>2. QED
    BY <2>1, <1>g, <1>t, MixMoved
<1>w. OnWire(k, 1 - m, 2 * m + 1, <<AnswerOf(k, m)>>)
  <2>1. net[1 - m][TagAt(k, 2 * m + 1)] = <<>>
    BY <1>g, <1>t DEF OpInv, Wire, AnswerUnread, While, Servers
  <2>2. Sent(1 - m, TagAt(k, 2 * m + 1), AnswerOf(k, m))
    BY TagsOfOperator DEF SendAnswer, AnswerOf, Servers
  <2>3. AnswerOf(k, m) \in Messages
    BY <1>t, MessagesTyped
  <2>4. 2 * m + 1 \in 0 .. 3
    BY DEF Servers
  <2>5. QED
    BY <2>1, <2>2, <2>3, <2>4, <1>t, SentOnWire
<1>1. TypeOK'
  BY <1>g, <1>t, <1>m, <1>w, <1>x DEF TypeOK, inputs, MixingMoves, MixMoves, OnWire
<1>2. OthersUnchanged(k)
  BY <1>g, <1>m, <1>w, <1>x DEF OthersUnchanged, MixingMoves, MixMoves, OnWire
<1>3. Wire(k)'
  <2>1. /\ ~ MaskedUnread(k, 0)' /\ ~ MaskedUnread(k, 1)'
        /\ ~ MaskedUnread(k, 0) /\ ~ MaskedUnread(k, 1)
        /\ \A p \in Servers : AnswerOf(k, p)' = AnswerOf(k, p)
    BY <1>g, <1>p DEF MaskedUnread, AnswerOf, inputs
  <2>2. /\ AnswerUnread(k, m)'
        /\ \A n \in Servers : n # m => AnswerUnread(k, n)' = AnswerUnread(k, n)
        /\ \A n \in Servers : MatrixUnread(k, n)' = MatrixUnread(k, n)
    BY <1>g, <1>m DEF MatrixUnread, AnswerUnread, MixingMoves, Servers
  <2>3. /\ net'[1 - m][TagAt(k, 2 * m + 1)] = <<AnswerOf(k, m)>>
        /\ \A p \in Servers : \A i \in 0 .. 3 :
                (p # 1 - m \/ i # 2 * m + 1) => net'[p][TagAt(k, i)] = net[p][TagAt(k, i)]
    BY <1>w DEF OnWire
  <2>4. CASE m = 0
    BY <2>1, <2>2, <2>3, <2>4, <1>t DEF OpInv, Wire, While
  <2>5. CASE m = 1
    BY <2>1, <2>2, <2>3, <2>5, <1>t DEF OpInv, Wire, While
  <2>6. QED
    BY <2>4, <2>5 DEF Servers
<1>4. Progress(k)'
  BY <1>g, <1>t, <1>m, <1>p DEF OpInv, Progress, Mixed, Servers, MixingMoves
<1>5. Results(k)'
  <2>1. \A n \in Servers : AnswerOf(k, n)' = AnswerOf(k, n) /\ r[k][n]' = r[k][n]
                           /\ b[k][n]' = b[k][n]
    BY <1>g DEF AnswerOf, inputs
  <2>2. QED
    BY <2>1, <1>g, <1>t, <1>m, <1>x, <1>p DEF OpInv, Results, Servers, MixingMoves, MixMoves
<1>6. QED
  BY <1>1, <1>2, <1>3, <1>4, <1>5 DEF OpInv

\* The receiver takes the answer and opens the messages it chose.
LEMMA ReceiveAnswerStep ==
    ASSUME IInv, NEW k \in Operators, NEW m \in Servers, ReceiveAnswer(k, m)
    PROVE  TypeOK' /\ OthersUnchanged(k) /\ OpInv(k)'
<1> USE ServersTwo
<1>t. TypeOK /\ OpInv(k)
  BY DEF IInv
<1>u. /\ AnswerUnread(k, m) /\ net[1 - m][TagAt(k, 2 * m + 1)] = <<AnswerOf(k, m)>>
      /\ AnswerTag(k, m) = TagAt(k, 2 * m + 1)
  <2>1. AnswerTag(k, m) = TagAt(k, 2 * m + 1)
    BY TagsOfOperator DEF Servers
  <2>2. net[1 - m][TagAt(k, 2 * m + 1)] # <<>>
    BY <2>1 DEF ReceiveAnswer, Arrived
  <2>3. QED
    BY <2>1, <2>2, <1>t DEF OpInv, Wire, While, Servers
<1>g. /\ mixing[k][1 - m][m] = "wait" /\ mixing[k][m][m] = "done"
      /\ mixing' = [mixing EXCEPT ![k][1 - m][m] = "done"]
      /\ mix' = [mix EXCEPT ![k][1 - m][m] = Chosen(AnswerOf(k, m), b[k][1 - m])]
      /\ UNCHANGED <<inputs, c, z, pc>>
  <2>1. Head(<<AnswerOf(k, m)>>) = AnswerOf(k, m)
    OBVIOUS
  <2>2. QED
    BY <1>u, <2>1 DEF ReceiveAnswer, AnswerUnread
<1>p. pc[k][1 - m] = "generate" /\ pc[k][m] # "done"
  BY <1>g, <1>t DEF OpInv, Progress, Mixed, Servers
<1>m. MixingMoves(k, 1 - m, m, "done")
  BY <1>g, <1>t, MixingMoved
<1>x. MixMoves(k, 1 - m, m, Chosen(AnswerOf(k, m), b[k][1 - m]))
  <2>1. r[k][m] \in Words /\ Xor(a[k][m], r[k][m]) \in Words /\ b[k][1 - m] \in Words
    BY <1>t, XorTyped DEF TypeOK, PerServer
  <2>2. Chosen(AnswerOf(k, m), b[k][1 - m]) \in Words
    BY <2>1 DEF Chosen, AnswerOf, AnswerMsg, Words
  <2>3. QED
    BY <2>2, <1>g, <1>t, MixMoved
<1>w. OnWire(k, 1 - m, 2 * m + 1, <<>>)
  <2>1. Consumed(1 - m, TagAt(k, 2 * m + 1))
    BY <1>u DEF ReceiveAnswer
  <2>2. AnswerOf(k, m) \in Messages
    BY <1>t, MessagesTyped
  <2>3. 2 * m + 1 \in 0 .. 3
    BY DEF Servers
  <2>4. QED
    BY <2>1, <2>2, <2>3, <1>t, <1>u, ConsumedOnWire
<1>1. TypeOK'
  BY <1>g, <1>t, <1>m, <1>w, <1>x DEF TypeOK, inputs, MixingMoves, MixMoves, OnWire
<1>2. OthersUnchanged(k)
  BY <1>g, <1>m, <1>w, <1>x DEF OthersUnchanged, MixingMoves, MixMoves, OnWire
<1>3. Wire(k)'
  <2>1. /\ \A p \in Servers : MaskedUnread(k, p)' = MaskedUnread(k, p)
        /\ \A p \in Servers : Masked(k, p)' = Masked(k, p) /\ AnswerOf(k, p)' = AnswerOf(k, p)
    BY <1>g DEF MaskedUnread, Masked, AnswerOf, inputs
  <2>2. /\ ~ AnswerUnread(k, m)'
        /\ \A n \in Servers : n # m => AnswerUnread(k, n)' = AnswerUnread(k, n)
        /\ \A n \in Servers : MatrixUnread(k, n)' = MatrixUnread(k, n)
    BY <1>g, <1>m DEF MatrixUnread, AnswerUnread, MixingMoves, Servers
  <2>3. /\ net'[1 - m][TagAt(k, 2 * m + 1)] = <<>>
        /\ \A p \in Servers : \A i \in 0 .. 3 :
                (p # 1 - m \/ i # 2 * m + 1) => net'[p][TagAt(k, i)] = net[p][TagAt(k, i)]
    BY <1>w DEF OnWire
  <2>4. CASE m = 0
    BY <2>1, <2>2, <2>3, <2>4, <1>t DEF OpInv, Wire, While
  <2>5. CASE m = 1
    BY <2>1, <2>2, <2>3, <2>5, <1>t DEF OpInv, Wire, While
  <2>6. QED
    BY <2>4, <2>5 DEF Servers
<1>4. Progress(k)'
  BY <1>g, <1>t, <1>m, <1>p DEF OpInv, Progress, Mixed, Servers, MixingMoves
<1>5. Results(k)'
  <2>1. \A n \in Servers : AnswerOf(k, n)' = AnswerOf(k, n) /\ r[k][n]' = r[k][n]
                           /\ b[k][n]' = b[k][n]
    BY <1>g DEF AnswerOf, inputs
  <2>2. ThirdShare(k, m)' = ThirdShare(k, m)
    BY <1>g, <1>x DEF ThirdShare, inputs, MixMoves, Servers
  <2>3. pc' = pc /\ c' = c /\ \A p \in Servers : pc[k][p] # "done"
    BY <1>g, <1>p DEF Servers
  <2>4. \A p \in Servers : pc'[k][p] # "generate" => c'[k][p] = ThirdShare(k, p)'
    BY <2>2, <2>3, <1>p, <1>t DEF OpInv, Results, Servers
  <2>5. \A n \in Servers :
            /\ mixing'[k][n][n] = "done" => mix'[k][n][n] = r[k][n]'
            /\ mixing'[k][1 - n][n] = "done" =>
                    mix'[k][1 - n][n] = Chosen(AnswerOf(k, n)', b[k][1 - n]')
    BY <2>1, <1>t, <1>m, <1>x DEF OpInv, Results, Servers, MixingMoves, MixMoves
  <2>6. QED
    BY <2>3, <2>4, <2>5 DEF Results
<1>6. QED
  BY <1>1, <1>2, <1>3, <1>4, <1>5 DEF OpInv

\* The masked operands follow the matrix under the same tag, never beside it.
LEMMA SendMaskedStep ==
    ASSUME IInv, NEW k \in Operators, NEW s \in Servers, SendMasked(k, s)
    PROVE  TypeOK' /\ OthersUnchanged(k) /\ OpInv(k)'
<1> USE ServersTwo
<1>t. TypeOK /\ OpInv(k)
  BY DEF IInv
<1>g. /\ pc[k][s] = "generate" /\ pc[k][1 - s] # "done" /\ Mixed(k, s)
      /\ c' = [c EXCEPT ![k][s] = ThirdShare(k, s)]
      /\ pc' = [pc EXCEPT ![k][s] = "exchange"]
      /\ UNCHANGED <<inputs, z, mixing, mix>>
  BY <1>t DEF SendMasked, OpInv, Progress, Servers
<1>c. /\ c' \in PerServer(Words)
      /\ c'[k][s] = ThirdShare(k, s) /\ c'[k][1 - s] = c[k][1 - s]
      /\ \A l \in Operators \ {k} : c'[l] = c[l]
  <2>1. ThirdShare(k, s) \in Words
    <3>1. mix[k][s][0] \in Words /\ mix[k][s][1] \in Words /\ a[k][s] \cap b[k][s] \in Words
      BY <1>t DEF TypeOK, PerServer, Words
    <3>2. QED
      BY <3>1, XorTyped DEF ThirdShare
  <2>2. QED
    BY <2>1, <1>g, <1>t DEF TypeOK, PerServer, Servers
<1>p. /\ pc' \in PerServer({"generate", "exchange", "done"})
      /\ pc'[k][s] = "exchange" /\ pc'[k][1 - s] = pc[k][1 - s]
      /\ \A l \in Operators \ {k} : pc'[l] = pc[l]
  BY <1>g, <1>t DEF TypeOK, PerServer, Servers
<1>u. ~ MatrixUnread(k, 0) \/ s = 0
  BY <1>g, <1>t DEF MatrixUnread, Mixed, OpInv, Progress, Servers
<1>w. OnWire(k, 1 - s, 0, <<Masked(k, s)>>)
  <2>1. net[1 - s][TagAt(k, 0)] = <<>>
    BY <1>g, <1>u, <1>t DEF OpInv, Wire, MaskedUnread, While, Servers
  <2>2. Sent(1 - s, TagAt(k, 0), Masked(k, s))
    BY TagsOfOperator DEF SendMasked
  <2>3. Masked(k, s) \in Messages
    BY <1>t, MessagesTyped
  <2>4. QED
    BY <2>1, <2>2, <2>3, <1>t, SentOnWire
<1>1. TypeOK'
  BY <1>g, <1>t, <1>c, <1>p, <1>w DEF TypeOK, inputs, OnWire
<1>2. OthersUnchanged(k)
  BY <1>g, <1>c, <1>p, <1>w DEF OthersUnchanged, OnWire
<1>3. Wire(k)'
  <2>1. /\ MaskedUnread(k, 1 - s)'
        /\ MaskedUnread(k, s)' = MaskedUnread(k, s)
        /\ \A n \in Servers : AnswerUnread(k, n)' = AnswerUnread(k, n)
        /\ \A n \in Servers : MatrixUnread(k, n)' = MatrixUnread(k, n)
    BY <1>g, <1>p DEF MatrixUnread, AnswerUnread, MaskedUnread, Servers
  <2>2. \A p \in Servers : Masked(k, p)' = Masked(k, p) /\ AnswerOf(k, p)' = AnswerOf(k, p)
    BY <1>g DEF Masked, AnswerOf, inputs
  <2>3. /\ net'[1 - s][TagAt(k, 0)] = <<Masked(k, s)>>
        /\ \A p \in Servers : \A i \in 0 .. 3 :
                (p # 1 - s \/ i # 0) => net'[p][TagAt(k, i)] = net[p][TagAt(k, i)]
    BY <1>w DEF OnWire
  <2>4. CASE s = 0
    BY <2>1, <2>2, <2>3, <2>4, <1>t DEF OpInv, Wire, While
  <2>5. CASE s = 1
    BY <2>1, <2>2, <2>3, <2>5, <1>t, <1>u DEF OpInv, Wire, While
  <2>6. QED
    BY <2>4, <2>5 DEF Servers
<1>4. Progress(k)'
  BY <1>g, <1>t, <1>p DEF OpInv, Progress, Mixed, Servers
<1>5. Results(k)'
  <2>1. /\ \A n \in Servers : AnswerOf(k, n)' = AnswerOf(k, n)
        /\ \A n \in Servers : ThirdShare(k, n)' = ThirdShare(k, n)
        /\ \A n : b[k][n]' = b[k][n] /\ r[k][n]' = r[k][n] /\ mix[k][n]' = mix[k][n]
                  /\ mixing[k][n]' = mixing[k][n] /\ z[k][n]' = z[k][n]
    BY <1>g DEF AnswerOf, ThirdShare, inputs
  <2>2. \A p \in Servers : pc'[k][p] # "generate" => c'[k][p] = ThirdShare(k, p)'
    BY <2>1, <1>c, <1>p, <1>t DEF OpInv, Results, Servers
  <2>3. \A p \in Servers : pc'[k][p] # "done"
    BY <1>g, <1>p DEF Servers
  <2>4. QED
    BY <2>1, <2>2, <2>3, <1>t DEF OpInv, Results
<1>6. QED
  BY <1>1, <1>2, <1>3, <1>4, <1>5 DEF OpInv

\* Both servers open the same words, whichever order each adds the shares in.
LEMMA OpenedBySender ==
    ASSUME NEW k \in Operators, NEW s \in Servers
    PROVE  /\ Xor(Masked(k, s).e, Masked(k, 1 - s).e) = OpenedE(k)
           /\ Xor(Masked(k, s).f, Masked(k, 1 - s).f) = OpenedF(k)
<1>1. \A p : /\ Masked(k, p).e = Xor(x[k][p], a[k][p])
             /\ Masked(k, p).f = Xor(y[k][p], b[k][p])
  BY DEF Masked, MaskedMsg
<1>2. CASE s = 0
  BY <1>1, <1>2 DEF OpenedE, OpenedF
<1>3. CASE s = 1
  BY <1>1, <1>3, XorCommutes DEF OpenedE, OpenedF
<1>4. QED
  BY <1>2, <1>3 DEF Servers

\* The masked operands of the other server are all there is when they are awaited.
LEMMA ReceiveMaskedStep ==
    ASSUME IInv, NEW k \in Operators, NEW s \in Servers, ReceiveMasked(k, s)
    PROVE  TypeOK' /\ OthersUnchanged(k) /\ OpInv(k)'
<1> USE ServersTwo
<1>t. TypeOK /\ OpInv(k)
  BY DEF IInv
<1>i. Mixed(k, s) /\ ~ MatrixUnread(k, 0)
  <2>1. Mixed(k, s)
    BY <1>t DEF ReceiveMasked, OpInv, Progress
  <2>2. QED
    BY <2>1, <1>t DEF OpInv, Progress, MatrixUnread, Mixed, Servers
<1>u. MaskedUnread(k, s) /\ net[s][TagAt(k, 0)] = <<Masked(k, 1 - s)>> /\ MaskedTag(k) = TagAt(k, 0)
  <2>1. MaskedTag(k) = TagAt(k, 0)
    BY TagsOfOperator
  <2>2. net[s][TagAt(k, 0)] # <<>>
    BY <2>1 DEF ReceiveMasked, Arrived
  <2>3. CASE s = 0
    BY <2>1, <2>2, <2>3, <1>t, <1>i DEF OpInv, Wire, While
  <2>4. CASE s = 1
    BY <2>1, <2>2, <2>4, <1>t DEF OpInv, Wire, While
  <2>5. QED
    BY <2>3, <2>4 DEF Servers
<1>g. /\ pc[k][s] = "exchange" /\ pc[k][1 - s] # "generate"
      /\ z' = [z EXCEPT ![k][s] = ProductShare(k, s, OpenedE(k), OpenedF(k))]
      /\ pc' = [pc EXCEPT ![k][s] = "done"]
      /\ UNCHANGED <<inputs, c, mixing, mix>>
  <2>1. Head(net[s][MaskedTag(k)]) = Masked(k, 1 - s)
    BY <1>u
  <2>2. QED
    BY <2>1, <1>u, OpenedBySender DEF ReceiveMasked, MaskedUnread
<1>z. /\ z' \in PerServer(Words)
      /\ z'[k][s] = ProductShare(k, s, OpenedE(k), OpenedF(k)) /\ z'[k][1 - s] = z[k][1 - s]
      /\ \A l \in Operators \ {k} : z'[l] = z[l]
  <2>1. /\ a[k][s] \in Words /\ b[k][s] \in Words /\ c[k][s] \in Words
        /\ \A p \in Servers : Xor(x[k][p], a[k][p]) \in Words /\ Xor(y[k][p], b[k][p]) \in Words
    BY <1>t, XorTyped DEF TypeOK, PerServer
  <2>2. OpenedE(k) \in Words /\ OpenedF(k) \in Words
    BY <2>1, XorTyped DEF OpenedE, OpenedF
  <2>3. \A v, w \in Words : v \cap w \in Words
    BY DEF Words
  <2>4. (IF s = 1 THEN OpenedE(k) \cap OpenedF(k) ELSE {}) \in Words
    BY <2>2 DEF Words
  <2>5. ProductShare(k, s, OpenedE(k), OpenedF(k)) \in Words
    BY <2>1, <2>2, <2>3, <2>4, XorTyped DEF ProductShare
  <2>6. QED
    BY <2>5, <1>g, <1>t DEF TypeOK, PerServer, Servers
<1>p. /\ pc' \in PerServer({"generate", "exchange", "done"})
      /\ pc'[k][s] = "done" /\ pc'[k][1 - s] = pc[k][1 - s]
      /\ \A l \in Operators \ {k} : pc'[l] = pc[l]
  BY <1>g, <1>t DEF TypeOK, PerServer, Servers
<1>w. OnWire(k, s, 0, <<>>)
  <2>1. Consumed(s, TagAt(k, 0))
    BY <1>u DEF ReceiveMasked
  <2>2. Masked(k, 1 - s) \in Messages
    BY <1>t, MessagesTyped
  <2>3. QED
    BY <2>1, <2>2, <1>t, <1>u, ConsumedOnWire
<1>1. TypeOK'
  BY <1>g, <1>t, <1>z, <1>p, <1>w DEF TypeOK, inputs, OnWire
<1>2. OthersUnchanged(k)
  BY <1>g, <1>z, <1>p, <1>w DEF OthersUnchanged, OnWire
<1>3. Wire(k)'
  <2>1. /\ ~ MaskedUnread(k, s)'
        /\ MaskedUnread(k, 1 - s)' = MaskedUnread(k, 1 - s)
        /\ \A n \in Servers : AnswerUnread(k, n)' = AnswerUnread(k, n)
        /\ \A n \in Servers : MatrixUnread(k, n)' = MatrixUnread(k, n)
    BY <1>g, <1>p DEF MatrixUnread, AnswerUnread, MaskedUnread, Servers
  <2>2. \A p \in Servers : Masked(k, p)' = Masked(k, p) /\ AnswerOf(k, p)' = AnswerOf(k, p)
    BY <1>g DEF Masked, AnswerOf, inputs
  <2>3. /\ net'[s][TagAt(k, 0)] = <<>>
        /\ \A p \in Servers : \A i \in 0 .. 3 :
                (p # s \/ i # 0) => net'[p][TagAt(k, i)] = net[p][TagAt(k, i)]
    BY <1>w DEF OnWire
  <2>4. CASE s = 0
    BY <2>1, <2>2, <2>3, <2>4, <1>t, <1>i DEF OpInv, Wire, While
  <2>5. CASE s = 1
    BY <2>1, <2>2, <2>3, <2>5, <1>t DEF OpInv, Wire, While
  <2>6. QED
    BY <2>4, <2>5 DEF Servers
<1>4. Progress(k)'
  BY <1>g, <1>t, <1>p, <1>i DEF OpInv, Progress, Mixed, Servers
<1>5. Results(k)'
  <2>1. /\ \A n \in Servers : AnswerOf(k, n)' = AnswerOf(k, n)
        /\ \A n \in Servers : ThirdShare(k, n)' = ThirdShare(k, n)
        /\ OpenedE(k)' = OpenedE(k) /\ OpenedF(k)' = OpenedF(k)
        /\ \A n : b[k][n]' = b[k][n] /\ r[k][n]' = r[k][n] /\ mix[k][n]' = mix[k][n]
                  /\ mixing[k][n]' = mixing[k][n] /\ c[k][n]' = c[k][n]
    BY <1>g DEF AnswerOf, ThirdShare, OpenedE, OpenedF, inputs
  <2>2. \A n \in Servers : ProductShare(k, n, OpenedE(k), OpenedF(k))'
                           = ProductShare(k, n, OpenedE(k), OpenedF(k))
    BY <2>1, <1>g DEF ProductShare, inputs
  <2>3. \A p \in Servers : pc'[k][p] # "generate" => pc[k][p] # "generate"
    BY <1>g, <1>p DEF Servers
  <2>4. \A p \in Servers :
            pc'[k][p] = "done" => z'[k][p] = ProductShare(k, p, OpenedE(k), OpenedF(k))
    BY <1>z, <1>p, <1>t DEF OpInv, Results, Servers
  <2>5. QED
    BY <2>1, <2>2, <2>3, <2>4, <1>t DEF OpInv, Results
<1>6. QED
  BY <1>1, <1>2, <1>3, <1>4, <1>5 DEF OpInv

-----------------------------------------------------------------------------
(* The invariant *)

\* Nothing is on its way and nothing computed when the operators start.
LEMMA InitHolds == Init => IInv
<1> SUFFICES ASSUME Init PROVE IInv
  OBVIOUS
<1>1. TypeOK
  BY DEF Init, TypeOK, PerServer, Words
<1>2. ASSUME NEW k \in Operators
      PROVE  OpInv(k)
  <2> USE ServersTwo
  <2>1. /\ \A s, m \in Servers : mixing[k][s][m] = "start"
        /\ \A s \in Servers : pc[k][s] = "generate"
        /\ \A s \in Servers : \A i \in 0 .. 3 : net[s][TagAt(k, i)] = <<>>
    BY TagsOfOperator DEF Init
  <2>2. Wire(k)
    BY <2>1 DEF Wire, While, MatrixUnread, AnswerUnread, MaskedUnread, Servers
  <2>3. Progress(k) /\ Results(k)
    BY <2>1 DEF Progress, Results
  <2>4. QED
    BY <2>2, <2>3 DEF OpInv
<1>3. QED
  BY <1>1, <1>2 DEF IInv

\* Every step of every operator keeps the invariant.
LEMMA NextKeepsIInv == IInv /\ [Next]_vars => IInv'
<1> SUFFICES ASSUME IInv, [Next]_vars PROVE IInv'
  OBVIOUS
<1>1. ASSUME NEW k \in Operators, NEW s \in Servers, MixStep(k, s) \/ OperatorStep(k, s)
      PROVE  IInv'
  <2>1. TypeOK' /\ OthersUnchanged(k) /\ OpInv(k)'
    BY <1>1, SendMatrixStep, AnswerMatrixStep, SendAnswerStep, ReceiveAnswerStep,
       SendMaskedStep, ReceiveMaskedStep DEF MixStep, OperatorStep
  <2>2. \A l \in Operators \ {k} : OpInv(l)'
    BY <2>1, OthersKeepOpInv DEF IInv
  <2>3. QED
    BY <2>1, <2>2 DEF IInv
<1>2. CASE UNCHANGED vars
  <2>1. TypeOK'
    BY <1>2 DEF IInv, TypeOK, vars, inputs
  <2>2. ASSUME NEW k \in Operators
        PROVE  OpInv(k)'
    <3>1. OpInv(k) /\ OthersUnchanged(k)
      BY <1>2 DEF IInv, OthersUnchanged, vars
    <3>2. UNCHANGED <<x, y, a, b, r, c, z, mixing, mix, pc, net>>
      BY <1>2 DEF vars, inputs
    <3>3. Wire(k)'
      BY <3>1, <3>2 DEF OpInv, Wire, While, MatrixUnread, AnswerUnread, MaskedUnread, Masked,
                        AnswerOf, TagAt
    <3>4. Progress(k)'
      BY <3>1, <3>2 DEF OpInv, Progress, Mixed
    <3>5. Results(k)'
      BY <3>1, <3>2 DEF OpInv, Results, AnswerOf, ThirdShare, ProductShare, OpenedE, OpenedF
    <3>6. QED
      BY <3>3, <3>4, <3>5 DEF OpInv
  <2>3. QED
    BY <2>1, <2>2 DEF IInv
<1>3. QED
  BY <1>1, <1>2 DEF Next

\* The invariant holds in every reachable state.
THEOREM Invariance == Spec => []IInv
  BY InitHolds, NextKeepsIInv, PTL DEF Spec

\* The state of the operators keeps its types.
THEOREM TypesHold == Spec => []TypeOK
<1>1. IInv => TypeOK
  BY DEF IInv
<1>2. QED
  BY <1>1, Invariance, PTL

\* Whatever the shares, the triples and the interleaving, the shares that both
\* servers end up with are shares of the AND (BoolAndBatchOperator::execute0).
THEOREM AndHolds == Spec => []AndIsShared
<1>1. IInv => AndIsShared
  BY ResultsAreShares DEF IInv, AndIsShared
<1>2. QED
  BY <1>1, Invariance, PTL

\* Two messages of different kinds never meet under one tag, so that each thread
\* receives what was meant for it (IknpOtBatchOperator, BoolAndBatchOperator).
THEOREM NoCrossTalkHolds == Spec => []NoCrossTalk
<1>1. IInv => NoCrossTalk
  <2> SUFFICES ASSUME IInv PROVE NoCrossTalk
    OBVIOUS
  <2> USE ServersTwo
  <2>1. ASSUME NEW k \in Operators, NEW m \in Servers
        PROVE  /\ mixing[k][m][m] = "start" => Heads(m, MatrixTag(k, m), "matrix")
               /\ mixing[k][1 - m][m] = "wait" => Heads(1 - m, AnswerTag(k, m), "answer")
    <3>1. Wire(k) /\ Progress(k)
      BY DEF IInv, OpInv
    <3>2. ASSUME mixing[k][m][m] = "start"
          PROVE  Heads(m, MatrixTag(k, m), "matrix")
      <4>1. ~ MaskedUnread(k, 0)
        BY <3>1, <3>2 DEF Progress, MaskedUnread, Mixed, Servers
      <4>2. net[m][MatrixTag(k, m)] \in {<<>>, <<MatrixMsg>>}
        BY <3>1, <4>1, TagsOfOperator DEF Wire, While, Servers
      <4>3. QED
        BY <4>2 DEF Heads, MatrixMsg
    <3>3. net[1 - m][AnswerTag(k, m)] \in {<<>>, <<AnswerOf(k, m)>>}
      BY <3>1, TagsOfOperator DEF Wire, While, Servers
    <3>4. QED
      BY <3>2, <3>3 DEF Heads, AnswerOf, AnswerMsg
  <2>2. ASSUME NEW k \in Operators, NEW s \in Servers, pc[k][s] = "exchange"
        PROVE  Heads(s, MaskedTag(k), "masked")
    <3>1. Wire(k) /\ Progress(k)
      BY DEF IInv, OpInv
    <3>2. ~ MatrixUnread(k, 0)
      BY <3>1, <2>2 DEF Progress, MatrixUnread, Mixed, Servers
    <3>3. net[s][MaskedTag(k)] \in {<<>>, <<Masked(k, 1 - s)>>}
      BY <3>1, <3>2, TagsOfOperator DEF Wire, While, Servers
    <3>4. QED
      BY <3>3 DEF Heads, Masked, MaskedMsg
  <2>3. QED
    BY <2>1, <2>2 DEF NoCrossTalk
<1>2. QED
  BY <1>1, Invariance, PTL

=============================================================================
