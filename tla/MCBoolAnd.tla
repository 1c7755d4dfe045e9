----------------------------- MODULE MCBoolAnd -----------------------------
(* Two operators of one task. *)
EXTENDS BoolAnd

\* One sharing of operands that are one in the only lane; the triple's product is one
\* in the first operator and zero in the second.
FewInputs(k) ==
    /\ x[k][0] = Lanes /\ x[k][1] = {}
    /\ y[k][0] = {} /\ y[k][1] = Lanes
    /\ a[k][0] = (IF k = 0 THEN Lanes ELSE {}) /\ a[k][1] = {}
    /\ b[k][0] = {} /\ b[k][1] = Lanes

\* The masks of the messages.
FewMasks(k) == r[k][0] = Lanes /\ r[k][1] = (IF k = 0 THEN {} ELSE Lanes)

(* With both directions at once: the few inputs.  With one after the other,   *)
(* the first operator starts with any sharing of any operands and triple.     *)
MCInit ==
    /\ Init
    /\ \A k \in Operators : FewMasks(k)
    /\ FewInputs(1)
    /\ intra => FewInputs(0)

MCSpec == MCInit /\ [][Next]_vars /\ Fairness

=============================================================================
