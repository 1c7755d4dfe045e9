----------------------------- MODULE TagMailbox -----------------------------
(***************************************************************************)
(* What the operators of primitives/ and db/ may assume of Comm::send and   *)
(* Comm::receive, whatever backend carries the bytes: between two ranks     *)
(* there is one queue per tag; a receive returns the oldest message of its  *)
(* queue that nobody has received, unchanged; messages may stay undelivered *)
(* for ever (a rank finalizes or dies), but never leave a gap.              *)
(***************************************************************************)
EXTENDS Naturals, Sequences

CONSTANTS Ranks, Tags, Messages

VARIABLES
    sent,   \* sent[s][r][g]: what s has sent to r with tag g, in order
    got     \* got[r][s][g]: what r has received from s with tag g, in order

mailbox == <<sent, got>>

Empty == [a \in Ranks |-> [b \in Ranks |-> [g \in Tags |-> <<>>]]]

Init == sent = Empty /\ got = Empty

Send(s, r, g, m) ==
    /\ s # r
    /\ sent' = [sent EXCEPT ![s][r][g] = Append(@, m)]
    /\ UNCHANGED got

Receive(r, s, g) ==
    /\ Len(got[r][s][g]) < Len(sent[s][r][g])
    /\ got' = [got EXCEPT ![r][s][g] = Append(@, sent[s][r][g][Len(@) + 1])]
    /\ UNCHANGED sent

Next ==
    \E a, b \in Ranks, g \in Tags :
        \/ \E m \in Messages : Send(a, b, g, m)
        \/ Receive(a, b, g)

Spec == Init /\ [][Next]_mailbox

=============================================================================
