----------------------------- MODULE MCTcpComm -----------------------------
(* Instances of TcpComm for TLC: t1 and t2 run at rank 0, u1 and u2 at rank 1. *)
EXTENDS TcpComm, TLC

CONSTANTS t1, t2, u1, u2, a, b

MCHome == (t1 :> 0) @@ (t2 :> 0) @@ (u1 :> 1) @@ (u2 :> 1)
Each(f1, f2, g1, g2) == (t1 :> f1) @@ (t2 :> f2) @@ (u1 :> g1) @@ (u2 :> g2)

\* Two senders, two receivers; rank 2 is idle.
Exchange ==
    [sends |-> Each(1, 1, 0, 0), to |-> Each({1}, {1}, {}, {}),
     from |-> Each({}, {}, {0}, {0}), tags |-> {a, b}, sizes |-> {"empty", "full"},
     finalizing |-> {}, crashing |-> {}]

\* A sender and a receiver whose ranks finalize or die.
Close ==
    [sends |-> Each(2, 0, 0, 0), to |-> Each({1}, {}, {}, {}),
     from |-> Each({}, {}, {0}, {}), tags |-> {a}, sizes |-> {"full"},
     finalizing |-> {0, 1}, crashing |-> {0, 2}]

\* All ranks finalize.
Quiet ==
    [sends |-> Each(1, 0, 0, 0), to |-> Each({1}, {}, {}, {}),
     from |-> Each({}, {}, {0}, {}), tags |-> {a}, sizes |-> {"full"},
     finalizing |-> Ranks, crashing |-> {}]

TwoPlans == {Exchange, Close}
OnePlan == {Quiet}

=============================================================================
