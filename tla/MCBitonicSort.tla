--------------------------- MODULE MCBitonicSort ---------------------------
(* Small instances of BitonicSort for TLC: pools of one and of two threads. *)
EXTENDS BitonicSort

MCWorkers == (0 :> 1) @@ (1 :> 2)

(* Pipelined triples serve a sort in one batch; MCBitonicSort_pipeline.cfg    *)
(* tries them with several.                                                   *)
SafeInit == Init /\ PolledInOrder
SafeSpec == SafeInit /\ [][Next]_vars /\ Fairness

=============================================================================
