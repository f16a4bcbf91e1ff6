----------------------------- MODULE MCExecRing -----------------------------
(***************************************************************************)
(* Instances of the execution ring for TLC.                                *)
(***************************************************************************)
EXTENDS ExecRing, TLC

CONSTANTS p1, p2, e1, e2, r1, r2

OneProducer == {p1}
TwoProducers == {p1, p2}
OneExecutor == {e1}
TwoExecutors == {e1, e2}
OneRetirer == {r1}
TwoRetirers == {r1, r2}

Symmetric ==
  Permutations(Producers) \cup Permutations(Executors) \cup Permutations(Retirers)
=============================================================================
