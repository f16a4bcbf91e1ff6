---------------------------- MODULE MCMassStore -----------------------------
(***************************************************************************)
(* Instances of the MASS object store for TLC.                             *)
(***************************************************************************)
EXTENDS MassStore, TLC

CONSTANTS w1, w2, r1

TwoWriters == {w1, w2}
OneReader == {r1}

Symmetric == Permutations(Writers)
=============================================================================
