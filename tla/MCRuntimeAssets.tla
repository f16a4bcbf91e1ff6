-------------------------- MODULE MCRuntimeAssets ---------------------------
(***************************************************************************)
(* Instances of the runtime asset owners for TLC.                          *)
(***************************************************************************)
EXTENDS RuntimeAssets, TLC

CONSTANTS o1, o2, t1, a, b, x, y

TwoOwners == {o1, o2}
OneReader == {t1}
TwoNames == {a, b}
TwoBytes == {x, y}

\* No chunk, one full chunk, and a full chunk with a short one after it.
EmptyFullShort == {<<>>, <<x, y>>, <<y, x, y>>}

Symmetric == Permutations(Owners) \cup Permutations(Names)
=============================================================================
