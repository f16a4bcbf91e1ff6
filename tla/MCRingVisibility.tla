-------------------------- MODULE MCRingVisibility --------------------------
(***************************************************************************)
(* Instances of the visibility of a slot for TLC.                          *)
(***************************************************************************)
EXTENDS RingVisibility

\* Nothing, half a line, a line and a half, and the whole capacity.
FourSizes == {0, 1, 3, 4}
=============================================================================
