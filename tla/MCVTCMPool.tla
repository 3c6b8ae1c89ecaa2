---------------------------- MODULE MCVTCMPool ----------------------------
(***************************************************************************)
(* The pool for TLC: a small granule of 2 bytes so that rounding is visible, *)
(* a large granule of 6, and requests on both sides of the threshold.       *)
(***************************************************************************)
EXTENDS VTCMPool

\* A zero request, small requests (1 and 5 are rounded, 5 up to the large
\* size), a large one, and one larger than the pool.
MCRequests == {0, 1, 4, 5, 7, 15}
=============================================================================
