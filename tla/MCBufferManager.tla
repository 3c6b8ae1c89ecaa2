-------------------------- MODULE MCBufferManager --------------------------
(***************************************************************************)
(* The buffer manager for TLC: three clients on a pool of twelve bytes with  *)
(* granules of two and six, which three buffers can exhaust.                *)
(***************************************************************************)
EXTENDS BufferManager, TLC

Buffer(rows, nbytes, alignment, isVtcm) ==
    [rows |-> rows, nbytes |-> nbytes, alignment |-> alignment, isVtcm |-> isVtcm]

\* 1D and 2D, with small and large alignment, sizes off the granule, and a 2D
\* one in DDR.
MCShapes ==
    {Buffer(0, 1, 2, TRUE), Buffer(0, 4, 6, TRUE), Buffer(0, 5, 2, TRUE),
     Buffer(2, 1, 2, TRUE), Buffer(2, 3, 2, FALSE)}

\* Clients and heap addresses are interchangeable.
MCSymmetry == Permutations(Clients) \cup Permutations(HeapPtrs)
=============================================================================
