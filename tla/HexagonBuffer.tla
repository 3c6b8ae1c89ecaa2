---------------------------- MODULE HexagonBuffer ----------------------------
(***************************************************************************)
(* How the runtime copies between buffers (HexagonBuffer.cpp): a buffer is   *)
(* a set of regions of one size; the copy is cut where a region of either    *)
(* side ends, the pieces are sorted by source and adjacent ones merged, and  *)
(* each merged piece is one memcpy.                                         *)
(*                                                                         *)
(* Regions lie at a fixed distance (stride) in the block of their buffer.    *)
(* Memory maps addresses to the address their byte came from.               *)
(***************************************************************************)
EXTENDS Integers, Sequences, FiniteSets, SequencesExt

CONSTANT Memory     \* addresses

TotalBytes(buf) == buf.numRegions * buf.regionSizeBytes

\* The plain memory of CopyTo and CopyFrom: one region of the length asked.
External(address, n) ==
    [base |-> address, stride |-> n, numRegions |-> 1, regionSizeBytes |-> n]

pointer_to(buf, regionI, byteI) == buf.base + regionI * buf.stride + byteI

Bytes(buf) ==
    {pointer_to(buf, region, byte) : region \in 0 .. buf.numRegions - 1, byte \in 0 .. buf.regionSizeBytes - 1}

\* Address of byte k of a buffer.
ByteAt(buf, k) ==
    pointer_to(buf, k \div buf.regionSizeBytes, k % buf.regionSizeBytes)

-----------------------------------------------------------------------------
\* The faulty variant: a source region is never cut where a destination region ends.
MemoryCopiesUncut(dest, src, n) ==
    {[src |-> pointer_to(src, i, 0), dest |-> ByteAt(dest, i * src.regionSizeBytes),
      numBytes |-> Min({(i + 1) * src.regionSizeBytes, n}) - i * src.regionSizeBytes] :
         i \in {i \in 0 .. src.numRegions : i * src.regionSizeBytes < n}}

\* MemoryCopies: source region i and destination region j share the bytes
\* from Begin to End.
MemoryCopies(dest, src, n) ==
    LET Begin(i, j) == Max({i * src.regionSizeBytes, j * dest.regionSizeBytes})
        End(i, j) == Min({(i + 1) * src.regionSizeBytes, (j + 1) * dest.regionSizeBytes, n})
        Sharing == {ij \in (0 .. src.numRegions) \X (0 .. dest.numRegions) :
                        Begin(ij[1], ij[2]) < End(ij[1], ij[2])}
    IN  {[src |-> pointer_to(src, ij[1], Begin(ij[1], ij[2]) % src.regionSizeBytes),
          dest |-> pointer_to(dest, ij[2], Begin(ij[1], ij[2]) % dest.regionSizeBytes),
          numBytes |-> End(ij[1], ij[2]) - Begin(ij[1], ij[2])] : ij \in Sharing}

IsDirectlyBefore(a, b) == a.src + a.numBytes = b.src /\ a.dest + a.numBytes = b.dest

AppendOrMerge(macro, c) ==
    IF macro # <<>> /\ IsDirectlyBefore(Last(macro), c)
    THEN [macro EXCEPT ![Len(macro)].numBytes = @ + c.numBytes]
    ELSE Append(macro, c)

MergeAdjacent(copies) ==
    LET Before(c) == {b \in copies : b.src < c.src}
        sorted == [i \in 1 .. Cardinality(copies) |-> CHOOSE c \in copies : Cardinality(Before(c)) = i - 1]
    IN  FoldLeft(AppendOrMerge, <<>>, sorted)

memcpy(mem, c) ==
    [x \in Memory |-> IF x - c.dest \in 0 .. c.numBytes - 1 THEN mem[c.src + x - c.dest] ELSE mem[x]]

\* How the call ends, and the memory it leaves: it checks the length, divides by
\* the size of a source region, then makes the copies in order.
hexagonBufferCopyAcrossRegions(dest, src, n) ==
    LET start == [x \in Memory |-> x]
    IN  IF n > TotalBytes(src) \/ n > TotalBytes(dest) THEN [end |-> "abort", mem |-> start]
        ELSE IF src.regionSizeBytes = 0 THEN [end |-> "undefined", mem |-> start]
        ELSE [end |-> "done", mem |-> FoldLeft(memcpy, start, MergeAdjacent(MemoryCopies(dest, src, n)))]

-----------------------------------------------------------------------------
\* Byte k of the destination is byte k of the source for every k below the
\* length, and no other byte has changed, the padding between rows included.
CopiesExactly(dest, src, n) ==
    \E result \in {hexagonBufferCopyAcrossRegions(dest, src, n)} :
        result.end = "done" =>
            /\ \A k \in 0 .. n - 1 : result.mem[ByteAt(dest, k)] = ByteAt(src, k)
            /\ \A x \in Memory \ {ByteAt(dest, k) : k \in 0 .. n - 1} : result.mem[x] = x

=============================================================================
