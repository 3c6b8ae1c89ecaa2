--------------------------- MODULE CallAlgorithms ---------------------------
(***************************************************************************)
(* The algorithms of single calls that have proofs for all inputs, and what  *)
(* they assume of the target.                                               *)
(***************************************************************************)
EXTENDS Integers, Sequences

CONSTANTS VectorBytes,  \* nativeVectorWidthInBytes
          CroutonShape, \* of an element type: its loops and inner tile
          Memory        \* addresses of the runtime

\* A vector has an element of any type; addresses are numbers.
ASSUME TargetAssumption ==
    /\ VectorBytes \in Nat /\ VectorBytes >= 8
    /\ \A elem \in DOMAIN CroutonShape : CroutonShape[elem].tile \in Seq(Nat \ {0})
    /\ Memory \subseteq Nat

SC == INSTANCE Scans
LT == INSTANCE LinalgTiling
HB == INSTANCE HexagonBuffer
AT == INSTANCE AffineTiling
TM == INSTANCE TileMemory

\* A linalg operation: loops that run, and operands with a map for each.
IsOperation(op) ==
    /\ op.ranges \in Seq(Nat \ {0}) /\ op.ranges # <<>>
    /\ op.red \subseteq LT!Loops(op)
    /\ op.maps \in Seq(Seq(Seq(LT!Loops(op)))) /\ op.maps # <<>>
    /\ op.elems \in Seq(DOMAIN LT!getElementSizeInBytes) /\ Len(op.elems) = Len(op.maps)
    /\ op.bodyElems \subseteq DOMAIN LT!getElementSizeInBytes

\* The output is indexed by parallel loops, each of them somewhere alone.
IndexesOutput(op) ==
    /\ \A i \in DOMAIN LT!OutMap(op) : LT!OutMap(op)[i] \in Seq(LT!Parallel(op))
    /\ \A d \in LT!Parallel(op) : \E i \in DOMAIN LT!OutMap(op) : LT!OutMap(op)[i] = <<d>>

\* Two buffers in memory that share no address, and a length.
CanCopy(dest, src, n) ==
    /\ n \in Nat
    /\ \A buf \in {dest, src} :
          /\ {buf.base, buf.stride, buf.numRegions, buf.regionSizeBytes} \subseteq Nat
          /\ buf.regionSizeBytes <= buf.stride
    /\ HB!Bytes(dest) \subseteq Memory /\ HB!Bytes(src) \subseteq Memory
    /\ HB!Bytes(dest) \cap HB!Bytes(src) = {}

=============================================================================
