----------------------------- MODULE MCUserDMA -----------------------------
(***************************************************************************)
(* The DMA runtime for TLC: a ring of two descriptors whose counters wrap    *)
(* before the bound on the transfers is reached.                            *)
(***************************************************************************)
EXTENDS UserDMA

Req(api, len, addrOk) == [api |-> api, len |-> len, addrOk |-> addrOk]

\* A good transfer, and a 1D one longer than a descriptor can say.
MixedRequests == {Req("copy", 3, TRUE), Req("copy", 4, TRUE)}
=============================================================================
