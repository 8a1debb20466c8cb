------------------------- MODULE MCTransferService -------------------------
(***************************************************************************)
(* Values of the constants of TransferService that a .cfg cannot write.    *)
(* Every pair belongs to the same user, so that pairs compete for nonces.  *)
(***************************************************************************)
EXTENDS TransferInvariant

CONSTANT u

MCOwner == [p \in Pair |-> u]
=============================================================================
