--------------------------- MODULE MCTransactionLog --------------------------
(***************************************************************************)
(* Values of the constants of TransactionLog: alice sends tokens to bob;   *)
(* low is another spelling of alice.                                       *)
(***************************************************************************)
EXTENDS TransactionLog

CONSTANTS alice, low, bob

MCAccount == [a \in Address |-> IF a = low THEN alice ELSE a]
MCFrom == [t \in Tx |-> alice]
MCTo == [t \in Tx |-> bob]
=============================================================================
