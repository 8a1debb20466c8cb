--------------------------- MODULE GaslessTransfer ---------------------------
(***************************************************************************)
(* What the service promises about a pair of signed transactions, whatever *)
(* its handlers, scrapers and faults do: it pays for the gas of pairs it   *)
(* has taken on and sends only what it has paid for; a pair that was       *)
(* cleared as unsigned is out of it for good; and what it tells of a       *)
(* transaction is true when it is told.                                    *)
(*                                                                         *)
(* It does not promise to tell: a row may lag behind the chain, or be      *)
(* failed or taken on once more whatever became of its transaction.        *)
(***************************************************************************)
CONSTANTS
    Pair

Leg == Pair \X {"transfer_token", "tax"}
LegsOf(p) == {p} \X {"transfer_token", "tax"}

Tale == {"absent", "new", "cleared", "confirming", "queued", "pending", "completed", "failed"}

VARIABLES
    told,    \* what a client is told of each transaction
    tx,      \* what became of it
    paid,    \* pairs for which the bank has sent a top-up
    funded   \* pairs for which one is in a block

gaslessVars == <<told, tx, paid, funded>>

GaslessInit ==
    /\ told = [i \in Leg |-> "absent"]
    /\ tx = [i \in Leg |-> "none"]
    /\ paid = {} /\ funded = {}

\* The service has been handed the signed transaction.
TakenOn(i) == told[i] \notin {"absent", "new", "cleared"}

\* Both transactions of a pair are offered for signing at once.
Offer(p) ==
    /\ \A i \in LegsOf(p) : told[i] = "absent"
    /\ told' = [i \in Leg |-> IF i \in LegsOf(p) THEN "new" ELSE told[i]]
    /\ UNCHANGED <<tx, paid, funded>>

\* "cleared" is final. That a transaction is taken on, or has failed, may be told
\* at any time; the rest is true of the pair or of the chain.
MayTell(i, what) ==
    \/ what = "cleared" /\ told[i] = "new"
    \/ what \in {"confirming", "failed"}
    \/ what = "queued" /\ i[1] \in paid
    \/ what = "pending" /\ tx[i] # "none"
    \/ what = "completed" /\ tx[i] \in {"mined", "reverted"}

Tell ==
    /\ told' \in [Leg -> Tale]
    /\ \A i \in Leg :
          told'[i] = told[i] \/ (told[i] \notin {"absent", "cleared"} /\ MayTell(i, told'[i]))
    /\ UNCHANGED <<tx, paid, funded>>

Pay(p) ==
    /\ \A i \in LegsOf(p) : TakenOn(i)
    /\ paid' = paid \cup {p}
    /\ UNCHANGED <<told, tx, funded>>

Fund(p) ==
    /\ p \in paid
    /\ funded' = funded \cup {p}
    /\ UNCHANGED <<told, tx, paid>>

Send(i) ==
    /\ tx[i] = "none" /\ TakenOn(i) /\ i[1] \in funded
    /\ tx' = [tx EXCEPT ![i] = "pooled"]
    /\ UNCHANGED <<told, paid, funded>>

Mined(i) ==
    /\ tx[i] = "pooled"
    /\ \E result \in {"mined", "reverted"} : tx' = [tx EXCEPT ![i] = result]
    /\ UNCHANGED <<told, paid, funded>>

GaslessNext ==
    \/ Tell
    \/ \E p \in Pair : Offer(p) \/ Pay(p) \/ Fund(p)
    \/ \E i \in Leg : Send(i) \/ Mined(i)

GaslessSpec == GaslessInit /\ [][GaslessNext]_gaslessVars
=============================================================================
