-------------------------------- MODULE Fees --------------------------------
(***************************************************************************)
(* What a gas-less transfer costs and who pays: the tax in tokens, asked   *)
(* before the pair is signed, and the ETH the bank gives for its gas when  *)
(* the gas price may be another one.                                       *)
(*                                                                         *)
(* One wallet asks for several pairs.  CreateTransfer and ConfirmTransfer  *)
(* are one step each here: what happens between their calls is in          *)
(* TransferService.  CompleteTransfers may be at work for a top-up any     *)
(* number of times at once, for the listener, the monitor and a scan after *)
(* a restart: each call goes on with the rows it has once loaded.  Amounts *)
(* are kept in units that make every conversion one of integers:           *)
(*   ETH     in wei; a decimal keeps 16 digits, multiples of Lost wei      *)
(*   tokens  in their smallest unit in rows and on the chain, Fine parts   *)
(*           of it in the decimals and floats of the program               *)
(*   rate    in parts per Lost wei; the surcharge is Surcharge/Whole       *)
(***************************************************************************)
EXTENDS Integers, FiniteSetsExt

CONSTANTS
    Pair,
    Price,        \* gas prices the node may suggest
    Rate,         \* what the sidecar may answer
    Amount,       \* amounts a client may ask for
    TransferGas, TaxGas, EthTxGas,
    Surcharge, Whole,
    Lost, Fine,
    Precision,    \* a float is off by 1/Precision of the value at most
    Tokens, Ether, Bank, \* balances at the beginning
    MaxSpends     \* bound: how often the user sends something without the service

Positive == Nat \ {0}

ASSUME FeesAssumption ==
    /\ Price \subseteq Positive /\ Rate \subseteq Positive /\ Amount \subseteq Nat
    /\ TransferGas \in Positive /\ TaxGas \in Positive /\ EthTxGas \in Positive
    /\ Surcharge \in Positive /\ Whole \in Positive
    /\ Lost \in Positive /\ Fine \in Positive /\ Precision \in Positive
    /\ Tokens \subseteq Nat /\ Ether \subseteq Nat /\ Bank \subseteq Nat
    /\ MaxSpends \in Nat

\* What the conversions may lose of the cheapest tax is less than the surcharge.
ASSUME SurchargeAssumption ==
    \A price \in Price, rate \in Rate :
        LET gas == (TransferGas + TaxGas + EthTxGas) * price
        IN  2 * Precision * (gas * rate * Whole + Fine * Lost)
                <= (Precision - 1) * (2 * gas - Lost) * rate * (Whole + Surcharge)

\* The two rows of a pair, in the order of their nonces.
Leg == {"transfer", "tax"}

VARIABLES
    pair,      \* the two rows of a pair, their top-up, and what became of them
    tokens,    \* the wallet's balances
    ether,
    bank,      \* the service wallet's
    spent,     \* history: how often the wallet has sent without the service
    outdated,  \* history: pairs since whose check the wallet's tokens got less
    short      \* history: pairs failed for the want of ETH before a row of those
               \* that the call compared the balance with was mined

vars == <<pair, tokens, ether, bank, spent, outdated, short>>

\* Of the two rows: as calls of CompleteTransfers may have loaded them, accepted
\* by the node, and mined.
NoRow == [state |-> "none", amount |-> 0, tax |-> 0, price |-> 0, rate |-> 0,
          topUp |-> 0, at |-> 0, loads |-> {}, sent |-> {}, mined |-> {}]

State == {"none", "draft", "cleared", "failed", "queued", "funded"}

\* The sets of rows that calls have loaded.
Loads == SUBSET SUBSET Leg

Row == [state : State, amount : Nat, tax : Nat, price : Nat, rate : Nat,
        topUp : Nat, at : Nat, loads : Loads, sent : SUBSET Leg,
        mined : SUBSET Leg]

TypeOK ==
    /\ pair \in [Pair -> Row]
    /\ tokens \in Nat /\ ether \in Nat /\ bank \in Nat
    /\ spent \in 0 .. MaxSpends
    /\ outdated \subseteq Pair /\ short \subseteq Pair

Init ==
    /\ pair = [p \in Pair |-> NoRow]
    /\ tokens \in Tokens /\ ether \in Ether /\ bank \in Bank
    /\ spent = 0
    /\ outdated = {} /\ short = {}

-----------------------------------------------------------------------------
(* Conversions. *)

CalcGasCost(limit, price) == limit * price

\* Div rounds to 16 digits, half away from zero.
ToETH(wei) == (2 * wei + Lost) \div (2 * Lost)

\* SetString stops at the point: what is left is the integral part.
ToWei(parts) == parts \div Fine

\* What float64 may make of a decimal, or of a sum.
Float(x) == LET off == x \div Precision IN x - off .. x + off

\* Mutant: without the top-up's own gas.
TokenGasOnly == TransferGas + TaxGas

estimateTotalGasLimit == TransferGas + TaxGas + EthTxGas

Tax(price, rate) ==
    Float(ToETH(CalcGasCost(estimateTotalGasLimit, price)) * rate * (Whole + Surcharge))

\* The gas of some of the rows: both have the price the node suggested when the
\* pair was made.
GasFee(row, legs) ==
    (IF "transfer" \in legs THEN CalcGasCost(TransferGas, row.price) ELSE 0)
        + (IF "tax" \in legs THEN CalcGasCost(TaxGas, row.price) ELSE 0)

-----------------------------------------------------------------------------
(* The handlers. *)

\* Mutant: looks at the amount alone.
EnoughForAmount(amount, tax) == ToWei(amount) <= tokens

\* The sum is one of floats.
Enough(amount, tax) == \E sum \in Float(amount + tax) : ToWei(sum) <= tokens

NotEnough(amount, tax) == \E sum \in Float(amount + tax) : ToWei(sum) > tokens

InFlight(row) == row.state \in {"draft", "queued", "funded"} /\ row.mined = {}

\* The pairs not yet signed are cleared first, whatever comes of the new one.
Cleared(p) ==
    [q \in Pair |-> IF pair[q].state = "draft" /\ q # p THEN [pair[q] EXCEPT !.state = "cleared"]
                                                        ELSE pair[q]]

Draft(amount, tax, price, rate) ==
    [NoRow EXCEPT !.state = "draft", !.amount = amount, !.tax = tax, !.price = price, !.rate = rate]

CreateTransfer(p) ==
    /\ pair[p].state = "none"
    /\ \E price \in Price, rate \in Rate, amount \in Amount : \E tax \in Tax(price, rate) :
          \/ /\ Enough(amount, tax)
             /\ pair' = [Cleared(p) EXCEPT ![p] = Draft(ToWei(amount), ToWei(tax), price, rate)]
          \/ /\ NotEnough(amount, tax)
             /\ pair' = [Cleared(p) EXCEPT ![p].state = "failed"]
    /\ UNCHANGED <<tokens, ether, bank, spent, outdated, short>>

\* Mutant: pays for the gas at the price of today.
TopUpAtPriceOfNow(row, price) == CalcGasCost(TransferGas + TaxGas, price)

\* The gas of the pair as it was signed.
TopUp(row, price) == GasFee(row, Leg)

\* ConfirmTransfer and topUpEthBalance: whether the bank can pay is asked at the
\* latest block.
ConfirmTransfer(p) ==
    /\ pair[p].state = "draft"
    /\ \E price \in Price :
          IF bank < TopUp(pair[p], price) + CalcGasCost(EthTxGas, price)
          THEN pair' = [pair EXCEPT ![p].state = "failed"]
          ELSE pair' = [pair EXCEPT ![p].state = "queued",
                                    ![p].topUp = TopUp(pair[p], price), ![p].at = price]
    /\ UNCHANGED <<tokens, ether, bank, spent, outdated, short>>

\* The rows that have the status 'queued' at present.
Queued(row) == {leg \in Leg : \A rows \in row.loads : leg \in rows}

\* The node refuses what it has, and may refuse or lose the answer to anything; a
\* call ends at the first error.
Accepted(row, rows) ==
    {legs \in SUBSET rows :
        {"transfer", "tax"} \subseteq rows /\ "tax" \in legs =>
            "transfer" \in legs /\ "transfer" \notin row.sent}

\* One of the calls, with the rows as they were queued when it loaded them. The
\* balance is the one of the latest block, where these may be mined already. Any of
\* them may get another status: an error, or the save of them all, which may fail.
CompleteTransfers(p) ==
    /\ pair[p].state = "funded"
    /\ \E rows \in pair[p].loads \ {{}} :
          IF ether < GasFee(pair[p], rows)
          THEN /\ pair' = [pair EXCEPT ![p].loads = @ \cup {Queued(pair[p]) \ rows}]
               /\ short' = IF rows \cap pair[p].mined = {} THEN short \cup {p} ELSE short
          ELSE /\ \E legs \in Accepted(pair[p], rows), written \in SUBSET rows :
                     pair' = [pair EXCEPT ![p].sent = @ \cup legs,
                                          ![p].loads = @ \cup {Queued(pair[p]) \ written}]
               /\ UNCHANGED short
    /\ UNCHANGED <<tokens, ether, bank, spent, outdated>>

-----------------------------------------------------------------------------
(* The chain. *)

Outdates(p) == outdated' = outdated \cup {q \in Pair \ {p} : InFlight(pair[q])}

\* A top-up waits in the pool until the bank can pay for it.
Fund(p) ==
    LET gas == CalcGasCost(EthTxGas, pair[p].at)
    IN  /\ pair[p].state = "queued" /\ bank >= pair[p].topUp + gas
        /\ bank' = bank - pair[p].topUp - gas
        /\ ether' = ether + pair[p].topUp
        /\ pair' = [pair EXCEPT ![p].state = "funded", ![p].loads = {Leg}]
        /\ UNCHANGED <<tokens, spent, outdated, short>>

\* The transactions are mined in their order; one that lacks tokens reverts. Gas
\* is paid for what is used of the limit: between half of it and all.
Mine(p, leg) ==
    LET row == pair[p]
        cost == IF leg = "tax" THEN row.tax ELSE row.amount
        fee == GasFee(row, {leg})
    IN  /\ leg \in row.sent \ row.mined /\ (leg = "tax" => "transfer" \in row.mined)
        /\ ether >= fee
        /\ tokens' = IF cost <= tokens THEN tokens - cost ELSE tokens
        /\ \E gas \in {fee \div 2, fee} : ether' = ether - gas
        /\ pair' = [pair EXCEPT ![p].mined = @ \cup {leg}]
        /\ Outdates(p)
        /\ UNCHANGED <<bank, spent, short>>

\* The user sends tokens and ETH without the service.
Spend ==
    /\ spent < MaxSpends
    /\ tokens' = tokens \div 2 /\ ether' = ether \div 2
    /\ spent' = spent + 1
    /\ outdated' = outdated \cup {q \in Pair : InFlight(pair[q])}
    /\ UNCHANGED <<pair, bank, short>>

Next ==
    \/ \E p \in Pair : \/ CreateTransfer(p) \/ ConfirmTransfer(p) \/ CompleteTransfers(p)
                       \/ Fund(p) \/ \E leg \in Leg : Mine(p, leg)
    \/ Spend

Spec == Init /\ [][Next]_vars

-----------------------------------------------------------------------------
(* Properties *)

ToppedUp(row) == row.state \in {"queued", "funded"}

\* "tax gets higher than expenses": what the bank gives for a pair, its own gas
\* included, is worth the tax at the rate of its creation at most, in spite of
\* every rounding, unless the gas price has risen until the confirmation.
LossNeedsHigherPrice ==
    \A p \in Pair :
        LET row == pair[p]
        IN  ToppedUp(row) /\ row.at <= row.price =>
                (row.topUp + CalcGasCost(EthTxGas, row.at)) * row.rate * Whole
                    <= row.tax * Fine * Lost

\* The wallet lacks one unit and the error of a float at most.
NearlyCovered(cost) == cost <= tokens + 1 \/ Precision * (cost - tokens - 1) < cost

\* The check at the creation covers amount and tax as they are signed, as long as
\* nobody gets ahead of the pair.
ShortByRounding ==
    \A p \in Pair \ outdated :
        InFlight(pair[p]) => NearlyCovered(pair[p].amount + pair[p].tax)

Funded(rows) == {p \in Pair : rows[p].state = "funded"}

\* The gas of the transactions that are still to be mined.
Due(row) == GasFee(row, Leg \ row.mined)

Gas(rows, S) == MapThenSumSet(LAMBDA p : Due(rows[p]), S)

\* However the gas price moves and the pairs of a wallet overlap, the ETH for the
\* gas of the funded ones is there until they are mined. If the user has not spent
\* any elsewhere, CompleteTransfers fails rows for the want of ETH only when it is
\* late: one of them is mined, sent by another call for the same top-up.
GasIsSetAside ==
    spent = 0 => Gas(pair, Funded(pair)) <= ether /\ short = {}

-----------------------------------------------------------------------------
(* The inductive invariant of the proofs. *)

\* A pair that was made has a tax that pays for all three transactions at its
\* own price, and a top-up for its gas once it has one. Nothing of it is sent before
\* its top-up is mined.
RowOK(row) ==
    /\ row.price # 0 => CalcGasCost(estimateTotalGasLimit, row.price) * row.rate * Whole
                            <= row.tax * Fine * Lost
    /\ ToppedUp(row) => row.price # 0 /\ row.topUp = GasFee(row, Leg)
    /\ row.state = "draft" => row.price # 0
    /\ row.state # "funded" => row.sent = {} /\ row.mined = {}

IInv == TypeOK /\ (\A p \in Pair : RowOK(pair[p])) /\ ShortByRounding
=============================================================================
