----------------------------- MODULE FeesProofs -----------------------------
(***************************************************************************)
(* Proofs about Fees: for any prices, rates, amounts and roundings.        *)
(***************************************************************************)
EXTENDS Fees, FiniteSetTheorems, WellFoundedInduction, TLAPS

-----------------------------------------------------------------------------
(* Arithmetic. *)

\* Division loses less than the divisor.
LEMMA DivBounds ==
    ASSUME NEW x \in Nat, NEW d \in Positive
    PROVE  /\ x \div d \in Nat
           /\ d * (x \div d) <= x
           /\ x < d * (x \div d) + d
  BY DEF Positive

LEMMA MulMono ==
    ASSUME NEW a \in Int, NEW b \in Int, NEW c \in Nat, a <= b
    PROVE  a * c <= b * c
  OBVIOUS

\* A float is too small by 1/Precision at most.
LEMMA FloatBounds ==
    ASSUME NEW x \in Nat, NEW y \in Float(x)
    PROVE  /\ y \in Nat
           /\ Precision * x - x <= Precision * y
  <1> DEFINE off == x \div Precision
  <1>1. off \in Nat /\ Precision * off <= x /\ Precision \in Positive
    BY DivBounds, FeesAssumption
  <1>2. off <= x
    BY <1>1 DEF Positive
  <1>3. y \in Int /\ x - off <= y
    BY <1>1 DEF Float
  <1>4. (x - off) * Precision <= y * Precision
    BY <1>1, <1>3, MulMono DEF Positive
  <1> QED
    BY <1>1, <1>2, <1>3, <1>4 DEF Positive

-----------------------------------------------------------------------------
(* The surcharge. *)

\* What the tax is worth, before anything is signed: three transactions at the
\* price and the rate it was made with.
LEMMA TaxIsEnough ==
    ASSUME NEW price \in Price, NEW rate \in Rate, NEW tax \in Tax(price, rate)
    PROVE  /\ tax \in Nat
           /\ CalcGasCost(estimateTotalGasLimit, price) * rate * Whole <= ToWei(tax) * Fine * Lost
  <1> DEFINE gas == (TransferGas + TaxGas + EthTxGas) * price
             quanta == ToETH(gas)
             due == rate * (Whole + Surcharge)
             exact == quanta * rate * (Whole + Surcharge)
             wei == ToWei(tax)
  <1>1. gas \in Nat /\ due \in Nat /\ Lost \in Positive /\ Fine \in Positive
        /\ Precision \in Positive /\ rate \in Positive /\ Whole \in Positive
        /\ CalcGasCost(estimateTotalGasLimit, price) = gas
    BY FeesAssumption DEF Positive, CalcGasCost, estimateTotalGasLimit
  <1>2. quanta \in Nat /\ 2 * gas - Lost <= 2 * Lost * quanta
    <2> DEFINE x == 2 * gas + Lost
               d == 2 * Lost
    <2>1. x \in Nat /\ d \in Positive
      BY <1>1 DEF Positive
    <2>2. x \div d \in Nat /\ x < d * (x \div d) + d
      BY <2>1, DivBounds
    <2>3. quanta = x \div d
      BY DEF ToETH
    <2> HIDE DEF gas, quanta
    <2> QED
      BY <1>1, <2>2, <2>3 DEF Positive
  <1>3. exact = quanta * due /\ exact \in Nat
    <2> HIDE DEF gas, quanta
    <2> QED
      BY <1>1, <1>2, FeesAssumption DEF Positive
  <1>4. tax \in Nat /\ Precision * exact - exact <= Precision * tax
    <2>1. tax \in Float(exact)
      BY <1>1 DEF Tax
    <2> HIDE DEF exact
    <2> QED
      BY <1>3, <2>1, FloatBounds
  <1>5. wei \in Nat /\ tax - Fine <= Fine * wei
    <2>1. wei = tax \div Fine
      BY DEF ToWei
    <2> HIDE DEF wei
    <2> QED
      BY <1>1, <1>4, <2>1, DivBounds DEF Positive
  <1>6. 2 * Precision * (gas * rate * Whole + Fine * Lost)
            <= (Precision - 1) * (2 * gas - Lost) * rate * (Whole + Surcharge)
    BY SurchargeAssumption
  <1> HIDE DEF gas, quanta, due, exact, wei
  <1>7. (Precision - 1) * ((2 * gas - Lost) * due) <= (Precision - 1) * ((2 * Lost * quanta) * due)
    <2>1. (2 * gas - Lost) * due <= (2 * Lost * quanta) * due
      BY <1>1, <1>2, MulMono DEF Positive
    <2>2. Precision - 1 \in Nat /\ (2 * gas - Lost) * due \in Int /\ (2 * Lost * quanta) * due \in Int
      BY <1>1, <1>2 DEF Positive
    <2> QED
      BY <2>1, <2>2, MulMono
  <1>8. (Precision * exact - exact) * (2 * Lost) <= (Precision * tax) * (2 * Lost)
    BY <1>1, <1>3, <1>4, MulMono DEF Positive
  <1>9. (tax - Fine) * (2 * Lost * Precision) <= (Fine * wei) * (2 * Lost * Precision)
    BY <1>1, <1>4, <1>5, MulMono DEF Positive
  <1>10. (Precision - 1) * (2 * gas - Lost) * rate * (Whole + Surcharge)
            = (Precision - 1) * ((2 * gas - Lost) * due)
    BY <1>1, FeesAssumption DEF due, Positive
  <1>11. (Precision - 1) * ((2 * Lost * quanta) * due) = (Precision * exact - exact) * (2 * Lost)
    BY <1>1, <1>2, <1>3 DEF Positive
  <1>12. (2 * Precision) * (gas * rate * Whole) <= (2 * Precision) * (wei * Fine * Lost)
    BY <1>1, <1>2, <1>3, <1>4, <1>5, <1>6, <1>7, <1>8, <1>9, <1>10, <1>11 DEF Positive
  <1> QED
    BY <1>1, <1>4, <1>5, <1>12 DEF Positive, wei

-----------------------------------------------------------------------------
(* The inductive invariant. *)

THEOREM Initially == Init => IInv
  <1> SUFFICES ASSUME Init PROVE IInv
    OBVIOUS
  <1>1. \A p \in Pair : pair[p] = NoRow
    BY DEF Init
  <1>2. tokens \in Nat /\ ether \in Nat /\ bank \in Nat
    BY FeesAssumption DEF Init
  <1>3. NoRow \in Row
    BY DEF NoRow, Row, State, Loads
  <1>4. TypeOK
    BY <1>1, <1>2, <1>3, FeesAssumption DEF Init, TypeOK
  <1>5. RowOK(NoRow) /\ ~InFlight(NoRow)
    BY DEF RowOK, NoRow, ToppedUp, InFlight
  <1> QED
    BY <1>1, <1>4, <1>5 DEF IInv, ShortByRounding

\* The balance that was enough for the float of a sum lacks little of the sum of
\* what is signed.
LEMMA EnoughIsNearly ==
    ASSUME NEW amount \in Nat, NEW tax \in Nat, tokens \in Nat, Enough(amount, tax)
    PROVE  NearlyCovered(ToWei(amount) + ToWei(tax))
  <1> DEFINE a == ToWei(amount)
             t == ToWei(tax)
             x == amount + tax
  <1>1. PICK sum \in Float(x) : ToWei(sum) <= tokens
    BY DEF Enough
  <1>2. Fine \in Positive /\ Precision \in Positive
    BY FeesAssumption
  <1>3. a \in Nat /\ t \in Nat /\ Fine * a <= amount /\ Fine * t <= tax
    BY <1>2, DivBounds DEF ToWei
  <1>4. sum \in Nat /\ Precision * x - x <= Precision * sum
    <2>1. x \in Nat
      OBVIOUS
    <2> HIDE DEF x
    <2> QED
      BY <1>1, <2>1, FloatBounds
  <1>5. sum < Fine * tokens + Fine
    <2>1. ToWei(sum) \in Nat /\ sum < Fine * ToWei(sum) + Fine
      BY <1>2, <1>4, DivBounds DEF ToWei
    <2>2. ToWei(sum) * Fine <= tokens * Fine
      BY <1>1, <1>2, <2>1, MulMono DEF Positive
    <2> QED
      BY <1>2, <1>4, <2>1, <2>2 DEF Positive
  <1>6. Fine * (a + t) <= x
    BY <1>2, <1>3 DEF Positive
  <1>7. (Precision - 1) * (Fine * (a + t)) <= (Precision - 1) * x
    <2>1. Precision - 1 \in Nat /\ Fine * (a + t) \in Int /\ x \in Int
      BY <1>2, <1>3 DEF Positive
    <2> QED
      BY <1>6, <2>1, MulMono
  <1>8. Precision * sum < Precision * (Fine * tokens + Fine)
    BY <1>2, <1>4, <1>5 DEF Positive
  <1> HIDE DEF a, t, x
  <1>9. Fine * ((Precision - 1) * (a + t)) < Fine * (Precision * (tokens + 1))
    BY <1>2, <1>3, <1>4, <1>7, <1>8 DEF Positive, x
  <1>10. (Precision - 1) * (a + t) < Precision * (tokens + 1)
    BY <1>2, <1>3, <1>9 DEF Positive
  <1>11. Precision * (a + t - tokens - 1) < a + t
    BY <1>2, <1>3, <1>10 DEF Positive
  <1> QED
    BY <1>2, <1>3, <1>11 DEF a, t, Positive, NearlyCovered


\* What a step must show: the pair it is about keeps to the invariant, and so does
\* the balance for the pairs it does not outdate.
LEMMA Create ==
    ASSUME IInv, NEW p \in Pair, CreateTransfer(p)
    PROVE  IInv'
  <1>1. PICK price \in Price, rate \in Rate, amount \in Amount : \E tax \in Tax(price, rate) :
          \/ /\ Enough(amount, tax)
             /\ pair' = [Cleared(p) EXCEPT ![p] = Draft(ToWei(amount), ToWei(tax), price, rate)]
          \/ /\ NotEnough(amount, tax)
             /\ pair' = [Cleared(p) EXCEPT ![p].state = "failed"]
    BY DEF CreateTransfer
  <1>2. PICK tax \in Tax(price, rate) :
          \/ /\ Enough(amount, tax)
             /\ pair' = [Cleared(p) EXCEPT ![p] = Draft(ToWei(amount), ToWei(tax), price, rate)]
          \/ /\ NotEnough(amount, tax)
             /\ pair' = [Cleared(p) EXCEPT ![p].state = "failed"]
    BY <1>1
  <1> DEFINE new == Draft(ToWei(amount), ToWei(tax), price, rate)
  <1>3. price \in Positive /\ rate \in Positive /\ amount \in Nat /\ Fine \in Positive
    BY FeesAssumption
  <1>4. tax \in Nat
        /\ CalcGasCost(estimateTotalGasLimit, price) * rate * Whole <= ToWei(tax) * Fine * Lost
    BY TaxIsEnough
  <1>5. ToWei(amount) \in Nat /\ ToWei(tax) \in Nat
    BY <1>3, <1>4, DivBounds DEF ToWei
  <1>6. pair \in [Pair -> Row] /\ tokens \in Nat /\ (\A q \in Pair : RowOK(pair[q]))
        /\ ShortByRounding
    BY DEF IInv, TypeOK
  <1>7. UNCHANGED <<tokens, ether, bank, spent, outdated, short>> /\ pair[p].state = "none"
        /\ pair[p].sent = {} /\ pair[p].mined = {}
    BY <1>6 DEF CreateTransfer, RowOK
  <1>8. Cleared(p) \in [Pair -> Row] /\ Cleared(p)[p] = pair[p]
    BY <1>6 DEF Cleared, Row, State
  <1>9. /\ new.state = "draft" /\ new.price = price /\ new.rate = rate
        /\ new.amount = ToWei(amount) /\ new.tax = ToWei(tax)
        /\ new.sent = {} /\ new.mined = {} /\ new \in Row
    <2>1. "draft" \in State /\ NoRow \in Row
      BY DEF State, NoRow, Row, Loads
    <2> QED
      BY <1>3, <1>5, <2>1 DEF Draft, NoRow, Row, Positive
  <1>10. pair' \in [Pair -> Row]
    <2>1. [pair[p] EXCEPT !.state = "failed"] \in Row
      BY <1>6 DEF Row, State
    <2> QED
      BY <1>2, <1>8, <1>9, <2>1
  <1>11. ASSUME NEW q \in Pair
         PROVE  /\ RowOK(pair'[q])
                /\ InFlight(pair'[q]) /\ q \notin outdated
                     => NearlyCovered(pair'[q].amount + pair'[q].tax)
    <2>1. pair[q] \in Row /\ RowOK(pair[q])
          /\ (InFlight(pair[q]) /\ q \notin outdated => NearlyCovered(pair[q].amount + pair[q].tax))
      BY <1>6 DEF ShortByRounding
    <2>2. CASE q # p
      <3>1. \/ pair'[q] = pair[q]
            \/ pair'[q] = [pair[q] EXCEPT !.state = "cleared"] /\ pair[q].state = "draft"
        BY <1>2, <1>8, <2>2 DEF Cleared
      <3>2. CASE pair'[q] = [pair[q] EXCEPT !.state = "cleared"] /\ pair[q].state = "draft"
        <4>1. /\ pair'[q].state = "cleared" /\ pair'[q].price = pair[q].price
              /\ pair'[q].rate = pair[q].rate /\ pair'[q].tax = pair[q].tax
              /\ pair'[q].sent = pair[q].sent /\ pair'[q].mined = pair[q].mined
          BY <2>1, <3>2 DEF Row
        <4> QED
          BY <2>1, <3>2, <4>1 DEF RowOK, InFlight, ToppedUp
      <3> QED
        BY <2>1, <3>1, <3>2
    <2>3. CASE q = p /\ pair'[p] = new /\ Enough(amount, tax)
      <3>1. NearlyCovered(ToWei(amount) + ToWei(tax))
        BY <1>3, <1>4, <1>6, <2>3, EnoughIsNearly
      <3> QED
        BY <1>3, <1>4, <1>9, <2>3, <3>1 DEF RowOK, ToppedUp, Positive
    <2>4. CASE q = p /\ pair'[p] = [pair[p] EXCEPT !.state = "failed"]
      <3>1. /\ pair'[p].state = "failed" /\ pair'[p].price = pair[p].price
            /\ pair'[p].rate = pair[p].rate /\ pair'[p].tax = pair[p].tax
            /\ pair'[p].sent = {} /\ pair'[p].mined = {}
        BY <1>7, <2>1, <2>4 DEF Row
      <3> QED
        BY <2>1, <2>4, <3>1 DEF RowOK, InFlight, ToppedUp
    <2> QED
      BY <1>2, <1>6, <1>8, <2>2, <2>3, <2>4
  <1>12. TypeOK'
    BY <1>7, <1>10 DEF IInv, TypeOK
  <1>13. ShortByRounding'
    BY <1>7, <1>11 DEF ShortByRounding, NearlyCovered
  <1> QED
    BY <1>11, <1>12, <1>13 DEF IInv

\* A pair goes on: what was agreed at its creation stays.
LEMMA Onward ==
    ASSUME IInv, NEW p \in Pair, NEW r \in Row,
           pair' = [pair EXCEPT ![p] = r],
           r.amount = pair[p].amount, r.tax = pair[p].tax,
           RowOK(pair[p]) => RowOK(r),
           InFlight(r) => InFlight(pair[p]),
           ether' \in Nat, bank' \in Nat, short' \subseteq Pair,
           UNCHANGED <<tokens, spent, outdated>>
    PROVE  IInv'
  <1>1. pair \in [Pair -> Row] /\ (\A q \in Pair : RowOK(pair[q])) /\ ShortByRounding
    BY DEF IInv, TypeOK
  <1>2. TypeOK'
    BY <1>1 DEF IInv, TypeOK
  <1>3. \A q \in Pair : RowOK(pair'[q])
    BY <1>1
  <1>4. ShortByRounding'
    BY <1>1 DEF ShortByRounding, NearlyCovered
  <1> QED
    BY <1>2, <1>3, <1>4 DEF IInv

\* Gas fees are amounts.
LEMMA GasFeeType ==
    ASSUME NEW row \in Row, NEW legs
    PROVE  GasFee(row, legs) \in Nat
  BY FeesAssumption DEF GasFee, CalcGasCost, Row, Positive

LEMMA Confirm ==
    ASSUME IInv, NEW p \in Pair, ConfirmTransfer(p)
    PROVE  IInv'
  <1>1. pair \in [Pair -> Row] /\ ether \in Nat /\ bank \in Nat /\ RowOK(pair[p])
        /\ short \subseteq Pair /\ pair[p].state = "draft" /\ pair[p].sent = {} /\ pair[p].mined = {}
        /\ UNCHANGED <<tokens, ether, bank, spent, outdated, short>>
    BY DEF IInv, TypeOK, RowOK, ConfirmTransfer
  <1> DEFINE failed == [pair[p] EXCEPT !.state = "failed"]
             queued(price) == [pair[p] EXCEPT !.state = "queued",
                                              !.topUp = GasFee(pair[p], Leg), !.at = price]
  <1>2. CASE pair' = [pair EXCEPT ![p] = failed]
    <2>1. failed \in Row /\ (RowOK(pair[p]) => RowOK(failed)) /\ ~InFlight(failed)
          /\ failed.amount = pair[p].amount /\ failed.tax = pair[p].tax
      BY <1>1 DEF Row, State, RowOK, ToppedUp, InFlight
    <2> QED
      BY <1>1, <1>2, <2>1, Onward
  <1>3. ASSUME NEW price \in Price, pair' = [pair EXCEPT ![p] = queued(price)]
        PROVE  IInv'
    <2>1. queued(price) \in Row
      <3>1. GasFee(pair[p], Leg) \in Nat /\ price \in Nat /\ "queued" \in State
        BY <1>1, GasFeeType, FeesAssumption DEF State, Positive
      <3> QED
        BY <1>1, <3>1 DEF Row
    <2>2. /\ queued(price).amount = pair[p].amount /\ queued(price).tax = pair[p].tax
          /\ queued(price).price = pair[p].price /\ queued(price).rate = pair[p].rate
          /\ queued(price).topUp = GasFee(pair[p], Leg) /\ queued(price).state = "queued"
          /\ queued(price).sent = {} /\ queued(price).mined = {}
      BY <1>1 DEF Row
    <2>3. RowOK(queued(price)) /\ InFlight(pair[p])
      BY <1>1, <2>2 DEF RowOK, GasFee, InFlight
    <2> HIDE DEF queued
    <2> QED
      BY <1>1, <1>3, <2>1, <2>2, <2>3, Onward
  <1> QED
    BY <1>2, <1>3 DEF ConfirmTransfer, TopUp

\* A call of CompleteTransfers may change what is loaded and sent of the rows.
LEMMA Completes ==
    ASSUME IInv, NEW p \in Pair, CompleteTransfers(p)
    PROVE  /\ pair[p].state = "funded" /\ UNCHANGED <<tokens, ether, bank, spent, outdated>>
           /\ \E loads \in Loads, sent \in SUBSET Leg :
                 pair' = [pair EXCEPT ![p] = [pair[p] EXCEPT !.loads = loads, !.sent = sent]]
           /\ \/ short' = short
              \/ \E rows \in SUBSET Leg : /\ ether < GasFee(pair[p], rows)
                                          /\ rows \cap pair[p].mined = {}
                                          /\ short' = short \cup {p}
  <1>1. pair[p] \in Row /\ pair[p].loads \in Loads /\ pair[p].sent \subseteq Leg
    BY DEF IInv, TypeOK, Row
  <1>2. PICK rows \in pair[p].loads \ {{}} :
          IF ether < GasFee(pair[p], rows)
          THEN /\ pair' = [pair EXCEPT ![p].loads = @ \cup {Queued(pair[p]) \ rows}]
               /\ short' = IF rows \cap pair[p].mined = {} THEN short \cup {p} ELSE short
          ELSE /\ \E legs \in Accepted(pair[p], rows), written \in SUBSET rows :
                     pair' = [pair EXCEPT ![p].sent = @ \cup legs,
                                          ![p].loads = @ \cup {Queued(pair[p]) \ written}]
               /\ UNCHANGED short
    BY DEF CompleteTransfers
  <1>3. rows \in SUBSET Leg /\ Queued(pair[p]) \subseteq Leg
    BY <1>1, <1>2 DEF Queued, Loads
  <1>4. CASE ether < GasFee(pair[p], rows)
    <2>1. pair' = [pair EXCEPT ![p].loads = @ \cup {Queued(pair[p]) \ rows}]
          /\ short' = IF rows \cap pair[p].mined = {} THEN short \cup {p} ELSE short
      BY <1>2, <1>4
    <2> DEFINE loads == pair[p].loads \cup {Queued(pair[p]) \ rows}
    <2>2. loads \in Loads
      BY <1>1, <1>3 DEF Loads
    <2>3. [pair[p] EXCEPT !.loads = loads] = [pair[p] EXCEPT !.loads = loads, !.sent = pair[p].sent]
      BY <1>1 DEF Row
    <2>4. pair' = [pair EXCEPT ![p] = [pair[p] EXCEPT !.loads = loads]]
      BY <2>1
    <2>5. pair' = [pair EXCEPT ![p] = [pair[p] EXCEPT !.loads = loads, !.sent = pair[p].sent]]
      BY <2>3, <2>4
    <2>6. short' = short \/ (rows \cap pair[p].mined = {} /\ short' = short \cup {p})
      BY <2>1
    <2> HIDE DEF loads
    <2> QED
      BY <1>1, <1>3, <1>4, <2>2, <2>5, <2>6 DEF CompleteTransfers
  <1>5. CASE ~(ether < GasFee(pair[p], rows))
    <2>1. short' = short
          /\ \E legs \in Accepted(pair[p], rows), written \in SUBSET rows :
                pair' = [pair EXCEPT ![p].sent = @ \cup legs,
                                     ![p].loads = @ \cup {Queued(pair[p]) \ written}]
      BY <1>2, <1>5
    <2>2. PICK legs \in Accepted(pair[p], rows), written \in SUBSET rows :
                pair' = [pair EXCEPT ![p].sent = @ \cup legs,
                                     ![p].loads = @ \cup {Queued(pair[p]) \ written}]
      BY <2>1
    <2> DEFINE loads == pair[p].loads \cup {Queued(pair[p]) \ written}
               sent == pair[p].sent \cup legs
    <2>3. loads \in Loads /\ sent \in SUBSET Leg
      BY <1>1, <1>3 DEF Accepted, Loads
    <2>4. pair' = [pair EXCEPT ![p] = [pair[p] EXCEPT !.loads = loads, !.sent = sent]]
      BY <1>1, <2>2 DEF Row
    <2> QED
      BY <2>1, <2>3, <2>4 DEF CompleteTransfers
  <1> QED
    BY <1>4, <1>5

LEMMA Complete ==
    ASSUME IInv, NEW p \in Pair, CompleteTransfers(p)
    PROVE  IInv'
  <1>1. pair \in [Pair -> Row] /\ ether \in Nat /\ bank \in Nat /\ RowOK(pair[p])
        /\ pair[p].state = "funded" /\ UNCHANGED <<tokens, ether, bank, spent, outdated>>
    BY Completes DEF IInv, TypeOK
  <1>2. PICK loads \in Loads, sent \in SUBSET Leg :
            pair' = [pair EXCEPT ![p] = [pair[p] EXCEPT !.loads = loads, !.sent = sent]]
    BY Completes
  <1> DEFINE r == [pair[p] EXCEPT !.loads = loads, !.sent = sent]
  <1>3. r \in Row /\ r.amount = pair[p].amount /\ r.tax = pair[p].tax /\ r.price = pair[p].price
        /\ r.rate = pair[p].rate /\ r.topUp = pair[p].topUp /\ r.state = pair[p].state
        /\ r.mined = pair[p].mined
    BY <1>1 DEF Row
  <1>4. RowOK(r) /\ (InFlight(r) => InFlight(pair[p]))
    BY <1>1, <1>3 DEF RowOK, GasFee, InFlight, ToppedUp
  <1>5. short' \subseteq Pair
    BY Completes DEF IInv, TypeOK
  <1> HIDE DEF r
  <1> QED
    BY <1>1, <1>2, <1>3, <1>4, <1>5, Onward DEF r

LEMMA Funds ==
    ASSUME IInv, NEW p \in Pair, Fund(p)
    PROVE  IInv'
  <1>1. pair \in [Pair -> Row] /\ ether \in Nat /\ bank \in Nat /\ RowOK(pair[p])
        /\ pair[p].state = "queued" /\ UNCHANGED <<tokens, spent, outdated, short>>
        /\ short \subseteq Pair
    BY DEF IInv, TypeOK, Fund
  <1> DEFINE r == [pair[p] EXCEPT !.state = "funded", !.loads = {Leg}]
  <1>2. r \in Row /\ r.amount = pair[p].amount /\ r.tax = pair[p].tax /\ r.price = pair[p].price
        /\ r.rate = pair[p].rate /\ r.topUp = pair[p].topUp /\ r.state = "funded"
        /\ r.mined = pair[p].mined
    <2>1. {Leg} \in Loads /\ "funded" \in State
      BY DEF Loads, State
    <2> QED
      BY <1>1, <2>1 DEF Row
  <1>3. RowOK(r) /\ InFlight(pair[p])
    BY <1>1, <1>2 DEF RowOK, GasFee, InFlight, ToppedUp
  <1>4. pair' = [pair EXCEPT ![p] = r]
    BY <1>1 DEF Fund, Row
  <1>5. ether' \in Nat /\ bank' \in Nat
    <2>1. pair[p].topUp \in Nat /\ CalcGasCost(EthTxGas, pair[p].at) \in Nat
      BY <1>1, FeesAssumption DEF CalcGasCost, Row, Positive
    <2> QED
      BY <1>1, <2>1 DEF Fund
  <1> HIDE DEF r
  <1> QED
    BY <1>1, <1>2, <1>3, <1>4, <1>5, Onward

\* When the balance of tokens gets less, the pairs in flight are outdated.
LEMMA Less ==
    ASSUME IInv, tokens' \in Nat, ether' \in Nat, UNCHANGED <<bank, short>>, spent' \in 0 .. MaxSpends,
           pair' \in [Pair -> Row], outdated \subseteq outdated', outdated' \subseteq Pair,
           \A q \in Pair : RowOK(pair'[q]),
           \A q \in Pair : InFlight(pair'[q]) => q \in outdated'
    PROVE  IInv'
  <1>1. TypeOK'
    BY DEF IInv, TypeOK
  <1>2. ShortByRounding'
    BY DEF ShortByRounding
  <1> QED
    BY <1>1, <1>2 DEF IInv

LEMMA Spends ==
    ASSUME IInv, Spend
    PROVE  IInv'
  <1>1. tokens \in Nat /\ ether \in Nat /\ pair \in [Pair -> Row] /\ outdated \subseteq Pair
        /\ \A q \in Pair : RowOK(pair[q])
    BY DEF IInv, TypeOK
  <1>2. tokens' \in Nat /\ ether' \in Nat
    BY <1>1, DivBounds DEF Spend, Positive
  <1>3. spent' \in 0 .. MaxSpends
    BY FeesAssumption DEF IInv, TypeOK, Spend
  <1> QED
    BY <1>1, <1>2, <1>3, Less DEF Spend

\* A transaction that is mined costs no more gas than it may.
LEMMA MinedGas ==
    ASSUME IInv, NEW p \in Pair, NEW leg \in Leg, Mine(p, leg)
    PROVE  ether' \in Nat /\ ether - GasFee(pair[p], {leg}) <= ether'
  <1> DEFINE fee == GasFee(pair[p], {leg})
  <1>1. ether \in Nat /\ fee \in Nat /\ ether >= fee
    BY GasFeeType DEF IInv, TypeOK, Mine
  <1>2. fee \div 2 \in Nat /\ fee \div 2 <= fee
    <2>1. \A x \in Nat : x \div 2 \in Nat /\ x \div 2 <= x
      OBVIOUS
    <2> QED
      BY <1>1, <2>1
  <1>3. PICK gas \in {fee \div 2, fee} : ether' = ether - gas
    BY DEF Mine
  <1> HIDE DEF fee
  <1> QED
    BY <1>1, <1>2, <1>3 DEF fee

\* Only a funded pair has transactions to be mined.
LEMMA Mines ==
    ASSUME IInv, NEW p \in Pair, NEW leg \in Leg, Mine(p, leg)
    PROVE  IInv' /\ pair[p].state = "funded"
  <1>1. tokens \in Nat /\ pair \in [Pair -> Row] /\ outdated \subseteq Pair
        /\ spent \in 0 .. MaxSpends /\ (\A q \in Pair : RowOK(pair[q])) /\ pair[p].mined \subseteq Leg
        /\ pair[p].state = "funded"
    BY DEF IInv, TypeOK, Row, RowOK, Mine
  <1> DEFINE r == [pair[p] EXCEPT !.mined = @ \cup {leg}]
  <1>2. r \in Row /\ r.amount = pair[p].amount /\ r.tax = pair[p].tax /\ r.price = pair[p].price
        /\ r.rate = pair[p].rate /\ r.topUp = pair[p].topUp /\ r.state = pair[p].state
        /\ leg \in r.mined
    BY <1>1 DEF Row
  <1>3. RowOK(r) /\ ~InFlight(r)
    BY <1>1, <1>2 DEF RowOK, GasFee, InFlight, ToppedUp
  <1>4. tokens' \in Nat
    <2>1. pair[p].amount \in Nat /\ pair[p].tax \in Nat
      BY <1>1 DEF Row
    <2> QED
      BY <1>1, <2>1 DEF Mine
  <1>5. ether' \in Nat
    BY MinedGas
  <1>6. pair' = [pair EXCEPT ![p] = r] /\ UNCHANGED <<bank, spent, short>>
        /\ outdated' = outdated \cup {q \in Pair \ {p} : InFlight(pair[q])}
    BY DEF Mine, Outdates
  <1> HIDE DEF r
  <1> QED
    BY <1>1, <1>2, <1>3, <1>4, <1>5, <1>6, Less

-----------------------------------------------------------------------------
(* Sums of gas. *)

Pick(S) == CHOOSE p \in S : TRUE

IsSum(sum, rows, S) ==
    sum = [s \in SUBSET S |-> IF s = {} THEN 0
                                        ELSE Due(rows[Pick(s)]) + sum[s \ {Pick(s)}]]

LEMMA GasDef ==
    ASSUME NEW rows, NEW S
    PROVE  Gas(rows, S) = (CHOOSE sum : IsSum(sum, rows, S))[S]
  BY Zenon DEF Gas, MapThenSumSet, MapThenFoldSet, IsSum, Pick

LEMMA SubsetInduction ==
    ASSUME NEW S, IsFiniteSet(S), NEW G,
           \A s \in SUBSET S : (\A t \in SUBSET s : t # s => t \in G) => s \in G
    PROVE  \A s \in SUBSET S : s \in G
  <1> SUFFICES ASSUME (SUBSET S) \ G # {} PROVE FALSE
    OBVIOUS
  <1> DEFINE bad == (SUBSET S) \ G
  <1>1. IsWellFoundedOn(StrictSubsetOrdering(S), SUBSET S)
    <2>1. FiniteSubsetsOf(S) = SUBSET S
      BY FS_FiniteSubsetsOfFinite
    <2>2. IsWellFoundedOn(StrictSubsetOrdering(S), FiniteSubsetsOf(S))
      BY FS_StrictSubsetOrderingWellFounded, Zenon
    <2> QED
      BY <2>1, <2>2, Zenon
  <1>2. PICK s \in bad : \A t \in bad : <<t, s>> \notin StrictSubsetOrdering(S)
    <2>1. bad \subseteq SUBSET S /\ bad # {}
      OBVIOUS
    <2> DEFINE R == StrictSubsetOrdering(S)
    <2>2. IsWellFoundedOn(R, SUBSET S)
      BY <1>1
    <2> HIDE DEF bad, R
    <2>3. \E s \in bad : \A t \in bad : ~ (<<t, s>> \in R)
      BY <2>1, <2>2, WFMin
    <2> QED
      BY <2>3 DEF R
  <1>3. \A t \in SUBSET s : t # s => t \in G
    BY <1>2 DEF StrictSubsetOrdering
  <1> QED
    BY <1>2, <1>3

\* Sums over a set and over a larger one agree.
LEMMA SumsAgree ==
    ASSUME NEW rows, NEW S, IsFiniteSet(S), NEW T, S \subseteq T,
           NEW f, IsSum(f, rows, S), NEW g, IsSum(g, rows, T)
    PROVE  \A s \in SUBSET S : f[s] = g[s]
  <1> DEFINE G == {s \in SUBSET S : f[s] = g[s]}
  <1>1. ASSUME NEW s \in SUBSET S, \A t \in SUBSET s : t # s => t \in G
        PROVE  s \in G
    <2>1. CASE s = {}
      <3>1. f[s] = 0 /\ g[s] = 0
        BY <2>1 DEF IsSum
      <3> QED
        BY <3>1
    <2>2. CASE s # {}
      <3> DEFINE x == Pick(s)
      <3>1. x \in s /\ s \ {x} \in SUBSET s /\ s \ {x} # s
        BY <2>2 DEF Pick
      <3>2. f[s \ {x}] = g[s \ {x}]
        BY <1>1, <3>1
      <3>3. f[s] = Due(rows[x]) + f[s \ {x}]
        BY <2>2 DEF IsSum
      <3>4. g[s] = Due(rows[x]) + g[s \ {x}]
        BY <2>2 DEF IsSum
      <3> QED
        BY <3>2, <3>3, <3>4
    <2> QED
      BY <2>1, <2>2
  <1>2. \A s \in SUBSET S : s \in G
    <2> HIDE DEF G
    <2> QED
      BY <1>1, SubsetInduction
  <1> QED
    BY <1>2

\* There is a sum over every finite set.
LEMMA SumExists ==
    ASSUME NEW rows, NEW S, IsFiniteSet(S)
    PROVE  \E f : IsSum(f, rows, S)
  <1> DEFINE G == {s \in SUBSET S : \E f : IsSum(f, rows, s)}
             h(s) == CHOOSE f : IsSum(f, rows, s)
  <1>1. ASSUME NEW s \in SUBSET S, \A t \in SUBSET s : t # s => t \in G
        PROVE  s \in G
    <2> DEFINE F == [t \in SUBSET s |->
                        IF t = {} THEN 0
                        ELSE Due(rows[Pick(t)]) + h(t \ {Pick(t)})[t \ {Pick(t)}]]
    <2>1. ASSUME NEW t \in SUBSET s, t # {}
          PROVE  F[t \ {Pick(t)}] = h(t \ {Pick(t)})[t \ {Pick(t)}]
      <3> DEFINE u == t \ {Pick(t)}
                 v == u \ {Pick(u)}
      <3>1. u \in SUBSET s /\ u # s /\ u \in SUBSET S /\ IsSum(h(u), rows, u) /\ IsFiniteSet(u)
        <4>1. Pick(t) \in t
          BY <2>1, Zenon DEF Pick
        <4>2. u \in SUBSET s /\ u # s /\ u \in SUBSET S
          BY <4>1
        <4>3. \E f : IsSum(f, rows, u)
          BY <1>1, <4>2
        <4>4. IsSum(h(u), rows, u)
          BY <4>3, Zenon
        <4> QED
          BY <4>2, <4>4, FS_Subset
      <3>2. CASE u = {}
        <4>1. h(u)[u] = 0
          <5> DEFINE f == h(u)
          <5>1. IsSum(f, rows, u)
            BY <3>1
          <5> HIDE DEF f
          <5>2. f[u] = 0
            <6> HIDE DEF u
            <6> QED
              BY <5>1, <3>2 DEF IsSum
          <5> QED
            BY <5>2 DEF f
        <4>2. F[u] = 0
          BY <3>1, <3>2
        <4> QED
          BY <4>1, <4>2
      <3>3. CASE u # {}
        <4>1. Pick(u) \in u
          BY <3>3, Zenon DEF Pick
        <4>2. v \in SUBSET u /\ v \in SUBSET s /\ v # s /\ IsFiniteSet(v)
          BY <3>1, <4>1, FS_Subset
        <4>3. IsSum(h(v), rows, v)
          <5>1. \E f : IsSum(f, rows, v)
            BY <1>1, <4>2
          <5> QED
            BY <5>1, Zenon
        <4>4. h(v)[v] = h(u)[v]
          <5> DEFINE f == h(v)
                     g == h(u)
          <5>1. IsSum(f, rows, v) /\ IsSum(g, rows, u) /\ v \subseteq u
            BY <3>1, <4>2, <4>3
          <5> HIDE DEF f, g, u, v
          <5>2. f[v] = g[v]
            BY <4>2, <5>1, SumsAgree
          <5> QED
            BY <5>2 DEF f, g
        <4>5. h(u)[u] = Due(rows[Pick(u)]) + h(u)[v]
          <5> DEFINE g == h(u)
          <5>1. IsSum(g, rows, u)
            BY <3>1
          <5> HIDE DEF g
          <5>2. g[u] = Due(rows[Pick(u)]) + g[v]
            <6> HIDE DEF u
            <6> QED
              BY <3>3, <5>1 DEF IsSum
          <5> QED
            BY <5>2 DEF g
        <4>6. F[u] = Due(rows[Pick(u)]) + h(v)[v]
          BY <3>1, <3>3
        <4> QED
          BY <4>4, <4>5, <4>6
      <3> QED
        BY <3>2, <3>3
    <2>2. F = [t \in SUBSET s |-> IF t = {} THEN 0
                                  ELSE Due(rows[Pick(t)]) + F[t \ {Pick(t)}]]
      <3> HIDE DEF h
      <3> QED
        BY <2>1, Zenon
    <2>3. IsSum(F, rows, s)
      BY <2>2, Zenon DEF IsSum
    <2> HIDE DEF F
    <2> QED
      BY <2>3, Zenon
  <1>2. S \in G
    <2> HIDE DEF G
    <2> QED
      BY <1>1, SubsetInduction
  <1> QED
    BY <1>2

\* The gas of no pair, and of some pairs: that of the one picked and of the rest.
LEMMA GasUnfolds ==
    ASSUME NEW rows, NEW S, IsFiniteSet(S)
    PROVE  /\ S = {} => Gas(rows, S) = 0
           /\ S # {} => Gas(rows, S) = Due(rows[Pick(S)]) + Gas(rows, S \ {Pick(S)})
  <1> DEFINE sum(s) == CHOOSE f : IsSum(f, rows, s)
             rest == S \ {Pick(S)}
             all == sum(S)
             less == sum(rest)
  <1>1. IsFiniteSet(rest) /\ rest \subseteq S
    BY FS_Subset
  <1>2. \A s : IsFiniteSet(s) => IsSum(sum(s), rows, s)
    BY SumExists, Zenon
  <1>3. IsSum(all, rows, S) /\ IsSum(less, rows, rest)
    BY <1>1, <1>2, Zenon
  <1>4. Gas(rows, S) = all[S] /\ Gas(rows, rest) = less[rest]
    BY GasDef, Zenon
  <1> HIDE DEF all, less
  <1>5. all[rest] = less[rest]
    <2> HIDE DEF rest, sum
    <2>1. IsSum(less, rows, rest)
      BY <1>3
    <2>2. IsSum(all, rows, S)
      BY <1>3
    <2>3. IsFiniteSet(rest) /\ rest \subseteq S /\ rest \in SUBSET rest
      BY <1>1
    <2>4. less[rest] = all[rest]
      BY <2>1, <2>2, <2>3, SumsAgree
    <2> QED
      BY <2>4
  <1>6. S = {} => all[S] = 0
    BY <1>3 DEF IsSum
  <1>7. S # {} => all[S] = Due(rows[Pick(S)]) + all[rest]
    BY <1>3 DEF IsSum
  <1> QED
    BY <1>4, <1>5, <1>6, <1>7

LEMMA DueType ==
    ASSUME NEW row \in Row
    PROVE  Due(row) \in Nat
  BY GasFeeType DEF Due

LEMMA GasType ==
    ASSUME NEW rows \in [Pair -> Row], NEW S \in SUBSET Pair, IsFiniteSet(S)
    PROVE  Gas(rows, S) \in Nat
  <1> DEFINE G == {s \in SUBSET S : Gas(rows, s) \in Nat}
  <1>1. ASSUME NEW s \in SUBSET S, \A t \in SUBSET s : t # s => t \in G
        PROVE  s \in G
    <2>1. IsFiniteSet(s)
      BY FS_Subset
    <2>2. CASE s = {}
      BY <2>1, <2>2, GasUnfolds
    <2>3. CASE s # {}
      <3> DEFINE x == Pick(s)
      <3>1. x \in s
        BY <2>3, Zenon DEF Pick
      <3>2. s \ {x} \in G
        BY <1>1, <3>1
      <3>3. Due(rows[x]) \in Nat
        BY <3>1, DueType
      <3>4. Gas(rows, s) = Due(rows[x]) + Gas(rows, s \ {x})
        BY <2>1, <2>3, GasUnfolds
      <3> QED
        BY <3>2, <3>3, <3>4
    <2> QED
      BY <2>2, <2>3
  <1>2. S \in G
    <2> HIDE DEF G
    <2> QED
      BY <1>1, SubsetInduction
  <1> QED
    BY <1>2

\* Whichever pair is taken out, its gas is what the sum gets less.
LEMMA GasWithout ==
    ASSUME NEW rows \in [Pair -> Row], NEW S \in SUBSET Pair, IsFiniteSet(S), NEW p \in S
    PROVE  Gas(rows, S) = Due(rows[p]) + Gas(rows, S \ {p})
  <1> DEFINE G == {s \in SUBSET S :
                      \A x \in s : Gas(rows, s) = Due(rows[x]) + Gas(rows, s \ {x})}
  <1>1. ASSUME NEW s \in SUBSET S, \A t \in SUBSET s : t # s => t \in G
        PROVE  s \in G
    <2> SUFFICES ASSUME NEW x \in s
                 PROVE  Gas(rows, s) = Due(rows[x]) + Gas(rows, s \ {x})
      OBVIOUS
    <2> DEFINE y == Pick(s)
               rest == (s \ {x}) \ {y}
    <2>1. IsFiniteSet(s) /\ y \in s
      <3>1. y \in s
        BY Zenon DEF Pick
      <3> QED
        BY <3>1, FS_Subset
    <2>2. Gas(rows, s) = Due(rows[y]) + Gas(rows, s \ {y})
      BY <2>1, GasUnfolds
    <2>3. CASE x = y
      BY <2>2, <2>3
    <2>4. CASE x # y
      <3>1. s \ {x} \in G /\ s \ {y} \in G
        BY <1>1, <2>1
      <3>2. Gas(rows, s \ {x}) = Due(rows[y]) + Gas(rows, rest)
        BY <2>1, <2>4, <3>1
      <3>3. Gas(rows, s \ {y}) = Due(rows[x]) + Gas(rows, rest)
        <4>1. (s \ {y}) \ {x} = rest
          OBVIOUS
        <4> QED
          BY <2>1, <2>4, <3>1, <4>1
      <3>4. Due(rows[x]) \in Nat /\ Due(rows[y]) \in Nat /\ Gas(rows, rest) \in Nat
        <4>1. rows[x] \in Row /\ rows[y] \in Row
          BY <2>1
        <4>2. rest \in SUBSET Pair /\ IsFiniteSet(rest)
          BY FS_Subset
        <4> QED
          BY <4>1, <4>2, DueType, GasType
      <3> HIDE DEF y, rest
      <3> QED
        BY <2>2, <3>2, <3>3, <3>4
    <2> QED
      BY <2>3, <2>4
  <1>2. S \in G
    <2> HIDE DEF G
    <2> QED
      BY <1>1, SubsetInduction
  <1> QED
    BY <1>2

\* The sum depends on the gas of the pairs summed up only.
LEMMA GasSame ==
    ASSUME NEW rows, NEW others, NEW S, IsFiniteSet(S),
           \A p \in S : Due(rows[p]) = Due(others[p])
    PROVE  Gas(rows, S) = Gas(others, S)
  <1> DEFINE G == {s \in SUBSET S : Gas(rows, s) = Gas(others, s)}
  <1>1. ASSUME NEW s \in SUBSET S, \A t \in SUBSET s : t # s => t \in G
        PROVE  s \in G
    <2>1. IsFiniteSet(s)
      BY FS_Subset
    <2>2. CASE s = {}
      BY <2>1, <2>2, GasUnfolds
    <2>3. CASE s # {}
      <3> DEFINE x == Pick(s)
      <3>1. x \in s
        BY <2>3, Zenon DEF Pick
      <3>2. Gas(rows, s \ {x}) = Gas(others, s \ {x})
        BY <1>1, <3>1
      <3>3. Gas(rows, s) = Due(rows[x]) + Gas(rows, s \ {x})
            /\ Gas(others, s) = Due(others[x]) + Gas(others, s \ {x})
        BY <2>1, <2>3, GasUnfolds
      <3> QED
        BY <3>1, <3>2, <3>3
    <2> QED
      BY <2>2, <2>3
  <1>2. S \in G
    <2> HIDE DEF G
    <2> QED
      BY <1>1, SubsetInduction
  <1> QED
    BY <1>2

-----------------------------------------------------------------------------
(* The ETH that is set aside. *)

Aside == GasIsSetAside /\ IsFiniteSet(Funded(pair))

\* What Aside says, now and after a step.
LEMMA AsideMeans ==
    /\ Aside <=> /\ spent = 0 => Gas(pair, Funded(pair)) <= ether /\ short = {}
                 /\ IsFiniteSet(Funded(pair))
    /\ Aside' <=> /\ spent' = 0 => Gas(pair', Funded(pair')) <= ether' /\ short' = {}
                  /\ IsFiniteSet(Funded(pair'))
  BY Zenon DEF Aside, GasIsSetAside

\* A step that leaves the funded pairs as they are, as far as their gas goes.
LEMMA AsideStays ==
    ASSUME Aside, Funded(pair') = Funded(pair), UNCHANGED <<ether, spent>>,
           \A p \in Funded(pair) : Due(pair'[p]) = Due(pair[p]),
           spent = 0 => short' = {}
    PROVE  Aside'
  <1>1. IsFiniteSet(Funded(pair)) /\ (spent = 0 => Gas(pair, Funded(pair)) <= ether)
    BY AsideMeans
  <1>2. Gas(pair', Funded(pair)) = Gas(pair, Funded(pair))
    BY <1>1, GasSame
  <1> QED
    BY <1>1, <1>2, AsideMeans

LEMMA CreateAside ==
    ASSUME IInv, Aside, NEW p \in Pair, CreateTransfer(p)
    PROVE  Aside'
  <1>1. pair \in [Pair -> Row] /\ pair[p].state = "none" /\ UNCHANGED <<ether, spent, short>>
        /\ (spent = 0 => short = {})
    BY AsideMeans DEF CreateTransfer, IInv, TypeOK
  <1>2. PICK r : /\ pair' = [Cleared(p) EXCEPT ![p] = r]
                 /\ r.state \in {"draft", "failed"}
    <2>1. PICK price \in Price, rate \in Rate, amount \in Amount : \E tax \in Tax(price, rate) :
              \/ pair' = [Cleared(p) EXCEPT ![p] = Draft(ToWei(amount), ToWei(tax), price, rate)]
              \/ pair' = [Cleared(p) EXCEPT ![p].state = "failed"]
      BY Zenon DEF CreateTransfer
    <2>2. PICK tax \in Tax(price, rate) :
              \/ pair' = [Cleared(p) EXCEPT ![p] = Draft(ToWei(amount), ToWei(tax), price, rate)]
              \/ pair' = [Cleared(p) EXCEPT ![p].state = "failed"]
      BY <2>1
    <2>3. CASE pair' = [Cleared(p) EXCEPT ![p] = Draft(ToWei(amount), ToWei(tax), price, rate)]
      <3>1. Draft(ToWei(amount), ToWei(tax), price, rate).state = "draft"
        BY DEF Draft, NoRow
      <3> QED
        BY <2>3, <3>1
    <2>4. CASE pair' = [Cleared(p) EXCEPT ![p].state = "failed"]
      <3>1. Cleared(p)[p] = pair[p]
        BY DEF Cleared
      <3>2. pair' = [Cleared(p) EXCEPT ![p] = [pair[p] EXCEPT !.state = "failed"]]
        BY <2>4, <3>1
      <3>3. [pair[p] EXCEPT !.state = "failed"].state = "failed"
        BY <1>1 DEF Row
      <3> QED
        BY <3>2, <3>3
    <2> QED
      BY <2>2, <2>3, <2>4
  <1>3. /\ pair'[p] = r
        /\ \A q \in Pair \ {p} :
              \/ pair'[q] = pair[q]
              \/ pair[q].state = "draft" /\ pair'[q] = [pair[q] EXCEPT !.state = "cleared"]
    BY <1>2 DEF Cleared
  <1>4. \A q \in Pair : /\ q \in Funded(pair) => pair'[q] = pair[q]
                        /\ q \in Funded(pair') => pair'[q] = pair[q]
    <2> SUFFICES ASSUME NEW q \in Pair
                 PROVE  \/ pair'[q] = pair[q]
                        \/ pair[q].state # "funded" /\ pair'[q].state # "funded"
      BY DEF Funded
    <2>1. CASE q = p
      BY <1>1, <1>2, <1>3, <2>1
    <2>2. CASE q # p /\ pair'[q] # pair[q]
      <3>1. pair[q].state = "draft" /\ pair'[q] = [pair[q] EXCEPT !.state = "cleared"]
        BY <1>3, <2>2
      <3>2. pair'[q].state = "cleared"
        BY <1>1, <3>1 DEF Row
      <3> QED
        BY <3>1, <3>2
    <2> QED
      BY <2>1, <2>2
  <1>5. Funded(pair') = Funded(pair)
    BY <1>4 DEF Funded
  <1>6. \A q \in Funded(pair) : Due(pair'[q]) = Due(pair[q])
    BY <1>4 DEF Funded
  <1> QED
    BY <1>1, <1>5, <1>6, AsideStays

\* A pair goes on, and is funded after the step if it was before.
LEMMA OnwardAside ==
    ASSUME IInv, Aside, NEW p \in Pair, NEW r \in Row,
           pair' = [pair EXCEPT ![p] = r], r.price = pair[p].price, r.mined = pair[p].mined,
           r.state = "funded" <=> pair[p].state = "funded",
           spent = 0 => short' = {}, UNCHANGED <<ether, spent>>
    PROVE  Aside'
  <1>1. \A q \in Pair : pair'[q] = IF q = p THEN r ELSE pair[q]
    BY DEF IInv, TypeOK
  <1>2. Funded(pair') = Funded(pair)
    BY <1>1 DEF Funded
  <1>3. \A q \in Funded(pair) : Due(pair'[q]) = Due(pair[q])
    BY <1>1 DEF Funded, Due, GasFee
  <1> QED
    BY <1>2, <1>3, AsideStays

LEMMA ConfirmAside ==
    ASSUME IInv, Aside, NEW p \in Pair, ConfirmTransfer(p)
    PROVE  Aside'
  <1>1. pair \in [Pair -> Row] /\ pair[p].state = "draft" /\ UNCHANGED <<ether, spent>>
        /\ (spent = 0 => short' = {})
    BY AsideMeans DEF IInv, TypeOK, ConfirmTransfer
  <1> DEFINE failed == [pair[p] EXCEPT !.state = "failed"]
             queued(price) == [pair[p] EXCEPT !.state = "queued",
                                              !.topUp = GasFee(pair[p], Leg), !.at = price]
  <1>2. CASE pair' = [pair EXCEPT ![p] = failed]
    <2>1. failed \in Row /\ failed.price = pair[p].price /\ failed.mined = pair[p].mined
          /\ failed.state = "failed"
      BY <1>1 DEF Row, State
    <2> HIDE DEF failed
    <2> QED
      BY <1>1, <1>2, <2>1, OnwardAside
  <1>3. ASSUME NEW price \in Price, pair' = [pair EXCEPT ![p] = queued(price)]
        PROVE  Aside'
    <2>1. queued(price) \in Row
      <3>1. GasFee(pair[p], Leg) \in Nat /\ price \in Nat /\ "queued" \in State
        BY <1>1, GasFeeType, FeesAssumption DEF State, Positive
      <3> QED
        BY <1>1, <3>1 DEF Row
    <2>2. queued(price).price = pair[p].price /\ queued(price).mined = pair[p].mined
          /\ queued(price).state = "queued"
      BY <1>1 DEF Row
    <2> HIDE DEF queued
    <2> QED
      BY <1>1, <1>3, <2>1, <2>2, OnwardAside
  <1> QED
    BY <1>2, <1>3 DEF ConfirmTransfer, TopUp

\* A funded pair finds the gas of all that are, its own among it.
LEMMA FindsItsGas ==
    ASSUME IInv, Aside, spent = 0, NEW p \in Pair, pair[p].state = "funded"
    PROVE  Due(pair[p]) <= ether
  <1> DEFINE S == Funded(pair)
  <1>1. pair \in [Pair -> Row] /\ ether \in Nat
    BY DEF IInv, TypeOK
  <1>2. p \in S /\ S \in SUBSET Pair /\ IsFiniteSet(S) /\ Gas(pair, S) <= ether
    BY AsideMeans DEF Funded
  <1>3. S \ {p} \in SUBSET Pair /\ IsFiniteSet(S \ {p})
    BY <1>2, FS_Subset
  <1> HIDE DEF S
  <1>4. Gas(pair, S) = Due(pair[p]) + Gas(pair, S \ {p})
    BY <1>1, <1>2, GasWithout
  <1>5. Due(pair[p]) \in Nat /\ Gas(pair, S \ {p}) \in Nat
    BY <1>1, <1>3, DueType, GasType
  <1> QED
    BY <1>1, <1>2, <1>4, <1>5

\* The gas of rows that are still to be mined is part of what is due.
LEMMA PartOfDue ==
    ASSUME NEW row \in Row, NEW rows \in SUBSET Leg, rows \cap row.mined = {}
    PROVE  GasFee(row, rows) <= Due(row)
  <1> DEFINE a == CalcGasCost(TransferGas, row.price)
             b == CalcGasCost(TaxGas, row.price)
  <1>1. a \in Nat /\ b \in Nat
    BY FeesAssumption DEF CalcGasCost, Row, Positive
  <1>2. ("transfer" \in rows => "transfer" \in Leg \ row.mined)
        /\ ("tax" \in rows => "tax" \in Leg \ row.mined)
    BY DEF Leg
  <1>3. GasFee(row, rows) = (IF "transfer" \in rows THEN a ELSE 0) + (IF "tax" \in rows THEN b ELSE 0)
    BY DEF GasFee
  <1>4. Due(row) = (IF "transfer" \in Leg \ row.mined THEN a ELSE 0)
                       + (IF "tax" \in Leg \ row.mined THEN b ELSE 0)
    BY DEF Due, GasFee
  <1> HIDE DEF a, b
  <1> QED
    BY <1>1, <1>2, <1>3, <1>4

\* A call that fails the rows for the want of ETH compares rows that are mined.
LEMMA CompleteAside ==
    ASSUME IInv, Aside, NEW p \in Pair, CompleteTransfers(p)
    PROVE  Aside'
  <1>1. pair \in [Pair -> Row] /\ ether \in Nat /\ pair[p].state = "funded"
        /\ UNCHANGED <<ether, spent>>
    BY Completes DEF IInv, TypeOK
  <1>2. PICK loads \in Loads, sent \in SUBSET Leg :
            pair' = [pair EXCEPT ![p] = [pair[p] EXCEPT !.loads = loads, !.sent = sent]]
    BY Completes
  <1> DEFINE r == [pair[p] EXCEPT !.loads = loads, !.sent = sent]
  <1>3. r \in Row /\ r.price = pair[p].price /\ r.state = pair[p].state /\ r.mined = pair[p].mined
    BY <1>1 DEF Row
  <1>4. ASSUME spent = 0
        PROVE  short' = {}
    <2>1. short = {}
      BY <1>4, AsideMeans
    <2>2. ASSUME NEW rows \in SUBSET Leg, ether < GasFee(pair[p], rows),
                 rows \cap pair[p].mined = {}
          PROVE  FALSE
      <3>1. GasFee(pair[p], rows) <= Due(pair[p]) /\ Due(pair[p]) <= ether
        BY <1>1, <1>4, <2>2, PartOfDue, FindsItsGas
      <3>2. GasFee(pair[p], rows) \in Nat /\ Due(pair[p]) \in Nat
        BY <1>1, GasFeeType, DueType
      <3> QED
        BY <1>1, <2>2, <3>1, <3>2
    <2> QED
      BY <2>1, <2>2, Completes
  <1> HIDE DEF r
  <1> QED
    BY <1>1, <1>2, <1>3, <1>4, OnwardAside DEF r

\* The top-up is the gas of the pair that joins the funded ones.
LEMMA FundsAside ==
    ASSUME IInv, Aside, NEW p \in Pair, Fund(p)
    PROVE  Aside'
  <1> DEFINE S == Funded(pair)
             r == [pair[p] EXCEPT !.state = "funded", !.loads = {Leg}]
  <1>1. pair \in [Pair -> Row] /\ ether \in Nat /\ pair[p].state = "queued"
        /\ UNCHANGED <<spent, short>> /\ ether' = ether + pair[p].topUp
        /\ pair' = [pair EXCEPT ![p] = r]
    BY DEF IInv, TypeOK, Fund, Row
  <1>2. pair[p].topUp = GasFee(pair[p], Leg) /\ pair[p].mined = {}
    BY <1>1 DEF IInv, RowOK, ToppedUp
  <1>3. pair'[p] = r /\ r.state = "funded" /\ r.price = pair[p].price /\ r.mined = {}
        /\ \A q \in Pair \ {p} : pair'[q] = pair[q]
    BY <1>1, <1>2 DEF Row
  <1>4. p \notin S /\ S \in SUBSET Pair /\ IsFiniteSet(S)
        /\ (spent = 0 => Gas(pair, S) <= ether /\ short = {})
    BY <1>1, AsideMeans DEF Funded
  <1>5. Funded(pair') = S \cup {p}
    BY <1>1, <1>3 DEF Funded
  <1>6. IsFiniteSet(S \cup {p}) /\ S \cup {p} \in SUBSET Pair /\ (S \cup {p}) \ {p} = S
    BY <1>4, FS_AddElement
  <1>7. pair' \in [Pair -> Row]
    BY Funds DEF IInv, TypeOK
  <1> HIDE DEF S, r
  <1>8. Gas(pair', S \cup {p}) = Due(pair'[p]) + Gas(pair', S)
    <2>1. Gas(pair', S \cup {p}) = Due(pair'[p]) + Gas(pair', (S \cup {p}) \ {p})
      BY <1>6, <1>7, GasWithout
    <2> QED
      BY <1>6, <2>1
  <1>9. Gas(pair', S) = Gas(pair, S)
    <2>1. \A q \in S : Due(pair'[q]) = Due(pair[q])
      BY <1>3, <1>4
    <2> QED
      BY <1>4, <2>1, GasSame
  <1>10. Due(pair'[p]) = GasFee(pair[p], Leg)
    <2>1. Leg \ pair'[p].mined = Leg
      BY <1>3
    <2> QED
      BY <1>3, <2>1 DEF Due, GasFee
  <1>11. GasFee(pair[p], Leg) \in Nat /\ Gas(pair, S) \in Nat
    BY <1>1, <1>4, GasFeeType, GasType
  <1>12. spent' = 0 => Gas(pair', Funded(pair')) <= ether' /\ short' = {}
    <2>1. Gas(pair', Funded(pair')) = GasFee(pair[p], Leg) + Gas(pair, S)
      BY <1>5, <1>8, <1>9, <1>10
    <2>2. ether' = ether + GasFee(pair[p], Leg)
          /\ (spent' = 0 => Gas(pair, S) <= ether /\ short' = {})
      BY <1>1, <1>2, <1>4
    <2> QED
      BY <1>1, <1>11, <2>1, <2>2
  <1>13. IsFiniteSet(Funded(pair'))
    BY <1>5, <1>6
  <1> QED
    BY <1>12, <1>13, AsideMeans

\* A mined transaction has paid for no more gas than its own.
LEMMA MinesAside ==
    ASSUME IInv, Aside, NEW p \in Pair, NEW leg \in Leg, Mine(p, leg)
    PROVE  Aside'
  <1> DEFINE S == Funded(pair)
             r == [pair[p] EXCEPT !.mined = @ \cup {leg}]
             fee == GasFee(pair[p], {leg})
  <1>1. pair \in [Pair -> Row] /\ ether \in Nat /\ UNCHANGED <<spent, short>>
        /\ pair' = [pair EXCEPT ![p] = r] /\ leg \notin pair[p].mined
    BY DEF IInv, TypeOK, Mine
  <1>2. pair[p].state = "funded" /\ pair' \in [Pair -> Row]
    BY Mines DEF IInv, TypeOK
  <1>3. pair'[p] = r /\ r.state = "funded" /\ r.price = pair[p].price
        /\ r.mined = pair[p].mined \cup {leg} /\ \A q \in Pair \ {p} : pair'[q] = pair[q]
    BY <1>1, <1>2 DEF Row
  <1>4. p \in S /\ S \in SUBSET Pair /\ IsFiniteSet(S)
        /\ (spent = 0 => Gas(pair, S) <= ether /\ short = {})
    BY <1>2, AsideMeans DEF Funded
  <1>5. Funded(pair') = S
    BY <1>2, <1>3 DEF Funded
  <1>6. S \ {p} \in SUBSET Pair /\ IsFiniteSet(S \ {p})
    BY <1>4, FS_Subset
  <1>7. ether' \in Nat /\ ether - fee <= ether'
    BY MinedGas
  <1>8. Due(pair[p]) = fee + Due(pair'[p])
    <2> DEFINE a == CalcGasCost(TransferGas, pair[p].price)
               b == CalcGasCost(TaxGas, pair[p].price)
    <2>1. a \in Nat /\ b \in Nat
      BY <1>1, FeesAssumption DEF CalcGasCost, Row, Positive
    <2>2. Due(pair[p]) = (IF "transfer" \in Leg \ pair[p].mined THEN a ELSE 0)
                             + (IF "tax" \in Leg \ pair[p].mined THEN b ELSE 0)
      BY DEF Due, GasFee
    <2>3. Due(pair'[p]) = (IF "transfer" \in Leg \ r.mined THEN a ELSE 0)
                              + (IF "tax" \in Leg \ r.mined THEN b ELSE 0)
      BY <1>3 DEF Due, GasFee
    <2>4. fee = (IF "transfer" = leg THEN a ELSE 0) + (IF "tax" = leg THEN b ELSE 0)
      BY DEF GasFee
    <2> HIDE DEF a, b, r, fee
    <2> QED
      BY <1>1, <1>3, <2>1, <2>2, <2>3, <2>4 DEF Leg
  <1> HIDE DEF S, r
  <1>9. Gas(pair, S) = Due(pair[p]) + Gas(pair, S \ {p})
    BY <1>1, <1>4, GasWithout
  <1>10. Gas(pair', S) = Due(pair'[p]) + Gas(pair', S \ {p})
    BY <1>2, <1>4, GasWithout
  <1>11. Gas(pair', S \ {p}) = Gas(pair, S \ {p})
    <2>1. \A q \in S \ {p} : Due(pair'[q]) = Due(pair[q])
      BY <1>3, <1>4
    <2> QED
      BY <1>6, <2>1, GasSame
  <1>12. fee \in Nat /\ Gas(pair, S \ {p}) \in Nat /\ Due(pair'[p]) \in Nat
    <2>1. pair'[p] \in Row
      BY <1>2
    <2> QED
      BY <1>1, <1>6, <2>1, GasFeeType, GasType, DueType
  <1> HIDE DEF fee
  <1>13. spent' = 0 => Gas(pair', Funded(pair')) <= ether' /\ short' = {}
    BY <1>1, <1>4, <1>5, <1>7, <1>8, <1>9, <1>10, <1>11, <1>12
  <1> QED
    BY <1>4, <1>5, <1>13, AsideMeans

LEMMA SpendsAside ==
    ASSUME IInv, Aside, Spend
    PROVE  Aside'
  <1>1. spent \in Nat /\ spent' = spent + 1 /\ pair' = pair
    BY FeesAssumption DEF IInv, TypeOK, Spend
  <1> QED
    BY <1>1, AsideMeans

LEMMA InitiallyAside ==
    ASSUME Init
    PROVE  Aside
  <1>1. pair = [p \in Pair |-> NoRow] /\ ether \in Nat /\ NoRow.state = "none" /\ short = {}
    BY FeesAssumption DEF Init, NoRow
  <1>2. Funded(pair) = {}
    BY <1>1 DEF Funded
  <1>3. IsFiniteSet(Funded(pair)) /\ Gas(pair, Funded(pair)) = 0
    BY <1>2, FS_EmptySet, GasUnfolds
  <1> QED
    BY <1>1, <1>3, AsideMeans

-----------------------------------------------------------------------------
(* Theorems. *)

\* The inductive invariant holds, for any pairs, prices, rates and balances.
THEOREM Invariance == Spec => []IInv
  <1>1. IInv /\ [Next]_vars => IInv'
    <2> SUFFICES ASSUME IInv, [Next]_vars PROVE IInv'
      OBVIOUS
    <2>1. CASE UNCHANGED vars
      BY <2>1 DEF vars, IInv, TypeOK, ShortByRounding, NearlyCovered
    <2>2. CASE Next
      BY <2>2, Create, Confirm, Complete, Funds, Mines, Spends DEF Next
    <2> QED
      BY <2>1, <2>2
  <1> QED
    BY <1>1, Initially, PTL DEF Spec

\* The check of the balance is right up to the rounding of floats: manager.go says
\* "ensure user has enough tokens to complete the transfer".
THEOREM ChecksCover == Spec => []ShortByRounding
  <1>1. IInv => ShortByRounding
    BY DEF IInv
  <1> QED
    BY <1>1, Invariance, PTL

\* The service loses by a pair only if the gas price has risen since it was made.
THEOREM TaxPays == Spec => []LossNeedsHigherPrice
  <1>1. IInv => LossNeedsHigherPrice
    <2> SUFFICES ASSUME IInv, NEW p \in Pair, ToppedUp(pair[p]), pair[p].at <= pair[p].price
                 PROVE  (pair[p].topUp + CalcGasCost(EthTxGas, pair[p].at)) * pair[p].rate * Whole
                            <= pair[p].tax * Fine * Lost
      BY DEF LossNeedsHigherPrice
    <2> DEFINE due == pair[p].rate * Whole
               paid == pair[p].topUp + CalcGasCost(EthTxGas, pair[p].at)
               gas == CalcGasCost(estimateTotalGasLimit, pair[p].price)
    <2>1. pair[p] \in Row /\ RowOK(pair[p])
      BY DEF IInv, TypeOK
    <2>2. pair[p].topUp = GasFee(pair[p], Leg) /\ gas * pair[p].rate * Whole <= pair[p].tax * Fine * Lost
      BY <2>1 DEF RowOK
    <2>3. /\ pair[p].price \in Nat /\ pair[p].rate \in Nat /\ pair[p].at \in Nat
          /\ TransferGas \in Nat /\ TaxGas \in Nat /\ EthTxGas \in Nat /\ Whole \in Nat
      BY <2>1, FeesAssumption DEF Row, Positive
    <2>4. EthTxGas * pair[p].at <= EthTxGas * pair[p].price
      BY <2>3, MulMono
    <2>5. paid \in Nat /\ gas \in Nat /\ due \in Nat /\ paid <= gas
      BY <2>2, <2>3, <2>4 DEF GasFee, Leg, CalcGasCost, estimateTotalGasLimit
    <2>6. paid * pair[p].rate * Whole = paid * due /\ gas * pair[p].rate * Whole = gas * due
      <3> HIDE DEF paid, gas
      <3> QED
        BY <2>3, <2>5
    <2>7. paid * due <= gas * due
      <3> HIDE DEF paid, gas, due
      <3> QED
        BY <2>5, MulMono
    <2>8. pair[p].tax * Fine * Lost \in Nat
      BY <2>1, FeesAssumption DEF Row, Positive
    <2> HIDE DEF paid, gas, due
    <2>9. paid * due \in Nat /\ gas * due \in Nat
      BY <2>5
    <2> QED
      BY <2>2, <2>6, <2>7, <2>8, <2>9 DEF paid
  <1> QED
    BY <1>1, Invariance, PTL

\* The ETH for the gas of the funded pairs is there until they are mined, however
\* the top-ups, the pairs and the calls for one top-up overlap: CompleteTransfers
\* compares the balance with the gas of one pair only, and fails rows for the want of
\* ETH, unless the user has spent some, only after another call has got them mined.
THEOREM FundsAreSetAside == Spec => []GasIsSetAside
  <1>1. Init => IInv /\ Aside
    BY Initially, InitiallyAside
  <1>2. IInv /\ Aside /\ [Next]_vars => Aside'
    <2> SUFFICES ASSUME IInv, Aside, [Next]_vars PROVE Aside'
      OBVIOUS
    <2>1. CASE UNCHANGED vars
      <3>1. pair' = pair /\ UNCHANGED <<ether, spent, short>>
        BY <2>1 DEF vars
      <3> QED
        BY <3>1, AsideMeans
    <2>2. CASE Next
      BY <2>2, CreateAside, ConfirmAside, CompleteAside, FundsAside, MinesAside, SpendsAside DEF Next
    <2> QED
      BY <2>1, <2>2
  <1>3. Aside => GasIsSetAside
    BY DEF Aside
  <1> QED
    BY <1>1, <1>2, <1>3, Invariance, PTL DEF Spec
=============================================================================
