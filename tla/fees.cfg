\* Two pairs of one wallet, with prices, rates and balances at which the
\* roundings show.
CONSTANTS
    Pair = {p, q}
    Price = {2, 3}
    Rate = {2}
    Amount = {6}
    TransferGas = 3
    TaxGas = 3
    EthTxGas = 2
    Surcharge = 1
    Whole = 4
    Lost = 3
    Fine = 2
    Precision = 32
    Tokens = {27, 60}
    Ether = {0}
    Bank = {40}
    MaxSpends = 1
SYMMETRY Pairs
SPECIFICATION Spec
INVARIANTS
    IInv
    LossNeedsHigherPrice
    ShortByRounding
    GasIsSetAside
\* Two pairs are all the clients make: when both have failed or are mined and the
\* user has spent, nothing more can happen. The pairs are interchangeable.
CHECK_DEADLOCK FALSE
