----------------------------- MODULE WalletCache -----------------------------
(***************************************************************************)
(* The wallets table and the cache of scrapper.Manager that answers for    *)
(* both parties of a transaction whether one of them is a known wallet.    *)
(* An entry is kept for both answers and expires.                          *)
(*                                                                         *)
(* The table compares addresses in lower case; the keys of the cache are   *)
(* addresses as they are spelt: by the client when it registers, with a    *)
(* checksum in upper and lower case when they come from the chain.         *)
(***************************************************************************)
CONSTANTS
    Address,  \* addresses as they may be spelt
    Account   \* the spelling with a checksum of each

ASSUME AccountAssumption ==
    /\ Account \in [Address -> Address]
    /\ \A a \in Address : Account[Account[a]] = Account[a]

VARIABLES
    wallets,     \* the table: addresses as they were registered
    cache,       \* what the cache says of an address
    registering  \* calls of CreateWallet between the INSERT and the cache

walletVars == <<wallets, cache, registering>>

WalletTypeOK ==
    /\ wallets \subseteq Address
    /\ cache \in [Address -> {"unknown", "yes", "no"}]
    /\ registering \subseteq wallets

WalletInit ==
    /\ wallets = {}
    /\ cache = [a \in Address |-> "unknown"]
    /\ registering = {}

\* The INSERT of CreateWallet; the index on the address refuses a second one.
CreateWallet(a) ==
    /\ a \notin wallets
    /\ wallets' = wallets \cup {a}
    /\ registering' = registering \cup {a}
    /\ UNCHANGED cache

RegisterWallet(a) ==
    /\ a \in registering
    /\ cache' = [cache EXCEPT ![a] = "yes"]
    /\ registering' = registering \ {a}
    /\ UNCHANGED wallets

Expire(a) ==
    /\ cache[a] # "unknown"
    /\ cache' = [cache EXCEPT ![a] = "unknown"]
    /\ UNCHANGED <<wallets, registering>>

\* Mutant: one entry is enough.
EitherCached(from, to) == cache[from] # "unknown" \/ cache[to] # "unknown"

\* The cache answers only if it knows both. The code asks for one entry and then for
\* the other: what becomes of the first in between is left out.
BothCached(from, to) == cache[from] # "unknown" /\ cache[to] # "unknown"

CachedAnswer(from, to) == "yes" \in {cache[from], cache[to]}

\* LIMIT 1: the row of one of the parties, whichever comes first.
ExistingWallet(from, to) ==
    {w \in wallets : Account[w] \in {Account[from], Account[to]}}

\* What IsWalletExist stores: the row that was found, and "no" for one party
\* that is not spelt like it, which may be registered just as well.
Remember(from, to, found) ==
    LET absent == IF found = {} THEN {from, to} ELSE IF from \in found THEN {to} ELSE {from}
    IN  cache' = [a \in Address |-> IF a \in found THEN "yes"
                                    ELSE IF a \in absent THEN "no"
                                    ELSE cache[a]]

\* A "yes" is never wrong: it comes from the table or from a registration.
YesIsRegistered == \A a \in Address : cache[a] = "yes" => a \in wallets
=============================================================================
