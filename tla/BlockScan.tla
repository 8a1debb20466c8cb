------------------------------ MODULE BlockScan ------------------------------
(***************************************************************************)
(* Which blocks a scraper looks at.  Its start asks for the newest block   *)
(* and lets a goroutine go down from there: extractOldTransactions block   *)
(* by block, extractOldEvents in packets of PacketSize.  Later a           *)
(* subscription tells of new blocks, which wait in it until the loop of    *)
(* Listen takes them.  Block numbers are unsigned words.                   *)
(*                                                                         *)
(* The two scrapers share nothing but the chain: a behaviour is that of    *)
(* either of them.                                                         *)
(***************************************************************************)
EXTENDS Integers

CONSTANTS
    Word,        \* 2^w: the code has 2^64
    MaxHead,     \* bound: the newest block there will be
    PacketSize   \* of the configuration, which refuses 0

ASSUME ScanAssumption ==
    /\ Word \in Nat /\ MaxHead \in 1 .. Word - 1
    /\ PacketSize \in 1 .. Word - 1

Block == 0 .. MaxHead

VARIABLES
    scraper,     \* which of the two
    started,
    head,        \* the newest block
    end,         \* the block the scan has begun at
    next,        \* what the loop of the scan counts down
    wrapped,     \* the scan of transactions has passed block 0
    subscribed,
    tried,       \* blocks asked for since the start, whatever came of it
    waiting,     \* blocks the subscription has told of and Listen has not taken
    missed       \* history: later blocks that no subscription has told of, or that
                 \* were dropped with one

scanVars == <<scraper, started, head, end, next, wrapped, subscribed, tried, waiting, missed>>

ScanTypeOK ==
    /\ scraper \in {"events", "txes"}
    /\ started \in BOOLEAN
    /\ head \in 1 .. MaxHead
    /\ end \in Block
    /\ next \in 0 .. Word - 1
    /\ wrapped \in BOOLEAN
    /\ subscribed \in BOOLEAN
    /\ tried \subseteq Block /\ waiting \subseteq Block /\ missed \subseteq Block

\* The chain has a block after block 0: the scan of events, which asks for nothing
\* when the newest block is block 0, is not begun on an empty chain.
ScanInit ==
    /\ scraper \in {"events", "txes"}
    /\ started = FALSE
    /\ head \in 1 .. MaxHead
    /\ end = 0 /\ next = 0 /\ wrapped = FALSE
    /\ subscribed = FALSE
    /\ tried = {} /\ waiting = {} /\ missed = {}

-----------------------------------------------------------------------------

\* The node tells a subscription of it, if there is one.
NewBlock ==
    /\ head < MaxHead
    /\ head' = head + 1
    /\ \/ subscribed /\ waiting' = waiting \cup {head'} /\ UNCHANGED missed
       \/ /\ ~subscribed
          /\ missed' = IF started THEN missed \cup {head'} ELSE missed
          /\ UNCHANGED waiting
    /\ UNCHANGED <<scraper, started, end, next, wrapped, subscribed, tried>>

Start ==
    /\ ~started
    /\ started' = TRUE
    /\ end' = head /\ next' = head
    /\ UNCHANGED <<scraper, head, wrapped, subscribed, tried, waiting, missed>>

\* Listen, in a round of scrappersListen: it does not ask for older blocks.
Subscribe ==
    /\ started /\ ~subscribed
    /\ subscribed' = TRUE
    /\ UNCHANGED <<scraper, started, head, end, next, wrapped, tried, waiting, missed>>

\* Listen takes what it was told of in order: a header, or the last event of a
\* block. The error of BlockByHash is logged. A handler that hangs takes no more.
HandleBlock ==
    /\ subscribed
    /\ \E b \in waiting :
          /\ \A c \in waiting : b <= c
          /\ tried' = tried \cup {b} /\ waiting' = waiting \ {b}
    /\ UNCHANGED <<scraper, started, head, end, next, wrapped, subscribed, missed>>

\* The connection breaks, or the timer closes it. What waited in the subscription
\* is lost, although a handler at work may still finish its block.
Disconnect ==
    /\ subscribed
    /\ subscribed' = FALSE
    /\ missed' = missed \cup waiting /\ waiting' = {}
    /\ UNCHANGED <<scraper, started, head, end, next, wrapped, tried>>

\* Mutant: the loop ends before block 0.
ReadOldBlockAboveZero ==
    /\ scraper = "txes" /\ started /\ next > 0
    /\ tried' = tried \cup ({next} \cap 0 .. head)
    /\ next' = next - 1
    /\ wrapped' = (wrapped \/ next = 1)
    /\ UNCHANGED <<scraper, started, head, end, subscribed, waiting, missed>>

\* The condition i >= 0 holds for every unsigned number: the loop does not end.
\* A block that the node does not return is passed over.
ReadOldBlock ==
    /\ scraper = "txes" /\ started
    /\ tried' = tried \cup ({next} \cap 0 .. head)
    /\ next' = (next + Word - 1) % Word
    /\ wrapped' = (wrapped \/ next = 0)
    /\ UNCHANGED <<scraper, started, head, end, subscribed, waiting, missed>>

\* Mutant: does not notice that the difference has wrapped around.
PacketStartUnchecked(n) == (n + Word - PacketSize) % Word

\* "uint64 < 0": the difference wraps around when it would be negative.
PacketStart(n) ==
    LET start == (n + Word - PacketSize) % Word IN IF start > n THEN 0 ELSE start

\* Mutant: a packet that fails is asked for again.
ReadPacketUntilItWorks ==
    /\ scraper = "events" /\ started /\ next > 0
    /\ tried' = tried \cup (PacketStart(next) .. next)
    /\ next' \in {PacketStart(next), next}
    /\ UNCHANGED <<scraper, started, head, end, wrapped, subscribed, waiting, missed>>

\* Both ends belong to a packet. One that fails is passed over.
ReadPacket ==
    /\ scraper = "events" /\ started /\ next > 0
    /\ tried' = tried \cup (PacketStart(next) .. next)
    /\ next' = PacketStart(next)
    /\ UNCHANGED <<scraper, started, head, end, wrapped, subscribed, waiting, missed>>

Scan == Start \/ Subscribe \/ HandleBlock \/ Disconnect \/ ReadOldBlock \/ ReadPacket

\* Nothing is kept of how far a scan has come.
ScanRestarts ==
    /\ started' = FALSE /\ subscribed' = FALSE /\ wrapped' = FALSE
    /\ end' = 0 /\ next' = 0
    /\ tried' = {} /\ waiting' = {} /\ missed' = {}
    /\ UNCHANGED <<scraper, head>>

-----------------------------------------------------------------------------
(* Properties *)

\* The scan has still to come to this block.
Ahead(b) == b <= next /\ IF scraper = "txes" THEN ~wrapped ELSE next > 0

\* A start makes up for everything that went before, block 0 and the borders of
\* packets included, and for what an earlier run of the service has missed. A block
\* that appears later is asked for or still waits in the subscription, unless it
\* appeared while there was none or was dropped with the one that told of it: a
\* reconnect by the timer or a handler that hangs loses blocks for good.
NothingIsForgotten ==
    started => /\ \A b \in 0 .. end : b \in tried \/ Ahead(b)
               /\ \A b \in end + 1 .. head : b \in tried \cup waiting \cup missed

\* A packet begins below its end, wherever that is: the loop over packets ends.
PacketsDescend ==
    [][scraper = "events" /\ started /\ started' /\ next' # next => next' < next]_scanVars
=============================================================================
