--------------------------- MODULE NotificationFeed ---------------------------
(***************************************************************************)
(* What the notifier promises, whatever its goroutines do.  A completed    *)
(* transaction is published once to its receiver and then once to its      *)
(* sender.  A subscription gets what was published to its client while it  *)
(* was subscribed, in that order and without gaps, until it ends: what is  *)
(* left then may be lost.                                                  *)
(***************************************************************************)
EXTENDS Sequences

CONSTANTS
    Client,   \* wallet addresses, in lower case
    Sub,      \* subscriptions: one per websocket connection
    Message,  \* completed transactions to tell clients about
    ClientOf, \* the client of each subscription
    To, From  \* the clients each message is about

VARIABLES
    published,    \* <<message, side>> that subscriptions have been given
    subscription, \* "new", "on" or "off"
    queue,        \* published to the subscription and not yet delivered
    got           \* delivered to the subscription, the latest last

feedVars == <<published, subscription, queue, got>>

\* The client on a side of a message.
Party(m, side) == IF side = "to" THEN To[m] ELSE From[m]

FeedInit ==
    /\ published = {}
    /\ subscription = [s \in Sub |-> "new"]
    /\ queue = [s \in Sub |-> <<>>]
    /\ got = [s \in Sub |-> <<>>]

Join(s) ==
    /\ subscription[s] = "new"
    /\ subscription' = [subscription EXCEPT ![s] = "on"]
    /\ UNCHANGED <<published, queue, got>>

Publish(m, side) ==
    /\ <<m, side>> \notin published
    /\ side = "from" => <<m, "to">> \in published
    /\ published' = published \cup {<<m, side>>}
    /\ queue' = [s \in Sub |->
          IF subscription[s] = "on" /\ ClientOf[s] = Party(m, side)
          THEN Append(queue[s], m) ELSE queue[s]]
    /\ UNCHANGED <<subscription, got>>

Deliver(s) ==
    /\ queue[s] # <<>>
    /\ got' = [got EXCEPT ![s] = Append(@, Head(queue[s]))]
    /\ queue' = [queue EXCEPT ![s] = Tail(@)]
    /\ UNCHANGED <<published, subscription>>

\* The subscription ends; what it has not got may be lost now or later.
Leave(s) ==
    /\ subscription' = [subscription EXCEPT ![s] = "off"]
    /\ \/ subscription[s] = "on" /\ UNCHANGED queue
       \/ subscription[s] # "new" /\ queue' = [queue EXCEPT ![s] = <<>>]
    /\ UNCHANGED <<published, got>>

FeedNext ==
    \/ \E s \in Sub : Join(s) \/ Deliver(s) \/ Leave(s)
    \/ \E m \in Message, side \in {"to", "from"} : Publish(m, side)

FeedSpec == FeedInit /\ [][FeedNext]_feedVars
=============================================================================
