------------------------------- MODULE Notifier -------------------------------
(***************************************************************************)
(* app/notifier/manager.go: one hub goroutine (Start) owns the table of    *)
(* subscriptions; every subscription has a reader and a writer on its      *)
(* websocket connection.  The goroutines that notify clients are those of  *)
(* the scrapers (NotifyClients, two notifications per transaction).        *)
(*                                                                         *)
(* All channels are unbuffered: a send and its receive are one step, and   *)
(* whoever comes first waits.  A step that takes two parties is named      *)
(* after what the hub does.                                                *)
(***************************************************************************)
EXTENDS Sequences

CONSTANTS
    Client,     \* wallet addresses, in lower case
    Sub,        \* subscriptions a client may open
    Message,    \* bound: completed transactions, each handled once
    ClientOf,   \* the client of each subscription
    To, From,   \* the clients each message is about
    Caller,     \* goroutines of the scrapers that call NotifyClients
    NoMessage,  \* not a message
    Faults      \* {"disconnect"} if connections may break

ASSUME NotifierAssumption ==
    /\ ClientOf \in [Sub -> Client]
    /\ To \in [Message -> Client]
    /\ From \in [Message -> Client]
    /\ NoMessage \notin Message
    /\ Faults \subseteq {"disconnect"}

VARIABLES
    conn,     \* the websocket connection of each subscription
    clients,  \* the subscriptions in the hub's table
    closed,   \* subscriptions whose channel send is closed
    reader,   \* first the handler of the request, then the goroutine read
    writer,   \* the goroutine write, with the message it is writing
    hub,      \* the goroutine Start: its message and who is still to get it
    caller,   \* the goroutines that notify
    handled,  \* messages that a caller has taken up
    got       \* messages written to each connection, the latest last

vars == <<conn, clients, closed, reader, writer, hub, caller, handled, got>>

Idle == [pc |-> "idle", msg |-> NoMessage]
Select == [pc |-> "select", msg |-> NoMessage, todo |-> {}]

ReaderState == {"idle", "register", "read", "unregister", "close", "end"}
WriterState ==
    [pc : {"idle", "select", "write", "close", "end"}, msg : Message \cup {NoMessage}]
HubState ==
    [pc : {"select", "send"}, msg : Message \cup {NoMessage}, todo : SUBSET Sub]
CallerState == [pc : {"idle", "to", "from"}, msg : Message \cup {NoMessage}]

TypeOK ==
    /\ conn \in [Sub -> {"none", "open", "broken", "closed"}]
    /\ clients \subseteq Sub
    /\ closed \subseteq Sub
    /\ reader \in [Sub -> ReaderState]
    /\ writer \in [Sub -> WriterState]
    /\ hub \in HubState
    /\ caller \in [Caller -> CallerState]
    /\ handled \subseteq Message
    /\ got \in [Sub -> Seq(Message)]

Init ==
    /\ conn = [s \in Sub |-> "none"]
    /\ clients = {}
    /\ closed = {}
    /\ reader = [s \in Sub |-> "idle"]
    /\ writer = [s \in Sub |-> Idle]
    /\ hub = Select
    /\ caller = [c \in Caller |-> Idle]
    /\ handled = {}
    /\ got = [s \in Sub |-> <<>>]

-----------------------------------------------------------------------------
(* Subscriptions *)

\* The connection is upgraded, and the handler waits for the hub.
Subscribe(s) ==
    /\ reader[s] = "idle"
    /\ conn' = [conn EXCEPT ![s] = "open"]
    /\ reader' = [reader EXCEPT ![s] = "register"]
    /\ UNCHANGED <<clients, closed, writer, hub, caller, handled, got>>

\* Mutant: starts no writer.
RegisterReader(s) ==
    /\ hub.pc = "select" /\ reader[s] = "register"
    /\ clients' = clients \cup {s}
    /\ reader' = [reader EXCEPT ![s] = "read"]
    /\ UNCHANGED <<conn, closed, writer, hub, caller, handled, got>>

Register(s) ==
    /\ hub.pc = "select" /\ reader[s] = "register"
    /\ clients' = clients \cup {s}
    /\ reader' = [reader EXCEPT ![s] = "read"]
    /\ writer' = [writer EXCEPT ![s].pc = "select"]
    /\ UNCHANGED <<conn, closed, hub, caller, handled, got>>

\* The peer is gone: writes may still seem to succeed for a while.
Disconnect(s) ==
    /\ "disconnect" \in Faults /\ conn[s] = "open"
    /\ conn' = [conn EXCEPT ![s] = "broken"]
    /\ UNCHANGED <<clients, closed, reader, writer, hub, caller, handled, got>>

\* Mutant: does not unsubscribe.
ReadFailsSilently(s) ==
    /\ reader[s] = "read" /\ conn[s] # "open"
    /\ reader' = [reader EXCEPT ![s] = "close"]
    /\ UNCHANGED <<conn, clients, closed, writer, hub, caller, handled, got>>

\* No pong within pongWait, or an error at once.
ReadFails(s) ==
    /\ reader[s] = "read" /\ conn[s] # "open"
    /\ reader' = [reader EXCEPT ![s] = "unregister"]
    /\ UNCHANGED <<conn, clients, closed, writer, hub, caller, handled, got>>

\* Mutant: closes the channel and keeps the subscription.
UnregisterKeeps(s) ==
    /\ hub.pc = "select" /\ reader[s] = "unregister"
    /\ closed' = closed \cup (clients \cap {s})
    /\ reader' = [reader EXCEPT ![s] = "close"]
    /\ UNCHANGED <<conn, clients, writer, hub, caller, handled, got>>

Unregister(s) ==
    /\ hub.pc = "select" /\ reader[s] = "unregister"
    /\ clients' = clients \ {s}
    /\ closed' = closed \cup (clients \cap {s})
    /\ reader' = [reader EXCEPT ![s] = "close"]
    /\ UNCHANGED <<conn, writer, hub, caller, handled, got>>

ReaderCloses(s) ==
    /\ reader[s] = "close"
    /\ reader' = [reader EXCEPT ![s] = "end"]
    /\ conn' = [conn EXCEPT ![s] = "closed"]
    /\ UNCHANGED <<clients, closed, writer, hub, caller, handled, got>>

WriterIs(s, pc) == writer' = [writer EXCEPT ![s] = [pc |-> pc, msg |-> NoMessage]]

\* An error ends the writer; the hub and the reader do not hear of it.
Write(s) ==
    /\ writer[s].pc = "write"
    /\ \/ /\ conn[s] # "closed"
          /\ got' = [got EXCEPT ![s] = Append(@, writer[s].msg)]
          /\ WriterIs(s, "select")
       \/ /\ conn[s] # "open"
          /\ WriterIs(s, "close")
          /\ UNCHANGED got
    /\ UNCHANGED <<conn, clients, closed, reader, hub, caller, handled>>

\* A ping that succeeds changes nothing.
PingFails(s) ==
    /\ writer[s].pc = "select" /\ conn[s] # "open"
    /\ WriterIs(s, "close")
    /\ UNCHANGED <<conn, clients, closed, reader, hub, caller, handled, got>>

SeesClosed(s) ==
    /\ writer[s].pc = "select" /\ s \in closed
    /\ WriterIs(s, "close")
    /\ UNCHANGED <<conn, clients, closed, reader, hub, caller, handled, got>>

WriterCloses(s) ==
    /\ writer[s].pc = "close"
    /\ WriterIs(s, "end")
    /\ conn' = [conn EXCEPT ![s] = "closed"]
    /\ UNCHANGED <<clients, closed, reader, hub, caller, handled, got>>

-----------------------------------------------------------------------------
(* Notifications *)

\* A goroutine of a scraper has completed the transaction.
NotifyClients(c, m) ==
    /\ caller[c].pc = "idle" /\ m \notin handled
    /\ handled' = handled \cup {m}
    /\ caller' = [caller EXCEPT ![c] = [pc |-> "to", msg |-> m]]
    /\ UNCHANGED <<conn, clients, closed, reader, writer, hub, got>>

Addressee(c) == IF caller[c].pc = "to" THEN To[caller[c].msg] ELSE From[caller[c].msg]

SubsOf(client) == {s \in clients : ClientOf[s] = client}

\* Mutant: for everybody.
TakeForAll(c) ==
    /\ hub.pc = "select" /\ caller[c].pc \in {"to", "from"}
    /\ hub' = IF clients = {} THEN hub
              ELSE [pc |-> "send", msg |-> caller[c].msg, todo |-> clients]
    /\ caller' = [caller EXCEPT ![c] =
                     IF caller[c].pc = "to" THEN [@ EXCEPT !.pc = "from"] ELSE Idle]
    /\ UNCHANGED <<conn, clients, closed, reader, writer, handled, got>>

\* The hub receives a notification.
Take(c) ==
    /\ hub.pc = "select" /\ caller[c].pc \in {"to", "from"}
    /\ LET subs == SubsOf(Addressee(c))
       IN hub' = IF subs = {} THEN hub
                 ELSE [pc |-> "send", msg |-> caller[c].msg, todo |-> subs]
    /\ caller' = [caller EXCEPT ![c] =
                     IF caller[c].pc = "to" THEN [@ EXCEPT !.pc = "from"] ELSE Idle]
    /\ UNCHANGED <<conn, clients, closed, reader, writer, handled, got>>

\* The hub hands its message over, in any order of the subscriptions.
Send(s) ==
    /\ hub.pc = "send" /\ s \in hub.todo /\ writer[s].pc = "select"
    /\ writer' = [writer EXCEPT ![s] = [pc |-> "write", msg |-> hub.msg]]
    /\ hub' = IF hub.todo = {s} THEN Select ELSE [hub EXCEPT !.todo = @ \ {s}]
    /\ UNCHANGED <<conn, clients, closed, reader, caller, handled, got>>

Subscription(s) ==
    \/ Subscribe(s) \/ Register(s) \/ Disconnect(s)
    \/ ReadFails(s) \/ Unregister(s) \/ ReaderCloses(s)
    \/ Write(s) \/ PingFails(s) \/ SeesClosed(s) \/ WriterCloses(s)

Next ==
    \/ \E s \in Sub : Subscription(s) \/ Send(s)
    \/ \E c \in Caller : Take(c) \/ \E m \in Message : NotifyClients(c, m)

Spec == Init /\ [][Next]_vars

-----------------------------------------------------------------------------
(* Properties *)

\* The hub never sends on a channel it has closed, which would end the service:
\* only the hub closes channels, and it forgets the subscription as it does.
NoSendOnClosed == hub.todo \cap closed = {}

\* What the hub's table, the goroutines and the channels know of one another.
IInv ==
    /\ TypeOK
    /\ hub.todo \subseteq clients
    /\ IF hub.pc = "select" THEN hub.todo = {} ELSE hub.msg \in Message
    /\ \A s \in Sub :
          /\ s \in clients <=> reader[s] \in {"read", "unregister"}
          /\ s \in closed => reader[s] \in {"close", "end"}
          /\ reader[s] \in {"idle", "register"} <=> writer[s].pc = "idle"
          /\ writer[s].pc = "write" => writer[s].msg \in Message
    /\ \A c \in Caller :
          IF caller[c].pc = "idle" THEN caller[c].msg = NoMessage
                                   ELSE caller[c].msg \in handled
    /\ \A c, d \in Caller : caller[c].msg = caller[d].msg =>
                               c = d \/ caller[c].msg = NoMessage

\* Who has subscribed and can still be written to.
Subscribed(s) ==
    CASE reader[s] \in {"idle", "register"} -> "new"
      [] s \in clients /\ writer[s].pc \notin {"close", "end"} -> "on"
      [] OTHER -> "off"

\* On its way to the connection: what the writer has, then what the hub has.
InTransit(s) ==
    IF writer[s].pc \in {"close", "end"} THEN <<>>
    ELSE (IF writer[s].pc = "write" THEN <<writer[s].msg>> ELSE <<>>)
            \o (IF s \in hub.todo THEN <<hub.msg>> ELSE <<>>)

\* The sides of handled messages that no caller holds any more.
Published ==
    {x \in handled \X {"to", "from"} :
        \A c \in Caller : caller[c].msg = x[1] =>
            caller[c].pc = "from" /\ x[2] = "to"}

Feed == INSTANCE NotificationFeed WITH
    published <- Published,
    subscription <- [s \in Sub |-> Subscribed(s)],
    queue <- [s \in Sub |-> InTransit(s)]

\* Hub, readers and writers together are a feed: each subscription gets exactly
\* what was published to its client while it was subscribed, once, in order.
IsAFeed == Feed!FeedSpec

\* Goroutines run on, writes and reads have their deadlines.
Fairness ==
    /\ \A s \in Sub :
          /\ WF_vars(Register(s)) /\ WF_vars(ReadFails(s)) /\ WF_vars(Unregister(s))
          /\ WF_vars(ReaderCloses(s)) /\ WF_vars(Write(s)) /\ WF_vars(SeesClosed(s))
          /\ WF_vars(WriterCloses(s)) /\ WF_vars(Send(s))
    /\ \A c \in Caller : WF_vars(Take(c))

LiveSpec == Spec /\ Fairness

\* The monitors of the scrapers "loop forever", and NotifyClients is a part of
\* their loops: it returns.
NotifyReturns == \A c \in Caller : caller[c].pc # "idle" ~> caller[c].pc = "idle"

\* The hub waits for a writer that has ended and will never receive.
HubIsStuck == \E s \in hub.todo : writer[s].pc = "end"

\* A call of NotifyClients that hangs hangs for that reason and no other.
ReturnsUnlessStuck ==
    \A c \in Caller : caller[c].pc # "idle" ~> caller[c].pc = "idle" \/ HubIsStuck

\* When a connection breaks, whoever notices first, in the end the hub has
\* forgotten the subscription and both goroutines have ended, unless the hub had
\* taken a notification for a subscription whose writer is gone.
BrokenIsForgotten ==
    \A s \in Sub : conn[s] = "broken" ~>
        \/ s \notin clients /\ reader[s] = "end" /\ writer[s].pc = "end"
        \/ HubIsStuck
=============================================================================
