------------------------------ MODULE Reconnect ------------------------------
(***************************************************************************)
(* cmd/main.go: scrappersListen connects to the node's websocket, lets two *)
(* goroutines listen on the connection (events and transactions) and       *)
(* starts over when they end or when the timer fires; main waits for a     *)
(* signal or for word that the node cannot be reached.                     *)
(*                                                                         *)
(* Each round has its own connection, its own two stop channels and its    *)
(* own loopNext, all with room for one value; connClosed has none.         *)
(***************************************************************************)
EXTENDS Integers

CONSTANTS
    MaxConn,  \* bound: how often the loop dials
    Faults    \* what may go wrong in the run

ASSUME ReconnectAssumption ==
    /\ MaxConn \in Nat \ {0}
    /\ Faults \subseteq {"dial",    \* the node cannot be reached
                         "refuse",  \* the node refuses a subscription
                         "break",   \* a connection breaks
                         "hang"}    \* a listener never returns from its handler

Conn == 1 .. MaxConn
Kind == {"events", "txes"}
Other(k) == IF k = "events" THEN "txes" ELSE "events"

VARIABLES
    main,      \* the goroutine main
    loop,      \* the goroutine scrappersListen
    current,   \* the round it is in
    ws,        \* the connection of each round; "nil": the dial has failed
    listener,  \* the two goroutines of each round
    stop,      \* <<round, kind>> whose stop channel holds a value
    loopNext,  \* rounds whose loopNext holds a value
    left,      \* why the loop has left each round
    crashed    \* a nil client was used

vars == <<main, loop, current, ws, listener, stop, loopNext, left, crashed>>

Listening == {"subscribe", "listen", "handle", "hung", "deaf"}

TypeOK ==
    /\ main \in {"wait", "shutdown", "exited"}
    /\ loop \in {"dial", "report", "wait", "close"}
    /\ current \in 0 .. MaxConn
    /\ ws \in [Conn -> {"none", "nil", "open", "broken", "closed"}]
    /\ listener \in [Conn \X Kind -> {"none", "stop", "next", "end"} \cup Listening]
    /\ stop \subseteq Conn \X Kind
    /\ loopNext \subseteq Conn
    /\ left \in [Conn -> {"not", "listener", "timer"}]
    /\ crashed \in BOOLEAN

Init ==
    /\ main = "wait"
    /\ loop = "dial"
    /\ current = 0
    /\ ws = [g \in Conn |-> "none"]
    /\ listener = [x \in Conn \X Kind |-> "none"]
    /\ stop = {}
    /\ loopNext = {}
    /\ left = [g \in Conn |-> "not"]
    /\ crashed = FALSE

-----------------------------------------------------------------------------
(* main *)

Signal ==
    /\ main = "wait"
    /\ main' = "shutdown"
    /\ UNCHANGED <<loop, current, ws, listener, stop, loopNext, left, crashed>>

\* The server has finished its requests, or 30 seconds are over.
Shutdown ==
    /\ main = "shutdown"
    /\ main' = "exited"
    /\ UNCHANGED <<loop, current, ws, listener, stop, loopNext, left, crashed>>

-----------------------------------------------------------------------------
(* scrappersListen *)

\* The two go statements of round g.
StartListeners(g) ==
    listener' = [x \in Conn \X Kind |-> IF x[1] = g THEN "subscribe" ELSE listener[x]]

\* Mutant: does not report a failed dial.
DialSilently ==
    /\ loop = "dial" /\ current < MaxConn
    /\ current' = current + 1
    /\ \E client \in {"open"} \cup {c \in {"nil"} : "dial" \in Faults} :
          ws' = [ws EXCEPT ![current + 1] = client]
    /\ StartListeners(current + 1)
    /\ loop' = "wait"
    /\ UNCHANGED <<main, stop, loopNext, left, crashed>>

\* A token contract is made of any client, a nil one too.
Dial ==
    /\ loop = "dial" /\ current < MaxConn
    /\ current' = current + 1
    /\ \/ /\ ws' = [ws EXCEPT ![current + 1] = "open"]
          /\ StartListeners(current + 1)
          /\ loop' = "wait"
       \/ /\ "dial" \in Faults
          /\ ws' = [ws EXCEPT ![current + 1] = "nil"]
          /\ loop' = "report"
          /\ UNCHANGED listener
    /\ UNCHANGED <<main, stop, loopNext, left, crashed>>

\* The loop hands connClosed to main, and goes on.
ReportClosed ==
    /\ loop = "report" /\ main = "wait"
    /\ main' = "shutdown"
    /\ StartListeners(current)
    /\ loop' = "wait"
    /\ UNCHANGED <<current, ws, stop, loopNext, left, crashed>>

\* Mutant: leaves the value in the channel.
NextRoundPeeks ==
    /\ loop = "wait" /\ current \in loopNext
    /\ left' = [left EXCEPT ![current] = "listener"]
    /\ loop' = "close"
    /\ UNCHANGED <<main, current, ws, listener, stop, loopNext, crashed>>

NextRound ==
    /\ loop = "wait" /\ current \in loopNext
    /\ loopNext' = loopNext \ {current}
    /\ left' = [left EXCEPT ![current] = "listener"]
    /\ loop' = "close"
    /\ UNCHANGED <<main, current, ws, listener, stop, crashed>>

\* Mutant: no timer.
TimerNever == FALSE /\ UNCHANGED vars

\* After 30 minutes in this round, whatever the connection is like.
TimerFires ==
    /\ loop = "wait"
    /\ left' = [left EXCEPT ![current] = "timer"]
    /\ loop' = "close"
    /\ UNCHANGED <<main, current, ws, listener, stop, loopNext, crashed>>

\* Mutant: leaves the old connection open.
CloseNothing ==
    /\ loop = "close"
    /\ loop' = "dial"
    /\ crashed' = (ws[current] = "nil")
    /\ UNCHANGED <<main, current, ws, listener, stop, loopNext, left>>

Close ==
    /\ loop = "close"
    /\ loop' = "dial"
    /\ IF ws[current] = "nil"
       THEN crashed' = TRUE /\ UNCHANGED ws
       ELSE ws' = [ws EXCEPT ![current] = "closed"] /\ UNCHANGED crashed
    /\ UNCHANGED <<main, current, listener, stop, loopNext, left>>

-----------------------------------------------------------------------------
(* The goroutines that listen, and the connection. *)

At(g, k, pc) == listener[<<g, k>>] = pc
To(g, k, pc) == listener' = [listener EXCEPT ![<<g, k>>] = pc]

Break(g) ==
    /\ "break" \in Faults /\ ws[g] = "open"
    /\ ws' = [ws EXCEPT ![g] = "broken"]
    /\ UNCHANGED <<main, loop, current, listener, stop, loopNext, left, crashed>>

Subscribe(g, k) ==
    /\ At(g, k, "subscribe")
    /\ \/ ws[g] = "open" /\ To(g, k, "listen") /\ UNCHANGED crashed
       \/ /\ ws[g] \in {"broken", "closed"} \/ (ws[g] = "open" /\ "refuse" \in Faults)
          /\ To(g, k, "stop") /\ UNCHANGED crashed
       \/ ws[g] = "nil" /\ crashed' = TRUE /\ UNCHANGED listener
    /\ UNCHANGED <<main, loop, current, ws, stop, loopNext, left>>

\* What the connection has delivered before it broke may be handled or not.
Receive(g, k) ==
    /\ At(g, k, "listen") /\ ws[g] = "open"
    /\ To(g, k, "handle")
    /\ UNCHANGED <<main, loop, current, ws, stop, loopNext, left, crashed>>

Handled(g, k) ==
    /\ At(g, k, "handle")
    /\ To(g, k, "listen") \/ ("hang" \in Faults /\ To(g, k, "hung"))
    /\ UNCHANGED <<main, loop, current, ws, stop, loopNext, left, crashed>>

\* The error channel of the subscription is closed or gives nil; that of the
\* blocks may give an error instead, which is logged: nothing comes after it.
ConnectionLost(g, k) ==
    /\ At(g, k, "listen") /\ ws[g] # "open"
    /\ To(g, k, "stop") \/ (k = "txes" /\ To(g, k, "deaf"))
    /\ UNCHANGED <<main, loop, current, ws, stop, loopNext, left, crashed>>

Stopped(g, k) ==
    /\ listener[<<g, k>>] \in {"listen", "deaf"} /\ <<g, k>> \in stop
    /\ stop' = stop \ {<<g, k>>}
    /\ To(g, k, "stop")
    /\ UNCHANGED <<main, loop, current, ws, loopNext, left, crashed>>

\* Mutant: stops itself.
StopItself(g, k) ==
    /\ At(g, k, "stop") /\ <<g, k>> \notin stop
    /\ stop' = stop \cup {<<g, k>>}
    /\ To(g, k, "next")
    /\ UNCHANGED <<main, loop, current, ws, loopNext, left, crashed>>

StopOther(g, k) ==
    /\ At(g, k, "stop") /\ <<g, Other(k)>> \notin stop
    /\ stop' = stop \cup {<<g, Other(k)>>}
    /\ To(g, k, "next")
    /\ UNCHANGED <<main, loop, current, ws, loopNext, left, crashed>>

SendNext(g, k) ==
    /\ At(g, k, "next") /\ g \notin loopNext
    /\ loopNext' = loopNext \cup {g}
    /\ To(g, k, "end")
    /\ UNCHANGED <<main, loop, current, ws, stop, left, crashed>>

-----------------------------------------------------------------------------

Listener(g, k) ==
    \/ Subscribe(g, k) \/ Receive(g, k) \/ Handled(g, k) \/ ConnectionLost(g, k)
    \/ Stopped(g, k) \/ StopOther(g, k) \/ SendNext(g, k)

Running == main # "exited" /\ ~crashed

Next ==
    /\ Running
    /\ \/ Signal \/ Shutdown
       \/ Dial \/ ReportClosed \/ NextRound \/ TimerFires \/ Close
       \/ \E g \in Conn : Break(g) \/ \E k \in Kind : Listener(g, k)

Spec == Init /\ [][Next]_vars

-----------------------------------------------------------------------------
(* Properties *)

\* A round that the loop has not come to.
Untouched(g) ==
    /\ ws[g] = "none" /\ left[g] = "not" /\ g \notin loopNext
    /\ \A k \in Kind : At(g, k, "none") /\ <<g, k>> \notin stop

\* A value in a channel was sent by a goroutine that has gone on: no more than
\* one in loopNext, as many as the goroutines that ended less what the loop took.
ChannelsOK(g) ==
    /\ IF left[g] = "listener"
       THEN /\ \E k \in Kind : At(g, k, "end")
            /\ g \in loopNext <=> \A k \in Kind : At(g, k, "end")
       ELSE /\ \E k \in Kind : ~At(g, k, "end")
            /\ g \in loopNext <=> \E k \in Kind : At(g, k, "end")
    /\ \A k \in Kind :
          <<g, Other(k)>> \in stop => listener[<<g, k>>] \in {"next", "end"}

\* What the loop's place says of a round.
RoundOK(g) ==
    /\ g > current => Untouched(g)
    /\ g < current \/ (g = current /\ loop = "dial") =>
          left[g] # "not" /\ ws[g] \in {"closed", "nil"}
    /\ g = current => (left[g] = "not" <=> loop \in {"report", "wait"})
    /\ ws[g] = "nil" => main # "wait" \/ (g = current /\ loop = "report")

\* The inductive invariant.
IInv ==
    /\ TypeOK
    /\ current = 0 => loop = "dial"
    /\ loop = "report" => ws[current] = "nil" /\ \A k \in Kind : At(current, k, "none")
    /\ crashed => main # "wait"
    /\ \A g \in Conn : RoundOK(g) /\ ChannelsOK(g)

\* The goroutine waits for room in a channel that the loop reads no more.
LeftBehind(g, k) ==
    At(g, k, "next") /\ g \in loopNext /\ (g = current => loop # "wait")

\* Rooms of one value are enough for all but the timer: when a listener ends a
\* round both goroutines can end, and a round ended by the timer leaves one of
\* them behind, not both.
OnlyTimerLeavesOne ==
    \A g \in Conn, k \in Kind :
        LeftBehind(g, k) => left[g] = "timer" /\ At(g, Other(k), "end")

\* "in case of manual reconnect": the loop never leaves a connection open.
OneConnection == \A g \in Conn : ws[g] \in {"open", "broken"} => g = current

\* The service does not crash while main still waits: the nil client of a
\* failed dial is used only after main was told to shut down.
CrashOnlyInShutdown == crashed => main # "wait"

\* "connection is closed, reconnect": even if handlers hang, a connection that
\* broke is closed and the loop is ready to dial again.
Reconnects == \A g \in Conn : ws[g] = "broken" ~> ws[g] = "closed" \/ ~Running

\* Neither goroutine listens on alone: when one has ended, so will the other,
\* unless it hangs in a handler.
NobodyListensAlone ==
    \A g \in Conn, k \in Kind :
        listener[<<g, k>>] \in {"next", "end"} ~>
            listener[<<g, Other(k)>>] \in {"hung", "next", "end"} \/ ~Running

\* Goroutines run on, the timer fires; nothing is assumed of the node.
Fairness ==
    /\ WF_vars(Running /\ (Dial \/ ReportClosed \/ Close))
    /\ WF_vars(Running /\ (NextRound \/ TimerFires))
    /\ \A g \in Conn, k \in Kind : WF_vars(Running /\ Listener(g, k))

LiveSpec == Spec /\ Fairness
=============================================================================
