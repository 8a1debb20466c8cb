--------------------------- MODULE ReconnectProofs ---------------------------
(***************************************************************************)
(* The inductive invariant of Reconnect for any number of rounds, and what *)
(* follows from it for the goroutines and connections of old rounds.       *)
(***************************************************************************)
EXTENDS Reconnect, TLAPS

\* There are two listeners, and each is the other of the other.
LEMMA TwoKinds ==
  \A k \in Kind : /\ Other(k) \in Kind /\ Other(k) # k /\ Other(Other(k)) = k
                  /\ \A j \in Kind : j = k \/ j = Other(k)
  BY SMT DEF Kind, Other

\* At the start no round has been entered.
LEMMA InitInv == Init => IInv
<1> SUFFICES ASSUME Init PROVE IInv
  OBVIOUS
<1>1. TypeOK
  <2>1. current \in 0 .. MaxConn
    BY ReconnectAssumption, SMT DEF Init
  <2>2. /\ ws \in [Conn -> {"none", "nil", "open", "broken", "closed"}]
        /\ listener \in [Conn \X Kind -> {"none", "stop", "next", "end"} \cup Listening]
        /\ left \in [Conn -> {"not", "listener", "timer"}]
    BY Zenon DEF Init
  <2>3. stop \subseteq Conn \X Kind /\ loopNext \subseteq Conn
    BY Zenon DEF Init
  <2>4. /\ main \in {"wait", "shutdown", "exited"}
        /\ loop \in {"dial", "report", "wait", "close"}
        /\ crashed \in BOOLEAN
    BY Zenon DEF Init
  <2> QED
    BY <2>1, <2>2, <2>3, <2>4, Zenon DEF TypeOK
<1>2. ASSUME NEW g \in Conn PROVE RoundOK(g)
  BY ReconnectAssumption, <1>2, SMT DEF Init, RoundOK, Untouched, At, Conn, Kind
<1>3. ASSUME NEW g \in Conn PROVE ChannelsOK(g)
  BY <1>3, SMT DEF Init, ChannelsOK, At, Kind
<1> QED
  BY <1>1, <1>2, <1>3, SMT DEF Init, IInv

\* main: nothing of the rounds changes, and main does not go back to waiting.
LEMMA MainInv ==
  ASSUME IInv, Signal \/ Shutdown
  PROVE  IInv'
<1>1. /\ UNCHANGED <<loop, current, ws, listener, stop, loopNext, left, crashed>>
      /\ main' \in {"shutdown", "exited"}
  BY SMT DEF Signal, Shutdown
<1>2. TypeOK'
  BY <1>1, SMT DEF IInv, TypeOK
<1>3. ASSUME NEW g \in Conn PROVE RoundOK(g)'
  BY <1>1, <1>3, SMT DEF IInv, RoundOK, Untouched, At
<1>4. ASSUME NEW g \in Conn PROVE ChannelsOK(g)'
  BY <1>1, <1>4, SMT DEF IInv, ChannelsOK, At
<1> QED
  BY <1>1, <1>2, <1>3, <1>4, SMT DEF IInv, At

\* The go statements touch no goroutine of another round.
LEMMA Started ==
  ASSUME NEW c \in Conn, TypeOK, StartListeners(c)
  PROVE  /\ listener' \in [Conn \X Kind -> {"none", "stop", "next", "end"} \cup Listening]
         /\ \A k \in Kind : listener'[<<c, k>>] = "subscribe"
         /\ \A g \in Conn \ {c}, k \in Kind : listener'[<<g, k>>] = listener[<<g, k>>]
  BY SMT DEF TypeOK, StartListeners, Listening

\* Channels of a round whose goroutines have not begun to send are empty.
LEMMA FreshChannels ==
  ASSUME NEW c \in Conn, left'[c] # "listener", c \notin loopNext',
         \A k \in Kind : <<c, k>> \notin stop' /\ listener'[<<c, k>>] \in {"none", "subscribe"}
  PROVE  ChannelsOK(c)'
  BY TwoKinds, SMT DEF ChannelsOK, At, Kind

\* Channels of a round of which the step changes nothing.
LEMMA SameChannels ==
  ASSUME NEW g \in Conn, ChannelsOK(g), left'[g] = left[g],
         g \in loopNext' <=> g \in loopNext,
         \A k \in Kind : /\ listener'[<<g, k>>] = listener[<<g, k>>]
                         /\ <<g, k>> \in stop' <=> <<g, k>> \in stop
  PROVE  ChannelsOK(g)'
<1>1. \A k \in Kind : At(g, k, "end")' <=> At(g, k, "end")
  BY SMT DEF At
<1>2. \A k \in Kind :
         <<g, Other(k)>> \in stop' => listener'[<<g, k>>] \in {"next", "end"}
  BY TwoKinds, SMT DEF ChannelsOK
<1> QED
  BY <1>1, <1>2, Zenon DEF ChannelsOK

\* The next round starts with channels of its own.
LEMMA DialInv ==
  ASSUME IInv, Dial
  PROVE  IInv'
<1>1. current + 1 \in Conn /\ Untouched(current + 1) /\ current \in Nat /\ TypeOK
  BY ReconnectAssumption, SMT DEF IInv, TypeOK, Conn, RoundOK, Dial
<1>2. PICK client \in {"open", "nil"} :
         /\ ws' = [ws EXCEPT ![current + 1] = client]
         /\ \/ client = "open" /\ StartListeners(current + 1) /\ loop' = "wait"
            \/ client = "nil" /\ UNCHANGED listener /\ loop' = "report"
  BY SMT DEF Dial
<1>3. current' = current + 1 /\ UNCHANGED <<main, stop, loopNext, left, crashed>>
  BY SMT DEF Dial
<1>4. /\ listener' \in [Conn \X Kind -> {"none", "stop", "next", "end"} \cup Listening]
      /\ \A k \in Kind :
            listener'[<<current + 1, k>>] = IF client = "open" THEN "subscribe" ELSE "none"
      /\ \A g \in Conn \ {current + 1}, k \in Kind :
            listener'[<<g, k>>] = listener[<<g, k>>]
  <2>1. CASE StartListeners(current + 1) /\ client = "open"
    <3>1. /\ listener' \in [Conn \X Kind -> {"none", "stop", "next", "end"} \cup Listening]
          /\ \A k \in Kind : listener'[<<current + 1, k>>] = "subscribe"
          /\ \A g \in Conn \ {current + 1}, k \in Kind : listener'[<<g, k>>] = listener[<<g, k>>]
      BY <1>1, <2>1, Started
    <3> QED
      BY <2>1, <3>1
  <2>2. CASE UNCHANGED listener /\ client = "nil"
    <3>1. \A k \in Kind : listener[<<current + 1, k>>] = "none"
      BY <1>1, Zenon DEF Untouched, At
    <3>2. client # "open" /\ listener' = listener
      BY <2>2
    <3>3. listener \in [Conn \X Kind -> {"none", "stop", "next", "end"} \cup Listening]
      BY <1>1, Zenon DEF TypeOK
    <3> QED
      BY <3>1, <3>2, <3>3
  <2> QED
    BY <1>2, <2>1, <2>2
<1>5. TypeOK'
  <2>1. ws' \in [Conn -> {"none", "nil", "open", "broken", "closed"}]
    BY <1>1, <1>2, SMT DEF TypeOK
  <2>2. current' \in 0 .. MaxConn /\ loop' \in {"dial", "report", "wait", "close"}
    BY <1>1, <1>2, <1>3, SMT DEF Conn
  <2> QED
    BY <1>1, <1>3, <1>4, <2>1, <2>2, Zenon DEF TypeOK
<1>6. ASSUME NEW g \in Conn PROVE RoundOK(g)'
  <2>1. g \in Nat /\ RoundOK(g)
    BY <1>6, SMT DEF Conn, IInv
  <2>2. CASE g = current + 1
    BY <1>1, <1>2, <1>3, <2>1, <2>2, SMT DEF RoundOK, Untouched, TypeOK
  <2>3. CASE g < current + 1
    BY <1>1, <1>2, <1>3, <2>1, <2>3, SMT DEF RoundOK, IInv, TypeOK, Dial
  <2>4. CASE g > current + 1
    BY <1>1, <1>2, <1>3, <1>4, <2>1, <2>4, SMT DEF RoundOK, Untouched, At, TypeOK
  <2> QED
    BY <1>1, <2>1, <2>2, <2>3, <2>4, SMT
<1>7. ASSUME NEW g \in Conn PROVE ChannelsOK(g)'
  <2>1. CASE g = current + 1
    <3>1. left'[g] # "listener" /\ g \notin loopNext'
      BY <1>1, <1>3, <2>1, SMT DEF Untouched
    <3>2. ASSUME NEW k \in Kind
          PROVE  <<g, k>> \notin stop' /\ listener'[<<g, k>>] \in {"none", "subscribe"}
      BY <1>1, <1>3, <1>4, <2>1, SMT DEF Untouched
    <3> QED
      BY <3>1, <3>2, FreshChannels
  <2>2. CASE g # current + 1
    <3>1. ChannelsOK(g)
      BY DEF IInv
    <3> QED
      BY <1>3, <1>4, <2>2, <3>1, SameChannels
  <2> QED
    BY <2>1, <2>2
<1>8. loop' = "report" =>
         ws'[current'] = "nil" /\ \A k \in Kind : At(current, k, "none")'
  BY <1>1, <1>2, <1>3, <1>4, SMT DEF At, TypeOK
<1>9. current' = 0 => loop' = "dial"
  BY <1>1, <1>3, SMT
<1>10. crashed' => main' # "wait"
  BY <1>3, SMT DEF IInv
<1> QED
  BY <1>5, <1>6, <1>7, <1>8, <1>9, <1>10, Zenon DEF IInv

\* A failed dial is reported, and its round starts all the same.
LEMMA ReportClosedInv ==
  ASSUME IInv, ReportClosed
  PROVE  IInv'
<1>1. /\ current \in Conn /\ loop = "report" /\ ws[current] = "nil" /\ TypeOK
      /\ \A k \in Kind : At(current, k, "none")
  BY SMT DEF IInv, TypeOK, ReportClosed, Conn
<1>2. /\ main' = "shutdown" /\ loop' = "wait" /\ StartListeners(current)
      /\ UNCHANGED <<current, ws, stop, loopNext, left, crashed>>
  BY DEF ReportClosed
<1>3. /\ listener' \in [Conn \X Kind -> {"none", "stop", "next", "end"} \cup Listening]
      /\ \A k \in Kind : listener'[<<current, k>>] = "subscribe"
      /\ \A g \in Conn \ {current}, k \in Kind : listener'[<<g, k>>] = listener[<<g, k>>]
  BY <1>1, <1>2, Started
<1>4. TypeOK'
  BY <1>1, <1>2, <1>3, Zenon DEF TypeOK
<1>5. ASSUME NEW g \in Conn PROVE RoundOK(g)'
  <2>1. g \in Nat /\ RoundOK(g)
    BY <1>5, SMT DEF Conn, IInv
  <2>2. CASE g = current
    BY <1>1, <1>2, <2>1, <2>2, SMT DEF RoundOK, TypeOK
  <2>3. CASE g # current
    BY <1>1, <1>2, <1>3, <2>1, <2>3, SMT DEF RoundOK, Untouched, At, TypeOK
  <2> QED
    BY <2>2, <2>3
<1>6. ASSUME NEW g \in Conn PROVE ChannelsOK(g)'
  <2>1. ChannelsOK(g) /\ RoundOK(g)
    BY DEF IInv
  <2>2. CASE g = current
    <3>1. left[g] # "listener"
      BY <1>1, <2>1, <2>2, SMT DEF RoundOK
    <3>2. \A k \in Kind : listener[<<g, k>>] = "none" /\ ~At(g, k, "end")
      BY <1>1, <2>2, SMT DEF At
    <3>3. g \notin loopNext
      BY <2>1, <3>1, <3>2, Zenon DEF ChannelsOK
    <3>4. ASSUME NEW k \in Kind PROVE <<g, k>> \notin stop
      <4>1. Other(k) \in Kind /\ Other(Other(k)) = k
        BY TwoKinds
      <4>2. listener[<<g, Other(k)>>] \notin {"next", "end"}
        BY <3>2, <4>1, SMT
      <4> QED
        BY <2>1, <4>1, <4>2, Zenon DEF ChannelsOK
    <3> QED
      BY <1>2, <1>3, <2>2, <3>1, <3>3, <3>4, FreshChannels
  <2>3. CASE g # current
    BY <1>2, <1>3, <2>1, <2>3, SameChannels
  <2> QED
    BY <2>2, <2>3
<1>7. (loop' # "report") /\ (current' = 0 => loop' = "dial") /\ main' # "wait"
  BY <1>1, <1>2, SMT DEF Conn
<1> QED
  BY <1>4, <1>5, <1>6, <1>7, Zenon DEF IInv

\* The loop leaves a round because a listener has ended: it takes one value.
LEMMA NextRoundInv ==
  ASSUME IInv, NextRound
  PROVE  IInv'
<1>1. current \in Conn /\ current \in loopNext /\ loop = "wait" /\ TypeOK
  BY SMT DEF IInv, TypeOK, NextRound, Conn
<1>2. /\ loop' = "close" /\ loopNext' = loopNext \ {current}
      /\ left' = [left EXCEPT ![current] = "listener"]
      /\ UNCHANGED <<main, current, ws, listener, stop, crashed>>
  BY DEF NextRound
<1>3. TypeOK'
  BY <1>1, <1>2, SMT DEF TypeOK
<1>4. ASSUME NEW g \in Conn PROVE RoundOK(g)'
  BY <1>1, <1>2, <1>4, SMT DEF IInv, TypeOK, RoundOK, Untouched, At, Conn
<1>5. ASSUME NEW g \in Conn PROVE ChannelsOK(g)'
  <2>1. ChannelsOK(g) /\ RoundOK(g)
    BY DEF IInv
  <2>2. CASE g = current
    <3>1. left[g] = "not" /\ left'[g] = "listener" /\ g \notin loopNext'
      BY <1>1, <1>2, <2>1, <2>2, SMT DEF RoundOK, TypeOK
    <3>2. (\E k \in Kind : At(g, k, "end")) /\ ~\A k \in Kind : At(g, k, "end")
      BY <1>1, <2>1, <2>2, <3>1, SMT DEF ChannelsOK
    <3> QED
      BY <1>2, <2>1, <3>1, <3>2, SMT DEF ChannelsOK, At
  <2>3. CASE g # current
    BY <1>1, <1>2, <2>1, <2>3, SameChannels, SMT DEF TypeOK
  <2> QED
    BY <2>2, <2>3
<1> QED
  BY <1>1, <1>2, <1>3, <1>4, <1>5, SMT DEF IInv

\* The loop leaves a round by the timer: the channels keep what they have.
LEMMA TimerFiresInv ==
  ASSUME IInv, TimerFires
  PROVE  IInv'
<1>1. current \in Conn /\ loop = "wait" /\ TypeOK
  BY SMT DEF IInv, TypeOK, TimerFires, Conn
<1>2. /\ loop' = "close" /\ left' = [left EXCEPT ![current] = "timer"]
      /\ UNCHANGED <<main, current, ws, listener, stop, loopNext, crashed>>
  BY DEF TimerFires
<1>3. TypeOK'
  BY <1>1, <1>2, SMT DEF TypeOK
<1>4. ASSUME NEW g \in Conn PROVE RoundOK(g)'
  BY <1>1, <1>2, <1>4, SMT DEF IInv, TypeOK, RoundOK, Untouched, At, Conn
<1>5. ASSUME NEW g \in Conn PROVE ChannelsOK(g)'
  <2>1. ChannelsOK(g) /\ RoundOK(g)
    BY DEF IInv
  <2>2. left[g] = "listener" <=> left'[g] = "listener"
    BY <1>1, <1>2, <2>1, SMT DEF RoundOK, TypeOK
  <2> QED
    BY <1>2, <2>1, <2>2, SMT DEF ChannelsOK, At
<1> QED
  BY <1>1, <1>2, <1>3, <1>4, <1>5, SMT DEF IInv

\* The loop closes the connection, or crashes on a nil client.
LEMMA CloseInv ==
  ASSUME IInv, Close
  PROVE  IInv'
<1>1. current \in Conn /\ loop = "close" /\ TypeOK /\ RoundOK(current)
  BY SMT DEF IInv, TypeOK, Close, Conn
<1>2. /\ loop' = "dial"
      /\ UNCHANGED <<main, current, listener, stop, loopNext, left>>
      /\ \/ ws[current] = "nil" /\ crashed' = TRUE /\ UNCHANGED ws
         \/ /\ ws[current] # "nil" /\ UNCHANGED crashed
            /\ ws' = [ws EXCEPT ![current] = "closed"]
  BY SMT DEF Close
<1>3. TypeOK'
  <2>1. crashed' \in BOOLEAN
    BY <1>1, <1>2, Zenon DEF TypeOK
  <2>2. ws' \in [Conn -> {"none", "nil", "open", "broken", "closed"}]
    BY <1>1, <1>2, SMT DEF TypeOK
  <2> QED
    BY <1>1, <1>2, <2>1, <2>2, Zenon DEF TypeOK
<1>4. ASSUME NEW g \in Conn PROVE RoundOK(g)'
  <2>1. RoundOK(g) /\ g \in Nat /\ current \in Nat
    BY <1>1, <1>4, SMT DEF IInv, Conn
  <2>2. CASE g = current
    BY <1>1, <1>2, <2>1, <2>2, SMT DEF TypeOK, RoundOK
  <2>3. CASE g # current
    <3>1. ws'[g] = ws[g]
      BY <1>1, <1>2, <2>3, SMT DEF TypeOK
    <3>2. Untouched(g) => Untouched(g)'
      BY <1>2, <3>1, SMT DEF Untouched, At
    <3> QED
      BY <1>1, <1>2, <2>1, <2>3, <3>1, <3>2, SMT DEF RoundOK
  <2> QED
    BY <2>2, <2>3
<1>5. ASSUME NEW g \in Conn PROVE ChannelsOK(g)'
  <2>1. ChannelsOK(g)
    BY DEF IInv
  <2> QED
    BY <1>2, <2>1, SameChannels
<1>6. crashed' => main' # "wait"
  <2>1. (crashed => main # "wait") /\ (ws[current] = "nil" => main # "wait")
    BY <1>1, SMT DEF RoundOK, IInv
  <2> QED
    BY <1>2, <2>1, Zenon
<1> QED
  BY <1>2, <1>3, <1>4, <1>5, <1>6, SMT DEF IInv

\* A connection breaks.
LEMMA BreakInv ==
  ASSUME IInv, NEW c \in Conn, Break(c)
  PROVE  IInv'
<1>1. /\ ws[c] = "open" /\ ws' = [ws EXCEPT ![c] = "broken"] /\ TypeOK
      /\ UNCHANGED <<main, loop, current, listener, stop, loopNext, left, crashed>>
  BY DEF Break, IInv
<1>2. TypeOK'
  BY <1>1, SMT DEF TypeOK
<1>3. ASSUME NEW g \in Conn PROVE RoundOK(g)'
  BY <1>1, <1>3, SMT DEF IInv, TypeOK, RoundOK, Untouched, At
<1>4. ASSUME NEW g \in Conn PROVE ChannelsOK(g)'
  <2>1. ChannelsOK(g)
    BY DEF IInv
  <2> QED
    BY <1>1, <2>1, SameChannels
<1>5. loop' = "report" => ws'[current'] = "nil" /\ \A k \in Kind : At(current, k, "none")'
  BY <1>1, SMT DEF IInv, TypeOK, At
<1> QED
  BY <1>1, <1>2, <1>3, <1>4, <1>5, SMT DEF IInv

\* What a step of a goroutine that has started leaves to show: the types of what
\* it changes, and the channels of its own round.
LEMMA ListenerFrame ==
  ASSUME IInv, NEW c \in Conn, NEW k \in Kind,
         ~At(c, k, "none"),
         UNCHANGED <<main, loop, current, ws, left>>,
         crashed' \in BOOLEAN, crashed' => crashed \/ ws[c] = "nil",
         listener' \in [Conn \X Kind -> {"none", "stop", "next", "end"} \cup Listening],
         stop' \subseteq Conn \X Kind,
         loopNext' \subseteq Conn,
         \A g \in Conn \ {c}, j \in Kind :
            listener'[<<g, j>>] = listener[<<g, j>>] /\ (<<g, j>> \in stop' <=> <<g, j>> \in stop),
         \A g \in Conn \ {c} : g \in loopNext' <=> g \in loopNext,
         ChannelsOK(c)'
  PROVE  IInv'
<1>1. TypeOK /\ RoundOK(c) /\ (loop = "report" => c # current)
  BY SMT DEF IInv
<1>2. TypeOK'
  BY <1>1, Zenon DEF TypeOK
<1>3. ASSUME NEW g \in Conn PROVE RoundOK(g)'
  <2>1. RoundOK(g)
    BY DEF IInv
  <2>2. CASE g = c
    <3>1. ~Untouched(c)
      BY Zenon DEF Untouched
    <3>2. ~(c > current)
      BY <1>1, <3>1, Zenon DEF RoundOK
    <3> QED
      BY <1>1, <2>2, <3>2, SMT DEF RoundOK
  <2>3. CASE g # c
    <3>1. Untouched(g) => Untouched(g)'
      BY <1>3, <2>3, SMT DEF Untouched, At
    <3> QED
      BY <2>1, <3>1, SMT DEF RoundOK
  <2> QED
    BY <2>2, <2>3
<1>4. ASSUME NEW g \in Conn PROVE ChannelsOK(g)'
  <2>1. CASE g = c
    BY <2>1
  <2>2. CASE g # c
    <3>1. ChannelsOK(g)
      BY DEF IInv
    <3> QED
      BY <2>2, <3>1, SameChannels
  <2> QED
    BY <2>1, <2>2
<1>5. loop' = "report" => ws'[current'] = "nil" /\ \A j \in Kind : At(current, j, "none")'
  BY <1>1, SMT DEF IInv, At, TypeOK, Conn
<1>6. crashed' => main' # "wait"
  BY <1>1, SMT DEF IInv, RoundOK
<1> QED
  BY <1>2, <1>3, <1>4, <1>5, <1>6, SMT DEF IInv

\* A goroutine that goes to pc: the others stay where they are.
LEMMA Moved ==
  ASSUME TypeOK, NEW c \in Conn, NEW k \in Kind,
         NEW pc \in {"none", "stop", "next", "end"} \cup Listening, To(c, k, pc)
  PROVE  /\ listener' \in [Conn \X Kind -> {"none", "stop", "next", "end"} \cup Listening]
         /\ listener'[<<c, k>>] = pc
         /\ listener'[<<c, Other(k)>>] = listener[<<c, Other(k)>>]
         /\ \A g \in Conn \ {c}, j \in Kind : listener'[<<g, j>>] = listener[<<g, j>>]
  BY TwoKinds, SMT DEF TypeOK, To

\* A goroutine that listens, or stops listening: nothing is sent.
LEMMA ListenInv ==
  ASSUME IInv, NEW c \in Conn, NEW k \in Kind,
         Subscribe(c, k) \/ Receive(c, k) \/ Handled(c, k) \/ ConnectionLost(c, k) \/ Stopped(c, k)
  PROVE  IInv'
<1>1. TypeOK /\ ChannelsOK(c)
  BY DEF IInv
<1>2. listener[<<c, k>>] \in Listening
  BY SMT DEF Subscribe, Receive, Handled, ConnectionLost, Stopped, At, Listening
<1>3. PICK pc \in {"stop"} \cup Listening : To(c, k, pc)
  <2>1. listener \in [Conn \X Kind -> {"none", "stop", "next", "end"} \cup Listening]
    BY <1>1, Zenon DEF TypeOK
  <2>2. UNCHANGED listener => To(c, k, listener[<<c, k>>])
    BY <2>1, SMT DEF To
  <2> QED
    BY <1>2, <2>2, SMT DEF Subscribe, Receive, Handled, ConnectionLost, Stopped, Listening
<1>4. /\ UNCHANGED <<main, loop, current, ws, loopNext, left>>
      /\ stop' \subseteq stop /\ stop \ {<<c, k>>} \subseteq stop'
  BY SMT DEF Subscribe, Receive, Handled, ConnectionLost, Stopped
<1>5. crashed' \in BOOLEAN /\ (crashed' => crashed \/ ws[c] = "nil")
  <2>1. UNCHANGED crashed \/ (crashed' = TRUE /\ ws[c] = "nil")
    <3>1. Receive(c, k) \/ Handled(c, k) \/ ConnectionLost(c, k) \/ Stopped(c, k) =>
             UNCHANGED crashed
      BY DEF Receive, Handled, ConnectionLost, Stopped
    <3> QED
      BY <3>1, Zenon DEF Subscribe
  <2>2. crashed \in BOOLEAN
    BY <1>1, Zenon DEF TypeOK
  <2>3. CASE UNCHANGED crashed
    BY <2>2, <2>3, Zenon
  <2>4. CASE crashed' = TRUE /\ ws[c] = "nil"
    BY <2>4, Zenon
  <2> QED
    BY <2>1, <2>3, <2>4
<1>6. /\ listener' \in [Conn \X Kind -> {"none", "stop", "next", "end"} \cup Listening]
      /\ listener'[<<c, k>>] = pc
      /\ listener'[<<c, Other(k)>>] = listener[<<c, Other(k)>>]
      /\ \A g \in Conn \ {c}, j \in Kind : listener'[<<g, j>>] = listener[<<g, j>>]
  BY <1>1, <1>3, Moved
<1>7. ChannelsOK(c)'
  <2>1. \A j \in Kind : At(c, j, "end")' <=> At(c, j, "end")
    BY <1>2, <1>6, TwoKinds, SMT DEF At, Listening
  <2>2. \A j \in Kind :
           <<c, Other(j)>> \in stop' => listener'[<<c, j>>] \in {"next", "end"}
    BY <1>1, <1>2, <1>4, <1>6, TwoKinds, SMT DEF ChannelsOK, Listening
  <2> QED
    BY <1>1, <1>4, <2>1, <2>2, Zenon DEF ChannelsOK
<1>8. stop' \subseteq Conn \X Kind /\ loopNext' \subseteq Conn /\ ~At(c, k, "none")
  BY <1>1, <1>2, <1>4, SMT DEF TypeOK, At, Listening
<1>9. \A g \in Conn \ {c}, j \in Kind : <<g, j>> \in stop' <=> <<g, j>> \in stop
  BY <1>4, SMT
<1> QED
  BY <1>4, <1>5, <1>6, <1>7, <1>8, <1>9, ListenerFrame

\* A goroutine that has stopped listening tells the other one.
LEMMA StopOtherInv ==
  ASSUME IInv, NEW c \in Conn, NEW k \in Kind, StopOther(c, k)
  PROVE  IInv'
<1>1. TypeOK /\ ChannelsOK(c)
  BY DEF IInv
<1>2. /\ listener[<<c, k>>] = "stop" /\ To(c, k, "next")
      /\ stop' = stop \cup {<<c, Other(k)>>}
      /\ UNCHANGED <<main, loop, current, ws, loopNext, left, crashed>>
  BY DEF StopOther, At
<1>3. /\ listener' \in [Conn \X Kind -> {"none", "stop", "next", "end"} \cup Listening]
      /\ listener'[<<c, k>>] = "next"
      /\ listener'[<<c, Other(k)>>] = listener[<<c, Other(k)>>]
      /\ \A g \in Conn \ {c}, j \in Kind : listener'[<<g, j>>] = listener[<<g, j>>]
  BY <1>1, <1>2, Moved
<1>4. ChannelsOK(c)'
  <2>1. \A j \in Kind : At(c, j, "end")' <=> At(c, j, "end")
    BY <1>2, <1>3, TwoKinds, SMT DEF At
  <2>2. ASSUME NEW j \in Kind, <<c, Other(j)>> \in stop'
        PROVE  listener'[<<c, j>>] \in {"next", "end"}
    BY <1>1, <1>2, <1>3, <2>2, TwoKinds, SMT DEF ChannelsOK
  <2> QED
    BY <1>1, <1>2, <2>1, <2>2, Zenon DEF ChannelsOK
<1>5. stop' \subseteq Conn \X Kind /\ loopNext' \subseteq Conn /\ ~At(c, k, "none")
  BY <1>1, <1>2, TwoKinds, SMT DEF TypeOK, At
<1>6. \A g \in Conn \ {c}, j \in Kind : <<g, j>> \in stop' <=> <<g, j>> \in stop
  BY <1>2, SMT
<1>7. crashed' \in BOOLEAN
  BY <1>1, <1>2, Zenon DEF TypeOK
<1> QED
  BY <1>2, <1>3, <1>4, <1>5, <1>6, <1>7, ListenerFrame

\* A goroutine ends with a word to the loop.
LEMMA SendNextInv ==
  ASSUME IInv, NEW c \in Conn, NEW k \in Kind, SendNext(c, k)
  PROVE  IInv'
<1>1. TypeOK /\ ChannelsOK(c)
  BY DEF IInv
<1>2. /\ listener[<<c, k>>] = "next" /\ To(c, k, "end")
      /\ c \notin loopNext /\ loopNext' = loopNext \cup {c}
      /\ UNCHANGED <<main, loop, current, ws, stop, left, crashed>>
  BY DEF SendNext, At
<1>3. /\ listener' \in [Conn \X Kind -> {"none", "stop", "next", "end"} \cup Listening]
      /\ listener'[<<c, k>>] = "end"
      /\ listener'[<<c, Other(k)>>] = listener[<<c, Other(k)>>]
      /\ \A g \in Conn \ {c}, j \in Kind : listener'[<<g, j>>] = listener[<<g, j>>]
  BY <1>1, <1>2, Moved
<1>4. ChannelsOK(c)'
  <2>1. \A j \in Kind : <<c, Other(j)>> \in stop' => listener'[<<c, j>>] \in {"next", "end"}
    BY <1>1, <1>2, <1>3, TwoKinds, SMT DEF ChannelsOK
  <2>2. CASE left[c] = "listener"
    <3>1. PICK i \in Kind : At(c, i, "end")
      BY <1>1, <2>2, Zenon DEF ChannelsOK
    <3>2. listener[<<c, Other(k)>>] = "end"
      BY <1>2, <3>1, TwoKinds, SMT DEF At
    <3>3. \A j \in Kind : At(c, j, "end")'
      BY <1>3, <3>2, TwoKinds, SMT DEF At
    <3> QED
      BY <1>2, <2>1, <2>2, <3>3, SMT DEF ChannelsOK
  <2>3. CASE left[c] # "listener"
    <3>1. listener[<<c, Other(k)>>] # "end"
      BY <1>1, <1>2, <2>3, TwoKinds, SMT DEF ChannelsOK, At
    <3>2. ~At(c, Other(k), "end")' /\ At(c, k, "end")' /\ Other(k) \in Kind
      BY <1>3, <3>1, TwoKinds, SMT DEF At
    <3> QED
      BY <1>2, <2>1, <2>3, <3>2, SMT DEF ChannelsOK
  <2> QED
    BY <2>2, <2>3
<1>5. stop' \subseteq Conn \X Kind /\ loopNext' \subseteq Conn /\ ~At(c, k, "none")
  BY <1>1, <1>2, SMT DEF TypeOK, At
<1>6. crashed' \in BOOLEAN
  BY <1>1, <1>2, Zenon DEF TypeOK
<1>7. \A g \in Conn \ {c} : g \in loopNext' <=> g \in loopNext
  BY <1>2, SMT
<1> QED
  BY <1>2, <1>3, <1>4, <1>5, <1>6, <1>7, ListenerFrame

\* Nothing happens.
LEMMA StutterInv ==
  ASSUME IInv, UNCHANGED vars
  PROVE  IInv'
<1>1. TypeOK'
  BY Zenon DEF IInv, TypeOK, vars
<1>2. ASSUME NEW g \in Conn PROVE RoundOK(g)' /\ ChannelsOK(g)'
  BY <1>2, SMT DEF IInv, RoundOK, ChannelsOK, Untouched, At, vars
<1> QED
  BY <1>1, <1>2, SMT DEF IInv, At, vars

\* Every step keeps the invariant.
LEMMA NextInv == IInv /\ [Next]_vars => IInv'
<1> SUFFICES ASSUME IInv, [Next]_vars PROVE IInv'
  OBVIOUS
<1>1. CASE Signal \/ Shutdown
  BY <1>1, MainInv
<1>2. CASE Dial
  BY <1>2, DialInv
<1>3. CASE ReportClosed
  BY <1>3, ReportClosedInv
<1>4. CASE NextRound
  BY <1>4, NextRoundInv
<1>5. CASE TimerFires
  BY <1>5, TimerFiresInv
<1>6. CASE Close
  BY <1>6, CloseInv
<1>7. ASSUME NEW g \in Conn, Break(g) PROVE IInv'
  BY <1>7, BreakInv
<1>8. ASSUME NEW g \in Conn, NEW k \in Kind, Listener(g, k) PROVE IInv'
  BY <1>8, ListenInv, StopOtherInv, SendNextInv, Zenon DEF Listener
<1>9. CASE UNCHANGED vars
  BY <1>9, StutterInv
<1> QED
  BY <1>1, <1>2, <1>3, <1>4, <1>5, <1>6, <1>7, <1>8, <1>9, Zenon DEF Next

\* The inductive invariant holds for any number of rounds: what is in the
\* channels of each round is what its goroutines have sent, one value at most.
THEOREM Invariance == Spec => []IInv
<1>1. Init => IInv
  BY InitInv
<1>2. IInv /\ [Next]_vars => IInv'
  BY NextInv
<1> QED
  BY <1>1, <1>2, PTL DEF Spec

\* A goroutine is left behind only in a round that the timer ended, and then the
\* other one has ended.
THEOREM AtMostOneIsLeft == Spec => []OnlyTimerLeavesOne
<1>1. IInv => OnlyTimerLeavesOne
  <2> SUFFICES ASSUME IInv, NEW g \in Conn, NEW k \in Kind, LeftBehind(g, k)
               PROVE  left[g] = "timer" /\ At(g, Other(k), "end")
    BY DEF OnlyTimerLeavesOne
  <2>1. TypeOK /\ RoundOK(g) /\ ChannelsOK(g)
    BY DEF IInv
  <2>2. /\ listener[<<g, k>>] = "next" /\ g \in loopNext
        /\ g = current => loop # "wait"
    BY DEF LeftBehind, At
  <2>3. left[g] # "not"
    BY <2>1, <2>2, SMT DEF RoundOK, TypeOK, Untouched, Conn, IInv, At
  <2>4. left[g] # "listener"
    BY <2>1, <2>2, SMT DEF ChannelsOK, At
  <2>5. left[g] = "timer"
    BY <2>1, <2>3, <2>4, SMT DEF TypeOK
  <2>6. PICK j \in Kind : At(g, j, "end")
    BY <2>1, <2>2, <2>4, Zenon DEF ChannelsOK
  <2>7. j = Other(k)
    BY <2>2, <2>6, TwoKinds, SMT DEF At
  <2> QED
    BY <2>5, <2>6, <2>7
<1> QED
  BY <1>1, Invariance, PTL

\* Only the connection of the current round can be open.
THEOREM OneIsOpen == Spec => []OneConnection
<1>1. IInv => OneConnection
  BY SMT DEF IInv, TypeOK, RoundOK, Untouched, OneConnection, Conn
<1> QED
  BY <1>1, Invariance, PTL

\* A nil client is used only once main has left its select.
THEOREM NoCrashBefore == Spec => []CrashOnlyInShutdown
<1>1. IInv => CrashOnlyInShutdown
  BY DEF IInv, CrashOnlyInShutdown
<1> QED
  BY <1>1, Invariance, PTL
=============================================================================
