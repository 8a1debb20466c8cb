---------------------------- MODULE NotifierProofs ----------------------------
(***************************************************************************)
(* Proofs about Notifier: its inductive invariant, and that it implements  *)
(* NotificationFeed.                                                       *)
(***************************************************************************)
EXTENDS Notifier, TLAPS

USE NotifierAssumption DEF ReaderState, WriterState, HubState, CallerState

\* The service starts with no subscription and nothing to notify.
LEMMA InitInv == Init => IInv
BY DEF Init, IInv, TypeOK, Idle, Select

\* A writer moves on with the message it has, or with another state.
LEMMA WriterMoves ==
    ASSUME TypeOK, NEW s \in Sub,
           NEW pc \in {"idle", "select", "write", "close", "end"}
    PROVE  [writer EXCEPT ![s].pc = pc] \in [Sub -> WriterState]
<1>1. writer[s] \in WriterState
  BY DEF TypeOK
<1>2. [writer[s] EXCEPT !.pc = pc] \in WriterState
  BY <1>1
<1> QED
  BY <1>2 DEF TypeOK

\* Every step of a subscription's goroutines preserves the invariant.
LEMMA SubscriptionInv ==
    ASSUME IInv, NEW s \in Sub, Subscription(s)
    PROVE  IInv'
<1>1. CASE Subscribe(s)
  BY <1>1 DEF IInv, TypeOK, Subscribe
<1>2. CASE Register(s)
  <2>0. writer' = [writer EXCEPT ![s].pc = "select"] /\ TypeOK
    BY <1>2 DEF Register, IInv
  <2>3. writer' \in [Sub -> WriterState]
    BY <2>0, WriterMoves
  <2>1. TypeOK'
    BY <1>2, <2>0, <2>3 DEF TypeOK, Register
  <2>2. \A k \in Sub :
          /\ k \in clients' <=> reader'[k] \in {"read", "unregister"}
          /\ k \in closed' => reader'[k] \in {"close", "end"}
          /\ reader'[k] \in {"idle", "register"} <=> writer'[k].pc = "idle"
          /\ writer'[k].pc = "write" => writer'[k].msg \in Message
    BY <1>2 DEF IInv, TypeOK, Register
  <2> QED
    BY <1>2, <2>1, <2>2 DEF IInv, Register
<1>3. CASE Disconnect(s)
  BY <1>3 DEF IInv, TypeOK, Disconnect
<1>4. CASE ReadFails(s)
  BY <1>4 DEF IInv, TypeOK, ReadFails
<1>5. CASE Unregister(s)
  BY <1>5 DEF IInv, TypeOK, Unregister
<1>6. CASE ReaderCloses(s)
  BY <1>6 DEF IInv, TypeOK, ReaderCloses
<1>7. CASE Write(s)
  <2>0. writer[s].msg \in Message /\ TypeOK
    BY <1>7 DEF IInv, Write
  <2>1. writer' \in [Sub -> WriterState]
    <3>1. \A pc \in {"select", "close"} : [pc |-> pc, msg |-> NoMessage] \in WriterState
      OBVIOUS
    <3>2. \A pc \in {"select", "close"} : WriterIs(s, pc) => writer' \in [Sub -> WriterState]
      BY <2>0, <3>1 DEF TypeOK, WriterIs
    <3> QED
      BY <1>7, <3>2 DEF Write
  <2>3. got' \in [Sub -> Seq(Message)]
    <3>1. got[s] \in Seq(Message)
      BY <2>0 DEF TypeOK
    <3>2. Append(got[s], writer[s].msg) \in Seq(Message)
      BY <2>0, <3>1
    <3> QED
      BY <1>7, <2>0, <3>2 DEF Write, TypeOK
  <2>4. TypeOK'
    BY <1>7, <2>1, <2>3, <2>0 DEF TypeOK, Write
  <2>2. \A k \in Sub :
          /\ k \in clients' <=> reader'[k] \in {"read", "unregister"}
          /\ k \in closed' => reader'[k] \in {"close", "end"}
          /\ reader'[k] \in {"idle", "register"} <=> writer'[k].pc = "idle"
          /\ writer'[k].pc = "write" => writer'[k].msg \in Message
    <3>1. CASE WriterIs(s, "select")
      BY <1>7, <3>1 DEF IInv, TypeOK, Write, WriterIs
    <3>2. CASE WriterIs(s, "close")
      BY <1>7, <3>2 DEF IInv, TypeOK, Write, WriterIs
    <3> QED
      BY <1>7, <3>1, <3>2 DEF Write
  <2> QED
    BY <1>7, <2>4, <2>2 DEF IInv, Write
<1>8. CASE PingFails(s)
  BY <1>8 DEF IInv, TypeOK, PingFails, WriterIs
<1>9. CASE SeesClosed(s)
  BY <1>9 DEF IInv, TypeOK, SeesClosed, WriterIs
<1>10. CASE WriterCloses(s)
  BY <1>10 DEF IInv, TypeOK, WriterCloses, WriterIs
<1> QED
  BY <1>1, <1>2, <1>3, <1>4, <1>5, <1>6, <1>7, <1>8, <1>9, <1>10 DEF Subscription

\* Every step of a notification preserves the invariant.
LEMMA NotificationInv ==
    ASSUME IInv,
           \/ \E s \in Sub : Send(s)
           \/ \E c \in Caller : Take(c) \/ \E m \in Message : NotifyClients(c, m)
    PROVE  IInv'
<1>1. CASE \E s \in Sub : Send(s)
  <2> PICK s \in Sub : Send(s)
    BY <1>1
  <2>0. hub.msg \in Message /\ TypeOK
    BY DEF IInv, Send
  <2>5. writer' \in [Sub -> WriterState]
    BY <2>0 DEF TypeOK, Send
  <2>6. hub' \in HubState
    BY <2>0 DEF Send, Select, TypeOK
  <2>1. TypeOK'
    BY <2>0, <2>5, <2>6 DEF TypeOK, Send
  <2>2. hub'.todo \subseteq clients'
    BY DEF IInv, TypeOK, Send, Select
  <2>3. IF hub'.pc = "select" THEN hub'.todo = {} ELSE hub'.msg \in Message
    BY DEF IInv, TypeOK, Send, Select
  <2>4. \A k \in Sub :
          /\ k \in clients' <=> reader'[k] \in {"read", "unregister"}
          /\ k \in closed' => reader'[k] \in {"close", "end"}
          /\ reader'[k] \in {"idle", "register"} <=> writer'[k].pc = "idle"
          /\ writer'[k].pc = "write" => writer'[k].msg \in Message
    BY DEF IInv, TypeOK, Send, Select
  <2> QED
    BY <2>1, <2>2, <2>3, <2>4 DEF IInv, Send
<1>2. ASSUME NEW c \in Caller, Take(c) PROVE IInv'
  <2>7. SubsOf(Addressee(c)) \subseteq Sub /\ caller[c].msg \in Message /\ TypeOK
    BY <1>2 DEF IInv, TypeOK, Take, SubsOf
  <2>8. hub' \in HubState
    BY <1>2, <2>7 DEF TypeOK, Take
  <2>9. caller' \in [Caller -> CallerState]
    <3>2. caller[c] \in CallerState
      BY <2>7 DEF TypeOK
    <3>1. Idle \in CallerState /\ [caller[c] EXCEPT !.pc = "from"] \in CallerState
      BY <3>2 DEF Idle
    <3> QED
      BY <1>2, <2>7, <3>1 DEF TypeOK, Take
  <2>1. TypeOK'
    BY <1>2, <2>7, <2>8, <2>9 DEF TypeOK, Take
  <2>2. hub'.todo \subseteq clients'
    BY <1>2 DEF IInv, TypeOK, Take, SubsOf
  <2>3. IF hub'.pc = "select" THEN hub'.todo = {} ELSE hub'.msg \in Message
    BY <1>2 DEF IInv, TypeOK, Take, SubsOf
  <2>4. \A d \in Caller :
          IF caller'[d].pc = "idle" THEN caller'[d].msg = NoMessage
                                    ELSE caller'[d].msg \in handled'
    BY <1>2 DEF IInv, TypeOK, Take, Idle
  <2>5. \A d \in Caller : caller'[d].msg \in {caller[d].msg, NoMessage}
    BY <1>2 DEF TypeOK, IInv, Take, Idle
  <2>6. \A d, e \in Caller : caller'[d].msg = caller'[e].msg =>
                               d = e \/ caller'[d].msg = NoMessage
    BY <2>5 DEF IInv
  <2> QED
    BY <1>2, <2>1, <2>2, <2>3, <2>4, <2>6 DEF IInv, Take
<1>3. ASSUME NEW c \in Caller, NEW m \in Message, NotifyClients(c, m) PROVE IInv'
  <2>1. TypeOK'
    BY <1>3 DEF IInv, TypeOK, NotifyClients
  <2>2. \A d \in Caller :
          caller'[d] = IF d = c THEN [pc |-> "to", msg |-> m] ELSE caller[d]
    BY <1>3 DEF IInv, TypeOK, NotifyClients
  <2>3. \A d \in Caller :
          IF caller'[d].pc = "idle" THEN caller'[d].msg = NoMessage
                                    ELSE caller'[d].msg \in handled'
    BY <1>3, <2>2 DEF IInv, NotifyClients
  <2>4. \A d \in Caller : caller[d].msg # m
    BY <1>3 DEF IInv, NotifyClients
  <2>5. \A d, e \in Caller : caller'[d].msg = caller'[e].msg =>
                               d = e \/ caller'[d].msg = NoMessage
    BY <2>2, <2>4 DEF IInv
  <2> QED
    BY <1>3, <2>1, <2>3, <2>5 DEF IInv, NotifyClients
<1> QED
  BY <1>1, <1>2, <1>3

\* The invariant holds of every reachable state.
THEOREM Invariance == Spec => []IInv
<1>1. IInv /\ [Next]_vars => IInv'
  <2>1. CASE Next
    BY <2>1, SubscriptionInv, NotificationInv DEF Next
  <2>2. CASE UNCHANGED vars
    BY <2>2 DEF IInv, TypeOK, vars
  <2> QED
    BY <2>1, <2>2
<1> QED
  BY InitInv, <1>1, PTL DEF Spec

\* The hub never sends on a channel it has closed.
THEOREM NeverSendsOnClosed == Spec => []NoSendOnClosed
<1>1. IInv => NoSendOnClosed
  <2> SUFFICES ASSUME IInv, NEW s \in hub.todo, s \in closed PROVE FALSE
    BY DEF NoSendOnClosed
  <2>1. s \in Sub /\ s \in clients
    BY DEF IInv, TypeOK
  <2>2. reader[s] \in {"read", "unregister"} /\ reader[s] \in {"close", "end"}
    BY <2>1 DEF IInv
  <2> QED
    BY <2>2
<1> QED
  BY Invariance, <1>1, PTL

-----------------------------------------------------------------------------
(* The hub, the readers and the writers together implement a feed. *)

\* What the feed sees of a subscription: whether it is on, and what is on its way.
Same(k) == Subscribed(k)' = Subscribed(k) /\ InTransit(k)' = InTransit(k)

\* When the feed sees no change, the step is a stutter of the feed.
LEMMA Stutters ==
    ASSUME \A k \in Sub : Same(k), UNCHANGED <<Published, got>>
    PROVE  UNCHANGED Feed!feedVars
BY DEF Feed!feedVars, Same

\* A change of one subscription is a change of the feed's functions at its place.
LEMMA ChangesOne ==
    ASSUME NEW s \in Sub, \A k \in Sub : k # s => Same(k)
    PROVE  /\ [k \in Sub |-> Subscribed(k)]'
                = [[k \in Sub |-> Subscribed(k)] EXCEPT ![s] = Subscribed(s)']
           /\ [k \in Sub |-> InTransit(k)]'
                = [[k \in Sub |-> InTransit(k)] EXCEPT ![s] = InTransit(s)']
BY DEF Same

\* A subscription that ends, with or without losing what is on its way.
LEMMA Leaves ==
    ASSUME NEW s \in Sub, \A k \in Sub : k # s => Same(k),
           UNCHANGED <<Published, got>>,
           Subscribed(s)' = "off", Subscribed(s) # "new",
           \/ Subscribed(s) = "on" /\ InTransit(s)' = InTransit(s)
           \/ InTransit(s)' = <<>>
    PROVE  Feed!Leave(s)
<1>1. CASE InTransit(s)' = <<>>
  BY <1>1, ChangesOne DEF Feed!Leave
<1>2. CASE Subscribed(s) = "on" /\ InTransit(s)' = InTransit(s)
  <2>1. [k \in Sub |-> InTransit(k)]' = [k \in Sub |-> InTransit(k)]
    BY <1>2 DEF Same
  <2> QED
    BY <1>2, <2>1, ChangesOne DEF Feed!Leave
<1> QED
  BY <1>1, <1>2

\* The steps of a subscription's goroutines: join, deliver, leave or stutter.
LEMMA SubscriptionMaps ==
    ASSUME IInv, NEW s \in Sub, Subscription(s)
    PROVE  [Feed!FeedNext]_(Feed!feedVars)
<1>1. UNCHANGED Published
  BY DEF Published, Subscription, Subscribe, Register, Disconnect, ReadFails, Unregister,
         ReaderCloses, Write, PingFails, SeesClosed, WriterCloses
<1>2. ASSUME NEW k \in Sub, k # s PROVE Same(k)
  <2>1. reader'[k] = reader[k] /\ (k \in clients' <=> k \in clients) /\ hub' = hub
    BY <1>2 DEF IInv, TypeOK, Subscription, Subscribe, Register, Disconnect, ReadFails,
         Unregister, ReaderCloses, Write, PingFails, SeesClosed, WriterCloses
  <2>2. writer'[k] = writer[k]
    BY <1>2 DEF IInv, TypeOK, Subscription, Subscribe, Register, Disconnect, ReadFails,
         Unregister, ReaderCloses, Write, PingFails, SeesClosed, WriterCloses, WriterIs
  <2> QED
    BY <2>1, <2>2 DEF Same, Subscribed, InTransit
<1>3. CASE Subscribe(s) \/ Disconnect(s) \/ ReadFails(s) \/ ReaderCloses(s) \/ WriterCloses(s)
  <2>0. hub' = hub /\ clients' = clients
    BY <1>3 DEF Subscribe, Disconnect, ReadFails, ReaderCloses, WriterCloses
  <2>3. ASSUME Subscribe(s) \/ Disconnect(s) \/ ReadFails(s) \/ ReaderCloses(s) PROVE Same(s)
    <3>1. writer' = writer
      BY <2>3 DEF Subscribe, Disconnect, ReadFails, ReaderCloses
    <3>2. InTransit(s)' = InTransit(s)
      BY <2>0, <3>1 DEF InTransit
    <3>3. reader'[s] \in {"idle", "register"} <=> (reader[s] \in {"idle", "register"})
      BY <2>3 DEF IInv, TypeOK, Subscribe, Disconnect, ReadFails, ReaderCloses
    <3> QED
      BY <2>0, <3>1, <3>2, <3>3 DEF Same, Subscribed
  <2>4. ASSUME WriterCloses(s) PROVE Same(s)
    <3>1. writer[s].pc = "close" /\ writer'[s].pc = "end" /\ reader' = reader
      BY <2>4 DEF IInv, TypeOK, WriterCloses, WriterIs
    <3> QED
      BY <2>0, <3>1 DEF Same, Subscribed, InTransit
  <2>1. Same(s)
    BY <1>3, <2>3, <2>4
  <2>2. UNCHANGED got
    BY <1>3 DEF Subscribe, Disconnect, ReadFails, ReaderCloses, WriterCloses
  <2> QED
    BY <1>1, <1>2, <2>1, <2>2, Stutters
<1>4. CASE Register(s)
  <2>1. /\ Subscribed(s) = "new" /\ Subscribed(s)' = "on"
        /\ InTransit(s)' = InTransit(s) /\ got' = got
    <3>1. /\ reader[s] = "register" /\ reader'[s] = "read"
          /\ s \in clients' /\ writer[s].pc = "idle" /\ writer'[s].pc = "select"
          /\ hub' = hub /\ got' = got
      BY <1>4 DEF IInv, TypeOK, Register
    <3>2. s \notin hub.todo
      BY <3>1 DEF IInv
    <3>3. InTransit(s) = <<>> \o <<>>
      BY <3>1, <3>2 DEF InTransit
    <3>5. Subscribed(s) = "new"
      BY <3>1 DEF Subscribed, IInv
    <3>4. Subscribed(s)' = "on" /\ InTransit(s)' = <<>> \o <<>>
      BY <3>1, <3>2 DEF Subscribed, InTransit
    <3> QED
      BY <3>1, <3>3, <3>4, <3>5
  <2>2. [k \in Sub |-> InTransit(k)]' = [k \in Sub |-> InTransit(k)]
    BY <1>2, <2>1 DEF Same
  <2>3. Feed!Join(s)
    BY <1>1, <1>2, <2>1, <2>2, ChangesOne DEF Feed!Join
  <2> QED
    BY <2>3 DEF Feed!FeedNext
<1>5. CASE Unregister(s)
  <2>1. got' = got /\ Subscribed(s)' = "off" /\ Subscribed(s) # "new"
    BY <1>5 DEF IInv, TypeOK, Subscribed, Unregister
  <2>2. InTransit(s)' = InTransit(s)
    BY <1>5 DEF IInv, TypeOK, InTransit, Unregister
  <2>3. Subscribed(s) = "on" \/ InTransit(s) = <<>>
    BY <1>5 DEF IInv, TypeOK, Subscribed, InTransit, Unregister
  <2>4. Feed!Leave(s)
    BY <1>1, <1>2, <2>1, <2>2, <2>3, Leaves
  <2> QED
    BY <2>4 DEF Feed!FeedNext
<1>6. CASE PingFails(s) \/ SeesClosed(s) \/ (Write(s) /\ WriterIs(s, "close") /\ UNCHANGED got)
  <2>1. /\ writer[s].pc \in {"select", "write"} /\ writer'[s].pc = "close"
        /\ got' = got /\ reader' = reader
    BY <1>6 DEF IInv, TypeOK, PingFails, SeesClosed, Write, WriterIs
  <2>2. reader[s] \notin {"idle", "register"}
    BY <2>1 DEF IInv
  <2>3. Subscribed(s) # "new"
    BY <2>2 DEF Subscribed
  <2>4. Subscribed(s)' = "off" /\ InTransit(s)' = <<>>
    BY <2>1, <2>2 DEF Subscribed, InTransit
  <2>5. Feed!Leave(s)
    BY <1>1, <1>2, <2>1, <2>3, <2>4, Leaves
  <2> QED
    BY <2>5 DEF Feed!FeedNext
<1>7. CASE /\ Write(s) /\ WriterIs(s, "select")
           /\ got' = [got EXCEPT ![s] = Append(@, writer[s].msg)]
  <2>1. /\ writer[s].pc = "write" /\ writer'[s].pc = "select" /\ reader' = reader
        /\ clients' = clients /\ hub' = hub
    BY <1>7 DEF IInv, TypeOK, Write, WriterIs
  <2>2. writer[s].msg \in Message /\ (s \in hub.todo => hub.msg \in Message)
    BY <2>1 DEF IInv, TypeOK
  <2>3. Subscribed(s)' = Subscribed(s)
    BY <2>1 DEF Subscribed
  <2> DEFINE rest == IF s \in hub.todo THEN <<hub.msg>> ELSE <<>>
  <2>4. InTransit(s) = <<writer[s].msg>> \o rest
    BY <2>1 DEF InTransit
  <2>5. InTransit(s)' = <<>> \o rest
    BY <2>1 DEF InTransit
  <2>6. rest \in Seq(Message)
    BY <2>2
  <2> HIDE DEF rest
  <2>7. /\ InTransit(s) # <<>> /\ Head(InTransit(s)) = writer[s].msg
        /\ Tail(InTransit(s)) = InTransit(s)'
    BY <2>2, <2>4, <2>5, <2>6
  <2>8. [k \in Sub |-> Subscribed(k)]' = [k \in Sub |-> Subscribed(k)]
    BY <1>2, <2>3 DEF Same
  <2>9. Feed!Deliver(s)
    BY <1>1, <1>2, <1>7, <2>7, <2>8, ChangesOne DEF Feed!Deliver
  <2> QED
    BY <2>9 DEF Feed!FeedNext
<1> QED
  BY <1>3, <1>4, <1>5, <1>6, <1>7 DEF Subscription, Write

\* The hub hands its message over: for the feed it was on its way already.
LEMMA SendMaps ==
    ASSUME IInv, NEW s \in Sub, Send(s)
    PROVE  UNCHANGED Feed!feedVars
<1>1. UNCHANGED <<Published, got>>
  BY DEF Published, Send
<1>2. /\ writer[s].pc = "select" /\ writer'[s] = [pc |-> "write", msg |-> hub.msg]
      /\ s \in hub.todo /\ s \notin hub'.todo
      /\ reader' = reader /\ clients' = clients
  BY DEF IInv, TypeOK, Send, Select
<1>3. ASSUME NEW k \in Sub, k # s PROVE Same(k)
  <2>1. writer'[k] = writer[k]
    BY <1>3 DEF IInv, TypeOK, Send
  <2>2. k \in hub'.todo <=> k \in hub.todo
    BY <1>3 DEF IInv, TypeOK, Send, Select
  <2>3. k \in hub.todo => hub'.msg = hub.msg
    BY <1>3 DEF IInv, TypeOK, Send, Select
  <2> QED
    BY <1>2, <2>1, <2>2, <2>3 DEF Same, Subscribed, InTransit
<1>4. Subscribed(s)' = Subscribed(s)
  BY <1>2 DEF Subscribed
<1>5. InTransit(s) = <<>> \o <<hub.msg>> /\ InTransit(s)' = <<hub.msg>> \o <<>>
  BY <1>2 DEF InTransit
<1>6. InTransit(s)' = InTransit(s)
  <2>1. hub.msg \in Message
    BY <1>2 DEF IInv
  <2> QED
    BY <2>1, <1>5
<1> QED
  BY <1>1, <1>3, <1>4, <1>6, Stutters DEF Same

\* A caller takes up a message: nothing of it is published yet.
LEMMA NotifyClientsMaps ==
    ASSUME IInv, NEW c \in Caller, NEW m \in Message, NotifyClients(c, m)
    PROVE  UNCHANGED Feed!feedVars
<1>1. \A d \in Caller :
        caller'[d] = IF d = c THEN [pc |-> "to", msg |-> m] ELSE caller[d]
  BY DEF IInv, TypeOK, NotifyClients
<1>2. caller[c].msg = NoMessage /\ m \notin handled /\ handled' = handled \cup {m}
  BY DEF IInv, NotifyClients
<1>3. NoMessage \notin handled
  BY DEF IInv, TypeOK
<1>4. ASSUME NEW x \in Message \X {"to", "from"}
      PROVE  x \in Published' <=> x \in Published
  <2>1. CASE x[1] = m
    BY <1>1, <1>2, <2>1 DEF Published
  <2>2. CASE x[1] # m
    <3>1. x[1] \in handled' <=> x[1] \in handled
      BY <1>2, <2>2
    <3>2. ASSUME x[1] \in handled, NEW d \in Caller
          PROVE  (caller'[d].msg = x[1] => caller'[d].pc = "from" /\ x[2] = "to")
                 <=> (caller[d].msg = x[1] => caller[d].pc = "from" /\ x[2] = "to")
      BY <1>1, <1>2, <1>3, <2>2, <3>2
    <3> QED
      BY <3>1, <3>2 DEF Published
  <2> QED
    BY <2>1, <2>2
<1>5. Published \subseteq Message \X {"to", "from"} /\ Published' \subseteq Message \X {"to", "from"}
  BY <1>2 DEF IInv, TypeOK, Published
<1>6. Published' = Published
  BY <1>4, <1>5
<1>7. \A k \in Sub : Same(k)
  BY DEF NotifyClients, Same, Subscribed, InTransit
<1>8. UNCHANGED got
  BY DEF NotifyClients
<1> QED
  BY <1>6, <1>7, <1>8, Stutters

\* When the hub takes a notification, that side of its message, and no other,
\* becomes published.
LEMMA TakePublishes ==
    ASSUME IInv, NEW c \in Caller, Take(c)
    PROVE  LET m == caller[c].msg
               side == caller[c].pc
           IN /\ m \in Message /\ side \in {"to", "from"}
              /\ <<m, side>> \notin Published
              /\ side = "from" => <<m, "to">> \in Published
              /\ Published' = Published \cup {<<m, side>>}
<1> DEFINE m == caller[c].msg
           side == caller[c].pc
<1>1. m \in handled /\ m \in Message /\ m # NoMessage /\ side \in {"to", "from"}
  BY DEF IInv, TypeOK, Take
<1>2. \A d \in Caller : d # c => caller[d].msg # m
  BY <1>1 DEF IInv
<1>3. \A d \in Caller : d # c => caller'[d] = caller[d]
  BY DEF IInv, TypeOK, Take
<1>4. /\ side = "to" => caller'[c].pc = "from" /\ caller'[c].msg = m
      /\ side = "from" => caller'[c].msg = NoMessage
  BY DEF IInv, TypeOK, Take, Idle
<1>5. handled' = handled
  BY DEF Take
<1> HIDE DEF m, side
<1>6. <<m, side>> \notin Published /\ (side = "from" => <<m, "to">> \in Published)
  BY <1>1, <1>2 DEF Published, m, side
<1>7. ASSUME NEW x \in Message \X {"to", "from"}
      PROVE  x \in Published' <=> x \in Published \/ x = <<m, side>>
  <2>1. CASE x[1] # m
    <3>1. ASSUME x[1] \in handled, NEW d \in Caller
          PROVE  (caller'[d].msg = x[1] => caller'[d].pc = "from" /\ x[2] = "to")
                 <=> (caller[d].msg = x[1] => caller[d].pc = "from" /\ x[2] = "to")
      <4>1. CASE d # c
        BY <4>1, <1>3
      <4>2. CASE d = c
        <5>1. NoMessage \notin handled
          BY DEF IInv, TypeOK
        <5> QED
          BY <4>2, <5>1, <1>1, <1>4, <2>1, <3>1 DEF m
      <4> QED
        BY <4>1, <4>2
    <3> QED
      BY <1>5, <2>1, <3>1 DEF Published
  <2>2. CASE x[1] = m /\ side = "to"
    BY <1>1, <1>2, <1>3, <1>4, <1>5, <2>2 DEF Published, m, side
  <2>3. CASE x[1] = m /\ side = "from"
    BY <1>1, <1>2, <1>3, <1>4, <1>5, <2>3 DEF Published, m, side
  <2> QED
    BY <1>1, <2>1, <2>2, <2>3
<1>8. Published \subseteq Message \X {"to", "from"} /\ Published' \subseteq Message \X {"to", "from"}
  BY <1>5 DEF IInv, TypeOK, Published
<1>9. Published' = Published \cup {<<m, side>>}
  BY <1>1, <1>7, <1>8
<1> QED
  BY <1>1, <1>6, <1>9 DEF m, side

\* The hub takes a notification: it is on its way to every subscription that is
\* on, and a subscription whose writer has ended misses it.
LEMMA TakeMaps ==
    ASSUME IInv, NEW c \in Caller, Take(c)
    PROVE  Feed!FeedNext
<1> DEFINE m == caller[c].msg
           side == caller[c].pc
           subs == SubsOf(Addressee(c))
<1>1. /\ m \in Message /\ side \in {"to", "from"}
      /\ <<m, side>> \notin Published
      /\ side = "from" => <<m, "to">> \in Published
      /\ Published' = Published \cup {<<m, side>>}
  BY TakePublishes
<1>2. Addressee(c) = Feed!Party(m, side)
  BY <1>1 DEF Addressee, Feed!Party
<1>3. /\ hub.todo = {} /\ hub'.todo = subs /\ (subs # {} => hub'.msg = m)
      /\ UNCHANGED <<clients, reader, writer, got>>
  BY DEF IInv, TypeOK, Take
<1> HIDE DEF m, side
<1>4. ASSUME NEW k \in Sub
      PROVE  Subscribed(k)' = Subscribed(k)
  BY <1>3 DEF Subscribed
<1>5. ASSUME NEW k \in Sub
      PROVE  InTransit(k)' =
               IF Subscribed(k) = "on" /\ ClientOf[k] = Feed!Party(m, side)
               THEN Append(InTransit(k), m) ELSE InTransit(k)
  <2> DEFINE inHand == IF writer[k].pc = "write" THEN <<writer[k].msg>> ELSE <<>>
  <2>1. inHand \in Seq(Message)
    BY DEF IInv
  <2>2. k \in subs <=> k \in clients /\ ClientOf[k] = Feed!Party(m, side)
    BY <1>2 DEF SubsOf
  <2>3. k \in clients => reader[k] \notin {"idle", "register"}
    BY DEF IInv
  <2>4. Subscribed(k) = "on" <=> k \in clients /\ writer[k].pc \notin {"close", "end"}
    BY <2>3 DEF Subscribed
  <2>5. CASE writer[k].pc \in {"close", "end"}
    BY <1>3, <2>4, <2>5 DEF InTransit
  <2>6. CASE writer[k].pc \notin {"close", "end"}
    <3>1. InTransit(k) = inHand \o <<>>
      BY <1>3, <2>6 DEF InTransit
    <3>2. InTransit(k)' = inHand \o (IF k \in subs THEN <<m>> ELSE <<>>)
      BY <1>3, <2>6 DEF InTransit
    <3> HIDE DEF inHand
    <3>3. InTransit(k) = inHand
      BY <3>1, <2>1
    <3>4. CASE k \in subs
      <4>1. inHand \o <<m>> = Append(inHand, m)
        BY <1>1, <2>1
      <4> QED
        BY <3>2, <3>3, <3>4, <4>1, <2>2, <2>4, <2>6
    <3>5. CASE k \notin subs
      <4>1. inHand \o <<>> = inHand
        BY <2>1
      <4> QED
        BY <3>2, <3>3, <3>5, <4>1, <2>2, <2>4, <2>6
    <3> QED
      BY <3>4, <3>5
  <2> QED
    BY <2>5, <2>6
<1>6. Feed!Publish(m, side)
  BY <1>1, <1>3, <1>4, <1>5 DEF Feed!Publish
<1> QED
  BY <1>1, <1>6 DEF Feed!FeedNext

\* Subscriptions get what was published to their client while they were
\* subscribed, once, in order and without gaps, until they end.
THEOREM NotifierIsAFeed == Spec => IsAFeed
<1>1. Init => Feed!FeedInit
  <2> SUFFICES ASSUME Init PROVE Feed!FeedInit
    OBVIOUS
  <2>1. Published = {}
    BY DEF Init, Published
  <2>2. \A s \in Sub : Subscribed(s) = "new"
    BY DEF Init, Subscribed
  <2>3. \A s \in Sub : InTransit(s) = <<>> \o <<>>
    BY DEF Init, InTransit, Idle, Select
  <2> QED
    BY <2>1, <2>2, <2>3 DEF Init, Feed!FeedInit
<1>2. IInv /\ [Next]_vars => [Feed!FeedNext]_(Feed!feedVars)
  <2> SUFFICES ASSUME IInv, [Next]_vars PROVE [Feed!FeedNext]_(Feed!feedVars)
    OBVIOUS
  <2>1. ASSUME NEW s \in Sub, Subscription(s) PROVE [Feed!FeedNext]_(Feed!feedVars)
    BY <2>1, SubscriptionMaps
  <2>2. ASSUME NEW s \in Sub, Send(s) PROVE [Feed!FeedNext]_(Feed!feedVars)
    BY <2>2, SendMaps
  <2>3. ASSUME NEW c \in Caller, Take(c) PROVE [Feed!FeedNext]_(Feed!feedVars)
    BY <2>3, TakeMaps
  <2>4. ASSUME NEW c \in Caller, NEW m \in Message, NotifyClients(c, m)
        PROVE  [Feed!FeedNext]_(Feed!feedVars)
    BY <2>4, NotifyClientsMaps
  <2>5. CASE UNCHANGED vars
    <3>1. \A k \in Sub : Same(k)
      BY <2>5 DEF vars, Same, Subscribed, InTransit
    <3>2. UNCHANGED <<Published, got>>
      BY <2>5 DEF vars, Published
    <3> QED
      BY <3>1, <3>2, Stutters
  <2> QED
    BY <2>1, <2>2, <2>3, <2>4, <2>5 DEF Next
<1> QED
  BY Invariance, <1>1, <1>2, PTL DEF Spec, IsAFeed, Feed!FeedSpec
=============================================================================
