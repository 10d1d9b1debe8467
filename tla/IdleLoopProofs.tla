--------------------------- MODULE IdleLoopProofs ---------------------------
(***************************************************************************)
(* Proofs about a loop in time, for any number of connections, any         *)
(* timeouts, any size of a batch and any time a handler may take.          *)
(***************************************************************************)
EXTENDS IdleLoop, FunctionTheorems, FiniteSetTheorems, SequenceTheorems, TLAPS

USE IdleAssumption

-----------------------------------------------------------------------------
(* What is ready, and a batch of it. *)

LEMMA ReadyEvents ==
    ASSUME TypeOK
    PROVE  /\ Ready \subseteq Event
           /\ IsFiniteSet(Ready)
           /\ Cardinality(Ready) \in Nat
<1>1. ReadyConns \subseteq Conns BY DEF ReadyConns
<1>2. IsFiniteSet(ReadyConns) BY <1>1, FS_Subset
<1>3. \A c \in ReadyConns : EventOf(c) \in Conns \X {"close", "in", "out"}
  BY <1>1 DEF ReadyConns, EventOf, TypeOK
<1> DEFINE E == {EventOf(c) : c \in ReadyConns}
           f == [c \in ReadyConns |-> EventOf(c)]
<1>4. f \in Surjection(ReadyConns, E) BY DEF Surjection
<1>5. IsFiniteSet(E) BY <1>2, <1>4, FS_Surjection
<1>6. IsFiniteSet(E \cup {<<Cmd, "in">>}) BY <1>5, FS_AddElement
<1>7. Ready \subseteq E \cup {<<Cmd, "in">>} BY DEF Ready
<1>8. IsFiniteSet(Ready) BY <1>6, <1>7, FS_Subset
<1>9. Ready \subseteq Event BY <1>3, <1>7 DEF Event
<1> QED BY <1>8, <1>9, FS_CardinalityType

(* How many events epoll_wait returns. *)
Returned == IF Cardinality(Ready) < MaxEvents THEN Cardinality(Ready) ELSE MaxEvents

LEMMA ReturnedIs ==
    ASSUME TypeOK
    PROVE  Returned \in Nat /\ Returned <= MaxEvents /\ Returned <= Cardinality(Ready)
BY ReadyEvents DEF Returned

LEMMA DeliverIs ==
    ASSUME TypeOK, Deliver(Returned)
    PROVE  /\ batch' \in Seq(Event)
           /\ Len(batch') = Returned
           /\ \A i \in 1..Len(batch') : batch'[i] \in Ready
           /\ \A i, j \in 1..Len(batch') : i # j => batch'[i] # batch'[j]
           /\ conn' = [c \in Conns |->
                IF \E i \in 1..Len(batch') : batch'[i][1] = c THEN "off" ELSE conn[c]]
<1>1. PICK order \in [1..Returned -> Ready] :
        /\ \A i, j \in 1..Returned : i # j => order[i] # order[j]
        /\ batch' = order
        /\ conn' = [c \in Conns |->
                        IF \E i \in 1..Returned : order[i][1] = c THEN "off" ELSE conn[c]]
  BY DEF Deliver
<1>2. Returned \in Nat BY ReturnedIs
<1>3. order \in [1..Returned -> Event] BY ReadyEvents
<1>4. order \in Seq(Event) /\ Len(order) = Returned BY <1>2, <1>3
<1> QED BY <1>1, <1>4

-----------------------------------------------------------------------------
(* Types. *)

LEMMA TypeInit == Init => TypeOK
<1> SUFFICES ASSUME Init PROVE TypeOK OBVIOUS
<1>1. /\ unsendable \in [Conns -> BOOLEAN]
      /\ hup \in [Conns -> BOOLEAN]
      /\ writable \in [Conns -> BOOLEAN]
  BY DEF Init
<1> QED BY <1>1 DEF Init, TypeOK

LEMMA BooleanExcept ==
    ASSUME NEW f \in [Conns -> BOOLEAN], NEW c \in Conns
    PROVE  /\ [f EXCEPT ![c] = TRUE] \in [Conns -> BOOLEAN]
           /\ [f EXCEPT ![c] = FALSE] \in [Conns -> BOOLEAN]
BY Zenon

LEMMA AddTimerType ==
    ASSUME TypeOK, NEW c \in Conns, AddTimer(c)
    PROVE  left' \in [Conns -> 0..Timeout \cup {NoTimer}] /\ idle' \in [Conns -> Nat]
BY DEF TypeOK, AddTimer

LEMMA ClosedType ==
    ASSUME TypeOK, NEW S \in SUBSET Conns, Closed(S)
    PROVE  /\ conn' \in [Conns -> {"gone", "queued", "off", "in", "out"}]
           /\ left' \in [Conns -> 0..Timeout \cup {NoTimer}]
           /\ room' \in [Conns -> 0..BufferSize]
           /\ unsendable' \in [Conns -> BOOLEAN]
           /\ sent' \in [Conns -> 0..MaxSent]
           /\ hup' \in [Conns -> BOOLEAN]
           /\ writable' \in [Conns -> BOOLEAN]
           /\ idle' \in [Conns -> Nat]
           /\ turns' \in [Conns -> 0..MaxTurns]
BY DEF TypeOK, Closed

LEMMA NextEventType ==
    ASSUME TypeOK, batch # <<>>, NextEvent
    PROVE  /\ batch' \in Seq(Event)
           /\ pc' \in {"wait", "turn", "handle"}
           /\ pc' = "handle" => batch' # <<>>
           /\ spent' \in 0..MaxHandle
BY HeadTailProperties DEF TypeOK, NextEvent

LEMMA TypeStep == TypeOK /\ [Next]_vars => TypeOK'
<1> SUFFICES ASSUME TypeOK, [Next]_vars PROVE TypeOK' OBVIOUS
<1>1. ASSUME NEW c \in Conns, ClientStep(c) PROVE TypeOK'
  <2>1. turns' \in [Conns -> 0..MaxTurns] /\ conn' \in [Conns -> {"gone", "queued", "off", "in", "out"}]
    <3>1. turns' = turns \/ turns' = [turns EXCEPT ![c] = 0]
      BY <1>1 DEF ClientStep, Connect, Send, Hangup, Read, Acted
    <3>2. conn' = conn \/ conn' = [conn EXCEPT ![c] = "queued"]
      BY <1>1 DEF ClientStep, Connect, Send, Hangup, Read, connVars
    <3>3. /\ turns \in [Conns -> 0..MaxTurns]
          /\ conn \in [Conns -> {"gone", "queued", "off", "in", "out"}]
      BY DEF TypeOK
    <3>4. turns' \in [Conns -> 0..MaxTurns] BY <3>1, <3>3
    <3> QED BY <3>2, <3>3, <3>4
  <2>2. sent' \in [Conns -> 0..MaxSent]
    <3>1. sent' = sent \/ (sent[c] < MaxSent /\ sent' = [sent EXCEPT ![c] = @ + 1])
      BY <1>1 DEF ClientStep, Connect, Send, Hangup, Read, clientVars
    <3>2. sent \in [Conns -> 0..MaxSent] BY DEF TypeOK
    <3> QED BY <3>1, <3>2
  <2>3. hup' \in [Conns -> BOOLEAN] /\ writable' \in [Conns -> BOOLEAN]
    <3>1. hup' = hup \/ hup' = [hup EXCEPT ![c] = TRUE]
      BY <1>1 DEF ClientStep, Connect, Send, Hangup, Read, clientVars
    <3>2. writable' = writable \/ writable' = [writable EXCEPT ![c] = TRUE]
      BY <1>1 DEF ClientStep, Connect, Send, Hangup, Read, clientVars
    <3> QED BY <3>1, <3>2, BooleanExcept, Zenon DEF TypeOK
  <2>4. UNCHANGED <<loopVars, left, room, unsendable, idle>>
    <3>1. CASE Connect(c) BY <3>1 DEF Connect
    <3>2. CASE Send(c) BY <3>2 DEF Send, connVars
    <3>3. CASE Hangup(c) BY <3>3 DEF Hangup, connVars
    <3>4. CASE Read(c) BY <3>4 DEF Read, connVars
    <3> QED BY <1>1, <3>1, <3>2, <3>3, <3>4 DEF ClientStep
  <2> QED BY <2>1, <2>2, <2>3, <2>4 DEF TypeOK, loopVars
<1>2. ASSUME NEW c \in Conns, HandleClose(c) PROVE TypeOK'
  <2>1. {c} \in SUBSET Conns /\ Closed({c}) BY <1>2 DEF HandleClose
  <2> QED BY <1>2, <2>1, ClosedType, NextEventType DEF TypeOK, HandleClose
<1>3. ASSUME NEW c \in Conns, HandleBegin(c) PROVE TypeOK'
  <2>1. AddTimer(c) /\ batch # <<>> /\ pc' = "handle" BY <1>3 DEF HandleBegin
  <2>2. turns' \in [Conns -> 0..MaxTurns] BY <1>3 DEF TypeOK, HandleBegin
  <2>3. UNCHANGED <<batch, waited, spent, reported, conn, room, unsendable, sent, hup, writable>>
    BY <1>3 DEF HandleBegin, clientVars
  <2> QED BY <2>1, <2>2, <2>3, AddTimerType DEF TypeOK
<1>4. ASSUME NEW c \in Conns, ProcessIn(c) PROVE TypeOK'
  <2>1. batch # <<>> BY <1>4 DEF TypeOK, ProcessIn
  <2>2. AddTimer(c) /\ conn' \in [Conns -> {"gone", "queued", "off", "in", "out"}]
    BY <1>4 DEF TypeOK, ProcessIn, ModConnEvent
  <2>3. /\ sent' \in [Conns -> 0..MaxSent]
        /\ room' \in [Conns -> 0..BufferSize]
    BY <1>4 DEF TypeOK, ProcessIn
  <2> QED BY <1>4, <2>1, <2>2, <2>3, AddTimerType, NextEventType DEF TypeOK, ProcessIn
<1>5. ASSUME NEW c \in Conns, ProcessOut(c) PROVE TypeOK'
  <2>1. batch # <<>> BY <1>5 DEF TypeOK, ProcessOut
  <2>2. CASE Closed({c})
    BY <1>5, <2>1, <2>2, ClosedType, NextEventType DEF TypeOK, ProcessOut
  <2>3. CASE ~Closed({c})
    <3>1. AddTimer(c) /\ conn' \in [Conns -> {"gone", "queued", "off", "in", "out"}]
      BY <1>5, <2>3 DEF TypeOK, ProcessOut, ModConnEvent
    <3>2. /\ room' \in [Conns -> 0..BufferSize]
          /\ unsendable' \in [Conns -> BOOLEAN]
          /\ writable' \in [Conns -> BOOLEAN]
          /\ UNCHANGED <<sent, hup, turns>>
      <4>1. room' \in [Conns -> 0..BufferSize]
        <5>1. room' = room \/ room' = [room EXCEPT ![c] = BufferSize]
          BY <1>5, <2>3 DEF ProcessOut
        <5>2. room \in [Conns -> 0..BufferSize] BY DEF TypeOK
        <5> QED BY <5>1, <5>2
      <4>2. unsendable' = unsendable \/ unsendable' = [unsendable EXCEPT ![c] = TRUE]
        BY <1>5, <2>3 DEF ProcessOut
      <4>3. writable' = writable \/ writable' = [writable EXCEPT ![c] = FALSE]
        BY <1>5, <2>3 DEF ProcessOut
      <4>4. unsendable' \in [Conns -> BOOLEAN] /\ writable' \in [Conns -> BOOLEAN]
        BY <4>2, <4>3, BooleanExcept, Zenon DEF TypeOK
      <4> QED BY <1>5, <2>3, <4>1, <4>4 DEF ProcessOut
    <3> QED BY <1>5, <2>1, <3>1, <3>2, AddTimerType, NextEventType DEF TypeOK, ProcessOut
  <2> QED BY <2>2, <2>3
<1>6. CASE EpollWait
  <2>1. Deliver(Returned) BY <1>6 DEF EpollWait, Returned
  <2>2. conn' \in [Conns -> {"gone", "queued", "off", "in", "out"}]
    BY <2>1, DeliverIs DEF TypeOK
  <2>3. reported' \subseteq Conns BY <1>6 DEF EpollWait
  <2> QED BY <1>6, <2>1, <2>2, <2>3, DeliverIs DEF TypeOK, EpollWait, clientVars
<1>7. CASE EpollWaitNothing
  BY <1>7 DEF TypeOK, EpollWaitNothing, connVars, clientVars
<1>8. CASE HandleCmd
  <2>1. /\ conn' \in [Conns -> {"gone", "queued", "off", "in", "out"}]
        /\ left' \in [Conns -> 0..Timeout \cup {NoTimer}]
        /\ idle' \in [Conns -> Nat]
    BY <1>8 DEF TypeOK, HandleCmd
  <2> QED BY <1>8, <2>1, NextEventType DEF TypeOK, HandleCmd, clientVars
<1>9. CASE HandleExpired
  <2> DEFINE S == {c \in Conns : left[c] = 0}
  <2>1. S \in SUBSET Conns /\ Closed(S) BY <1>9 DEF HandleExpired
  <2>2. UNCHANGED <<batch, spent>> /\ pc' = "wait" /\ waited' = 0 /\ reported' = {}
    BY <1>9 DEF HandleExpired
  <2> HIDE DEF S
  <2> QED BY <2>1, <2>2, ClosedType DEF TypeOK
<1>10. CASE Tick
  <2>1. /\ left' \in [Conns -> 0..Timeout \cup {NoTimer}]
        /\ idle' \in [Conns -> Nat]
    BY <1>10 DEF TypeOK, Tick
  <2> QED BY <1>10, <2>1 DEF TypeOK, Tick, clientVars
<1>11. CASE UNCHANGED vars
  BY <1>11 DEF TypeOK, vars, loopVars, connVars, clientVars
<1> QED BY <1>1, <1>2, <1>3, <1>4, <1>5, <1>6, <1>7, <1>8, <1>9, <1>10, <1>11
        DEF Next, HandleStep

(* Loop, connections and clients keep their types. *)
THEOREM TypeCorrect == Spec => []TypeOK
BY TypeInit, TypeStep, PTL DEF Spec

-----------------------------------------------------------------------------
(* The batch: what is left of it is in hand, one event for each connection,
   and those it names are silenced.  Who is to be read from has sent something. *)

Events(s) == {s[i] : i \in 1..Len(s)}

BatchOK ==
    /\ Len(batch) <= MaxEvents
    /\ pc = "wait" => batch = <<>> /\ reported = {}
    /\ pc # "handle" => spent = 0
    /\ pc = "handle" => Head(batch)[1] \in Conns /\ Head(batch)[2] # "close"
    /\ \A i, j \in 1..Len(batch) : i # j => batch[i][1] # batch[j][1]
    /\ \A e \in Events(batch) : e[1] \in Conns => conn[e[1]] = "off"
    /\ \A e \in Events(batch) : e[1] \in Conns /\ e[2] = "in" => sent[e[1]] > 0

LEMMA EmptyBatch == Len(<<>>) = 0 /\ Events(<<>>) = {}
BY DEF Events

LEMMA EventsAre ==
    ASSUME TypeOK
    PROVE  /\ Len(batch) \in Nat
           /\ batch = <<>> <=> Len(batch) = 0
           /\ Events(batch) \subseteq Event
           /\ batch # <<>> => Head(batch) = batch[1] /\ Head(batch) \in Events(batch)
BY EmptySeq, LenProperties DEF TypeOK, Events

LEMMA NextEventIs ==
    ASSUME TypeOK, BatchOK, batch # <<>>, NextEvent
    PROVE  /\ batch' \in Seq(Event)
           /\ Len(batch') \in Nat
           /\ Len(batch') = Len(batch) - 1
           /\ Events(batch') = Events(batch) \ {Head(batch)}
           /\ \A e \in Events(batch') : e[1] # Head(batch)[1]
           /\ \A i, j \in 1..Len(batch') : i # j => batch'[i][1] # batch'[j][1]
           /\ pc' = "turn"
           /\ spent' = 0
<1>1. batch \in Seq(Event) BY DEF TypeOK
<1>2. batch' = Tail(batch) /\ pc' = "turn" /\ spent' = 0 BY DEF NextEvent
<1>3. /\ batch' \in Seq(Event)
      /\ Len(batch') = Len(batch) - 1
      /\ \A i \in 1..Len(batch') : batch'[i] = batch[i + 1]
  BY <1>1, <1>2, HeadTailProperties
<1>4. Len(batch) \in Nat /\ Len(batch') \in Nat BY <1>1, <1>3, LenProperties
<1>5. Head(batch) = batch[1] BY EventsAre
<1>6. \A i, j \in 1..Len(batch) : i # j => batch[i][1] # batch[j][1] BY DEF BatchOK
<1>7. \A i \in 1..Len(batch') : i + 1 \in 1..Len(batch) /\ i + 1 # 1 BY <1>3, <1>4
<1>8. \A i, j \in 1..Len(batch') : i # j => batch'[i][1] # batch'[j][1]
  BY <1>3, <1>4, <1>6, <1>7
<1>9. 1 \in 1..Len(batch) BY <1>3, <1>4
<1>10. \A e \in Events(batch') : e \in Events(batch) /\ e[1] # Head(batch)[1]
  <2> SUFFICES ASSUME NEW i \in 1..Len(batch')
               PROVE  batch'[i] \in Events(batch) /\ batch'[i][1] # Head(batch)[1]
    BY DEF Events
  <2> QED BY <1>3, <1>5, <1>6, <1>7, <1>9 DEF Events
<1>11. \A e \in Events(batch) : e # Head(batch) => e \in Events(batch')
  <2> SUFFICES ASSUME NEW i \in 1..Len(batch), batch[i] # Head(batch)
               PROVE  batch[i] \in Events(batch')
    BY DEF Events
  <2>1. i # 1 BY <1>5
  <2>2. i - 1 \in 1..Len(batch') /\ (i - 1) + 1 = i BY <1>3, <1>4, <2>1
  <2>3. batch'[i - 1] = batch[i] BY <1>3, <2>2
  <2> QED BY <2>2, <2>3 DEF Events
<1>12. Events(batch') = Events(batch) \ {Head(batch)} BY <1>10, <1>11
<1> QED BY <1>2, <1>3, <1>4, <1>8, <1>10, <1>12

LEMMA ClosedIs ==
    ASSUME TypeOK, NEW S \in SUBSET Conns, Closed(S), NEW c \in Conns
    PROVE  /\ c \in S => /\ conn'[c] = "gone"
                        /\ room'[c] = BufferSize
                        /\ sent'[c] = 0
                        /\ idle'[c] = 0
                        /\ turns'[c] = 0
           /\ c \notin S => /\ conn'[c] = conn[c]
                           /\ left'[c] = left[c]
                           /\ room'[c] = room[c]
                           /\ sent'[c] = sent[c]
                           /\ idle'[c] = idle[c]
                           /\ turns'[c] = turns[c]
BY DEF Closed

LEMMA ClosedFlags ==
    ASSUME TypeOK, NEW S \in SUBSET Conns, Closed(S), NEW c \in Conns
    PROVE  /\ c \in S => ~unsendable'[c]
           /\ c \notin S => (unsendable'[c] <=> unsendable[c]) /\ (writable'[c] <=> writable[c])
BY Zenon DEF Closed

LEMMA AddTimerIs ==
    ASSUME TypeOK, NEW c \in Conns, AddTimer(c)
    PROVE  /\ left'[c] = Timeout /\ idle'[c] = 0
           /\ \A d \in Conns : d # c => left'[d] = left[d] /\ idle'[d] = idle[d]
BY DEF TypeOK, AddTimer

LEMMA ModConnEventIs ==
    ASSUME TypeOK, NEW c \in Conns, NEW what, ModConnEvent(c, what)
    PROVE  /\ conn'[c] = what
           /\ AddTimer(c)
           /\ \A d \in Conns : d # c => conn'[d] = conn[d]
BY DEF TypeOK, ModConnEvent

LEMMA BatchInit == Init => BatchOK
BY EmptyBatch DEF Init, BatchOK

LEMMA BatchStep == TypeOK /\ BatchOK /\ [Next]_vars => BatchOK'
<1> SUFFICES ASSUME TypeOK, BatchOK, [Next]_vars PROVE BatchOK' OBVIOUS
<1>1. ASSUME NEW c \in Conns, ClientStep(c) PROVE BatchOK'
  <2>1. UNCHANGED loopVars
    BY <1>1 DEF ClientStep, Connect, Send, Hangup, Read
  <2>2. \A d \in Conns : conn[d] = "off" => conn'[d] = "off"
    BY <1>1 DEF TypeOK, ClientStep, Connect, Send, Hangup, Read, connVars
  <2>3. \A d \in Conns : sent'[d] >= sent[d]
    <3>1. sent' = sent \/ sent' = [sent EXCEPT ![c] = @ + 1]
      BY <1>1 DEF ClientStep, Connect, Send, Hangup, Read, clientVars
    <3>2. sent \in [Conns -> 0..MaxSent] BY DEF TypeOK
    <3> QED BY <3>1, <3>2
  <2>4. sent \in [Conns -> Nat] /\ sent' \in [Conns -> Nat]
    <3>1. TypeOK' BY TypeStep
    <3>2. sent \in [Conns -> 0..MaxSent] /\ sent' \in [Conns -> 0..MaxSent]
      BY <3>1 DEF TypeOK
    <3> QED BY <3>2
  <2> QED BY <2>1, <2>2, <2>3, <2>4 DEF BatchOK, loopVars
<1>2. ASSUME batch # <<>>, NextEvent, UNCHANGED reported,
             \A d \in Conns : d # Head(batch)[1] => (conn[d] = "off" => conn'[d] = "off"),
             \A d \in Conns : d # Head(batch)[1] => sent'[d] = sent[d]
      PROVE  BatchOK'
  <2>1. Len(batch') <= MaxEvents BY <1>2, NextEventIs, EventsAre DEF BatchOK
  <2>2. \A e \in Events(batch') : e[1] \in Conns => conn'[e[1]] = "off"
    BY <1>2, NextEventIs DEF BatchOK
  <2>3. \A e \in Events(batch') : e[1] \in Conns /\ e[2] = "in" => sent'[e[1]] > 0
    BY <1>2, NextEventIs DEF BatchOK
  <2> QED BY <1>2, <2>1, <2>2, <2>3, NextEventIs DEF BatchOK
<1>3. ASSUME NEW c \in Conns, HandleClose(c) PROVE BatchOK'
  <2>1. {c} \in SUBSET Conns /\ Head(batch)[1] = c BY <1>3 DEF HandleClose
  <2> QED BY <1>2, <1>3, <2>1, ClosedIs DEF HandleClose
<1>4. ASSUME NEW c \in Conns, HandleBegin(c) PROVE BatchOK'
  BY <1>4 DEF BatchOK, HandleBegin, clientVars
<1>5. ASSUME NEW c \in Conns, ProcessIn(c) PROVE BatchOK'
  <2>1. batch # <<>> /\ Head(batch)[1] = c BY <1>5 DEF TypeOK, ProcessIn
  <2>2. \A d \in Conns : d # c => conn'[d] = conn[d] /\ sent'[d] = sent[d]
    BY <1>5, ModConnEventIs DEF TypeOK, ProcessIn
  <2> QED BY <1>2, <1>5, <2>1, <2>2 DEF ProcessIn
<1>6. ASSUME NEW c \in Conns, ProcessOut(c) PROVE BatchOK'
  <2>1. batch # <<>> /\ Head(batch)[1] = c BY <1>6 DEF TypeOK, ProcessOut
  <2>2. \A d \in Conns : d # c => conn'[d] = conn[d] /\ sent'[d] = sent[d]
    <3>1. CASE Closed({c}) BY <3>1, ClosedIs
    <3>2. CASE ~Closed({c}) BY <1>6, <3>2, ModConnEventIs DEF TypeOK, ProcessOut
    <3> QED BY <3>1, <3>2
  <2> QED BY <1>2, <1>6, <2>1, <2>2 DEF ProcessOut
<1>7. CASE EpollWait
  <2>1. Deliver(Returned) BY <1>7 DEF EpollWait, Returned
  <2>2. Len(batch') <= MaxEvents BY <2>1, DeliverIs, ReturnedIs
  <2>3. \A e \in Events(batch') : e[1] \in Conns => conn'[e[1]] = "off"
    BY <2>1, DeliverIs DEF Events
  <2>4. \A e \in Ready : e[1] \in Conns =>
            /\ e[1] \in ReadyConns
            /\ e = EventOf(e[1])
    BY DEF Ready, EventOf, ReadyConns
  <2>5. \A e \in Ready : e[1] \notin Conns => e = <<Cmd, "in">>
    BY DEF Ready, EventOf, ReadyConns
  <2>6. \A i, j \in 1..Len(batch') : i # j => batch'[i][1] # batch'[j][1]
    <3> SUFFICES ASSUME NEW i \in 1..Len(batch'), NEW j \in 1..Len(batch'), i # j,
                        batch'[i][1] = batch'[j][1]
                 PROVE  FALSE
      OBVIOUS
    <3>1. batch'[i] \in Ready /\ batch'[j] \in Ready /\ batch'[i] # batch'[j]
      BY <2>1, DeliverIs
    <3> QED BY <2>4, <2>5, <3>1
  <2>7. \A e \in Events(batch') : e[1] \in Conns /\ e[2] = "in" => sent[e[1]] > 0
    <3>1. \A e \in Ready : e[1] \in Conns /\ e[2] = "in" => sent[e[1]] > 0
      <4> SUFFICES ASSUME NEW e \in Ready, e[1] \in Conns, e[2] = "in" PROVE sent[e[1]] > 0
        OBVIOUS
      <4>1. e[1] \in ReadyConns /\ e = EventOf(e[1]) BY <2>4
      <4>2. ~hup[e[1]] /\ conn[e[1]] = "in" BY <4>1 DEF EventOf
      <4> QED BY <4>1, <4>2 DEF ReadyConns
    <3> QED BY <2>1, <3>1, DeliverIs DEF Events
  <2>8. pc' = "turn" /\ spent' = spent /\ sent' = sent /\ spent = 0
    BY <1>7 DEF EpollWait, clientVars, BatchOK
  <2> QED BY <2>2, <2>3, <2>6, <2>7, <2>8 DEF BatchOK
<1>8. CASE EpollWaitNothing
  BY <1>8, EmptyBatch DEF BatchOK, EpollWaitNothing
<1>9. CASE HandleCmd
  <2>1. batch # <<>> /\ Head(batch)[1] = Cmd BY <1>9 DEF HandleCmd
  <2>2. \A d \in Conns : conn[d] = "off" => conn'[d] = "off" BY <1>9 DEF TypeOK, HandleCmd
  <2> QED BY <1>2, <1>9, <2>1, <2>2 DEF HandleCmd, clientVars
<1>10. CASE HandleExpired
  <2>1. batch' = <<>> /\ pc' = "wait" /\ spent' = 0 /\ reported' = {}
    BY <1>10 DEF HandleExpired, BatchOK
  <2> QED BY <2>1, EmptyBatch DEF BatchOK
<1>11. CASE Tick
  BY <1>11 DEF BatchOK, Tick, clientVars
<1>12. CASE UNCHANGED vars
  BY <1>12 DEF BatchOK, vars, loopVars, connVars, clientVars
<1> QED BY <1>1, <1>3, <1>4, <1>5, <1>6, <1>7, <1>8, <1>9, <1>10, <1>11, <1>12
        DEF Next, HandleStep

-----------------------------------------------------------------------------
(* Ages.  Until its deadline the age of a connection and the time left make up
   the timeout; since the last pass at most waited and Taken have gone by. *)

Taken == IF pc = "wait" THEN 0 ELSE (MaxEvents - Len(batch)) * MaxHandle + spent

AgeOK ==
    \A c \in Conns : conn[c] \in Served =>
        /\ left[c] \in 0..Timeout
        /\ left[c] > 0 => idle[c] + left[c] <= Timeout
        /\ idle[c] <= Timeout - 1 + waited + Taken

LEMMA TakenIs ==
    ASSUME TypeOK, BatchOK
    PROVE  /\ Taken \in Nat
           /\ waited \in Nat
           /\ Taken <= MaxEvents * MaxHandle
<1>1. Len(batch) \in Nat /\ Len(batch) <= MaxEvents BY EventsAre DEF BatchOK
<1>2. spent \in Nat /\ spent <= MaxHandle /\ waited \in Nat BY DEF TypeOK
<1>3. (MaxEvents - Len(batch)) * MaxHandle \in Nat BY <1>1
<1>4. CASE pc = "handle"
  <2>1. Len(batch) >= 1 BY <1>1, <1>4, EventsAre DEF TypeOK
  <2>2. (MaxEvents - Len(batch)) * MaxHandle + MaxHandle <= MaxEvents * MaxHandle
    <3>1. (MaxEvents - Len(batch)) * MaxHandle + MaxHandle
            = (MaxEvents - (Len(batch) - 1)) * MaxHandle
      BY <1>1
    <3>2. MaxEvents * MaxHandle
            = (MaxEvents - (Len(batch) - 1)) * MaxHandle + (Len(batch) - 1) * MaxHandle
      BY <1>1
    <3>3. (Len(batch) - 1) * MaxHandle \in Nat BY <1>1, <2>1
    <3>4. (MaxEvents - (Len(batch) - 1)) * MaxHandle \in Int BY <1>1
    <3> QED BY <3>1, <3>2, <3>3, <3>4
  <2> QED BY <1>2, <1>3, <1>4, <2>2 DEF Taken
<1>5. CASE pc # "handle"
  <2>1. spent = 0 BY <1>5 DEF BatchOK
  <2>2. MaxEvents * MaxHandle = (MaxEvents - Len(batch)) * MaxHandle + Len(batch) * MaxHandle
    BY <1>1
  <2>3. Len(batch) * MaxHandle \in Nat /\ MaxEvents * MaxHandle \in Nat BY <1>1
  <2> QED BY <1>2, <1>3, <2>1, <2>2, <2>3 DEF Taken
<1> QED BY <1>4, <1>5

LEMMA NextEventTaken ==
    ASSUME TypeOK, BatchOK, batch # <<>>, NextEvent
    PROVE  Taken' \in Nat /\ Taken' >= Taken
<1>1. /\ Len(batch) \in Nat /\ Len(batch) >= 1 /\ Len(batch) <= MaxEvents
      /\ Len(batch') = Len(batch) - 1
      /\ pc' = "turn" /\ spent' = 0
  BY EventsAre, NextEventIs DEF BatchOK
<1>2. spent \in Nat /\ spent <= MaxHandle BY DEF TypeOK
<1>3. (MaxEvents - (Len(batch) - 1)) * MaxHandle
        = (MaxEvents - Len(batch)) * MaxHandle + MaxHandle
  BY <1>1
<1>4. (MaxEvents - Len(batch)) * MaxHandle \in Nat BY <1>1
<1>5. Taken' = (MaxEvents - Len(batch)) * MaxHandle + MaxHandle
  BY <1>1, <1>3, <1>4 DEF Taken
<1> QED BY <1>2, <1>4, <1>5 DEF Taken

LEMMA EpollWaitTaken ==
    ASSUME TypeOK, BatchOK, EpollWait \/ EpollWaitNothing
    PROVE  Taken = 0 /\ Taken' \in Nat
<1>1. pc = "wait" /\ spent' = spent /\ spent = 0 BY DEF BatchOK, EpollWait, EpollWaitNothing
<1>2. Len(batch') \in Nat /\ Len(batch') <= MaxEvents
  <2>1. CASE EpollWait
    BY <2>1, DeliverIs, ReturnedIs DEF EpollWait, Returned
  <2>2. CASE EpollWaitNothing BY <2>2, EmptyBatch DEF EpollWaitNothing
  <2> QED BY <2>1, <2>2
<1>3. (MaxEvents - Len(batch')) * MaxHandle \in Nat BY <1>2
<1> QED BY <1>1, <1>3 DEF Taken

(* Who is served goes on as it was, or has a new deadline. *)
LEMMA AgeKept ==
    ASSUME TypeOK, TypeOK', BatchOK, AgeOK,
           waited' = waited, Taken' \in Nat, Taken' >= Taken,
           \A c \in Conns : conn'[c] \in Served =>
              \/ conn[c] \in Served /\ left'[c] = left[c] /\ idle'[c] = idle[c]
              \/ left'[c] = Timeout /\ idle'[c] = 0
    PROVE  AgeOK'
<1> SUFFICES ASSUME NEW c \in Conns, conn'[c] \in Served
             PROVE  /\ left'[c] \in 0..Timeout
                    /\ left'[c] > 0 => idle'[c] + left'[c] <= Timeout
                    /\ idle'[c] <= Timeout - 1 + waited' + Taken'
  BY DEF AgeOK, Served
<1>1. waited \in Nat /\ Taken \in Nat BY TakenIs
<1>2. idle[c] \in Nat BY DEF TypeOK
<1>3. CASE conn[c] \in Served /\ left'[c] = left[c] /\ idle'[c] = idle[c]
  BY <1>1, <1>2, <1>3 DEF AgeOK
<1>4. CASE left'[c] = Timeout /\ idle'[c] = 0
  <2>1. Timeout \in 0..Timeout /\ Timeout >= 1 OBVIOUS
  <2>2. \A m, n \in Nat : 0 <= Timeout - 1 + m + n BY <2>1
  <2>3. 0 <= Timeout - 1 + waited' + Taken' BY <1>1, <2>2
  <2> QED BY <1>4, <2>1, <2>3
<1> QED BY <1>3, <1>4

LEMMA AgeInit == Init => AgeOK
BY DEF Init, AgeOK, Served

LEMMA AgeStep == TypeOK /\ BatchOK /\ AgeOK /\ [Next]_vars => AgeOK'
<1> SUFFICES ASSUME TypeOK, BatchOK, AgeOK, [Next]_vars PROVE AgeOK' OBVIOUS
<1>a. TypeOK' /\ BatchOK' BY TypeStep, BatchStep
<1>b. Taken \in Nat BY TakenIs
<1>1. ASSUME NEW c \in Conns, ClientStep(c) PROVE AgeOK'
  <2>1. UNCHANGED <<loopVars, left, idle>>
    <3>1. CASE Connect(c) BY <3>1 DEF Connect
    <3>2. CASE Send(c) BY <3>2 DEF Send, connVars
    <3>3. CASE Hangup(c) BY <3>3 DEF Hangup, connVars
    <3>4. CASE Read(c) BY <3>4 DEF Read, connVars
    <3> QED BY <1>1, <3>1, <3>2, <3>3, <3>4 DEF ClientStep
  <2>2. \A d \in Conns : conn'[d] \in Served => conn[d] \in Served
    BY <1>1 DEF TypeOK, ClientStep, Connect, Send, Hangup, Read, connVars, Served
  <2>3. Taken' = Taken /\ waited' = waited BY <2>1 DEF Taken, loopVars
  <2> QED BY <1>a, <1>b, <2>1, <2>2, <2>3, AgeKept
<1>2. ASSUME NEW c \in Conns, HandleClose(c) PROVE AgeOK'
  <2>1. {c} \in SUBSET Conns /\ Closed({c}) /\ batch # <<>> /\ NextEvent /\ waited' = waited
    BY <1>2 DEF HandleClose
  <2>2. \A d \in Conns : conn'[d] \in Served =>
            conn[d] \in Served /\ left'[d] = left[d] /\ idle'[d] = idle[d]
    BY <2>1, ClosedIs DEF Served
  <2> QED BY <1>a, <2>1, <2>2, NextEventTaken, AgeKept
<1>3. ASSUME NEW c \in Conns, HandleBegin(c) PROVE AgeOK'
  <2>1. AddTimer(c) /\ waited' = waited /\ conn' = conn /\ pc = "turn" /\ pc' = "handle"
          /\ batch' = batch /\ spent' = spent
    BY <1>3 DEF HandleBegin
  <2>2. Taken' = Taken BY <2>1 DEF Taken
  <2> QED BY <1>a, <1>b, <2>1, <2>2, AddTimerIs, AgeKept
<1>4. ASSUME NEW c \in Conns, ProcessIn(c) PROVE AgeOK'
  <2>1. batch # <<>> /\ NextEvent /\ waited' = waited BY <1>4 DEF TypeOK, ProcessIn
  <2>2. \E what : ModConnEvent(c, what) BY <1>4 DEF ProcessIn
  <2>3. \A d \in Conns :
            \/ conn'[d] = conn[d] /\ left'[d] = left[d] /\ idle'[d] = idle[d]
            \/ left'[d] = Timeout /\ idle'[d] = 0
    BY <2>2, ModConnEventIs, AddTimerIs
  <2> QED BY <1>a, <2>1, <2>3, NextEventTaken, AgeKept
<1>5. ASSUME NEW c \in Conns, ProcessOut(c) PROVE AgeOK'
  <2>1. batch # <<>> /\ NextEvent /\ waited' = waited BY <1>5 DEF TypeOK, ProcessOut
  <2>2. \A d \in Conns : conn'[d] \in Served =>
            \/ conn[d] \in Served /\ left'[d] = left[d] /\ idle'[d] = idle[d]
            \/ left'[d] = Timeout /\ idle'[d] = 0
    <3>1. CASE Closed({c}) BY <3>1, ClosedIs DEF Served
    <3>2. CASE ~Closed({c})
      <4>1. \E what : ModConnEvent(c, what) BY <1>5, <3>2 DEF ProcessOut
      <4> QED BY <4>1, ModConnEventIs, AddTimerIs
    <3> QED BY <3>1, <3>2
  <2> QED BY <1>a, <2>1, <2>2, NextEventTaken, AgeKept
<1>6. CASE EpollWait
  <2>1. Deliver(Returned) /\ UNCHANGED <<waited, left, idle>> BY <1>6 DEF EpollWait, Returned
  <2>2. \A d \in Conns : conn'[d] \in Served => conn[d] \in Served
    <3> SUFFICES ASSUME NEW d \in Conns, conn'[d] # conn[d] PROVE conn[d] \in Served
      OBVIOUS
    <3>1. PICK i \in 1..Len(batch') : batch'[i][1] = d BY <2>1, DeliverIs
    <3>2. batch'[i] \in Ready BY <2>1, DeliverIs
    <3>3. d \in ReadyConns BY <3>1, <3>2 DEF Ready, EventOf, ReadyConns
    <3> QED BY <3>3 DEF ReadyConns, Served
  <2> QED BY <1>a, <1>6, <2>1, <2>2, EpollWaitTaken, AgeKept
<1>7. CASE EpollWaitNothing
  <2>1. UNCHANGED <<waited, conn, left, idle>> BY <1>7 DEF EpollWaitNothing, connVars
  <2> QED BY <1>a, <1>7, <2>1, EpollWaitTaken, AgeKept
<1>8. CASE HandleCmd
  <2>1. batch # <<>> /\ NextEvent /\ waited' = waited BY <1>8 DEF HandleCmd
  <2>2. \A d \in Conns :
            \/ conn'[d] = conn[d] /\ left'[d] = left[d] /\ idle'[d] = idle[d]
            \/ left'[d] = Timeout /\ idle'[d] = 0
    BY <1>8 DEF TypeOK, HandleCmd
  <2> QED BY <1>a, <2>1, <2>2, NextEventTaken, AgeKept
<1>9. CASE HandleExpired
  <2> DEFINE S == {c \in Conns : left[c] = 0}
  <2>1. S \in SUBSET Conns /\ Closed(S) /\ waited' = 0 /\ pc' = "wait" BY <1>9 DEF HandleExpired
  <2>2. Taken' = 0 BY <2>1 DEF Taken
  <2> SUFFICES ASSUME NEW c \in Conns, conn'[c] \in Served
               PROVE  /\ left'[c] \in 0..Timeout
                      /\ left'[c] > 0 => idle'[c] + left'[c] <= Timeout
                      /\ idle'[c] <= Timeout - 1 + waited' + Taken'
    BY DEF AgeOK, Served
  <2>3. c \notin S BY <2>1, ClosedIs DEF Served
  <2>4. conn[c] \in Served /\ left'[c] = left[c] /\ idle'[c] = idle[c] /\ left[c] # 0
    BY <2>1, <2>3, ClosedIs
  <2>5. idle[c] \in Nat BY DEF TypeOK
  <2> QED BY <2>1, <2>2, <2>4, <2>5 DEF AgeOK
<1>10. CASE Tick
  <2>1. conn' = conn /\ pc' = pc /\ batch' = batch BY <1>10 DEF Tick
  <2>2. waited' + Taken' = waited + Taken + 1
    <3>1. waited \in Nat /\ spent \in Nat BY DEF TypeOK
    <3>2. Len(batch) \in Nat BY EventsAre
    <3>3. (MaxEvents - Len(batch)) * MaxHandle \in Int BY <3>2
    <3> QED BY <1>10, <2>1, <3>1, <3>3 DEF Taken, Tick
  <2> SUFFICES ASSUME NEW c \in Conns, conn'[c] \in Served
               PROVE  /\ left'[c] \in 0..Timeout
                      /\ left'[c] > 0 => idle'[c] + left'[c] <= Timeout
                      /\ idle'[c] <= Timeout - 1 + (waited' + Taken')
    <3>1. waited' \in Nat /\ Taken' \in Int
      <4>1. waited' \in Nat /\ spent' \in Nat /\ Len(batch) \in Nat
        BY <1>a, EventsAre DEF TypeOK
      <4>2. (MaxEvents - Len(batch)) * MaxHandle \in Int BY <4>1
      <4> QED BY <2>1, <4>1, <4>2 DEF Taken
    <3>2. \A c \in Conns : idle'[c] \in Nat BY <1>a DEF TypeOK
    <3> QED BY <3>1, <3>2 DEF AgeOK, Served
  <2>3. /\ left[c] \in 0..Timeout
        /\ left[c] > 0 => idle[c] + left[c] <= Timeout
        /\ idle[c] <= Timeout - 1 + waited + Taken
    BY <2>1 DEF AgeOK
  <2>4. idle[c] \in Nat /\ waited \in Nat BY DEF TypeOK
  <2>5. /\ left'[c] = IF left[c] \in {0, NoTimer} THEN left[c] ELSE left[c] - 1
        /\ idle'[c] = idle[c] + 1 \/ idle'[c] = idle[c]
    BY <1>10 DEF Tick
  <2>6. left[c] # NoTimer BY <2>3
  <2> QED BY <1>b, <2>2, <2>3, <2>4, <2>5, <2>6
<1>11. CASE UNCHANGED vars
  <2>1. Taken' = Taken BY <1>11 DEF vars, loopVars, Taken
  <2> QED BY <1>a, <1>b, <1>11, <2>1, AgeKept DEF vars, loopVars, connVars
<1> QED BY <1>1, <1>2, <1>3, <1>4, <1>5, <1>6, <1>7, <1>8, <1>9, <1>10, <1>11
        DEF Next, HandleStep

LEMMA AgeInv == Spec => [](TypeOK /\ BatchOK /\ AgeOK)
<1>1. Init => TypeOK /\ BatchOK /\ AgeOK BY TypeInit, BatchInit, AgeInit
<1>2. TypeOK /\ BatchOK /\ AgeOK /\ [Next]_vars => (TypeOK /\ BatchOK /\ AgeOK)'
  BY TypeStep, BatchStep, AgeStep
<1> QED BY <1>1, <1>2, PTL DEF Spec

(* A silent connection never gets older than the timeout, one wait and one
   turn of the loop: a pass comes after every turn and finds its deadline. *)
THEOREM IdleConnsAreClosed == Spec => []ClosedInTime
<1>1. TypeOK /\ BatchOK /\ AgeOK => ClosedInTime
  <2> SUFFICES ASSUME TypeOK, BatchOK, AgeOK, NEW c \in Conns, conn[c] \in Served
               PROVE  idle[c] <= Bound
    BY DEF ClosedInTime
  <2>1. Taken \in Nat /\ Taken <= MaxEvents * MaxHandle /\ MaxEvents * MaxHandle \in Nat
    BY TakenIs
  <2>2. waited \in Nat /\ waited <= PollTimeout /\ idle[c] \in Nat BY DEF TypeOK
  <2>3. idle[c] <= Timeout - 1 + waited + Taken BY DEF AgeOK
  <2> QED BY <2>1, <2>2, <2>3 DEF Bound
<1> QED BY <1>1, AgeInv, PTL

-----------------------------------------------------------------------------
(* Whom epoll_wait reported is in what is left of the batch or has had a new
   deadline in this turn. *)

OfferOK ==
    \A c \in reported : conn[c] \in Served =>
        \/ \E e \in Events(batch) : e[1] = c
        \/ left[c] + Taken >= Timeout

LEMMA OfferNextEvent ==
    ASSUME TypeOK, BatchOK, AgeOK, OfferOK, batch # <<>>, NextEvent,
           reported' = reported,
           \A c \in Conns : conn'[c] \in Served =>
              \/ conn[c] \in Served /\ left'[c] = left[c] /\ c # Head(batch)[1]
              \/ left'[c] = Timeout
    PROVE  OfferOK'
<1> SUFFICES ASSUME NEW c \in reported, conn'[c] \in Served
             PROVE  \/ \E e \in Events(batch') : e[1] = c
                    \/ left'[c] + Taken' >= Timeout
  BY DEF OfferOK, Served
<1>1. c \in Conns BY DEF TypeOK
<1>2. Taken \in Nat /\ Taken' \in Nat /\ Taken' >= Taken BY TakenIs, NextEventTaken
<1>3. CASE left'[c] = Timeout
  <2>1. \A n \in Nat : Timeout + n >= Timeout OBVIOUS
  <2> QED BY <1>2, <1>3, <2>1
<1>4. CASE conn[c] \in Served /\ left'[c] = left[c] /\ c # Head(batch)[1]
  <2>1. left[c] \in Nat BY <1>1, <1>4 DEF AgeOK
  <2>2. CASE \E e \in Events(batch) : e[1] = c BY <1>4, <2>2, NextEventIs
  <2>3. CASE left[c] + Taken >= Timeout BY <1>2, <1>4, <2>1, <2>3
  <2> QED BY <1>4, <2>2, <2>3 DEF OfferOK
<1> QED BY <1>1, <1>3, <1>4

LEMMA OfferInit == Init => OfferOK
BY DEF Init, OfferOK

LEMMA OfferStep == TypeOK /\ BatchOK /\ AgeOK /\ OfferOK /\ [Next]_vars => OfferOK'
<1> SUFFICES ASSUME TypeOK, BatchOK, AgeOK, OfferOK, [Next]_vars PROVE OfferOK' OBVIOUS
<1>a. TypeOK' /\ AgeOK' BY TypeStep, BatchStep, AgeStep
<1>1. ASSUME NEW c \in Conns, ClientStep(c) PROVE OfferOK'
  <2>1. UNCHANGED <<loopVars, left>>
    <3>1. CASE Connect(c) BY <3>1 DEF Connect
    <3>2. CASE Send(c) BY <3>2 DEF Send, connVars
    <3>3. CASE Hangup(c) BY <3>3 DEF Hangup, connVars
    <3>4. CASE Read(c) BY <3>4 DEF Read, connVars
    <3> QED BY <1>1, <3>1, <3>2, <3>3, <3>4 DEF ClientStep
  <2>2. \A d \in Conns : conn'[d] \in Served => conn[d] \in Served
    BY <1>1 DEF TypeOK, ClientStep, Connect, Send, Hangup, Read, connVars, Served
  <2>3. Taken' = Taken /\ Events(batch') = Events(batch) BY <2>1 DEF Taken, loopVars
  <2>4. reported \subseteq Conns BY DEF TypeOK
  <2> QED BY <2>1, <2>2, <2>3, <2>4 DEF OfferOK, loopVars, Served
<1>2. ASSUME NEW c \in Conns, HandleClose(c) PROVE OfferOK'
  <2>1. {c} \in SUBSET Conns /\ Closed({c}) /\ batch # <<>> /\ NextEvent
          /\ Head(batch)[1] = c /\ reported' = reported
    BY <1>2 DEF HandleClose
  <2>2. \A d \in Conns : conn'[d] \in Served =>
            conn[d] \in Served /\ left'[d] = left[d] /\ d # c
    BY <2>1, ClosedIs DEF Served
  <2> QED BY <2>1, <2>2, OfferNextEvent
<1>3. ASSUME NEW c \in Conns, HandleBegin(c) PROVE OfferOK'
  <2>1. AddTimer(c) /\ UNCHANGED <<reported, conn, batch, spent>> /\ pc = "turn" /\ pc' = "handle"
    BY <1>3 DEF HandleBegin
  <2>2. Taken' = Taken /\ Taken \in Nat BY <2>1, TakenIs DEF Taken
  <2> SUFFICES ASSUME NEW d \in reported, conn[d] \in Served
               PROVE  \/ \E e \in Events(batch) : e[1] = d
                      \/ left'[d] + Taken' >= Timeout
    BY <2>1 DEF OfferOK, Served
  <2>3. d \in Conns BY DEF TypeOK
  <2>4. CASE d = c BY <2>1, <2>2, <2>4, AddTimerIs
  <2>5. CASE d # c
    <3>1. left'[d] = left[d] BY <2>1, <2>3, <2>5, AddTimerIs
    <3> QED BY <2>2, <3>1 DEF OfferOK
  <2> QED BY <2>4, <2>5
<1>4. ASSUME NEW c \in Conns, ProcessIn(c) PROVE OfferOK'
  <2>1. batch # <<>> /\ NextEvent /\ Head(batch)[1] = c /\ reported' = reported
    BY <1>4 DEF TypeOK, ProcessIn
  <2>2. \E what : ModConnEvent(c, what) BY <1>4 DEF ProcessIn
  <2>3. \A d \in Conns :
            \/ conn'[d] = conn[d] /\ left'[d] = left[d] /\ d # c
            \/ left'[d] = Timeout
    BY <2>2, ModConnEventIs, AddTimerIs
  <2> QED BY <2>1, <2>3, OfferNextEvent
<1>5. ASSUME NEW c \in Conns, ProcessOut(c) PROVE OfferOK'
  <2>1. batch # <<>> /\ NextEvent /\ Head(batch)[1] = c /\ reported' = reported
    BY <1>5 DEF TypeOK, ProcessOut
  <2>2. \A d \in Conns : conn'[d] \in Served =>
            \/ conn[d] \in Served /\ left'[d] = left[d] /\ d # c
            \/ left'[d] = Timeout
    <3>1. CASE Closed({c}) BY <3>1, ClosedIs DEF Served
    <3>2. CASE ~Closed({c})
      <4>1. \E what : ModConnEvent(c, what) BY <1>5, <3>2 DEF ProcessOut
      <4> QED BY <4>1, ModConnEventIs, AddTimerIs
    <3> QED BY <3>1, <3>2
  <2> QED BY <2>1, <2>2, OfferNextEvent
<1>6. CASE EpollWait
  <2>1. Deliver(Returned) BY <1>6 DEF EpollWait, Returned
  <2>2. \A c \in reported' : \E i \in DOMAIN batch' : batch'[i][1] = c BY <1>6 DEF EpollWait
  <2>3. DOMAIN batch' = 1..Len(batch') BY <1>a DEF TypeOK
  <2>4. \A c \in reported' : \E e \in Events(batch') : e[1] = c BY <2>2, <2>3 DEF Events
  <2> QED BY <2>4 DEF OfferOK
<1>7. CASE EpollWaitNothing
  BY <1>7 DEF EpollWaitNothing, OfferOK
<1>8. CASE HandleCmd
  <2>1. batch # <<>> /\ NextEvent /\ Head(batch)[1] = Cmd /\ reported' = reported
    BY <1>8 DEF HandleCmd
  <2>2. \A d \in Conns :
            \/ conn'[d] = conn[d] /\ left'[d] = left[d]
            \/ left'[d] = Timeout
    BY <1>8 DEF TypeOK, HandleCmd
  <2> QED BY <2>1, <2>2, OfferNextEvent
<1>9. CASE HandleExpired
  BY <1>9 DEF HandleExpired, OfferOK
<1>10. CASE Tick
  <2>1. UNCHANGED <<pc, batch, reported, conn>> BY <1>10 DEF Tick
  <2>2. CASE pc = "wait"
    BY <2>1, <2>2 DEF BatchOK, OfferOK
  <2>3. CASE pc # "wait"
    <3>1. Taken' = Taken + 1
      <4>1. spent \in Nat /\ spent' = spent + 1 BY <1>10, <2>3 DEF TypeOK, Tick
      <4>2. Len(batch) \in Nat BY EventsAre
      <4>3. (MaxEvents - Len(batch)) * MaxHandle \in Int BY <4>2
      <4> QED BY <2>1, <2>3, <4>1, <4>3 DEF Taken
    <3>2. Taken \in Nat BY TakenIs
    <3> SUFFICES ASSUME NEW c \in reported, conn[c] \in Served
                 PROVE  \/ \E e \in Events(batch) : e[1] = c
                        \/ left'[c] + Taken' >= Timeout
      BY <2>1 DEF OfferOK, Served
    <3>3. c \in Conns BY DEF TypeOK
    <3>4. left[c] \in 0..Timeout /\ left[c] # NoTimer BY <3>3 DEF AgeOK
    <3>5. left'[c] = IF left[c] = 0 THEN 0 ELSE left[c] - 1 BY <1>10, <3>3, <3>4 DEF Tick
    <3> QED BY <3>1, <3>2, <3>4, <3>5 DEF OfferOK
  <2> QED BY <2>2, <2>3
<1>11. CASE UNCHANGED vars
  <2>1. Taken' = Taken /\ Events(batch') = Events(batch) BY <1>11 DEF vars, loopVars, Taken
  <2> QED BY <1>11, <2>1 DEF OfferOK, vars, loopVars, connVars, Served
<1> QED BY <1>1, <1>2, <1>3, <1>4, <1>5, <1>6, <1>7, <1>8, <1>9, <1>10, <1>11
        DEF Next, HandleStep

LEMMA OfferInv == Spec => [](TypeOK /\ BatchOK /\ AgeOK /\ OfferOK)
<1>1. Init => OfferOK BY OfferInit
<1>2. (TypeOK /\ BatchOK /\ AgeOK) /\ OfferOK /\ [Next]_vars => OfferOK' BY OfferStep
<1> QED BY <1>1, <1>2, AgeInv, PTL DEF Spec

LEMMA WaitAgain ==
    ASSUME TypeOK, Next, pc = "turn", pc' = "wait"
    PROVE  HandleExpired
<1>1. \A c \in Conns : ~ClientStep(c) BY DEF ClientStep, Connect, Send, Hangup, Read, loopVars
<1>2. \A c \in Conns : ~HandleStep(c)
  BY DEF HandleStep, HandleClose, HandleBegin, ProcessIn, ProcessOut, NextEvent
<1>3. ~EpollWait /\ ~EpollWaitNothing /\ ~HandleCmd /\ ~Tick
  BY DEF EpollWait, EpollWaitNothing, HandleCmd, NextEvent, Tick
<1> QED BY <1>1, <1>2, <1>3 DEF Next

(* As long as a turn is shorter than the timeout, no pass closes a connection
   that epoll_wait reported before it. *)
THEOREM ReadyConnsAreKept == Spec => ReadyNotExpired
<1>1. ASSUME TypeOK, BatchOK, AgeOK, OfferOK, [Next]_vars
      PROVE  [MaxEvents * MaxHandle < Timeout /\ pc = "turn" /\ pc' = "wait" =>
                \A c \in reported : conn[c] \in Served => conn'[c] \in Served]_vars
  <2> SUFFICES ASSUME MaxEvents * MaxHandle < Timeout, pc = "turn", pc' = "wait",
                      NEW c \in reported, conn[c] \in Served
               PROVE  conn'[c] \in Served
    OBVIOUS
  <2>1. Next BY <1>1 DEF vars, loopVars
  <2>2. HandleExpired BY <1>1, <2>1, WaitAgain
  <2> DEFINE S == {d \in Conns : left[d] = 0}
  <2>3. batch = <<>> /\ Closed(S) /\ S \in SUBSET Conns BY <2>2 DEF HandleExpired
  <2>4. c \in Conns BY <1>1 DEF TypeOK
  <2>5. left[c] + Taken >= Timeout BY <1>1, <2>3, EmptyBatch DEF OfferOK
  <2>6. Taken \in Nat /\ Taken <= MaxEvents * MaxHandle /\ MaxEvents * MaxHandle \in Nat
    BY <1>1, TakenIs
  <2>7. left[c] \in Nat BY <1>1, <2>4 DEF AgeOK
  <2>8. left[c] # 0 BY <2>5, <2>6, <2>7
  <2> QED BY <1>1, <2>3, <2>4, <2>8, ClosedIs
<1> QED BY <1>1, OfferInv, PTL DEF Spec, ReadyNotExpired
-----------------------------------------------------------------------------
(* Handlings.  What a silent client can still bring about is one answer it is
   owed and two handlings for each chunk it has sent. *)

Owes(c) == <<c, "out">> \in Events(batch) \/ (conn[c] = "out" /\ writable[c])

Owed(c) == IF Owes(c) THEN 1 ELSE 0

Answering(c) == <<c, "out">> \in Events(batch) \/ conn[c] = "out"

(* Ready for ever, or, while it is being answered, not. *)
Spins(c) == unsendable[c] \/ (room[c] = 0 /\ sent[c] > 0 /\ ~Answering(c))

(* The handling that runs is counted already. *)
Begun(c) == IF pc = "handle" /\ Head(batch)[1] = c THEN 1 ELSE 0

TurnsAt(c) == Spins(c) \/ turns[c] + 2 * sent[c] + Owed(c) <= 2 * MaxSent + 1 + Begun(c)

TurnsOK == \A c \in Conns : TurnsAt(c)

LEMMA Counts ==
    ASSUME TypeOK, NEW c \in Conns
    PROVE  /\ turns[c] \in Nat
           /\ sent[c] \in Nat /\ sent[c] <= MaxSent
           /\ room[c] \in Nat
           /\ Owed(c) \in 0..1
           /\ Begun(c) \in 0..1
BY DEF TypeOK, Owed, Begun

LEMMA CountsNext ==
    ASSUME TypeOK', NEW c \in Conns
    PROVE  /\ turns'[c] \in Nat
           /\ sent'[c] \in Nat /\ sent'[c] <= MaxSent
           /\ Owed(c)' \in 0..1
           /\ Begun(c)' \in 0..1
BY DEF TypeOK, Owed, Begun

(* Steps that move a connection no nearer to being handled. *)
LEMMA TurnsKept ==
    ASSUME TypeOK, TypeOK', NEW c \in Conns, TurnsAt(c),
           turns'[c] = turns[c], sent'[c] = sent[c], room'[c] = room[c],
           unsendable'[c] <=> unsendable[c],
           Answering(c)' => Answering(c),
           Owes(c)' => Owes(c),
           Begun(c)' >= Begun(c)
    PROVE  TurnsAt(c)'
<1>1. CASE Spins(c) BY <1>1 DEF Spins, TurnsAt
<1>2. CASE ~Spins(c)
  <2>1. turns[c] + 2 * sent[c] + Owed(c) <= 2 * MaxSent + 1 + Begun(c) BY <1>2 DEF TurnsAt
  <2>2. Owed(c)' <= Owed(c) BY DEF Owed
  <2>3. \A t, s, o, b \in Nat : \A p, q \in Nat :
            t + 2 * s + o <= 2 * MaxSent + 1 + b /\ p <= o /\ q >= b
              => t + 2 * s + p <= 2 * MaxSent + 1 + q
    OBVIOUS
  <2>4. turns'[c] + 2 * sent'[c] + Owed(c)' <= 2 * MaxSent + 1 + Begun(c)'
    BY <2>1, <2>2, <2>3, Counts, CountsNext
  <2> QED BY <2>4 DEF TurnsAt
<1> QED BY <1>1, <1>2

(* A client that has just acted, or is gone, may bring about no more than that. *)
LEMMA TurnsReset ==
    ASSUME TypeOK', NEW c \in Conns, turns'[c] = 0
    PROVE  TurnsAt(c)'
<1>1. \A s, o, b \in Nat : s <= MaxSent /\ o <= 1 => 0 + 2 * s + o <= 2 * MaxSent + 1 + b
  OBVIOUS
<1>2. turns'[c] + 2 * sent'[c] + Owed(c)' <= 2 * MaxSent + 1 + Begun(c)'
  BY <1>1, CountsNext
<1> QED BY <1>2 DEF TurnsAt

(* The next event: the other connections of the batch stay as they were. *)
LEMMA TurnsOthers ==
    ASSUME TypeOK, BatchOK, TypeOK', batch # <<>>, NextEvent,
           NEW c \in Conns, c # Head(batch)[1], TurnsAt(c),
           turns'[c] = turns[c], sent'[c] = sent[c], room'[c] = room[c],
           unsendable'[c] <=> unsendable[c], writable'[c] <=> writable[c],
           conn'[c] = "out" => conn[c] = "out"
    PROVE  TurnsAt(c)'
<1>1. Events(batch') \subseteq Events(batch) /\ pc' = "turn" BY NextEventIs
<1>2. Answering(c)' => Answering(c) BY <1>1 DEF Answering
<1>3. Owes(c)' => Owes(c) BY <1>1 DEF Owes
<1>4. Begun(c)' = 0 /\ Begun(c) = 0 BY <1>1 DEF Begun
<1> QED BY <1>2, <1>3, <1>4, TurnsKept

LEMMA TurnsInit == Init => TurnsOK
<1> SUFFICES ASSUME Init, NEW c \in Conns PROVE TurnsAt(c)
  BY DEF TurnsOK
<1>1. turns[c] = 0 BY DEF Init
<1>2. \A s, o, b \in Nat : s <= MaxSent /\ o <= 1 => 0 + 2 * s + o <= 2 * MaxSent + 1 + b
  OBVIOUS
<1>3. turns[c] + 2 * sent[c] + Owed(c) <= 2 * MaxSent + 1 + Begun(c)
  BY <1>1, <1>2, Counts, TypeInit
<1> QED BY <1>3 DEF TurnsAt

LEMMA ProcessInTurns ==
    ASSUME TypeOK, BatchOK, TypeOK', NEW c \in Conns, ProcessIn(c), TurnsAt(c)
    PROVE  TurnsAt(c)'
<1>1. pc = "handle" /\ Head(batch) = <<c, "in">> /\ NextEvent /\ batch # <<>>
  BY DEF TypeOK, ProcessIn
<1>2. <<c, "in">> \in Events(batch) BY <1>1, EventsAre
<1>3. sent[c] > 0 /\ conn[c] = "off" BY <1>2 DEF BatchOK
<1>4. <<c, "out">> \notin Events(batch)
  <2> SUFFICES ASSUME <<c, "out">> \in Events(batch) PROVE FALSE OBVIOUS
  <2>1. <<c, "out">> \in Events(batch') /\ \A e \in Events(batch') : e[1] # Head(batch)[1]
    BY <1>1, NextEventIs
  <2> QED BY <1>1, <2>1
<1>5. <<c, "out">> \notin Events(batch') /\ pc' = "turn" BY <1>1, <1>4, NextEventIs
<1>6. ~Answering(c) /\ Owed(c) = 0 BY <1>3, <1>4 DEF Answering, Owes, Owed
<1>7. Begun(c) = 1 /\ Begun(c)' = 0 BY <1>1, <1>5 DEF Begun
<1>8. turns'[c] = turns[c] /\ (unsendable'[c] <=> unsendable[c]) BY DEF ProcessIn
<1> DEFINE got == IF sent[c] < room[c] THEN sent[c] ELSE room[c]
<1>9. /\ sent'[c] = sent[c] - got
      /\ room'[c] = room[c] - got
      /\ conn'[c] = "in" \/ (got > 0 /\ conn'[c] = "out")
  BY ModConnEventIs DEF TypeOK, ProcessIn
<1>10. CASE unsendable[c] BY <1>8, <1>10 DEF TurnsAt, Spins
<1>11. CASE ~unsendable[c] /\ room[c] = 0
  <2>1. got = 0 BY <1>11, Counts
  <2>2. sent'[c] = sent[c] /\ room'[c] = 0 /\ conn'[c] = "in" BY <1>9, <1>11, <2>1, Counts
  <2>3. ~Answering(c)' BY <1>5, <2>2 DEF Answering
  <2> QED BY <1>3, <2>2, <2>3 DEF TurnsAt, Spins
<1>12. CASE ~unsendable[c] /\ room[c] # 0
  <2>1. ~Spins(c) BY <1>12 DEF Spins
  <2>2. turns[c] + 2 * sent[c] <= 2 * MaxSent + 2
    BY <1>6, <1>7, <2>1, Counts DEF TurnsAt
  <2>3. got \in Nat /\ got >= 1 /\ got <= sent[c] BY <1>3, <1>12, Counts
  <2>4. \A t, s, g, o \in Nat : t + 2 * s <= 2 * MaxSent + 2 /\ g >= 1 /\ o <= 1
            => t + 2 * (s - g) + o <= 2 * MaxSent + 1
    OBVIOUS
  <2>5. turns'[c] + 2 * sent'[c] + Owed(c)' <= 2 * MaxSent + 1 + Begun(c)'
    <3> HIDE DEF got
    <3>1. turns[c] \in Nat /\ sent[c] \in Nat BY Counts
    <3>2. Owed(c)' \in Nat /\ Owed(c)' <= 1 BY CountsNext
    <3>3. turns[c] + 2 * (sent[c] - got) + Owed(c)' <= 2 * MaxSent + 1
      BY <2>2, <2>3, <2>4, <3>1, <3>2
    <3> QED BY <1>7, <1>8, <1>9, <3>1, <3>3
  <2> QED BY <2>5 DEF TurnsAt
<1> QED BY <1>10, <1>11, <1>12

LEMMA ProcessOutTurns ==
    ASSUME TypeOK, BatchOK, TypeOK', NEW c \in Conns, ProcessOut(c), TurnsAt(c)
    PROVE  TurnsAt(c)'
<1>1. pc = "handle" /\ Head(batch) = <<c, "out">> /\ NextEvent /\ batch # <<>>
  BY DEF TypeOK, ProcessOut
<1>2. <<c, "out">> \in Events(batch) BY <1>1, EventsAre
<1>3. Answering(c) /\ Owed(c) = 1 BY <1>2 DEF Answering, Owes, Owed
<1>4. <<c, "out">> \notin Events(batch') /\ pc' = "turn" BY <1>1, NextEventIs
<1>5. Begun(c) = 1 /\ Begun(c)' = 0 BY <1>1, <1>4 DEF Begun
<1>6. CASE Closed({c})
  <2>1. turns'[c] = 0 BY <1>6, ClosedIs
  <2> QED BY <2>1, TurnsReset
<1>7. CASE ~Closed({c}) /\ unsendable'[c] BY <1>7 DEF TurnsAt, Spins
<1>8. CASE ~Closed({c}) /\ ~unsendable'[c]
  <2>0. unsendable' = unsendable /\ ~unsendable[c]
    <3>1. unsendable \in [Conns -> BOOLEAN] BY DEF TypeOK
    <3>2. unsendable' # [unsendable EXCEPT ![c] = TRUE] BY <1>8, <3>1, Zenon
    <3>3. unsendable' = unsendable BY <1>8, <3>2 DEF ProcessOut
    <3> QED BY <1>8, <3>3
  <2>1. turns' = turns /\ sent' = sent BY <1>8 DEF ProcessOut
  <2>2. ~Owes(c)'
    <3>1. \/ ModConnEvent(c, "in")
          \/ writable' = [writable EXCEPT ![c] = FALSE] /\ ModConnEvent(c, "out")
      <4>1. unsendable \in [Conns -> BOOLEAN] BY DEF TypeOK
      <4>2. unsendable' # [unsendable EXCEPT ![c] = TRUE] BY <1>8, <4>1, Zenon
      <4> QED BY <1>8, <4>2 DEF ProcessOut
    <3>2. CASE ModConnEvent(c, "in")
      <4>1. conn'[c] = "in" BY <3>2, ModConnEventIs
      <4> QED BY <1>4, <4>1 DEF Owes
    <3>3. CASE writable' = [writable EXCEPT ![c] = FALSE]
      <4>1. writable \in [Conns -> BOOLEAN] BY DEF TypeOK
      <4>2. ~writable'[c] BY <3>3, <4>1, Zenon
      <4> QED BY <1>4, <4>2 DEF Owes
    <3> QED BY <3>1, <3>2, <3>3
  <2>3. ~Spins(c) BY <1>3, <2>0 DEF Spins
  <2>4. turns[c] + 2 * sent[c] + 1 <= 2 * MaxSent + 2
    BY <1>3, <1>5, <2>3, Counts DEF TurnsAt
  <2>5. Owed(c)' = 0 BY <2>2 DEF Owed
  <2>6. turns'[c] + 2 * sent'[c] + Owed(c)' <= 2 * MaxSent + 1 + Begun(c)'
    BY <1>5, <2>1, <2>4, <2>5, Counts
  <2> QED BY <2>6 DEF TurnsAt
<1> QED BY <1>6, <1>7, <1>8

LEMMA TurnsStep == TypeOK /\ BatchOK /\ TurnsOK /\ [Next]_vars => TurnsOK'
<1> SUFFICES ASSUME TypeOK, BatchOK, TurnsOK, [Next]_vars, NEW d \in Conns PROVE TurnsAt(d)'
  BY DEF TurnsOK
<1>a. TypeOK' /\ TurnsAt(d) BY TypeStep DEF TurnsOK
<1>b. ASSUME UNCHANGED <<pc, batch, turns, sent, room, unsendable, writable>>,
             conn'[d] = "out" => conn[d] = "out"
      PROVE  TurnsAt(d)'
  <2>1. Answering(d)' => Answering(d) BY <1>b DEF Answering
  <2>2. Owes(d)' => Owes(d) BY <1>b DEF Owes
  <2>3. Begun(d)' = Begun(d) BY <1>b DEF Begun
  <2>4. Begun(d)' >= Begun(d) BY <2>3, Counts, <1>a
  <2> QED BY <1>a, <1>b, <2>1, <2>2, <2>4, TurnsKept
<1>1. ASSUME NEW c \in Conns, ClientStep(c) PROVE TurnsAt(d)'
  <2>1. CASE Connect(c)
    <3>1. conn'[d] = "out" => conn[d] = "out" BY <2>1 DEF TypeOK, Connect
    <3> QED BY <1>b, <2>1, <3>1 DEF Connect, loopVars, clientVars
  <2>2. CASE Acted(c)
    <3>1. turns \in [Conns -> 0..MaxTurns] BY DEF TypeOK
    <3>2. CASE d = c
      <4>1. turns'[d] = 0 BY <2>2, <3>1, <3>2 DEF Acted
      <4> QED BY <1>a, <4>1, TurnsReset
    <3>3. CASE d # c
      <4>1. turns'[d] = turns[d] BY <2>2, <3>1, <3>3 DEF Acted
      <4>2. CASE Connect(c) BY <2>1, <4>2
      <4>3. CASE ~Connect(c)
        <5>1. UNCHANGED <<loopVars, connVars>>
          BY <1>1, <4>3 DEF ClientStep, Send, Hangup, Read
        <5>2. sent'[d] = sent[d]
          <6>1. sent' = sent \/ sent' = [sent EXCEPT ![c] = @ + 1]
            BY <1>1, <4>3 DEF ClientStep, Send, Hangup, Read
          <6>2. sent \in [Conns -> 0..MaxSent] BY DEF TypeOK
          <6> QED BY <3>3, <6>1, <6>2
        <5>3. writable'[d] <=> writable[d]
          <6>1. writable' = writable \/ writable' = [writable EXCEPT ![c] = TRUE]
            BY <1>1, <4>3 DEF ClientStep, Send, Hangup, Read
          <6>2. writable \in [Conns -> BOOLEAN] BY DEF TypeOK
          <6> QED BY <3>3, <6>1, <6>2, Zenon
        <5>4. Answering(d)' => Answering(d) BY <5>1 DEF Answering, loopVars, connVars
        <5>5. Owes(d)' => Owes(d) BY <5>1, <5>3 DEF Owes, loopVars, connVars
        <5>6. Begun(d)' = Begun(d) BY <5>1 DEF Begun, loopVars
        <5>7. Begun(d)' >= Begun(d) BY <5>6, Counts
        <5>8. room' = room /\ unsendable' = unsendable BY <5>1 DEF connVars
        <5> QED BY <1>a, <4>1, <5>2, <5>4, <5>5, <5>7, <5>8, TurnsKept
      <4> QED BY <4>2, <4>3
    <3> QED BY <3>2, <3>3
  <2> QED BY <1>1, <2>1, <2>2 DEF ClientStep, Send, Hangup, Read
<1>2. ASSUME NEW c \in Conns, HandleClose(c) PROVE TurnsAt(d)'
  <2>1. {c} \in SUBSET Conns /\ Closed({c}) /\ batch # <<>> /\ NextEvent /\ Head(batch)[1] = c
    BY <1>2 DEF HandleClose
  <2>2. CASE d = c
    <3>1. turns'[d] = 0 BY <2>1, <2>2, ClosedIs
    <3> QED BY <1>a, <3>1, TurnsReset
  <2>3. CASE d # c
    <3>1. d \notin {c} BY <2>3
    <3> QED BY <1>a, <2>1, <2>3, <3>1, ClosedIs, ClosedFlags, TurnsOthers
  <2> QED BY <2>2, <2>3
<1>3. ASSUME NEW c \in Conns, HandleBegin(c) PROVE TurnsAt(d)'
  <2>1. /\ UNCHANGED <<batch, conn, room, unsendable, sent, writable>>
        /\ pc = "turn" /\ pc' = "handle" /\ Head(batch)[1] = c
    BY <1>3 DEF HandleBegin, clientVars
  <2>2. Begun(d) = 0 BY <2>1 DEF Begun
  <2>3. CASE d # c
    <3>1. turns'[d] = turns[d] BY <1>3, <2>3 DEF TypeOK, HandleBegin
    <3>2. Answering(d)' => Answering(d) BY <2>1 DEF Answering
    <3>3. Owes(d)' => Owes(d) BY <2>1 DEF Owes
    <3>4. Begun(d)' >= Begun(d) BY <2>2, CountsNext, <1>a
    <3> QED BY <1>a, <2>1, <3>1, <3>2, <3>3, <3>4, TurnsKept
  <2>4. CASE d = c
    <3>1. Begun(d)' = 1 BY <2>1, <2>4 DEF Begun
    <3>2. turns'[d] <= turns[d] + 1 BY <1>3, <2>4 DEF TypeOK, HandleBegin
    <3>3. (Spins(d)' <=> Spins(d)) /\ Owed(d)' = Owed(d) /\ sent'[d] = sent[d]
      BY <2>1 DEF Spins, Answering, Owed, Owes
    <3>4. CASE Spins(d) BY <3>3, <3>4 DEF TurnsAt
    <3>5. CASE ~Spins(d)
      <4>1. turns[d] + 2 * sent[d] + Owed(d) <= 2 * MaxSent + 1
        BY <1>a, <2>2, <3>5, Counts DEF TurnsAt
      <4>2. \A t, u, s, o \in Nat : t + 2 * s + o <= 2 * MaxSent + 1 /\ u <= t + 1
                => u + 2 * s + o <= 2 * MaxSent + 1 + 1
        OBVIOUS
      <4>3. turns'[d] + 2 * sent'[d] + Owed(d)' <= 2 * MaxSent + 1 + Begun(d)'
        BY <1>a, <3>1, <3>2, <3>3, <4>1, <4>2, Counts, CountsNext
      <4> QED BY <4>3 DEF TurnsAt
    <3> QED BY <3>4, <3>5
  <2> QED BY <2>3, <2>4
<1>4. ASSUME NEW c \in Conns, ProcessIn(c) PROVE TurnsAt(d)'
  <2>1. batch # <<>> /\ NextEvent /\ Head(batch)[1] = c /\ UNCHANGED <<unsendable, writable, turns>>
    BY <1>4 DEF TypeOK, ProcessIn
  <2>2. CASE d = c BY <1>a, <1>4, <2>2, ProcessInTurns
  <2>3. CASE d # c
    <3>1. sent'[d] = sent[d] /\ room'[d] = room[d] BY <1>4, <2>3 DEF TypeOK, ProcessIn
    <3>2. conn'[d] = conn[d] BY <1>4, <2>3, ModConnEventIs DEF ProcessIn
    <3> QED BY <1>a, <2>1, <2>3, <3>1, <3>2, TurnsOthers
  <2> QED BY <2>2, <2>3
<1>5. ASSUME NEW c \in Conns, ProcessOut(c) PROVE TurnsAt(d)'
  <2>1. batch # <<>> /\ NextEvent /\ Head(batch)[1] = c
    BY <1>5 DEF TypeOK, ProcessOut
  <2>2. CASE d = c BY <1>a, <1>5, <2>2, ProcessOutTurns
  <2>3. CASE d # c /\ Closed({c})
    <3>1. d \notin {c} /\ {c} \in SUBSET Conns BY <2>3
    <3> QED BY <1>a, <2>1, <2>3, <3>1, ClosedIs, ClosedFlags, TurnsOthers
  <2>4. CASE d # c /\ ~Closed({c})
    <3>1. conn'[d] = conn[d] BY <1>5, <2>4, ModConnEventIs DEF ProcessOut
    <3>2. room'[d] = room[d] /\ sent'[d] = sent[d] /\ turns'[d] = turns[d]
      BY <1>5, <2>4 DEF TypeOK, ProcessOut
    <3>3. unsendable' = unsendable \/ unsendable' = [unsendable EXCEPT ![c] = TRUE]
      BY <1>5, <2>4 DEF ProcessOut
    <3>4. writable' = writable \/ writable' = [writable EXCEPT ![c] = FALSE]
      BY <1>5, <2>4 DEF ProcessOut
    <3>5. (unsendable'[d] <=> unsendable[d]) /\ (writable'[d] <=> writable[d])
      BY <2>4, <3>3, <3>4, Zenon DEF TypeOK
    <3> QED BY <1>a, <2>1, <2>4, <3>1, <3>2, <3>5, TurnsOthers
  <2> QED BY <2>2, <2>3, <2>4
<1>6. CASE EpollWait
  <2>1. Deliver(Returned) BY <1>6 DEF EpollWait, Returned
  <2>2. UNCHANGED <<turns, sent, room, unsendable, writable>> /\ pc = "wait" /\ pc' = "turn"
    BY <1>6 DEF EpollWait, clientVars
  <2>3. <<d, "out">> \in Events(batch') => conn[d] = "out" /\ writable[d]
    <3> SUFFICES ASSUME <<d, "out">> \in Events(batch') PROVE conn[d] = "out" /\ writable[d]
      OBVIOUS
    <3>1. <<d, "out">> \in Ready BY <2>1, DeliverIs DEF Events
    <3>2. PICK c \in ReadyConns : <<d, "out">> = EventOf(c) BY <3>1 DEF Ready
    <3>3. c = d /\ ~hup[d] /\ conn[d] = "out" BY <3>2 DEF EventOf
    <3> QED BY <3>2, <3>3 DEF ReadyConns
  <2>4. conn'[d] = "out" => conn[d] = "out" BY <2>1, DeliverIs
  <2>5. Answering(d)' => Answering(d) BY <2>3, <2>4 DEF Answering
  <2>6. Owes(d)' => Owes(d) BY <2>2, <2>3, <2>4 DEF Owes
  <2>7. Begun(d)' = 0 /\ Begun(d) = 0 BY <2>2 DEF Begun
  <2> QED BY <1>a, <2>2, <2>5, <2>6, <2>7, TurnsKept
<1>7. CASE EpollWaitNothing
  <2>1. pc = "wait" /\ pc' = "turn" /\ batch = <<>> /\ batch' = <<>>
    BY <1>7 DEF EpollWaitNothing, BatchOK
  <2>2. UNCHANGED <<conn, turns, sent, room, unsendable, writable>>
    BY <1>7 DEF EpollWaitNothing, connVars, clientVars
  <2>3. Answering(d)' => Answering(d) BY <2>1, <2>2 DEF Answering
  <2>4. Owes(d)' => Owes(d) BY <2>1, <2>2 DEF Owes
  <2>5. Begun(d)' = 0 /\ Begun(d) = 0 BY <2>1 DEF Begun
  <2> QED BY <1>a, <2>2, <2>3, <2>4, <2>5, TurnsKept
<1>8. CASE HandleCmd
  <2>1. batch # <<>> /\ NextEvent /\ Head(batch)[1] = Cmd
          /\ UNCHANGED <<turns, sent, room, unsendable, writable>>
    BY <1>8 DEF HandleCmd, clientVars
  <2>2. conn'[d] = "out" => conn[d] = "out" BY <1>8 DEF HandleCmd
  <2> QED BY <1>a, <2>1, <2>2, TurnsOthers
<1>9. CASE HandleExpired
  <2> DEFINE S == {c \in Conns : left[c] = 0}
  <2>1. /\ S \in SUBSET Conns /\ Closed(S) /\ batch' = batch
        /\ pc = "turn" /\ pc' = "wait"
    BY <1>9 DEF HandleExpired
  <2>2. CASE d \in S
    <3>1. turns'[d] = 0 BY <2>1, <2>2, ClosedIs
    <3> QED BY <1>a, <3>1, TurnsReset
  <2>3. CASE d \notin S
    <3>1. /\ turns'[d] = turns[d] /\ sent'[d] = sent[d] /\ room'[d] = room[d]
          /\ conn'[d] = conn[d]
      BY <2>1, <2>3, ClosedIs
    <3>2. (unsendable'[d] <=> unsendable[d]) /\ (writable'[d] <=> writable[d])
      BY <2>1, <2>3, ClosedFlags
    <3>3. Answering(d)' => Answering(d) BY <2>1, <3>1 DEF Answering
    <3>4. Owes(d)' => Owes(d) BY <2>1, <3>1, <3>2 DEF Owes
    <3>5. Begun(d)' = 0 /\ Begun(d) = 0 BY <2>1 DEF Begun
    <3> QED BY <1>a, <3>1, <3>2, <3>3, <3>4, <3>5, TurnsKept
  <2> QED BY <2>2, <2>3
<1>10. CASE Tick BY <1>b, <1>10 DEF Tick, clientVars
<1>11. CASE UNCHANGED vars
  BY <1>b, <1>11 DEF vars, loopVars, connVars, clientVars
<1> QED BY <1>1, <1>2, <1>3, <1>4, <1>5, <1>6, <1>7, <1>8, <1>9, <1>10, <1>11
        DEF Next, HandleStep

(* A client that does nothing more is handled for what it has sent and what it
   is owed, and no more, unless it is Stuck, for which the code has no end: the
   handlings that are left go down with each one. *)
THEOREM HandlingsEnd == Spec => []NoBusyLoop
<1>1. TypeOK /\ BatchOK /\ TurnsOK => NoBusyLoop
  <2> SUFFICES ASSUME TypeOK, BatchOK, TurnsOK, NEW c \in Conns,
                      turns[c] > 2 * MaxSent + 1, ~Stuck(c)
               PROVE  FALSE
    BY DEF NoBusyLoop
  <2>1. ~Spins(c) BY DEF Stuck, Spins
  <2>2. turns[c] + 2 * sent[c] + Owed(c) <= 2 * MaxSent + 1 + Begun(c)
    BY <2>1 DEF TurnsOK, TurnsAt
  <2>3. Begun(c) = 1 /\ sent[c] = 0 /\ Owed(c) = 0 BY <2>2, Counts
  <2>4. pc = "handle" /\ Head(batch)[1] = c BY <2>3 DEF Begun
  <2>5. Head(batch) \in Events(batch) /\ Head(batch) \in Event
    BY <2>4, EventsAre DEF TypeOK
  <2>6. Head(batch) \in {<<c, "in">>, <<c, "out">>}
    BY <2>4, <2>5 DEF BatchOK, Event
  <2>7. Head(batch) # <<c, "in">>
    <3> SUFFICES ASSUME Head(batch) = <<c, "in">> PROVE FALSE OBVIOUS
    <3>1. sent[c] > 0 BY <2>5 DEF BatchOK
    <3> QED BY <2>3, <3>1
  <2>8. <<c, "out">> \in Events(batch) BY <2>5, <2>6, <2>7
  <2> QED BY <2>3, <2>8 DEF Owed, Owes
<1>2. Init => TypeOK /\ BatchOK /\ TurnsOK BY TypeInit, BatchInit, TurnsInit
<1>3. TypeOK /\ BatchOK /\ TurnsOK /\ [Next]_vars => (TypeOK /\ BatchOK /\ TurnsOK)'
  BY TypeStep, BatchStep, TurnsStep
<1> QED BY <1>1, <1>2, <1>3, PTL DEF Spec
=============================================================================
