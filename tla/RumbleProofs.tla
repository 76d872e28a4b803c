----------------------------- MODULE RumbleProofs -----------------------------
(* Theorems about Rumble, for any effects, magnitudes, interval and bound.     *)
EXTENDS Rumble, TLAPS

Values == Magnitudes \cup {0}
Events == [op : {"upload", "erase", "play", "stop"}, effect : Effects]

(* The daemon's table is that of the games but for the request that waits; the *)
(* request remembers what the daemon still holds, in case it is given up.      *)
Table ==
  /\ ff_effects \in [Effects -> Values]
  /\ uploaded \in [Effects -> Values]
  /\ request \in Requests \cup {NoRequest}
  /\ request = NoRequest => ff_effects = uploaded
  /\ request # NoRequest =>
       /\ uploaded = [ff_effects EXCEPT ![request.effect] = request.magnitude]
       /\ request.old = ff_effects[request.effect]

(* What TypeOK says besides of the queue and the magnitudes on their way.      *)
Flow ==
  /\ queue \in Seq(Events)
  /\ Len(queue) <= MaxQueue
  /\ asked \in Values
  /\ result \in Values \cup {NoResult}
  /\ reading \in BOOLEAN /\ late \in BOOLEAN
  /\ since \in 0 .. MinInterval
  /\ motor \in 0 .. 255
  /\ owned \subseteq Effects
  /\ lost \in {"none", "throttled", "failed", "late"}

IInv == Table /\ Flow

LEMMA InitIInv == Init => IInv
<1> SUFFICES ASSUME Init PROVE IInv
  OBVIOUS
<1>1. ff_effects \in [Effects -> Values]
  BY DEF Init, Values
<1>2. Table
  BY <1>1 DEF Init, Table
<1>3. queue \in Seq(Events) /\ Len(queue) = 0
  BY DEF Init
<1>4. since \in 0 .. MinInterval
  BY BoundsAssumption DEF Init
<1>5. Len(queue) <= MaxQueue
  BY <1>3, BoundsAssumption
<1>6. 0 \in 0 .. 255 /\ 0 \in Values
  BY DEF Values
<1>7. Flow
  BY <1>3, <1>4, <1>5, <1>6 DEF Init, Flow
<1> QED BY <1>2, <1>7 DEF IInv

--------------------------------------------------------------------------------
(* Three steps change the tables: a game asks, the daemon answers, the kernel  *)
(* gives up.                                                                   *)

LEMMA AskedTable ==
  ASSUME Table, NEW op \in {"upload", "erase"}, NEW e \in Effects,
         NEW m \in Values, Request(op, e, m), UNCHANGED ff_effects
  PROVE  Table'
<1> DEFINE r == [op |-> op, effect |-> e, magnitude |-> m, old |-> uploaded[e]]
<1>1. /\ r \in Requests
      /\ r.effect = e /\ r.magnitude = m /\ r.old = uploaded[e]
  BY DEF Table, Requests, Values
<1>2. request' = r /\ ff_effects = uploaded
  BY DEF Request, Table
<1>3. uploaded' = [ff_effects' EXCEPT ![e] = m]
  BY <1>2 DEF Request
<1>4. uploaded' \in [Effects -> Values]
  BY DEF Request, Table
<1>5. request' # NoRequest
  BY <1>1, <1>2, NothingAssumption
<1> HIDE DEF r
<1> QED BY <1>1, <1>2, <1>3, <1>4, <1>5 DEF Table

LEMMA AnsweredTable ==
  ASSUME Table, request # NoRequest, Answer, UNCHANGED uploaded
  PROVE  Table'
  BY DEF Table, Answer

LEMMA GivenUpTable ==
  ASSUME Table, TimeOut
  PROVE  Table'
<1>1. request \in Requests /\ request # NoRequest
  BY DEF Table, TimeOut
<1>2. request.effect \in Effects
  BY <1>1 DEF Requests
<1>3. uploaded' = ff_effects
  <2>1. uploaded = [ff_effects EXCEPT ![request.effect] = request.magnitude]
    BY <1>1 DEF Table
  <2>2. uploaded' = [uploaded EXCEPT ![request.effect] = ff_effects[request.effect]]
    BY <1>1 DEF Table, TimeOut
  <2> QED BY <1>2, <2>1, <2>2 DEF Table
<1>4. request' = NoRequest /\ ff_effects' = ff_effects
  BY DEF TimeOut, daemon
<1> QED BY <1>3, <1>4 DEF Table

LEMMA KeptTable ==
  ASSUME Table, UNCHANGED <<ff_effects, uploaded, request>>
  PROVE  Table'
  BY DEF Table

--------------------------------------------------------------------------------
LEMMA LevelFits == \A m \in Values : Level(m) \in 0 .. 255
<1> TAKE m \in Values
<1>1. m \in Int /\ 0 <= m /\ m < 65536
  <2>1. CASE m \in Magnitudes
    BY <2>1, MagnitudesAssumption
  <2>2. CASE m = 0
    BY <2>2
  <2> QED BY <2>1, <2>2 DEF Values
<1>2. m \div 256 \in Int /\ 0 <= m \div 256 /\ m \div 256 < 256
  BY <1>1
<1> QED BY <1>2 DEF Level

LEMMA QueuedFlow ==
  ASSUME Flow, NEW events \in Seq(Events), Queue(events),
         asked' \in Values, owned' \subseteq Effects
  PROVE  Flow'
<1>1. queue' = queue \o events /\ Len(queue) + Len(events) <= MaxQueue
  BY DEF Queue
<1>2. queue' \in Seq(Events) /\ Len(queue') = Len(queue) + Len(events)
  BY <1>1 DEF Flow
<1>3. Len(queue') <= MaxQueue
  BY <1>1, <1>2
<1>4. UNCHANGED <<result, reading, since, motor, lost, late>>
  BY DEF Queue, daemon
<1> QED BY <1>2, <1>3, <1>4 DEF Flow

LEMMA ReadFlow ==
  ASSUME Flow, NEW op, Read(op),
         result' \in Values \cup {NoResult}, owned' \subseteq Effects
  PROVE  Flow'
<1>1. queue' = Tail(queue) /\ queue # <<>> /\ queue \in Seq(Events)
  BY DEF Flow, Read
<1>2. queue' \in Seq(Events) /\ Len(queue') = Len(queue) - 1
  BY <1>1
<1>3. Len(queue) \in Nat /\ Len(queue) <= MaxQueue
  BY <1>1 DEF Flow
<1>4. Len(queue') <= MaxQueue
  BY <1>2, <1>3, BoundsAssumption
<1>5. UNCHANGED <<reading, since, motor, lost, asked, late>>
  BY DEF Read
<1> QED BY <1>2, <1>4, <1>5 DEF Flow

LEMMA HeadIsEvent ==
  ASSUME Flow, queue # <<>>
  PROVE  Head(queue).effect \in Effects
<1>1. Head(queue) \in Events
  BY DEF Flow
<1> QED BY <1>1 DEF Events

LEMMA NextIInv == IInv /\ [Next]_vars => IInv'
<1> SUFFICES ASSUME IInv, [Next]_vars PROVE IInv'
  OBVIOUS
<1> USE DEF IInv
<1>1. ASSUME NEW e \in Effects, NEW m \in Magnitudes, Upload(e, m) PROVE IInv'
  <2>1. Table'
    BY <1>1, AskedTable DEF Upload, Queue, daemon, Values
  <2>2. <<Event("upload", e)>> \in Seq(Events)
    BY DEF Event, Events
  <2> QED BY <1>1, <2>1, <2>2, QueuedFlow DEF Upload, Flow
<1>2. ASSUME NEW e \in Effects, Erase(e) PROVE IInv'
  <2>1. Table'
    BY <1>2, AskedTable DEF Erase, Queue, daemon, Values
  <2>2. <<Event("stop", e), Event("erase", e)>> \in Seq(Events)
    BY DEF Event, Events
  <2> QED BY <1>2, <2>1, <2>2, QueuedFlow DEF Erase, Flow, Values
<1>3. ASSUME NEW e \in Effects, Play(e) PROVE IInv'
  <2>1. Table'
    BY <1>3, KeptTable DEF Play, Queue, daemon
  <2>2. <<Event("play", e)>> \in Seq(Events)
    BY DEF Event, Events
  <2>3. asked' \in Values
    BY <1>3 DEF Play, Table
  <2> QED BY <1>3, <2>1, <2>2, <2>3, QueuedFlow DEF Play, Flow
<1>4. ASSUME NEW e \in Effects, Stop(e) PROVE IInv'
  <2>1. Table'
    BY <1>4, KeptTable DEF Stop, Queue, daemon
  <2>2. <<Event("stop", e)>> \in Seq(Events)
    BY DEF Event, Events
  <2> QED BY <1>4, <2>1, <2>2, QueuedFlow DEF Stop, Flow, Values
<1>5. CASE TimeOut
  <2>1. owned' \subseteq Effects
    BY <1>5 DEF TimeOut, Table, Flow, Requests
  <2>2. Flow'
    BY <1>5, <2>1 DEF TimeOut, Flow, daemon
  <2> QED BY <1>5, <2>2, GivenUpTable
<1>6. CASE Tick
  <2>1. Flow'
    BY <1>6, BoundsAssumption DEF Tick, Flow, games
  <2> QED BY <1>6, <2>1, KeptTable DEF Tick, games
<1>7. CASE PollFF
  <2>1. Flow'
    BY <1>7 DEF PollFF, Flow, games
  <2> QED BY <1>7, <2>1, KeptTable DEF PollFF, games
<1>8. CASE ReadUpload
  <2>1. Table'
    BY <1>8, AnsweredTable, KeptTable DEF ReadUpload, Read, Begin
  <2>2. owned' \subseteq Effects
    BY <1>8 DEF ReadUpload, Begin, Table, Flow, Requests
  <2> QED BY <1>8, <2>1, <2>2, ReadFlow DEF ReadUpload, Flow
<1>9. CASE ReadErase
  <2>1. Table'
    BY <1>9, AnsweredTable, KeptTable DEF ReadErase, Read, Begin
  <2> QED BY <1>9, <2>1, ReadFlow DEF ReadErase, Flow
<1>10. CASE ReadPlay
  <2>1. Table'
    BY <1>10, KeptTable DEF ReadPlay, Read
  <2>2. Head(queue).effect \in Effects
    BY <1>10, HeadIsEvent DEF ReadPlay, Read
  <2>3. result' \in Values
    BY <1>10, <2>2 DEF ReadPlay, Table
  <2> QED BY <1>10, <2>1, <2>3, ReadFlow DEF ReadPlay, Flow
<1>11. CASE ReadStop
  <2>1. Table'
    BY <1>11, KeptTable DEF ReadStop, Read
  <2> QED BY <1>11, <2>1, ReadFlow DEF ReadStop, Flow, Values
<1>12. CASE EndPoll
  <2>1. Table'
    BY <1>12, KeptTable DEF EndPoll
  <2>2. /\ since' \in 0 .. MinInterval
        /\ motor' \in 0 .. 255
        /\ lost' \in {"none", "throttled", "failed", "late"}
    <3>1. CASE result = NoResult
      BY <1>12, <3>1 DEF EndPoll, Flow
    <3>2. CASE result # NoResult
      <4>1. result \in Values /\ SendRumble(result)
        BY <1>12, <3>2 DEF EndPoll, Flow
      <4>2. Level(result) \in 0 .. 255
        BY <4>1, LevelFits
      <4>3. 0 \in 0 .. MinInterval
        BY BoundsAssumption
      <4>4. CASE since < MinInterval
        BY <4>1, <4>4 DEF SendRumble, Flow
      <4>5. CASE ~(since < MinInterval)
        BY <4>1, <4>2, <4>3, <4>5 DEF SendRumble, Flow
      <4> QED BY <4>4, <4>5
    <3> QED BY <3>1, <3>2
  <2>3. Flow'
    BY <1>12, <2>2 DEF EndPoll, Flow
  <2> QED BY <2>1, <2>3
<1>13. CASE UNCHANGED vars
  <2>1. Flow'
    BY <1>13 DEF vars, daemon, games, Flow
  <2> QED BY <1>13, <2>1, KeptTable DEF vars, daemon, games
<1> QED
  BY <1>1, <1>2, <1>3, <1>4, <1>5, <1>6, <1>7, <1>8, <1>9, <1>10, <1>11, <1>12, <1>13
     DEF Next, DaemonStep

--------------------------------------------------------------------------------
(* Whenever a game's upload or erase has returned, the daemon plays each       *)
(* effect as the games know it, also when the kernel gave requests up and the  *)
(* daemon took the event of one for that of another.                           *)
THEOREM TableStaysCurrent == Spec => []TableIsCurrent
<1>1. IInv => TableIsCurrent
  BY DEF IInv, Table, TableIsCurrent
<1> QED BY <1>1, InitIInv, NextIInv, PTL DEF Spec

(* Every magnitude on its way from a game fits sixteen bits, and every level   *)
(* at the controller fits a byte.                                              *)
THEOREM RumbleTypes == Spec => []TypeOK
<1>1. IInv => TypeOK
  BY DEF IInv, Table, Flow, TypeOK, Values, Events
<1> QED BY <1>1, InitIInv, NextIInv, PTL DEF Spec

--------------------------------------------------------------------------------
(* The motors follow the games.                                                *)

Moves(event) == event.op \in {"play", "stop"}
Asks(event) == event.op \in {"upload", "erase"}

Still == \A i \in 1 .. Len(queue) : ~Moves(queue[i])
LastMove(i) == Moves(queue[i]) /\ \A j \in i + 1 .. Len(queue) : ~Moves(queue[j])

(* The result that reading the event would give now.                           *)
Means(event) == IF event.op = "stop" THEN 0 ELSE ff_effects[event.effect]

(* An event that asks for an answer is that of the request that waits, and no  *)
(* play of its effect comes after it.                                          *)
Orderly ==
  \A i \in 1 .. Len(queue) : Asks(queue[i]) =>
    /\ request # NoRequest
    /\ request.op = queue[i].op /\ request.effect = queue[i].effect
    /\ \A j \in i + 1 .. Len(queue) :
         ~Asks(queue[j]) /\ ~(queue[j].op = "play" /\ queue[j].effect = queue[i].effect)

(* What the games asked for last is the meaning of the last play or stop that  *)
(* is queued; once that is read, the result; once that is sent, the motors'    *)
(* level.  The first two hold unless the event of a request given up is queued.*)
Follow ==
  /\ ~reading => result = NoResult
  /\ Still /\ result = NoResult /\ lost = "none" => motor = Level(asked)
  /\ ~late => /\ Orderly
              /\ Still /\ result # NoResult => result = asked
              /\ \A i \in 1 .. Len(queue) : LastMove(i) => Means(queue[i]) = asked

FInv == IInv /\ Follow

LEMMA InitFollow == Init => Follow
<1> SUFFICES ASSUME Init PROVE Follow
  OBVIOUS
<1>1. Len(queue) = 0 /\ motor = Level(asked)
  BY DEF Init, Level
<1> QED BY <1>1 DEF Init, Follow, Orderly

(* The events of a longer and of a shorter queue.                              *)
LEMMA Grown ==
  ASSUME Flow, NEW events \in Seq(Events), Queue(events)
  PROVE  /\ Len(queue) \in Nat /\ Len(queue') = Len(queue) + Len(events)
         /\ \A i \in 1 .. Len(queue) : queue'[i] = queue[i]
         /\ \A i \in 1 .. Len(events) : queue'[Len(queue) + i] = events[i]
         /\ UNCHANGED <<ff_effects, result, reading, motor, lost, late>>
<1>1. queue \in Seq(Events) /\ queue' = queue \o events
  BY DEF Flow, Queue
<1> QED BY <1>1 DEF Queue, daemon

LEMMA GrownByOne ==
  ASSUME Flow, NEW event \in Events, Queue(<<event>>)
  PROVE  /\ Len(queue) \in Nat /\ Len(queue') = Len(queue) + 1
         /\ \A i \in 1 .. Len(queue) : queue'[i] = queue[i]
         /\ queue'[Len(queue) + 1] = event
         /\ UNCHANGED <<ff_effects, result, reading, motor, lost, late>>
<1> DEFINE events == <<event>>
<1>1. events \in Seq(Events) /\ Len(events) = 1 /\ events[1] = event /\ 1 \in 1 .. 1
  OBVIOUS
<1>2. Queue(events)
  OBVIOUS
<1> HIDE DEF events
<1> QED BY <1>1, <1>2, Grown

LEMMA Shrunk ==
  ASSUME Flow, NEW op, Read(op)
  PROVE  /\ Len(queue) \in Nat \ {0} /\ Len(queue') = Len(queue) - 1
         /\ \A i \in 1 .. Len(queue) - 1 : queue'[i] = queue[i + 1]
         /\ queue[1].op = op /\ queue[1] = Head(queue)
         /\ reading /\ reading' /\ UNCHANGED <<motor, lost, asked, late>>
<1>1. queue \in Seq(Events) /\ queue # <<>> /\ queue' = Tail(queue)
  BY DEF Flow, Read
<1> QED BY <1>1 DEF Read

(* An upload that joins the queue is no last play or stop, and it finds no     *)
(* other event that asks.                                                      *)
LEMMA UploadFollow ==
  ASSUME FInv, NEW e \in Effects, NEW m \in Magnitudes, Upload(e, m)
  PROVE  Follow'
<1>1. Event("upload", e) \in Events /\ Queue(<<Event("upload", e)>>)
  BY DEF Event, Events, Upload
<1>2. /\ Len(queue) \in Nat /\ Len(queue') = Len(queue) + 1
      /\ \A i \in 1 .. Len(queue) : queue'[i] = queue[i]
      /\ queue'[Len(queue) + 1] = Event("upload", e)
      /\ UNCHANGED <<ff_effects, result, reading, motor, lost, late, asked>>
  <2>1. UNCHANGED asked
    BY DEF Upload
  <2> QED BY <1>1, <2>1, GrownByOne DEF FInv, IInv
<1>3. ~Moves(Event("upload", e)) /\ Asks(Event("upload", e))
  BY DEF Moves, Asks, Event
<1>4. Still' <=> Still
  BY <1>2, <1>3 DEF Still, Moves
<1>5. \A i \in 1 .. Len(queue') : LastMove(i)' => i \in 1 .. Len(queue) /\ LastMove(i)
  BY <1>2, <1>3 DEF LastMove, Moves
<1>6. ~late => Orderly'
  <2> SUFFICES ASSUME ~late PROVE Orderly'
    OBVIOUS
  <2>1. \A i \in 1 .. Len(queue) : ~Asks(queue[i])
    BY DEF Upload, Request, FInv, Follow, Orderly
  <2>2. request'.op = "upload" /\ request'.effect = e /\ request' # NoRequest
    <3>1. request' = [op |-> "upload", effect |-> e, magnitude |-> m, old |-> uploaded[e]]
      BY DEF Upload, Request
    <3>2. uploaded[e] \in Magnitudes \cup {0}
      BY DEF FInv, IInv, Table, Values
    <3>3. request' \in Requests
      BY <3>1, <3>2 DEF Requests
    <3> QED BY <3>1, <3>3, NothingAssumption
  <2> QED BY <1>2, <2>1, <2>2 DEF Orderly, Asks, Event
<1>7. ~late => \A i \in 1 .. Len(queue') : LastMove(i)' => Means(queue[i])' = asked'
  BY <1>2, <1>5 DEF FInv, Follow, Means
<1> QED BY <1>2, <1>4, <1>6, <1>7 DEF FInv, Follow

(* A play or a stop that joins the queue is the last one.                      *)
LEMMA MoveFollow ==
  ASSUME FInv, NEW op \in {"play", "stop"}, NEW e \in Effects, Queue(<<Event(op, e)>>),
         UNCHANGED request,
         op = "play" => ~(request # NoRequest /\ request.effect = e),
         asked' = IF op = "stop" THEN 0 ELSE uploaded[e]
  PROVE  Follow'
<1>1. /\ Len(queue) \in Nat /\ Len(queue') = Len(queue) + 1
      /\ \A i \in 1 .. Len(queue) : queue'[i] = queue[i]
      /\ queue'[Len(queue) + 1] = Event(op, e)
      /\ UNCHANGED <<ff_effects, result, reading, motor, lost, late>>
  <2>1. Event(op, e) \in Events
    BY DEF Event, Events
  <2> QED BY <2>1, GrownByOne DEF FInv, IInv
<1>2. Moves(Event(op, e)) /\ ~Asks(Event(op, e)) /\ Event(op, e).op = op
      /\ Event(op, e).effect = e
  BY DEF Moves, Asks, Event
<1>3. ~Still'
  BY <1>1, <1>2 DEF Still, Moves
<1>4. \A i \in 1 .. Len(queue') : LastMove(i)' => i = Len(queue) + 1
  BY <1>1, <1>2 DEF LastMove, Moves
<1>5. asked' = Means(Event(op, e))'
  <2>1. op = "play" => ff_effects[e] = uploaded[e]
    BY DEF FInv, IInv, Table
  <2> QED BY <1>1, <1>2, <2>1 DEF Means
<1>6. ~late => Orderly'
  <2> SUFFICES ASSUME ~late PROVE Orderly'
    OBVIOUS
  <2>1. Orderly
    BY DEF FInv, Follow
  <2>2. ASSUME NEW i \in 1 .. Len(queue'), Asks(queue'[i])
        PROVE  /\ request # NoRequest
               /\ request.op = queue'[i].op /\ request.effect = queue'[i].effect
               /\ \A j \in i + 1 .. Len(queue') :
                    ~Asks(queue'[j]) /\ ~(queue'[j].op = "play" /\ queue'[j].effect = queue'[i].effect)
    <3>1. i \in 1 .. Len(queue) /\ Asks(queue[i]) /\ queue'[i] = queue[i]
      BY <1>1, <1>2, <2>2
    <3>2. /\ request # NoRequest
          /\ request.op = queue[i].op /\ request.effect = queue[i].effect
          /\ \A j \in i + 1 .. Len(queue) :
               ~Asks(queue[j]) /\ ~(queue[j].op = "play" /\ queue[j].effect = queue[i].effect)
      BY <2>1, <3>1 DEF Orderly
    <3>3. ASSUME NEW j \in i + 1 .. Len(queue')
          PROVE  ~Asks(queue'[j]) /\ ~(queue'[j].op = "play" /\ queue'[j].effect = queue'[i].effect)
      <4>1. CASE j \in i + 1 .. Len(queue)
        BY <1>1, <3>1, <3>2, <4>1
      <4>2. CASE j = Len(queue) + 1
        BY <1>1, <1>2, <3>1, <3>2, <4>2
      <4> QED BY <1>1, <3>1, <4>1, <4>2
    <3> QED BY <3>1, <3>2, <3>3
  <2> QED BY <2>2 DEF Orderly, Asks
<1>7. ~late => \A i \in 1 .. Len(queue') : LastMove(i)' => Means(queue[i])' = asked'
  BY <1>1, <1>4, <1>5 DEF Means
<1> QED BY <1>1, <1>3, <1>6, <1>7 DEF FInv, Follow

(* An erase stops its effect in front of the event that asks.                  *)
LEMMA EraseFollow ==
  ASSUME FInv, NEW e \in Effects, Erase(e)
  PROVE  Follow'
<1> DEFINE stop == Event("stop", e)
           erase == Event("erase", e)
           events == <<stop, erase>>
<1>1. /\ events \in Seq(Events) /\ Len(events) = 2
      /\ events[1] = stop /\ events[2] = erase /\ 1 \in 1 .. 2 /\ 2 \in 1 .. 2
  BY DEF Event, Events
<1>2. Queue(events) /\ asked' = 0
  BY DEF Erase
<1>3. /\ stop.op = "stop" /\ Moves(stop) /\ ~Asks(stop)
      /\ erase.op = "erase" /\ erase.effect = e /\ ~Moves(erase)
  BY DEF Moves, Asks, Event
<1>4. /\ request' # NoRequest /\ request'.op = "erase" /\ request'.effect = e
      /\ request = NoRequest
  <2>1. request' = [op |-> "erase", effect |-> e, magnitude |-> 0, old |-> uploaded[e]]
    BY DEF Erase, Request
  <2>2. uploaded[e] \in Magnitudes \cup {0}
    BY DEF FInv, IInv, Table, Values
  <2>3. request' \in Requests
    BY <2>1, <2>2 DEF Requests
  <2> QED BY <2>1, <2>3, NothingAssumption DEF Erase, Request
<1> HIDE DEF stop, erase, events
<1>5. /\ Len(queue) \in Nat /\ Len(queue') = Len(queue) + 2
      /\ \A i \in 1 .. Len(queue) : queue'[i] = queue[i]
      /\ queue'[Len(queue) + 1] = stop /\ queue'[Len(queue) + 2] = erase
      /\ UNCHANGED <<ff_effects, result, reading, motor, lost, late>>
  BY <1>1, <1>2, Grown DEF FInv, IInv
<1>6. ~Still'
  BY <1>3, <1>5 DEF Still, Moves
<1>7. \A i \in 1 .. Len(queue') : LastMove(i)' => i = Len(queue) + 1
  <2> SUFFICES ASSUME NEW i \in 1 .. Len(queue'), LastMove(i)', i # Len(queue) + 1
               PROVE  FALSE
    OBVIOUS
  <2>1. i \in 1 .. Len(queue)
    BY <1>3, <1>5 DEF LastMove, Moves
  <2>2. Len(queue) + 1 \in i + 1 .. Len(queue')
    BY <1>5, <2>1
  <2> QED BY <1>3, <1>5, <2>2 DEF LastMove, Moves
<1>8. ~late => Orderly'
  <2> SUFFICES ASSUME ~late PROVE Orderly'
    OBVIOUS
  <2>1. \A i \in 1 .. Len(queue) : ~Asks(queue[i])
    BY <1>4 DEF FInv, Follow, Orderly
  <2>2. \A i \in 1 .. Len(queue') : Asks(queue'[i]) => i = Len(queue) + 2
    BY <1>3, <1>5, <2>1
  <2> QED BY <1>3, <1>4, <1>5, <2>2 DEF Orderly, Asks
<1>9. ~late => \A i \in 1 .. Len(queue') : LastMove(i)' => Means(queue[i])' = asked'
  BY <1>2, <1>3, <1>5, <1>7 DEF Means
<1> QED BY <1>5, <1>6, <1>8, <1>9 DEF FInv, Follow

--------------------------------------------------------------------------------
(* Reading an event moves the others to the front.                             *)
LEMMA ReadOrder ==
  ASSUME FInv, NEW op, Read(op)
  PROVE  /\ Still' /\ ~Moves(queue[1]) => Still
         /\ Still' /\ Moves(queue[1]) => LastMove(1)
         /\ \A i \in 1 .. Len(queue') : LastMove(i)' => LastMove(i + 1)
<1>1. /\ Len(queue) \in Nat \ {0} /\ Len(queue') = Len(queue) - 1
      /\ \A i \in 1 .. Len(queue) - 1 : queue'[i] = queue[i + 1]
  BY Shrunk DEF FInv, IInv
<1>2. Still' => \A i \in 2 .. Len(queue) : ~Moves(queue[i])
  <2> SUFFICES ASSUME Still', NEW i \in 2 .. Len(queue) PROVE ~Moves(queue[i])
    OBVIOUS
  <2>1. i - 1 \in 1 .. Len(queue') /\ queue'[i - 1] = queue[i]
    BY <1>1
  <2> QED BY <2>1 DEF Still, Moves
<1>3. Still' /\ ~Moves(queue[1]) => Still
  BY <1>1, <1>2 DEF Still
<1>4. Still' /\ Moves(queue[1]) => LastMove(1)
  BY <1>1, <1>2 DEF LastMove
<1>5. ASSUME NEW i \in 1 .. Len(queue'), LastMove(i)' PROVE LastMove(i + 1)
  <2>1. Moves(queue[i + 1])
    BY <1>1, <1>5 DEF LastMove, Moves
  <2>2. ASSUME NEW j \in i + 2 .. Len(queue) PROVE ~Moves(queue[j])
    <3>1. j - 1 \in i + 1 .. Len(queue') /\ queue'[j - 1] = queue[j]
      BY <1>1
    <3> QED BY <1>5, <3>1 DEF LastMove, Moves
  <2>3. i + 1 + 1 = i + 2
    BY <1>1
  <2> QED BY <2>1, <2>2, <2>3 DEF LastMove
<1> QED BY <1>3, <1>4, <1>5

(* An upload or an erase that is read is answered in its turn, unless the      *)
(* event of a request given up is queued.                                      *)
LEMMA AnswerFollow ==
  ASSUME FInv, NEW op \in {"upload", "erase"}, Read(op), UNCHANGED result,
         Begin(op) => Answer,
         ~Begin(op) => UNCHANGED <<ff_effects, request>>
  PROVE  Follow'
<1>1. /\ Len(queue) \in Nat \ {0} /\ Len(queue') = Len(queue) - 1
      /\ \A i \in 1 .. Len(queue) - 1 : queue'[i] = queue[i + 1]
      /\ queue[1].op = op
      /\ reading' /\ UNCHANGED <<motor, lost, asked, late>>
  BY Shrunk DEF FInv, IInv
<1>2. ~Moves(queue[1]) /\ Asks(queue[1])
  BY <1>1 DEF Moves, Asks
<1>3. Still' => Still
  BY <1>2, ReadOrder
<1>4. ASSUME ~late
      PROVE  /\ Orderly'
             /\ \A i \in 1 .. Len(queue') : LastMove(i)' => Means(queue[i])' = asked'
  <2>1. /\ Orderly
        /\ \A i \in 1 .. Len(queue) : LastMove(i) => Means(queue[i]) = asked
    BY <1>4 DEF FInv, Follow
  <2>2. /\ Begin(op) /\ Answer /\ request.effect = queue[1].effect
        /\ \A j \in 2 .. Len(queue) :
             ~Asks(queue[j]) /\ ~(queue[j].op = "play" /\ queue[j].effect = queue[1].effect)
    BY <1>1, <1>2, <2>1 DEF Orderly, Begin
  <2>3. Orderly'
    <3>1. ASSUME NEW i \in 1 .. Len(queue') PROVE ~Asks(queue'[i])
      <4>1. i + 1 \in 2 .. Len(queue) /\ queue'[i] = queue[i + 1]
        BY <1>1
      <4> QED BY <2>2, <4>1
    <3> QED BY <3>1 DEF Orderly, Asks
  <2>4. ASSUME NEW i \in 1 .. Len(queue'), LastMove(i)' PROVE Means(queue[i])' = asked'
    <3>1. i + 1 \in 2 .. Len(queue) /\ queue'[i] = queue[i + 1]
      BY <1>1
    <3>2. LastMove(i + 1) /\ Means(queue[i + 1]) = asked
      BY <2>1, <2>4, <3>1, ReadOrder, <1>1
    <3>3. queue[i + 1].op \in {"play", "stop"} /\ queue[i + 1] \in Events
      BY <1>1, <3>1, <3>2 DEF LastMove, Moves, FInv, IInv, Flow
    <3>4. queue[i + 1].op = "play" => ff_effects'[queue[i + 1].effect] = ff_effects[queue[i + 1].effect]
      BY <2>2, <3>1, <3>3 DEF Answer, Events, FInv, IInv, Table
    <3> QED BY <1>1, <3>1, <3>2, <3>3, <3>4 DEF Means
  <2> QED BY <2>3, <2>4
<1> QED BY <1>1, <1>3, <1>4 DEF FInv, Follow

(* A play or a stop that is read is from then on the result.                   *)
LEMMA MoveReadFollow ==
  ASSUME FInv, NEW op \in {"play", "stop"}, Read(op), UNCHANGED <<ff_effects, request>>,
         result' = Means(Head(queue))
  PROVE  Follow'
<1>1. /\ Len(queue) \in Nat \ {0} /\ Len(queue') = Len(queue) - 1
      /\ \A i \in 1 .. Len(queue) - 1 : queue'[i] = queue[i + 1]
      /\ queue[1].op = op /\ queue[1] = Head(queue)
      /\ reading' /\ UNCHANGED <<motor, lost, asked, late>>
  BY Shrunk DEF FInv, IInv
<1>2. Moves(queue[1])
  BY <1>1 DEF Moves
<1>3. result' # NoResult
  <2>1. Head(queue).effect \in Effects
    BY HeadIsEvent DEF FInv, IInv, Read
  <2>2. result' \in Values /\ Values \subseteq Nat
    BY <2>1, MagnitudesAssumption DEF Means, FInv, IInv, Table, Values
  <2> QED BY <2>2, NothingAssumption
<1>4. ASSUME ~late
      PROVE  /\ Orderly'
             /\ Still' => result' = asked'
             /\ \A i \in 1 .. Len(queue') : LastMove(i)' => Means(queue[i])' = asked'
  <2>1. /\ Orderly
        /\ \A i \in 1 .. Len(queue) : LastMove(i) => Means(queue[i]) = asked
    BY <1>4 DEF FInv, Follow
  <2>2. Still' => result' = asked'
    BY <1>1, <1>2, <2>1, ReadOrder
  <2>3. ASSUME NEW i \in 1 .. Len(queue'), LastMove(i)' PROVE Means(queue[i])' = asked'
    <3>1. i + 1 \in 1 .. Len(queue) /\ queue'[i] = queue[i + 1]
      BY <1>1
    <3> QED BY <1>1, <2>1, <2>3, <3>1, ReadOrder DEF Means
  <2>4. ASSUME NEW i \in 1 .. Len(queue'), Asks(queue'[i])
        PROVE  /\ request # NoRequest
               /\ request.op = queue'[i].op /\ request.effect = queue'[i].effect
               /\ \A j \in i + 1 .. Len(queue') :
                    ~Asks(queue'[j]) /\ ~(queue'[j].op = "play" /\ queue'[j].effect = queue'[i].effect)
    <3>1. i + 1 \in 1 .. Len(queue) /\ queue'[i] = queue[i + 1]
      BY <1>1
    <3>2. /\ request # NoRequest
          /\ request.op = queue[i + 1].op /\ request.effect = queue[i + 1].effect
          /\ \A j \in i + 2 .. Len(queue) :
               ~Asks(queue[j]) /\ ~(queue[j].op = "play" /\ queue[j].effect = queue[i + 1].effect)
      BY <2>1, <2>4, <3>1 DEF Orderly
    <3>3. \A j \in i + 1 .. Len(queue') : j + 1 \in i + 2 .. Len(queue) /\ queue'[j] = queue[j + 1]
      BY <1>1
    <3> QED BY <3>1, <3>2, <3>3
  <2>5. Orderly'
    BY <2>4 DEF Orderly, Asks
  <2> QED BY <2>2, <2>3, <2>5
<1> QED BY <1>1, <1>3, <1>4 DEF FInv, Follow

(* What is sent is what the games asked for, or lost says why not.             *)
LEMMA EndFollow ==
  ASSUME FInv, EndPoll
  PROVE  Follow'
<1>1. /\ Len(queue) = 0 /\ Len(queue') = 0 /\ Still /\ Still'
      /\ result' = NoResult /\ asked' = asked
  BY DEF EndPoll, Still
<1>2. lost' = "none" => motor' = Level(asked')
  <2>1. CASE result = NoResult
    BY <1>1, <2>1 DEF EndPoll, FInv, Follow
  <2>2. CASE result # NoResult
    <3>1. SendRumble(result)
      BY <2>2 DEF EndPoll
    <3>2. ~late => result = asked
      BY <1>1, <2>2 DEF FInv, Follow
    <3> QED BY <1>1, <3>1, <3>2 DEF SendRumble
  <2> QED BY <2>1, <2>2
<1> QED BY <1>1, <1>2 DEF Follow, Orderly

LEMMA NextFollow == FInv /\ [Next]_vars => Follow'
<1> SUFFICES ASSUME FInv, [Next]_vars PROVE Follow'
  OBVIOUS
<1>1. ASSUME NEW e \in Effects, NEW m \in Magnitudes, Upload(e, m) PROVE Follow'
  BY <1>1, UploadFollow
<1>2. ASSUME NEW e \in Effects, Erase(e) PROVE Follow'
  BY <1>2, EraseFollow
<1>3. ASSUME NEW e \in Effects, Play(e) \/ Stop(e) PROVE Follow'
  BY <1>3, MoveFollow DEF Play, Stop
<1>4. CASE TimeOut
  BY <1>4 DEF TimeOut, daemon, FInv, Follow, Still
<1>5. CASE Tick \/ PollFF \/ UNCHANGED vars
  <2>1. UNCHANGED <<queue, ff_effects, result, motor, asked, lost, late, request>>
        /\ (reading => reading')
    BY <1>5 DEF Tick, PollFF, vars, daemon, games
  <2>2. /\ Orderly' = Orderly /\ Still' = Still
        /\ \A i : LastMove(i)' = LastMove(i) /\ Means(queue[i])' = Means(queue[i])
    BY <2>1 DEF Orderly, Still, LastMove, Means
  <2>3. UNCHANGED reading \/ reading'
    BY <1>5 DEF Tick, PollFF, vars, daemon, games
  <2> QED BY <2>1, <2>2, <2>3 DEF FInv, Follow
<1>6. CASE ReadUpload
  BY <1>6, AnswerFollow DEF ReadUpload
<1>7. CASE ReadErase
  BY <1>7, AnswerFollow DEF ReadErase
<1>8. CASE ReadPlay
  <2>1. Head(queue).op = "play"
    BY <1>8 DEF ReadPlay, Read
  <2> QED BY <1>8, <2>1, MoveReadFollow DEF ReadPlay, Means
<1>9. CASE ReadStop
  <2>1. Head(queue).op = "stop"
    BY <1>9 DEF ReadStop, Read
  <2> QED BY <1>9, <2>1, MoveReadFollow DEF ReadStop, Means
<1>10. CASE EndPoll
  BY <1>10, EndFollow
<1> QED BY <1>1, <1>2, <1>3, <1>4, <1>5, <1>6, <1>7, <1>8, <1>9, <1>10 DEF Next, DaemonStep

(* With nothing left to read the motors run at what the games asked for last,  *)
(* but for a packet that was throttled, that failed, or that a request given   *)
(* up had mixed up.                                                            *)
THEOREM MotorsFollow == Spec => []MotorFollowsGames
<1>1. Init => FInv
  BY InitIInv, InitFollow DEF FInv
<1>2. FInv /\ [Next]_vars => FInv'
  BY NextIInv, NextFollow DEF FInv
<1>3. FInv => MotorFollowsGames
  BY DEF FInv, Follow, MotorFollowsGames, Quiet, Still
<1> QED BY <1>1, <1>2, <1>3, PTL DEF Spec
================================================================================
