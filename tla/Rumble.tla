--------------------------------- MODULE Rumble ---------------------------------
(* Force feedback of the daemon: games upload, play, stop and erase effects of *)
(* the virtual gamepad; the kernel queues what they do on the uinput           *)
(* descriptor; Uinput::poll_ff reads the queue and Gamepad::send_rumble passes *)
(* the result to the controller, at most once per RUMBLE_MIN_INTERVAL.         *)
(* strong_magnitude and weak_magnitude travel together: one value stands for   *)
(* the pair.  The kernel lets one upload or erase wait at a time, and gives it *)
(* up after a time of its own; its event stays queued, and bears the same      *)
(* request id as that of the next.  From UI_BEGIN_FF_UPLOAD to                 *)
(* UI_END_FF_UPLOAD a request is not given up: they are one call apart.        *)
EXTENDS Integers, Sequences

CONSTANTS
  Effects,       \* effect ids a game gets from the kernel, 0 .. ff_effects_max - 1
  Magnitudes,    \* 16-bit magnitudes of the uploaded effects (bound)
  MinInterval,   \* RUMBLE_MIN_INTERVAL in ticks of the clock
  MaxQueue,      \* bound: events waiting on the descriptor
  NoResult,      \* an empty optional<RumbleEffect>
  NoRequest      \* no game waits

Requests == [op : {"upload", "erase"}, effect : Effects,
             magnitude : Magnitudes \cup {0}, old : Magnitudes \cup {0}]

ASSUME MagnitudesAssumption == \A m \in Magnitudes : m \in Nat /\ m < 65536
ASSUME BoundsAssumption == MinInterval \in Nat /\ MaxQueue \in Nat
ASSUME NothingAssumption == NoResult \notin Nat /\ NoRequest \notin Requests

VARIABLES
  queue,        \* events waiting on the descriptor
  ff_effects,   \* ff_effects_: what play means, as the daemon knows it
  result,       \* local of Uinput::poll_ff: a magnitude, or NoResult
  reading,      \* the loop of Uinput::poll_ff is running
  since,        \* now - last_rumble_time_, counted up to MinInterval
  motor,        \* level the controller's motors run at
  owned,        \* effects the kernel knows: uploaded and not erased
  request,      \* the upload or erase ioctl of a game that waits for its answer
  uploaded,     \* auxiliary: what each effect is to the games
  asked,        \* auxiliary: the magnitude the games asked for last
  lost,         \* auxiliary: why the last result missed the controller:
                \* "throttled", "failed" (the write), or "none"; "late" if it
                \* came with the event of a request given up
  late          \* auxiliary: such an event is queued

daemon == <<ff_effects, result, reading, since, motor, lost>>
games == <<owned, request, uploaded, asked, late>>
vars == <<queue, daemon, games>>

Level(magnitude) == magnitude \div 256    \* >> 8

Init ==
  /\ queue = <<>>
  /\ ff_effects = [e \in Effects |-> 0]
  /\ uploaded = ff_effects
  /\ result = NoResult /\ reading = FALSE
  /\ since = MinInterval
  /\ motor = 0 /\ asked = 0
  /\ owned = {} /\ request = NoRequest
  /\ lost = "none" /\ late = FALSE

--------------------------------------------------------------------------------
(* The games and the kernel.  An upload or an erase holds the game until the   *)
(* daemon answers, and other games that upload or erase meanwhile; an erase    *)
(* stops its effect first.                                                     *)

Event(op, e) == [op |-> op, effect |-> e]

Queue(events) ==
  /\ Len(queue) + Len(events) <= MaxQueue
  /\ queue' = queue \o events
  /\ UNCHANGED <<daemon, late>>

(* What the games believe changes at once; a request given up is taken back.   *)
Request(op, e, m) ==
  /\ request = NoRequest
  /\ request' = [op |-> op, effect |-> e, magnitude |-> m, old |-> uploaded[e]]
  /\ uploaded' = [uploaded EXCEPT ![e] = m]

Upload(e, m) ==
  /\ Request("upload", e, m)
  /\ Queue(<<Event("upload", e)>>)
  /\ UNCHANGED <<owned, asked>>

Erase(e) ==
  /\ e \in owned
  /\ Request("erase", e, 0)
  /\ Queue(<<Event("stop", e), Event("erase", e)>>)
  /\ owned' = owned \ {e}
  /\ asked' = 0

(* A game does not play an effect while it changes it.                         *)
Play(e) ==
  /\ e \in owned
  /\ ~(request # NoRequest /\ request.effect = e)
  /\ Queue(<<Event("play", e)>>)
  /\ asked' = uploaded[e]
  /\ UNCHANGED <<owned, request, uploaded>>

Stop(e) ==
  /\ e \in owned
  /\ Queue(<<Event("stop", e)>>)
  /\ asked' = 0
  /\ UNCHANGED <<owned, request, uploaded>>

(* The kernel gives the request up: the game is told that it failed.           *)
TimeOut ==
  /\ request # NoRequest
  /\ request' = NoRequest
  /\ uploaded' = [uploaded EXCEPT ![request.effect] = request.old]
  /\ owned' = IF request.op = "erase" THEN owned \cup {request.effect} ELSE owned
  /\ late' = TRUE
  /\ UNCHANGED <<queue, daemon, asked>>

Tick ==
  /\ since < MinInterval
  /\ since' = since + 1
  /\ UNCHANGED <<queue, ff_effects, result, reading, motor, lost, games>>

--------------------------------------------------------------------------------
(* Gamepad::poll_ff, called when the descriptor is readable.                   *)
PollFF ==
  /\ ~reading /\ queue # <<>>
  /\ reading' = TRUE
  /\ UNCHANGED <<queue, ff_effects, result, since, motor, lost, games>>

(* One event of the queue.                                                     *)
Read(op) ==
  /\ reading /\ queue # <<>> /\ Head(queue).op = op
  /\ queue' = Tail(queue)
  /\ UNCHANGED <<reading, since, motor, lost, uploaded, asked, late>>

(* UI_BEGIN_FF_UPLOAD and UI_BEGIN_FF_ERASE: the request that waits, whichever *)
(* event asked for it, if it is of that kind.                                  *)
Begin(op) == request # NoRequest /\ request.op = op
Answer ==
  /\ ff_effects' = [ff_effects EXCEPT ![request.effect] = request.magnitude]
  /\ request' = NoRequest

(* Mutant: without a request the event is taken for one of effect 0.           *)
ReadUpload_Unchecked ==
  /\ Read("upload")
  /\ IF Begin("upload") THEN Answer /\ owned' = owned \cup {request.effect}
     ELSE /\ ff_effects' = [ff_effects EXCEPT ![0] = 0]
          /\ UNCHANGED <<request, owned>>
  /\ UNCHANGED result

ReadUpload ==
  /\ Read("upload")
  /\ IF Begin("upload") THEN Answer /\ owned' = owned \cup {request.effect}
     ELSE UNCHANGED <<ff_effects, request, owned>>
  /\ UNCHANGED result

(* Mutant: the request is not answered (a continue before UI_END_FF_ERASE).    *)
ReadErase_Unanswered ==
  /\ Read("erase")
  /\ IF Begin("erase") THEN ff_effects' = [ff_effects EXCEPT ![request.effect] = 0]
     ELSE UNCHANGED ff_effects
  /\ UNCHANGED <<result, owned, request>>

ReadErase ==
  /\ Read("erase")
  /\ IF Begin("erase") THEN Answer ELSE UNCHANGED <<ff_effects, request>>
  /\ UNCHANGED <<result, owned>>

(* Mutant: a result once found is kept, as if the loop returned the first.     *)
ReadPlay_First ==
  /\ Read("play")
  /\ result' = IF result = NoResult THEN ff_effects[Head(queue).effect] ELSE result
  /\ UNCHANGED <<ff_effects, request, owned>>

ReadPlay ==
  /\ Read("play")
  /\ result' = ff_effects[Head(queue).effect]
  /\ UNCHANGED <<ff_effects, request, owned>>

ReadStop ==
  /\ Read("stop")
  /\ result' = 0
  /\ UNCHANGED <<ff_effects, request, owned>>

(* Gamepad::send_rumble: within the interval the packet is dropped, and that   *)
(* counts as success; a failed write has used up the interval and is ignored.  *)
SendRumble(magnitude) ==
  IF since < MinInterval
  THEN lost' = "throttled" /\ UNCHANGED <<since, motor>>
  ELSE /\ since' = 0
       /\ \/ motor' = Level(magnitude) /\ lost' = IF late THEN "late" ELSE "none"
          \/ lost' = "failed" /\ UNCHANGED motor

(* Nothing is left to read: the last result is sent.                           *)
EndPoll ==
  /\ reading /\ queue = <<>>
  /\ reading' = FALSE
  /\ result' = NoResult
  /\ IF result = NoResult THEN UNCHANGED <<since, motor, lost>> ELSE SendRumble(result)
  /\ late' = FALSE
  /\ UNCHANGED <<queue, ff_effects, owned, request, uploaded, asked>>

DaemonStep == PollFF \/ ReadUpload \/ ReadErase \/ ReadPlay \/ ReadStop \/ EndPoll

Next ==
  \/ \E e \in Effects : \/ \E m \in Magnitudes : Upload(e, m)
                        \/ Erase(e) \/ Play(e) \/ Stop(e)
  \/ TimeOut \/ Tick
  \/ DaemonStep

Spec == Init /\ [][Next]_vars

(* The daemon's loop keeps running: module Daemon.  The kernel need not give a *)
(* request up.                                                                 *)
FairSpec == Spec /\ WF_vars(DaemonStep)

--------------------------------------------------------------------------------
TypeOK ==
  /\ queue \in Seq([op : {"upload", "erase", "play", "stop"}, effect : Effects])
  /\ Len(queue) <= MaxQueue
  /\ {ff_effects, uploaded} \subseteq [Effects -> Magnitudes \cup {0}]
  /\ asked \in Magnitudes \cup {0}
  /\ result \in Magnitudes \cup {0, NoResult}
  /\ reading \in BOOLEAN /\ late \in BOOLEAN
  /\ request \in Requests \cup {NoRequest}
  /\ since \in 0 .. MinInterval
  /\ motor \in 0 .. 255
  /\ owned \subseteq Effects
  /\ lost \in {"none", "throttled", "failed", "late"}

(* When a game's upload or erase returns, the daemon's table holds what the    *)
(* games believe it to hold, whether the daemon or the kernel answered, and    *)
(* whichever event the daemon took for that of the request.                    *)
TableIsCurrent == request = NoRequest => ff_effects = uploaded

(* With nothing left to read, the motors run at what the games asked for last, *)
(* across uploads, erases and events that arrive while the loop reads, unless  *)
(* the throttle or a failed write dropped it, or the event of a request given  *)
(* up let the daemon carry out the next one before its turn.                   *)
Quiet == ~reading /\ queue = <<>>
MotorFollowsGames == Quiet /\ lost = "none" => motor = Level(asked)

(* A game is not left waiting in its upload or erase.                          *)
RequestsAnswered == request # NoRequest ~> request = NoRequest

(* openspec/changes/add-uinput-ff-support/specs/driver/spec.md: "When the game *)
(* stops the effect ... And daemon calls send_rumble(0, 0)", so that, unless   *)
(* the write fails, the motors stop.                                           *)
StopReachesMotor == Quiet /\ asked = 0 /\ lost # "failed" => motor = 0
================================================================================
