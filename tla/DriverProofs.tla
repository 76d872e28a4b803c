------------------------------ MODULE DriverProofs ------------------------------
(* Theorems about the force feedback of the kernel driver and about the whole  *)
(* driver around it, for every magnitude.                                      *)
EXTENDS Driver, TLAPS

(* What the last level asked for has reached, once nobody is to pick it up     *)
(* again: the worker's locals, the buffer, and then the motors.                *)
LevelOnItsWay ==
  ~queued /\ player = "idle" =>
    /\ worker \in {"taken", "filled"} => took = rumble
    /\ worker = "idle" /\ lost = "none" =>
         IF urb = "flying" THEN odata = rumble ELSE motor = rumble

(* What flydigi_disconnect has made sure of on its way.                        *)
TakenDown ==
  /\ stage \notin {"bound", "unbinding"} => urb = "idle"
  /\ stage = "cancelling" => ~queued
  /\ stage \in {"cancelled", "unregistered", "unbound"} /\ ~late
       => ~queued /\ worker = "idle"
  /\ stage = "unbound" => player = "idle"

IInv ==
  /\ TypeOK
  /\ PendingIsQueued
  /\ worker = "filled" => odata = took
  /\ stage = "bound" => LevelOnItsWay
  /\ TakenDown

(* The initial state satisfies the invariant: the motors are off.              *)
LEMMA InitIInv == Init => IInv
<1>1. 0 \in 0 .. 255
  OBVIOUS
<1>2. Init => TypeOK
  BY <1>1 DEF Init, TypeOK, Stages
<1> QED BY <1>2 DEF Init, IInv, PendingIsQueued, TakenDown

(* A level fits the byte it has in the packet.                                 *)
LEMMA LevelIsByte == \A magnitude \in Magnitudes : Level(magnitude) \in 0 .. 255
<1> TAKE magnitude \in Magnitudes
<1>1. magnitude \in Int /\ 0 <= magnitude /\ magnitude < 65536
  BY MagnitudesAssumption
<1>2. /\ magnitude \div 256 \in Int
      /\ 0 <= magnitude \div 256 /\ magnitude \div 256 < 256
  BY <1>1
<1> QED BY <1>2 DEF Level

(* Every step of the three contexts, of the USB controller and of binding and  *)
(* unbinding keeps it.                                                         *)
LEMMA NextIInv == IInv /\ [Next]_vars => IInv'
<1> SUFFICES ASSUME IInv, [Next]_vars PROVE IInv'
  OBVIOUS
<1> USE DEF IInv, TypeOK, Stages, PendingIsQueued, LevelOnItsWay, TakenDown
<1>1. ASSUME NEW magnitude \in Magnitudes, Play(magnitude) PROVE IInv'
  BY <1>1, LevelIsByte DEF Play
<1>2. CASE Schedule
  <2>1. TypeOK'
    BY <1>2 DEF Schedule
  <2>2. PendingIsQueued' /\ (worker = "filled" => odata = took)' /\ TakenDown'
    BY <1>2 DEF Schedule
  <2>3. (stage = "bound" => LevelOnItsWay)'
    BY <1>2 DEF Schedule
  <2> QED BY <2>1, <2>2, <2>3
<1>3. CASE Take
  <2>1. TypeOK'
    BY <1>3 DEF Take
  <2>2. PendingIsQueued' /\ (worker = "filled" => odata = took)' /\ TakenDown'
    BY <1>3 DEF Take
  <2>3. (stage = "bound" => LevelOnItsWay)'
    BY <1>3 DEF Take
  <2> QED BY <2>1, <2>2, <2>3
<1>4. CASE Fill
  <2>1. TypeOK'
    BY <1>4 DEF Fill
  <2>2. PendingIsQueued' /\ (worker = "filled" => odata = took)' /\ TakenDown'
    BY <1>4 DEF Fill
  <2>3. (stage = "bound" => LevelOnItsWay)'
    BY <1>4 DEF Fill
  <2> QED BY <2>1, <2>2, <2>3
<1>5. CASE Submit
  <2>1. CASE urb = "idle" /\ stage = "bound"
    BY <1>5, <2>1 DEF Submit
  <2>2. CASE ~(urb = "idle" /\ stage = "bound")
    BY <1>5, <2>2 DEF Submit
  <2> QED BY <2>1, <2>2
<1>6. CASE Transfer
  <2>1. TypeOK'
    BY <1>6 DEF Transfer
  <2>2. PendingIsQueued' /\ (worker = "filled" => odata = took)' /\ TakenDown'
    BY <1>6 DEF Transfer
  <2>3. (stage = "bound" => LevelOnItsWay)'
    BY <1>6 DEF Transfer
  <2> QED BY <2>1, <2>2, <2>3
<1>7. CASE IrqOut
  <2>1. TypeOK'
    BY <1>7 DEF IrqOut
  <2>2. PendingIsQueued' /\ (worker = "filled" => odata = took)' /\ TakenDown'
    BY <1>7 DEF IrqOut
  <2>3. (stage = "bound" => LevelOnItsWay)'
    BY <1>7 DEF IrqOut
  <2> QED BY <2>1, <2>2, <2>3
<1>8. CASE Bind
  <2>1. TypeOK'
    <3>1. 0 \in 0 .. 255
      OBVIOUS
    <3> QED BY <3>1, <1>8 DEF Bind
  <2>2. PendingIsQueued' /\ (worker = "filled" => odata = took)' /\ TakenDown'
    BY <1>8 DEF Bind
  <2>3. (stage = "bound" => LevelOnItsWay)'
    BY <1>8 DEF Bind
  <2> QED BY <2>1, <2>2, <2>3
<1>9. CASE Unbind
  <2>1. TypeOK'
    BY <1>9 DEF Unbind
  <2>2. PendingIsQueued' /\ (worker = "filled" => odata = took)' /\ TakenDown'
    BY <1>9 DEF Unbind
  <2>3. (stage = "bound" => LevelOnItsWay)'
    BY <1>9 DEF Unbind
  <2> QED BY <2>1, <2>2, <2>3
<1>10. CASE KillOut
  <2>1. TypeOK'
    BY <1>10 DEF KillOut, Advance
  <2>2. PendingIsQueued' /\ (worker = "filled" => odata = took)' /\ TakenDown'
    BY <1>10 DEF KillOut, Advance
  <2>3. (stage = "bound" => LevelOnItsWay)'
    BY <1>10 DEF KillOut, Advance
  <2> QED BY <2>1, <2>2, <2>3
<1>11. CASE BeginCancel
  <2>1. TypeOK'
    BY <1>11 DEF BeginCancel, Advance
  <2>2. PendingIsQueued' /\ (worker = "filled" => odata = took)' /\ TakenDown'
    BY <1>11 DEF BeginCancel, Advance
  <2>3. (stage = "bound" => LevelOnItsWay)'
    BY <1>11 DEF BeginCancel, Advance
  <2> QED BY <2>1, <2>2, <2>3
<1>12. CASE EndCancel
  <2>1. TypeOK'
    BY <1>12 DEF EndCancel, Advance
  <2>2. PendingIsQueued' /\ (worker = "filled" => odata = took)' /\ TakenDown'
    BY <1>12 DEF EndCancel, Advance
  <2>3. (stage = "bound" => LevelOnItsWay)'
    BY <1>12 DEF EndCancel, Advance
  <2> QED BY <2>1, <2>2, <2>3
<1>13. CASE Unregister
  <2>1. TypeOK'
    BY <1>13 DEF Unregister, Advance
  <2>2. PendingIsQueued' /\ (worker = "filled" => odata = took)' /\ TakenDown'
    BY <1>13 DEF Unregister, Advance
  <2>3. (stage = "bound" => LevelOnItsWay)'
    BY <1>13 DEF Unregister, Advance
  <2> QED BY <2>1, <2>2, <2>3
<1>14. CASE Release
  <2>1. TypeOK'
    BY <1>14 DEF Release, Advance
  <2>2. PendingIsQueued' /\ (worker = "filled" => odata = took)' /\ TakenDown'
    BY <1>14 DEF Release, Advance
  <2>3. (stage = "bound" => LevelOnItsWay)'
    BY <1>14 DEF Release, Advance
  <2> QED BY <2>1, <2>2, <2>3
<1>15. CASE UNCHANGED vars
  BY <1>15 DEF vars, dataVars
<1> QED BY <1>1, <1>2, <1>3, <1>4, <1>5, <1>6, <1>7, <1>8, <1>9, <1>10, <1>11, <1>12, <1>13, <1>14, <1>15
     DEF Next, Disconnect

LEMMA Inductive == Spec => []IInv
  BY InitIInv, NextIInv, PTL DEF Spec

(* A pending level has its work queued until the work is cancelled: the retry  *)
(* in flydigi_irq_out never delivers anything.                                 *)
THEOREM RetryIsRedundant == Spec => []PendingIsQueued
<1>1. IInv => PendingIsQueued
  BY DEF IInv
<1> QED BY <1>1, Inductive, PTL

(* The motors come to rest at the level asked for last unless its packet was   *)
(* refused or failed, however ff_play, the worker and the completion           *)
(* interleave.                                                                 *)
THEOREM MotorsRestAtLevel == Spec => []RestAtLevelAsked
<1>1. IInv => RestAtLevelAsked
  BY DEF IInv, TypeOK, LevelOnItsWay, RestAtLevelAsked, AtRest
<1> QED BY <1>1, Inductive, PTL

(* flydigi_disconnect frees a driver at rest, unless ff_play queued the work   *)
(* once more after cancel_work_sync.                                           *)
THEOREM ReleaseIsQuiet == Spec => []ReleasedIsQuiet
<1>1. IInv => ReleasedIsQuiet
  BY DEF IInv, TakenDown, ReleasedIsQuiet
<1> QED BY <1>1, Inductive, PTL

--------------------------------------------------------------------------------
(* The whole driver.                                                           *)

(* Each step of the whole driver is one of RumbleDriver's, or leaves its       *)
(* variables alone.                                                            *)
LEMMA StepIsRumbleStep == [DriverNext]_driverVars => [Next]_vars
<1> SUFFICES ASSUME [DriverNext]_driverVars PROVE [Next]_vars
  OBVIOUS
<1>1. CASE Probing
  BY <1>1 DEF Probing, Probe, Acquire, CreateFF, Registered, ProbeFails, Next
<1>2. CASE Inputs
  BY <1>2 DEF Inputs, Open, Close, Receive, IrqIn, InputStep
<1>3. CASE Asked \/ Worked \/ Carried \/ Completed
  BY <1>3 DEF Asked, Worked, Carried, Completed, Rumbled, Next
<1>4. CASE Unplug
  BY <1>4 DEF Unplug, Next
<1>5. CASE Disconnecting
  BY <1>5 DEF Disconnecting, KillIn, StopRumble, UnregisterInput, Free, Next, Disconnect
<1>6. CASE UNCHANGED driverVars
  BY <1>6 DEF driverVars
<1> QED BY <1>1, <1>2, <1>3, <1>4, <1>5, <1>6 DEF DriverNext

(* The force feedback of the whole driver is that of RumbleDriver.             *)
THEOREM RumbleRefined == DriverSpec => RumbleIsRumbleDriver
<1>1. DriverInit => Init
  BY DEF DriverInit
<1> QED
  BY <1>1, StepIsRumbleStep, PTL DEF DriverSpec, RumbleIsRumbleDriver, Spec

(* What flydigi_probe has got when it is about to get what probing names, and  *)
(* a bound driver holds.                                                       *)
Ladder ==
  /\ held = fields
  /\ stage # "unbound" => probing = "no"
  /\ probing \in Resources =>
       held = Unwound(probing) \ (IF ep_out THEN {} ELSE {"odata", "irq_out"})
  /\ probing \in {"odata", "irq_out"} => ep_out
  /\ probing = "ff" => held = Resources
  /\ probing = "register" \/ stage # "unbound" =>
       /\ {"fd", "idata", "irq_in"} \subseteq held
       /\ "input" \in held <=> stage # "unregistered"
       /\ "irq_out" \in held => "odata" \in held
  /\ probing = "no" /\ stage = "unbound" => held = {}

(* Without irq_out there is no force feedback to wait for.                     *)
NoRumbleWithoutOut ==
  stage # "unbound" /\ "irq_out" \notin held =>
    urb = "idle" /\ worker = "idle" /\ ~queued /\ player = "idle"

(* irq_in rests once flydigi_disconnect has killed it.                         *)
InputInv ==
  /\ stage \notin {"unbound", "bound", "unbinding"} => killed_in
  /\ stage = "bound" => ~killed_in /\ urb_in # "unlinked"
  /\ stage = "unbound" \/ killed_in => urb_in = "idle"
  /\ ReportsFlowWhileOpen

DInv == IInv /\ DriverTypeOK /\ Ladder /\ NoRumbleWithoutOut /\ InputInv

(* At first nothing is allocated and nothing runs.                             *)
LEMMA InitDInv == DriverInit => DInv
<1> SUFFICES ASSUME DriverInit PROVE DInv
  OBVIOUS
<1>1. IInv
  BY InitIInv DEF DriverInit
<1> QED
  BY <1>1 DEF DriverInit, Init, DInv, IInv, DriverTypeOK, Resources, Completions, Ladder,
     NoRumbleWithoutOut, InputInv, ReportsFlowWhileOpen

(* A step of the probe keeps the invariant: each label of the ladder frees     *)
(* just what was allocated before the jump.                                    *)
LEMMA ProbingDInv == DInv /\ IInv' /\ Probing => DInv'
<1> SUFFICES ASSUME DInv, IInv', Probing PROVE DInv'
  OBVIOUS
<1> USE DEF DInv, DriverTypeOK, Ladder, NoRumbleWithoutOut, InputInv, ReportsFlowWhileOpen,
        Resources, Completions, vars, dataVars, inputVars
<1>0. TypeOK'
  BY DEF IInv
<1>1. CASE Probe
  BY <1>0, <1>1 DEF Probe, Unwound
<1>2. CASE Acquire
  <2>1. CASE probing = "fd"
    BY <1>0, <1>2, <2>1 DEF Acquire, Following, Unwound
  <2>2. CASE probing = "idata"
    BY <1>0, <1>2, <2>2 DEF Acquire, Following, Unwound
  <2>3. CASE probing = "irq_in"
    BY <1>0, <1>2, <2>3 DEF Acquire, Following, Unwound
  <2>4. CASE probing = "odata"
    BY <1>0, <1>2, <2>4 DEF Acquire, Following, Unwound
  <2>5. CASE probing = "irq_out"
    BY <1>0, <1>2, <2>5 DEF Acquire, Following, Unwound
  <2>6. CASE probing = "input"
    BY <1>0, <1>2, <2>6 DEF Acquire, Following, Unwound
  <2> QED BY <1>2, <2>1, <2>2, <2>3, <2>4, <2>5, <2>6 DEF Acquire
<1>3. CASE CreateFF
  BY <1>0, <1>3 DEF CreateFF
<1>4. CASE Registered
  BY <1>0, <1>4 DEF Registered, Bind
<1>5. CASE ProbeFails
  <2>1. held' = {}
    BY <1>5 DEF ProbeFails, Unwound
  <2> QED BY <1>0, <1>5, <2>1 DEF ProbeFails
<1> QED BY <1>1, <1>2, <1>3, <1>4, <1>5 DEF Probing

(* So does a step of the input URB.                                            *)
LEMMA InputsDInv == DInv /\ IInv' /\ Inputs => DInv'
<1> SUFFICES ASSUME DInv, IInv', Inputs PROVE DInv'
  OBVIOUS
<1> USE DEF DInv, InputStep, probeVars, vars, dataVars
<1>1. Ladder' /\ NoRumbleWithoutOut'
  <2>1. UNCHANGED <<vars, probeVars>>
    BY DEF Inputs, Open, Close, Receive, IrqIn
  <2> QED BY <2>1 DEF Ladder, NoRumbleWithoutOut, Unwound
<1>2. DriverTypeOK'
  BY DEF Inputs, Open, Close, Receive, IrqIn, Resubmit, IInv, DriverTypeOK, Completions
<1>3. InputInv'
  BY DEF Inputs, Open, Close, Receive, IrqIn, Resubmit, InputInv, ReportsFlowWhileOpen,
         DriverTypeOK, Completions
<1> QED BY <1>1, <1>2, <1>3

(* So does a step of the force feedback: it needs irq_out.                     *)
LEMMA RumbledDInv ==
  DInv /\ IInv' /\ (Asked \/ Worked \/ Carried \/ Completed) => DInv'
<1> SUFFICES ASSUME DInv, IInv', Asked \/ Worked \/ Carried \/ Completed PROVE DInv'
  OBVIOUS
<1>1. /\ UNCHANGED <<probeVars, inputVars, stage>>
      /\ "irq_out" \in held
  BY DEF Asked, Worked, Carried, Completed, Rumbled, RumbleStep, Play, Schedule, Take,
         Fill, Submit, Transfer, IrqOut, DInv, Ladder
<1> QED
  BY <1>1 DEF DInv, IInv, DriverTypeOK, Ladder, Unwound, NoRumbleWithoutOut, InputInv,
     ReportsFlowWhileOpen, probeVars, inputVars

(* So does a step of unplugging and of flydigi_disconnect.                     *)
LEMMA DisconnectingDInv == DInv /\ IInv' /\ (Unplug \/ Disconnecting) => DInv'
<1> SUFFICES ASSUME DInv, IInv', Unplug \/ Disconnecting PROVE DInv'
  OBVIOUS
<1> USE DEF DInv, DriverTypeOK, Ladder, NoRumbleWithoutOut, InputInv, ReportsFlowWhileOpen,
        Resources, Completions, vars, dataVars, probeVars, inputVars
<1>0. TypeOK'
  BY DEF IInv
<1>1. CASE Unplug
  BY <1>0, <1>1 DEF Unplug, Unbind
<1>2. CASE KillIn
  BY <1>0, <1>2 DEF KillIn
<1>3. CASE StopRumble
  BY <1>0, <1>3 DEF StopRumble, RumbleStep, KillOut, BeginCancel, EndCancel, Advance
<1>4. CASE UnregisterInput
  BY <1>0, <1>4 DEF UnregisterInput, Unregister, Advance
<1>5. CASE Free
  BY <1>0, <1>5 DEF Free, Release, Advance
<1> QED BY <1>1, <1>2, <1>3, <1>4, <1>5 DEF Disconnecting

LEMMA NextDInv == DInv /\ [DriverNext]_driverVars => DInv'
<1> SUFFICES ASSUME DInv, [DriverNext]_driverVars PROVE DInv'
  OBVIOUS
<1>1. IInv'
  BY StepIsRumbleStep, NextIInv DEF DInv
<1>2. CASE UNCHANGED driverVars
  BY <1>1, <1>2 DEF driverVars, vars, dataVars, probeVars, inputVars, DInv, IInv,
     DriverTypeOK, Ladder, Unwound, NoRumbleWithoutOut, InputInv, ReportsFlowWhileOpen
<1> QED
  BY <1>1, <1>2, ProbingDInv, InputsDInv, RumbledDInv, DisconnectingDInv DEF DriverNext

LEMMA DriverInductive == DriverSpec => []DInv
  BY InitDInv, NextDInv, PTL DEF DriverSpec

(* The driver's variables keep their types; levels keep to a byte.             *)
THEOREM DriverTypes == DriverSpec => []DriverTypeOK
<1>1. DInv => DriverTypeOK
  BY DEF DInv
<1> QED BY <1>1, DriverInductive, PTL

(* Wherever flydigi_probe fails, and however flydigi_disconnect finds it, the  *)
(* driver frees all it has allocated, and nothing twice.                       *)
THEOREM LadderFreesAll == DriverSpec => []FreedExactlyOnce
<1>1. DInv => FreedExactlyOnce
  BY DEF DInv, Ladder, FreedExactlyOnce
<1> QED BY <1>1, DriverInductive, PTL

(* Nothing is freed under a URB, a completion, the worker or ff_play, but for  *)
(* work queued after cancel_work_sync.                                         *)
THEOREM NothingFreedInUse == DriverSpec => []NothingInUseIsFreed
<1>1. DInv => NothingInUseIsFreed
  <2> SUFFICES ASSUME DInv PROVE NothingInUseIsFreed
    OBVIOUS
  <2>1. CASE stage = "unbound"
    BY <2>1 DEF DInv, IInv, TakenDown, InputInv, NothingInUseIsFreed, InUse
  <2>2. CASE stage # "unbound"
    <3>1. {"fd", "idata", "irq_in"} \subseteq held
      BY <2>2 DEF DInv, Ladder
    <3>2. urb_in # "idle" => "input" \in held
      BY <2>2 DEF DInv, Ladder, InputInv
    <3>3. urb # "idle" \/ worker # "idle" \/ queued =>
            {"odata", "irq_out"} \subseteq held
      BY <2>2 DEF DInv, Ladder, NoRumbleWithoutOut
    <3> QED BY <3>1, <3>2, <3>3 DEF NothingInUseIsFreed, InUse
  <2> QED BY <2>1, <2>2
<1> QED BY <1>1, DriverInductive, PTL

(* While the device is open its input URB is on its way or being handled until *)
(* a resubmission is refused; while it is closed it is not.                    *)
THEOREM ReportsKeepFlowing == DriverSpec => []ReportsFlowWhileOpen
<1>1. DInv => ReportsFlowWhileOpen
  BY DEF DInv, InputInv
<1> QED BY <1>1, DriverInductive, PTL
================================================================================
