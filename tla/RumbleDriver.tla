------------------------------ MODULE RumbleDriver ------------------------------
(* Force feedback of the kernel driver, driver/hid-flydigi.c.  Three contexts  *)
(* share one output buffer and one URB: flydigi_ff_play (called by the input   *)
(* core), flydigi_rumble_work (a kernel worker) and flydigi_irq_out (the URB's *)
(* completion).  The spinlock guards the level and the pending flag only; the  *)
(* buffer and the URB are outside it.  A fourth, flydigi_disconnect, takes all *)
(* of it down while the others run.  Both motors' bytes travel together, so    *)
(* one level stands for the pair.                                              *)
EXTENDS Integers

CONSTANT Magnitudes   \* what strong_magnitude and weak_magnitude may be

ASSUME MagnitudesAssumption ==
  \A magnitude \in Magnitudes : magnitude \in Nat /\ magnitude < 65536

VARIABLES
  rumble,    \* rumble_left, rumble_right: the level asked for last
  pending,   \* rumble_pending
  player,    \* ff_play: "idle", or "scheduling" after it released the lock
  queued,    \* rumble_work is on the work queue
  worker,    \* rumble_work: "idle", "taken" (the level), "filled" (odata)
  took,      \* its locals left, right
  odata,     \* the buffer the USB controller reads
  urb,       \* irq_out: "idle", "flying" (submitted), "sent" (not yet completed)
  motor,     \* the level the motors run at, or Torn
  lost,      \* auxiliary: why the last packet missed the device: "refused" by
             \* usb_submit_urb, "failed" on the bus, or "none"
  stage,     \* of the binding: "unbound", "bound", or the place in disconnect
  late       \* auxiliary: ff_play queued the work after cancel_work_sync

dataVars == <<rumble, pending, player, queued, worker, took, odata, urb, motor, lost>>
vars == <<dataVars, stage, late>>

Stages == {"unbound", "bound", "unbinding", "killed", "cancelling", "cancelled",
           "unregistered"}

Level(magnitude) == magnitude \div 256    \* >> 8

Torn == 256   \* no level: the motors run as a packet says that was half written

Init ==
  /\ rumble = 0 /\ took = 0 /\ odata = 0 /\ motor = 0
  /\ pending = FALSE /\ queued = FALSE
  /\ player = "idle" /\ worker = "idle" /\ urb = "idle"
  /\ lost = "none"
  /\ stage = "unbound" /\ late = FALSE

--------------------------------------------------------------------------------
(* flydigi_ff_play, as far as the unlock: a game plays or stops an effect, or  *)
(* input_unregister_device stops those that still play.                        *)
Play(magnitude) ==
  /\ stage \notin {"unbound", "unregistered"}
  /\ player = "idle"
  /\ rumble' = Level(magnitude)
  /\ pending' = TRUE
  /\ player' = "scheduling"
  /\ UNCHANGED <<queued, worker, took, odata, urb, motor, lost, stage, late>>

(* Mutant: while a packet is on its way the work is left to flydigi_irq_out.   *)
Schedule_UnlessFlying ==
  /\ player = "scheduling"
  /\ player' = "idle"
  /\ queued' = (queued \/ (urb = "idle" /\ stage # "cancelling"))
  /\ late' = (late \/ stage \in {"cancelled", "unregistered"})
  /\ UNCHANGED <<rumble, pending, worker, took, odata, urb, motor, lost, stage>>

(* schedule_work: nothing more happens if the work is queued already, or is    *)
(* just being cancelled; a work that is running is queued again.               *)
Schedule ==
  /\ player = "scheduling"
  /\ player' = "idle"
  /\ queued' = (queued \/ stage # "cancelling")
  /\ late' = (late \/ stage \in {"cancelled", "unregistered"})
  /\ UNCHANGED <<rumble, pending, worker, took, odata, urb, motor, lost, stage>>

(* flydigi_rumble_work: the part under the lock.  What it does once its data   *)
(* has been freed is not followed any further.                                 *)
Take ==
  /\ stage # "unbound"
  /\ worker = "idle" /\ queued
  /\ queued' = FALSE
  /\ took' = rumble
  /\ pending' = FALSE
  /\ worker' = "taken"
  /\ UNCHANGED <<rumble, player, odata, urb, motor, lost, stage, late>>

(* Mutant: a zero level leaves the packet as it was.                           *)
Fill_SkipsZero ==
  /\ stage # "unbound"
  /\ worker = "taken"
  /\ odata' = IF took = 0 THEN odata ELSE took
  /\ worker' = "filled"
  /\ UNCHANGED <<rumble, pending, player, queued, took, urb, motor, lost, stage, late>>

(* The packet is written into odata, whether or not the controller still reads *)
(* the previous one from there.                                                *)
Fill ==
  /\ stage # "unbound"
  /\ worker = "taken"
  /\ odata' = took
  /\ worker' = "filled"
  /\ UNCHANGED <<rumble, pending, player, queued, took, urb, motor, lost, stage, late>>

(* Mutant: a refused URB is submitted again and again.                         *)
Submit_Retries ==
  /\ stage # "unbound"
  /\ worker = "filled"
  /\ IF urb = "idle" /\ stage = "bound"
     THEN worker' = "idle" /\ urb' = "flying" /\ lost' = "none"
     ELSE lost' = "refused" /\ UNCHANGED <<worker, urb>>
  /\ UNCHANGED <<rumble, pending, player, queued, took, odata, motor, stage, late>>

(* usb_submit_urb refuses a URB that has not completed, and every URB once the *)
(* endpoints are disabled; the work only logs it.                              *)
Submit ==
  /\ stage # "unbound"
  /\ worker = "filled"
  /\ worker' = "idle"
  /\ IF urb = "idle" /\ stage = "bound" THEN urb' = "flying" /\ lost' = "none"
                                        ELSE lost' = "refused" /\ UNCHANGED urb
  /\ UNCHANGED <<rumble, pending, player, queued, took, odata, motor, stage, late>>

(* The controller moves the packet to the device, or fails to.  If the worker  *)
(* is just writing the next one, what arrives may be part of each.             *)
Transfer ==
  /\ urb = "flying"
  /\ urb' = "sent"
  /\ \/ motor' = odata /\ UNCHANGED lost
     \/ worker = "taken" /\ motor' = Torn /\ UNCHANGED lost
     \/ lost' = "failed" /\ UNCHANGED motor
  /\ UNCHANGED <<rumble, pending, player, queued, worker, took, odata, stage, late>>

(* flydigi_irq_out: whatever the status, more work is queued if it is pending. *)
IrqOut ==
  /\ urb = "sent"
  /\ urb' = "idle"
  /\ queued' = (queued \/ pending)
  /\ UNCHANGED <<rumble, pending, player, worker, took, odata, motor, lost, stage, late>>

--------------------------------------------------------------------------------
(* Binding and unbinding.                                                      *)

(* The end of a successful flydigi_probe: a zeroed flydigi_data for a          *)
(* controller that was just plugged in.                                        *)
Bind ==
  /\ stage = "unbound"
  /\ stage' = "bound"
  /\ rumble' = 0 /\ took' = 0 /\ odata' = 0 /\ motor' = 0
  /\ pending' = FALSE /\ queued' = FALSE
  /\ player' = "idle" /\ worker' = "idle" /\ urb' = "idle"
  /\ lost' = "none" /\ late' = FALSE

(* The USB core disables the endpoints and gives back what is in flight, then  *)
(* it calls flydigi_disconnect.                                                *)
Unbind ==
  /\ stage = "bound"
  /\ stage' = "unbinding"
  /\ IF urb = "flying" THEN urb' = "sent" /\ lost' = "failed"
                       ELSE UNCHANGED <<urb, lost>>
  /\ UNCHANGED <<rumble, pending, player, queued, worker, took, odata, motor, late>>

Advance(from, to) ==
  /\ stage = from /\ stage' = to
  /\ UNCHANGED <<rumble, pending, player, worker, took, odata, urb, motor, lost, late>>

(* usb_kill_urb(irq_out) waits for the completion.                             *)
KillOut == urb = "idle" /\ Advance("unbinding", "killed") /\ UNCHANGED queued

(* cancel_work_sync takes the work off the queue and keeps it off while it     *)
(* waits for the worker.                                                       *)
BeginCancel == Advance("killed", "cancelling") /\ queued' = FALSE
EndCancel_NoWait ==   \* mutant: cancel_work without _sync
  Advance("cancelling", "cancelled") /\ UNCHANGED queued
EndCancel ==
  worker = "idle" /\ Advance("cancelling", "cancelled") /\ UNCHANGED queued

(* input_unregister_device: after it nobody calls ff_play any more.            *)
Unregister == Advance("cancelled", "unregistered") /\ UNCHANGED queued

(* The URBs, the buffers and flydigi_data are freed.                           *)
Release ==
  player = "idle" /\ Advance("unregistered", "unbound") /\ UNCHANGED queued

Disconnect == KillOut \/ BeginCancel \/ EndCancel \/ Unregister \/ Release

Next ==
  \/ \E magnitude \in Magnitudes : Play(magnitude)
  \/ Schedule \/ Take \/ Fill \/ Submit \/ Transfer \/ IrqOut
  \/ Bind \/ Unbind \/ Disconnect

Spec == Init /\ [][Next]_vars

--------------------------------------------------------------------------------
TypeOK ==
  /\ rumble \in 0 .. 255 /\ took \in 0 .. 255
  /\ odata \in 0 .. 255 /\ motor \in (0 .. 255) \cup {Torn}
  /\ pending \in BOOLEAN /\ queued \in BOOLEAN
  /\ player \in {"idle", "scheduling"}
  /\ worker \in {"idle", "taken", "filled"}
  /\ urb \in {"idle", "flying", "sent"}
  /\ lost \in {"none", "refused", "failed"}
  /\ stage \in Stages /\ late \in BOOLEAN

(* Nothing is under way in any of the three contexts.                          *)
AtRest == player = "idle" /\ ~queued /\ worker = "idle" /\ urb = "idle"

(* Until the work is cancelled a pending level always has it queued, or about  *)
(* to be: the retry in flydigi_irq_out never has anything left to retry.       *)
PendingIsQueued ==
  pending /\ stage \in {"bound", "unbinding", "killed"}
    => queued \/ player = "scheduling"

(* However the three contexts interleave, the motors come to rest at the level *)
(* asked for last, and not as a packet says that was overwritten on its way,   *)
(* provided the last packet was accepted and arrived.                          *)
RestAtLevelAsked ==
  AtRest /\ stage = "bound" /\ lost = "none" => motor = rumble

(* When flydigi_disconnect frees its data no URB is in flight and no work is   *)
(* queued or running; but the work is, if ff_play was called between           *)
(* cancel_work_sync and input_unregister_device, or had not returned before.   *)
ReleasedIsQuiet ==
  stage = "unbound" => urb = "idle" /\ (late \/ (~queued /\ worker = "idle"))

================================================================================
