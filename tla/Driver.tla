--------------------------------- MODULE Driver ---------------------------------
(* The whole kernel driver, driver/hid-flydigi.c: flydigi_probe with its       *)
(* ladder of error labels, the input URB that flydigi_irq_in resubmits while   *)
(* the device is open, the force feedback of RumbleDriver, and                 *)
(* flydigi_disconnect, which takes all of it down while it runs.  The content  *)
(* of a report is left to Decoders.                                            *)
EXTENDS RumbleDriver

VARIABLES
  probing,   \* flydigi_probe: what it acquires next; "ff", "register", or "no"
  ep_out,    \* the interface has an interrupt OUT endpoint
  held,      \* what the driver has allocated and not freed
  fields,    \* the pointers that are not NULL: what a later path would free
  opened,    \* some process has the input device open
  urb_in,    \* irq_in: "idle", "flying", or how it completed, until its handler ran
  killed_in, \* flydigi_disconnect has killed irq_in
  dry        \* auxiliary: irq_in could not be resubmitted

probeVars == <<probing, ep_out, held, fields>>
inputVars == <<opened, urb_in, killed_in, dry>>
driverVars == <<vars, probeVars, inputVars>>

Resources == {"fd", "idata", "irq_in", "odata", "irq_out", "input"}
Completions == {"report", "short", "failed", "unlinked"}

DriverInit ==
  /\ Init
  /\ probing = "no" /\ ep_out = FALSE /\ held = {} /\ fields = {}
  /\ opened = FALSE /\ urb_in = "idle" /\ killed_in = FALSE /\ dry = FALSE

--------------------------------------------------------------------------------
(* flydigi_probe                                                               *)

Following(r) ==
  CASE r = "fd" -> "idata"
    [] r = "idata" -> "irq_in"
    [] r = "irq_in" -> IF ep_out THEN "odata" ELSE "input"
    [] r = "odata" -> "irq_out"
    [] r = "irq_out" -> "input"
    [] r = "input" -> IF ep_out THEN "ff" ELSE "register"

(* What the label that a failure to get r jumps to, and those below it, free.  *)
Unwound_NoOdata(r) ==   \* mutant: without irq_out, goto err_free_urb_in
  CASE r = "fd" -> {}
    [] r = "idata" -> {"fd"}
    [] r = "irq_in" -> {"fd", "idata"}
    [] r = "odata" -> {"fd", "idata", "irq_in"}
    [] r = "irq_out" -> {"fd", "idata", "irq_in"}
    [] r = "input" -> {"fd", "idata", "irq_in", "odata", "irq_out"}
    [] r = "register" -> Resources

Unwound(r) ==
  CASE r = "fd" -> {}
    [] r = "idata" -> {"fd"}
    [] r = "irq_in" -> {"fd", "idata"}
    [] r = "odata" -> {"fd", "idata", "irq_in"}
    [] r = "irq_out" -> {"fd", "idata", "irq_in", "odata"}
    [] r = "input" -> {"fd", "idata", "irq_in", "odata", "irq_out"}
    [] r = "register" -> Resources

(* The controller is plugged in; its interface has an interrupt IN endpoint.   *)
Probe ==
  /\ stage = "unbound" /\ probing = "no"
  /\ probing' = "fd"
  /\ ep_out' \in BOOLEAN
  /\ UNCHANGED <<vars, held, fields, inputVars>>

Acquire ==
  /\ probing \in Resources
  /\ held' = held \cup {probing} /\ fields' = fields \cup {probing}
  /\ probing' = Following(probing)
  /\ UNCHANGED <<vars, ep_out, inputVars>>

(* input_ff_create_memless.  The driver does without rumble if it fails.       *)
CreateFF ==
  /\ probing = "ff"
  /\ probing' = "register"
  /\ \/ UNCHANGED <<held, fields>>
     \/ held' = held \ {"irq_out", "odata"} /\ fields' = fields \ {"irq_out", "odata"}
  /\ UNCHANGED <<vars, ep_out, inputVars>>

Registered ==
  /\ probing = "register"
  /\ probing' = "no"
  /\ Bind
  /\ opened' = FALSE /\ urb_in' = "idle" /\ killed_in' = FALSE /\ dry' = FALSE
  /\ UNCHANGED <<ep_out, held, fields>>

ProbeFails ==
  /\ probing \in Resources \cup {"register"}
  /\ held' = held \ (Unwound(probing) \cap fields)
  /\ fields' = {}
  /\ probing' = "no"
  /\ UNCHANGED <<vars, ep_out, inputVars>>

Probing == Probe \/ Acquire \/ CreateFF \/ Registered \/ ProbeFails

--------------------------------------------------------------------------------
(* The input URB.                                                              *)

InputStep == UNCHANGED <<vars, probeVars, killed_in>>

(* flydigi_open: a submission that is refused fails the open, which changes    *)
(* nothing.  The first of several openers comes here, the last in Close.       *)
Open ==
  /\ stage = "bound" /\ ~opened /\ urb_in = "idle"
  /\ opened' = TRUE /\ urb_in' = "flying" /\ dry' = FALSE
  /\ InputStep

(* flydigi_close: usb_kill_urb takes a URB in flight back and waits for its    *)
(* completion, which does not resubmit it.                                     *)
Close ==
  /\ stage # "unbound" /\ opened
  /\ urb_in \notin Completions
  /\ opened' = FALSE /\ urb_in' = "idle"
  /\ InputStep /\ UNCHANGED dry

(* The controller has something to say, more or less than PKT_MIN_LEN of it.   *)
Receive ==
  /\ urb_in = "flying"
  /\ urb_in' \in {"report", "short", "failed"}
  /\ InputStep /\ UNCHANGED <<opened, dry>>

Resubmit ==
  \/ stage = "bound" /\ urb_in' = "flying" /\ UNCHANGED dry
  \/ urb_in' = "idle" /\ dry' = TRUE

(* flydigi_irq_in                                                              *)
IrqIn_DropsShort ==   \* mutant: a short packet returns without a resubmission
  /\ urb_in \in Completions
  /\ IF urb_in \in {"unlinked", "short"} THEN urb_in' = "idle" /\ UNCHANGED dry ELSE Resubmit
  /\ InputStep /\ UNCHANGED opened

IrqIn ==
  /\ urb_in \in Completions
  /\ IF urb_in = "unlinked" THEN urb_in' = "idle" /\ UNCHANGED dry ELSE Resubmit
  /\ InputStep /\ UNCHANGED opened

Inputs == Open \/ Close \/ Receive \/ IrqIn

--------------------------------------------------------------------------------
(* The force feedback of RumbleDriver, for a device that has irq_out.          *)

RumbleStep == UNCHANGED <<probeVars, inputVars>>

Rumbled(step) == "irq_out" \in fields /\ step /\ RumbleStep

Asked == Rumbled((\E magnitude \in Magnitudes : Play(magnitude)) \/ Schedule)
Worked == Rumbled(Take \/ Fill \/ Submit)
Carried == Rumbled(Transfer)
Completed == Rumbled(IrqOut)

--------------------------------------------------------------------------------
(* flydigi_disconnect.  Without irq_out the steps of RumbleDriver that it      *)
(* skips find nothing to wait for.                                             *)

(* The USB core gives back what is in flight in both directions.               *)
Unplug ==
  /\ Unbind
  /\ urb_in' = IF urb_in = "flying" THEN "unlinked" ELSE urb_in
  /\ UNCHANGED <<probeVars, opened, killed_in, dry>>

KillIn ==
  /\ stage = "unbinding" /\ ~killed_in
  /\ urb_in \notin Completions
  /\ killed_in' = TRUE /\ urb_in' = "idle"
  /\ UNCHANGED <<vars, probeVars, opened, dry>>

StopRumble == killed_in /\ (KillOut \/ BeginCancel \/ EndCancel) /\ RumbleStep

(* input_unregister_device closes the device if somebody has it open.          *)
UnregisterInput ==
  /\ Unregister
  /\ opened => urb_in \notin Completions
  /\ opened' = FALSE /\ urb_in' = "idle"
  /\ held' = held \ {"input"} /\ fields' = fields \ {"input"}
  /\ UNCHANGED <<probing, ep_out, killed_in, dry>>

Free ==
  /\ Release
  /\ held' = held \ fields /\ fields' = {}
  /\ UNCHANGED <<probing, ep_out, inputVars>>

Disconnecting == KillIn \/ StopRumble \/ UnregisterInput \/ Free

--------------------------------------------------------------------------------
DriverNext ==
  \/ Probing \/ Inputs
  \/ Asked \/ Worked \/ Carried \/ Completed
  \/ Unplug \/ Disconnecting

DriverSpec == DriverInit /\ [][DriverNext]_driverVars

(* What runs, runs on: ff_play, the worker, the completions and disconnect.    *)
DriverFairSpec ==
  /\ DriverSpec
  /\ WF_driverVars(Rumbled(Schedule))
  /\ WF_driverVars(Worked)
  /\ WF_driverVars(Completed)
  /\ WF_driverVars(IrqIn)
  /\ WF_driverVars(Disconnecting)

--------------------------------------------------------------------------------
DriverTypeOK ==
  /\ TypeOK
  /\ probing \in Resources \cup {"no", "ff", "register"}
  /\ held \subseteq Resources /\ fields \subseteq Resources
  /\ {ep_out, opened, killed_in, dry} \subseteq BOOLEAN
  /\ urb_in \in Completions \cup {"idle", "flying"}

(* Every path through the ladder of error labels, and flydigi_disconnect,      *)
(* frees all there is, whatever failed before, and frees it once: a pointer    *)
(* that a later path would free is one that is still allocated.                *)
FreedExactlyOnce ==
  /\ fields \subseteq held
  /\ stage = "unbound" /\ probing = "no" => held = {}

(* What the two URBs, their completions, the worker and ff_play work on.       *)
InUse ==
  (IF urb_in # "idle" THEN {"fd", "idata", "irq_in", "input"} ELSE {})
    \cup (IF urb # "idle" \/ worker # "idle" \/ queued
          THEN {"fd", "odata", "irq_out"} ELSE {})
    \cup (IF player # "idle" THEN {"fd"} ELSE {})

(* Nothing is freed while anybody may still use it, but for work that ff_play  *)
(* queued after cancel_work_sync.                                              *)
NothingInUseIsFreed == InUse \subseteq held \/ (late /\ stage = "unbound")

(* While the device is open its reports keep coming, through short packets and *)
(* failed transfers, until a resubmission is refused; while it is closed none  *)
(* comes.                                                                      *)
ReportsFlowWhileOpen ==
  stage = "bound" => (urb_in # "idle" <=> opened /\ ~dry)

(* The force feedback of the whole driver is that of RumbleDriver.             *)
RumbleIsRumbleDriver == Spec

(* Unplugging ends: disconnect waits for completions and for the worker, and   *)
(* neither waits for it.                                                       *)
DisconnectEnds == stage = "unbinding" ~> stage = "unbound"
================================================================================
