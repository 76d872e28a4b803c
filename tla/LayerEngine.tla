------------------------------ MODULE LayerEngine ------------------------------
(* The tap-hold and toggle layers of the gamepad pipeline:                     *)
(* Gamepad::update_tap_hold and Gamepad::get_active_layer of src/gamepad.cpp.  *)
(* Every report of the device runs one pass over the configured layers.  A     *)
(* hold layer goes from "none" to "pending" when its trigger is pressed, to    *)
(* "activated" once hold_timeout has passed, and back when the trigger is      *)
(* released; a toggle layer flips when its trigger is released.  The pass      *)
(* walks an unordered_map, in an order the code does not choose: config.rank.  *)
(* Here the pass is one step, written in closed form; module LayerLoop walks   *)
(* the loop one layer at a time and is shown to implement it.                  *)
EXTENDS Integers

CONSTANTS
  Layers,      \* names of the layers of the configuration (config_.layers)
  Buttons,     \* names of the buttons is_button_pressed knows
  Configs,     \* the configurations the daemon may be started with
  NoLayer,     \* the null pointer get_active_layer returns
  MaxElapsed   \* bound: the age of a pending press stops counting here

ASSUME ConfigAssumption ==
  /\ NoLayer \notin Layers
  /\ MaxElapsed \in Nat
  /\ \A c \in Configs :
       /\ c.rank \in [Layers -> Nat]
       /\ \A l, m \in Layers : c.rank[l] = c.rank[m] => l = m
       /\ \A l \in Layers : /\ c.layers[l].activation \in {"hold", "toggle"}
                            /\ c.layers[l].hold_timeout \in 0 .. MaxElapsed

VARIABLES
  config,      \* config_: fixed when the daemon starts
  prev,        \* names of the buttons pressed in prev_state_
  tap_hold,    \* tap_hold_states_: "none" stands for an absent entry
  elapsed,     \* now - press_time of a pending entry, 0 for the others
  toggled      \* toggled_layers_

vars == <<config, prev, tap_hold, elapsed, toggled>>

--------------------------------------------------------------------------------
(* Reading the configuration and the report.                                   *)

HoldLayers == {l \in Layers : config.layers[l].activation = "hold"}
ToggleLayers == {l \in Layers : config.layers[l].activation = "toggle"}

Trigger(l) == config.layers[l].trigger
Pressed_Level(l, s) == Trigger(l) \in s  \* mutant: the level, not the edge
Pressed(l, s) == Trigger(l) \in s /\ Trigger(l) \notin prev
Released(l, s) == Trigger(l) \notin s /\ Trigger(l) \in prev

(* The layers get_active_layer accepts, and the first of them it meets.        *)
Live == toggled \cup {l \in Layers : tap_hold[l] = "activated"}

FirstOf(S) == CHOOSE l \in S : \A m \in S : config.rank[l] <= config.rank[m]

ActiveLayer == IF Live = {} THEN NoLayer ELSE FirstOf(Live)

--------------------------------------------------------------------------------
(* One pass of update_tap_hold over a report in which the buttons s are        *)
(* pressed.  active is read once, before the loop; while a layer is active     *)
(* the loop skips every other one.                                             *)

Skipped_Never(l, active) == FALSE  \* mutant: the loop skips no layer
Skipped(l, active) == active \notin {NoLayer, l}

TurnedOn(active, s) ==
  {l \in ToggleLayers : active = NoLayer /\ Released(l, s) /\ l \notin toggled}

TurnedOff(active, s) ==
  {l \in ToggleLayers : ~Skipped(l, active) /\ Released(l, s) /\ l \in toggled}

(* Turning a layer on clears tap_hold_states_.  A hold layer loses its entry   *)
(* before its own turn when an earlier layer turns on, after it when a later   *)
(* one does.                                                                   *)
ClearedBefore_Never(rank, l, on) == FALSE  \* mutant: clear() spares later layers
ClearedBefore(rank, l, on) == \E t \in on : rank[t] < rank[l]
ClearedAfter_Never(rank, l, on) == FALSE  \* mutant: clear() spares earlier ones
ClearedAfter(rank, l, on) == \E t \in on : rank[l] < rank[t]

(* Mutant: a release does not erase the entry of an activated layer.           *)
VisitedEntry_KeptOnRelease(rank, l, active, s) ==
  IF Pressed(l, s) /\ active = NoLayer THEN "pending"
  ELSE IF tap_hold[l] = "activated" THEN "activated"
  ELSE IF tap_hold[l] = "none" \/ Released(l, s) THEN "none"
  ELSE IF elapsed[l] >= config.layers[l].hold_timeout THEN "activated"
  ELSE "pending"

(* The entry of hold layer l when its turn is over.                            *)
VisitedEntry(rank, l, active, s) ==
  LET on == TurnedOn(active, s)
      entry == IF ClearedBefore(rank, l, on) THEN "none" ELSE tap_hold[l]
  IN  IF Pressed(l, s) /\ active = NoLayer THEN "pending"
      ELSE IF entry = "none" \/ Released(l, s) THEN "none"
      ELSE IF entry = "activated" THEN "activated"
      ELSE IF toggled # {} \/ ClearedBefore(rank, l, on) THEN "none"
      ELSE IF elapsed[l] >= config.layers[l].hold_timeout THEN "activated"
      ELSE "pending"

NextEntry(rank, l, active, s) ==
  IF l \notin HoldLayers \/ Skipped(l, active) THEN tap_hold[l]
  ELSE IF ClearedAfter(rank, l, TurnedOn(active, s)) THEN "none"
  ELSE VisitedEntry(rank, l, active, s)

(* The hold layers whose tap action fires: released before they activated.     *)
Tapped(rank, active, s) ==
  {l \in HoldLayers : /\ ~Skipped(l, active)
                      /\ Released(l, s)
                      /\ tap_hold[l] = "pending"
                      /\ ~ClearedBefore(rank, l, TurnedOn(active, s))}

UpdateTapHold(s) ==
  LET active == ActiveLayer IN
  /\ toggled' = (toggled \ TurnedOff(active, s)) \cup TurnedOn(active, s)
  /\ tap_hold' = [l \in Layers |-> NextEntry(config.rank, l, active, s)]
  /\ elapsed' = [l \in Layers |->
                   IF tap_hold'[l] = "pending" /\ ~(Pressed(l, s) /\ active = NoLayer)
                   THEN elapsed[l] ELSE 0]

--------------------------------------------------------------------------------
(* The fields of a new Gamepad object.                                         *)
Init ==
  /\ config \in Configs
  /\ prev = {}
  /\ tap_hold = [l \in Layers |-> "none"]
  /\ elapsed = [l \in Layers |-> 0]
  /\ toggled = {}

(* The device streams a report in which the buttons s are pressed.             *)
Poll(s) ==
  /\ prev' = s
  /\ UpdateTapHold(s)
  /\ UNCHANGED config

(* The steady clock moves on between two reports.                              *)
Tick ==
  /\ \E l \in Layers : tap_hold[l] = "pending" /\ elapsed[l] < MaxElapsed
  /\ elapsed' = [l \in Layers |->
                   IF tap_hold[l] = "pending" /\ elapsed[l] < MaxElapsed
                   THEN elapsed[l] + 1 ELSE elapsed[l]]
  /\ UNCHANGED <<config, prev, tap_hold, toggled>>

(* The device disconnects and connects again: main() builds a new      *)
(* Gamepad.                                                                    *)
Reopen ==
  /\ prev' = {}
  /\ tap_hold' = [l \in Layers |-> "none"]
  /\ elapsed' = [l \in Layers |-> 0]
  /\ toggled' = {}
  /\ UNCHANGED config

PollAny == \E s \in SUBSET Buttons : Poll(s)

Next == PollAny \/ Tick \/ Reopen

Spec == Init /\ [][Next]_vars

(* In test mode the device streams reports whether or not a button moves, and  *)
(* the clock runs.                                                             *)
FairSpec == Spec /\ WF_vars(PollAny) /\ WF_vars(Tick)

--------------------------------------------------------------------------------
(* Properties.                                                                 *)

TypeOK ==
  /\ config \in Configs
  /\ prev \in SUBSET Buttons
  /\ tap_hold \in [Layers -> {"none", "pending", "activated"}]
  /\ elapsed \in [Layers -> 0 .. MaxElapsed]
  /\ toggled \in SUBSET Layers

(* While a layer is toggled on no hold layer is activated.  update_tap_hold    *)
(* keeps this only because tap_hold_states_ is cleared when a layer turns on,  *)
(* in the same pass that may just have activated a hold layer.                 *)
ToggleExcludesHold ==
  toggled # {} => \A l \in Layers : tap_hold[l] # "activated"

(* The layer in force gives way only in a report that releases its own       *)
(* trigger: no other layer can take over from it.                              *)
GivesWayOnlyOnRelease ==
  [][PollAny => \/ ActiveLayer = NoLayer
                \/ ActiveLayer' = ActiveLayer
                \/ /\ Trigger(ActiveLayer) \in prev
                   /\ Trigger(ActiveLayer) \notin prev']_vars

(* Each hold layer whose entry survives although its trigger is up.            *)
Stale(l) == tap_hold[l] # "none" /\ Trigger(l) \notin prev

(* An entry outlives its press in one way only: the release came in a report   *)
(* whose pass skipped the layer because another one was active.                *)
StaleOnlyWhenSkipped ==
  [][\A l \in Layers : ~Stale(l) /\ Stale(l)' => Skipped(l, ActiveLayer)]_vars

(* What a pass does cannot depend on the order of the hash map while buttons   *)
(* change one at a time and no two layers share a trigger.                     *)
OrderDoesNotMatter ==
  (\A l, m \in Layers : Trigger(l) = Trigger(m) => l = m) =>
    \A s \in SUBSET Buttons : \A c \in Configs :
      (\A a, b \in (s \ prev) \cup (prev \ s) : a = b) =>
        /\ Tapped(c.rank, ActiveLayer, s) = Tapped(config.rank, ActiveLayer, s)
        /\ \A l \in Layers : NextEntry(c.rank, l, ActiveLayer, s)
                               = NextEntry(config.rank, l, ActiveLayer, s)

(* A pending press does not hang: it is resolved, by a tap or an activation,   *)
(* unless another layer takes over meanwhile.                                  *)
PendingResolves ==
  \A l \in Layers :
    tap_hold[l] = "pending" ~> tap_hold[l] # "pending" \/ ActiveLayer # NoLayer
================================================================================
