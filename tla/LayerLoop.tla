------------------------------- MODULE LayerLoop -------------------------------
(* The loop of Gamepad::update_tap_hold, one iteration per step: the containers *)
(* change while the map of layers is being walked, a turn-on in the middle of  *)
(* the walk clears entries of layers already visited and of layers still to    *)
(* come, and active is the value read before the walk.  The whole walk is      *)
(* shown to be one Poll of LayerEngine.                                        *)
EXTENDS LayerEngine

VARIABLES
  todo,      \* layers the walk has still to visit; {} outside the loop
  frame,     \* buttons pressed in the report being processed
  active,    \* the local variable of the same name
  tapped,    \* layers whose tap fired in this walk
  start      \* auxiliary: the containers as the walk found them

loop == <<frame, active, start>>
loopVars == <<vars, todo, tapped, loop>>

Walking == todo # {}

--------------------------------------------------------------------------------
LoopInit ==
  /\ Init
  /\ todo = {}
  /\ frame = {}
  /\ active = NoLayer
  /\ tapped = {}
  /\ start = [tap_hold |-> tap_hold, elapsed |-> elapsed, toggled |-> toggled]

(* A report has been read; active is computed before the loop.                 *)
Begin(s) ==
  /\ ~Walking
  /\ todo' = Layers
  /\ frame' = s
  /\ active' = ActiveLayer
  /\ tapped' = {}
  /\ start' = [tap_hold |-> tap_hold, elapsed |-> elapsed, toggled |-> toggled]
  /\ UNCHANGED vars

(* It is the turn of layer l; after the last turn the report becomes prev.     *)
Turn(l) ==
  /\ l \in todo
  /\ \A m \in todo : config.rank[l] <= config.rank[m]
  /\ todo' = todo \ {l}
  /\ prev' = IF todo = {l} THEN frame ELSE prev
  /\ UNCHANGED <<config, loop>>

SetEntry(l, entry, age) ==
  /\ tap_hold' = [tap_hold EXCEPT ![l] = entry]
  /\ elapsed' = [elapsed EXCEPT ![l] = age]

(* continue, for a layer the active one shuts out                              *)
Skip(l) ==
  /\ Turn(l)
  /\ active \notin {NoLayer, l}
  /\ UNCHANGED <<tap_hold, elapsed, toggled, tapped>>

ToggleOff(l) ==
  /\ Turn(l)
  /\ active \in {NoLayer, l} /\ l \in ToggleLayers
  /\ Released(l, frame) /\ l \in toggled
  /\ toggled' = toggled \ {l}
  /\ UNCHANGED <<tap_hold, elapsed, tapped>>

(* Mutant: turning a layer on does not clear tap_hold_states_.                 *)
ToggleOn_NoClear(l) ==
  /\ Turn(l)
  /\ active = NoLayer /\ l \in ToggleLayers
  /\ Released(l, frame) /\ l \notin toggled
  /\ toggled' = toggled \cup {l}
  /\ UNCHANGED <<tap_hold, elapsed, tapped>>

ToggleOn(l) ==
  /\ Turn(l)
  /\ active = NoLayer /\ l \in ToggleLayers
  /\ Released(l, frame) /\ l \notin toggled
  /\ tap_hold' = [m \in Layers |-> "none"]
  /\ elapsed' = [m \in Layers |-> 0]
  /\ toggled' = toggled \cup {l}
  /\ UNCHANGED tapped

ToggleStays(l) ==
  /\ Turn(l)
  /\ active \in {NoLayer, l} /\ l \in ToggleLayers
  /\ ~Released(l, frame)
  /\ UNCHANGED <<tap_hold, elapsed, toggled, tapped>>

Press(l) ==
  /\ Turn(l)
  /\ active = NoLayer /\ l \in HoldLayers
  /\ Pressed(l, frame)
  /\ SetEntry(l, "pending", 0)
  /\ UNCHANGED <<toggled, tapped>>

(* The trigger is not newly pressed, or the layer is itself the active one.    *)
HoldTurn(l) ==
  /\ Turn(l)
  /\ active \in {NoLayer, l} /\ l \in HoldLayers
  /\ ~(Pressed(l, frame) /\ active = NoLayer)
  /\ UNCHANGED toggled

NoEntry(l) ==
  /\ HoldTurn(l)
  /\ tap_hold[l] = "none"
  /\ UNCHANGED <<tap_hold, elapsed, tapped>>

(* Mutant: the tap fires although the layer was activated.                     *)
Release_TapsAlways(l) ==
  /\ HoldTurn(l)
  /\ tap_hold[l] # "none" /\ Released(l, frame)
  /\ tapped' = tapped \cup {l}
  /\ SetEntry(l, "none", 0)

Release(l) ==
  /\ HoldTurn(l)
  /\ tap_hold[l] # "none" /\ Released(l, frame)
  /\ tapped' = IF tap_hold[l] = "activated" THEN tapped ELSE tapped \cup {l}
  /\ SetEntry(l, "none", 0)

(* Mutant: off by one in the comparison with hold_timeout.                     *)
Hold_StrictTimeout(l) ==
  /\ HoldTurn(l)
  /\ tap_hold[l] # "none" /\ ~Released(l, frame)
  /\ IF tap_hold[l] = "pending" /\ elapsed[l] > config.layers[l].hold_timeout
     THEN SetEntry(l, "activated", 0)
     ELSE UNCHANGED <<tap_hold, elapsed>>
  /\ UNCHANGED tapped

(* The entry is dropped if a toggle layer came on, becomes active when its     *)
(* time has come, and waits otherwise.                                         *)
Hold(l) ==
  /\ HoldTurn(l)
  /\ tap_hold[l] # "none" /\ ~Released(l, frame)
  /\ IF tap_hold[l] = "pending" /\ toggled # {} THEN SetEntry(l, "none", 0)
     ELSE IF tap_hold[l] = "pending" /\ elapsed[l] >= config.layers[l].hold_timeout
     THEN SetEntry(l, "activated", 0)
     ELSE UNCHANGED <<tap_hold, elapsed>>
  /\ UNCHANGED tapped

(* Outside the loop: the clock, and a new Gamepad object.                      *)
Outside ==
  /\ ~Walking
  /\ Tick \/ Reopen
  /\ UNCHANGED <<todo, tapped, loop>>

LoopNext ==
  \/ \E s \in SUBSET Buttons : Begin(s)
  \/ \E l \in Layers : \/ Skip(l) \/ ToggleOff(l) \/ ToggleOn(l) \/ ToggleStays(l)
                       \/ Press(l) \/ NoEntry(l) \/ Release(l) \/ Hold(l)
  \/ Outside

LoopSpec == LoopInit /\ [][LoopNext]_loopVars

--------------------------------------------------------------------------------
(* Until its last turn the walk is invisible: a walk is one step.              *)
Atomic == INSTANCE LayerEngine WITH
  tap_hold <- IF Walking THEN start.tap_hold ELSE tap_hold,
  elapsed <- IF Walking THEN start.elapsed ELSE elapsed,
  toggled <- IF Walking THEN start.toggled ELSE toggled

(* The walk, whatever the order of the map, does to the layers exactly what    *)
(* one Poll of LayerEngine does.                                               *)
WalkIsOnePoll == Atomic!Spec

(* The taps that fire along the walk are those the closed form names.          *)
TapsAgree ==
  [][Walking /\ todo' = {}
       => tapped' = Atomic!Tapped(config.rank, active, frame)]_loopVars

(* A pending entry the walk comes to never finds a layer toggled on: clearing  *)
(* tap_hold_states_ has always removed it first, so the branch of the loop     *)
(* that drops such an entry (src/gamepad.cpp:402) never runs.                  *)
NothingLeftToDrop ==
  \A l \in todo \cap Atomic!HoldLayers :
    active \in {NoLayer, l} /\ tap_hold[l] = "pending" => toggled = {}
================================================================================
