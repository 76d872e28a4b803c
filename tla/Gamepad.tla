-------------------------------- MODULE Gamepad --------------------------------
(* Gamepad::poll of src/gamepad.cpp: one extended report of the controller is  *)
(* turned into events of two virtual devices, the gamepad (Uinput) and the     *)
(* mouse and keyboard (InputDevice).  Both receive differences only, so what   *)
(* the rest of the system sees is the sum of every event since the devices     *)
(* were created: pad and keys below.  The layers are those of LayerEngine.     *)
(*                                                                             *)
(* A stick, and the gyro, are a value out of a small set (0 is the centre);    *)
(* a trigger is 0, 1 (pulled) or 2 (pulled past 128); relative motion (mouse,  *)
(* wheel) leaves no state on a device and is left out.                         *)
EXTENDS Integers, FiniteSets

CONSTANTS
  Layers, Configs, NoLayer, MaxElapsed,  \* as in LayerEngine
  FaceButtons,   \* button_to_masks names with a bit in GamepadState.buttons
  ExtButtons,    \* ... with a bit in ext_buttons
  PlainButtons,  \* bits the names do not reach: HOME, O
  NoTarget,      \* an empty optional<RemapTarget>
  Inherit,       \* an empty optional<...Config> of a layer
  Reports        \* the reports the device may stream (bound)

Triggers == {"LT", "RT"}
Arrows == {"up", "down", "left", "right"}
Remappable == FaceButtons \cup ExtButtons

(* The targets a configuration names.                                          *)
RemapTargets(remap) == {remap[b] : b \in DOMAIN remap}
TapTargets(c) == {c.layers[l].tap : l \in Layers} \ {NoTarget}
Targets(c) == RemapTargets(c.button_remaps) \cup TapTargets(c)
                \cup UNION {RemapTargets(c.layers[l].remap) : l \in Layers}

ASSUME GamepadAssumption ==
  /\ (Remappable \cup PlainButtons) \cap (Triggers \cup Arrows) = {}
  /\ Remappable \cap PlainButtons = {}
  /\ Reports \subseteq [btns : SUBSET (Remappable \cup PlainButtons),
                        trig : [Triggers -> 0 .. 2],
                        dpad : SUBSET Arrows,
                        ls : Nat, rs : Nat, gyro : Nat]
  /\ \A c \in Configs : \A t \in Targets(c) :
       t.type = "GamepadButton" => t.code \in Remappable

(* The code a button has on the virtual gamepad.  Config::load takes a         *)
(* keyboard key named for an ext button in [remap] as its code (ext_mappings), *)
(* whether or not emulate_elite is set.                                        *)
CodeIn(c, b) ==
  IF b \in ExtButtons \cap DOMAIN c.button_remaps /\ c.button_remaps[b].type = "Key"
  THEN c.button_remaps[b].code ELSE b

(* No two buttons are given the same code; nothing in the code checks it.      *)
ASSUME DistinctCodes ==
  \A c \in Configs : \A a, b \in Remappable \cup PlainButtons :
    CodeIn(c, a) = CodeIn(c, b) => a = b

Centred == [btns |-> {}, trig |-> [t \in Triggers |-> 0], dpad |-> {},
            ls |-> 0, rs |-> 0, gyro |-> 0]

VARIABLES
  config, tap_hold, elapsed, toggled,   \* as in LayerEngine
  prev_state,       \* the report processed last
  prev_suppressed,  \* prev_suppressed_buttons_ and prev_suppressed_ext_
  prev_injected,    \* prev_injected_buttons_ and prev_injected_ext_
  prev_suppress,    \* prev_suppress_: the axes it blanks
  dpad_keys,        \* dpad_up_, dpad_down_, dpad_left_, dpad_right_
  keys,             \* codes down on the InputDevice
  pad               \* state of the virtual gamepad

layerVars == <<config, tap_hold, elapsed, toggled>>
padVars == <<prev_state, prev_suppressed, prev_injected, prev_suppress, pad>>
vars == <<layerVars, padVars, dpad_keys, keys>>

PadCode(b) == CodeIn(config, b)

(* is_button_pressed: a button by its bit, a trigger past 128, no other name.  *)
Pressed(r) == (r.btns \cap Remappable) \cup {t \in Triggers : r.trig[t] = 2}

L == INSTANCE LayerEngine WITH
  Buttons <- Remappable \cup Triggers, prev <- Pressed(prev_state)

ASSUME LayerAssumption == L!ConfigAssumption

ActiveLayer == L!ActiveLayer
InLayer == ActiveLayer # NoLayer
Active == config.layers[ActiveLayer]

--------------------------------------------------------------------------------
(* The configuration.                                                          *)

(* button_to_masks: the triggers have no bit to suppress or to inject.         *)
Masks(names) == names \cap Remappable

IsKey(target) == target.type \in {"Key", "MouseButton"}

(* needs_mouse: whether open() creates the InputDevice.                        *)
NeedsMouse(c) ==
  \/ c.gyro = "mouse"
  \/ c.stick.ls.mode \in {"mouse", "scroll"}
  \/ c.stick.rs.mode = "mouse"
  \/ c.dpad.mode = "arrows"
  \/ ~c.emulate_elite /\ \E b \in DOMAIN c.button_remaps : IsKey(c.button_remaps[b])
  \/ \E l \in Layers :
       LET layer == c.layers[l] IN
       \/ layer.gyro = "mouse"
       \/ layer.stick.rs # Inherit /\ layer.stick.rs.mode = "mouse"
       \/ layer.stick.ls # Inherit /\ layer.stick.ls.mode \in {"mouse", "scroll"}
       \/ layer.dpad # Inherit /\ layer.dpad.mode = "arrows"
       \/ \E b \in DOMAIN layer.remap : IsKey(layer.remap[b])
       \/ layer.tap # NoTarget /\ IsKey(layer.tap)

HasInput == NeedsMouse(config)

(* The settings in force: the active layer's where it has its own.             *)
Effective(own, base) == IF own = Inherit THEN base ELSE own

EffectiveGyro == IF InLayer THEN Effective(Active.gyro, config.gyro) ELSE config.gyro
EffectiveStick(side) ==
  IF InLayer THEN Effective(Active.stick[side], config.stick[side])
  ELSE config.stick[side]
EffectiveDpad == IF InLayer THEN Effective(Active.dpad, config.dpad) ELSE config.dpad

--------------------------------------------------------------------------------
(* One report.  Below, ActiveLayer and what rests on it are read after         *)
(* update_tap_hold, as the code reads get_active_layer() again in every step.  *)

(* The buttons the base and the active layer remap.                            *)
BaseRemaps == IF config.emulate_elite THEN {} ELSE DOMAIN config.button_remaps
LayerRemap == IF InLayer THEN Active.remap ELSE <<>>
LayerRemaps == DOMAIN LayerRemap

(* SuppressState: axes blanked by mouse and scroll sticks, by arrow keys and   *)
(* by layer remaps of the triggers.                                            *)
Suppress ==
  IF ~InLayer THEN {}
  ELSE {side \in {"ls", "rs"} : /\ HasInput
                                /\ EffectiveStick(side).mode \in {"mouse", "scroll"}
                                /\ EffectiveStick(side).suppress_gamepad}
       \cup {d \in {"dpad"} : /\ HasInput
                              /\ EffectiveDpad.mode = "arrows"
                              /\ EffectiveDpad.suppress_gamepad}
       \cup (Triggers \cap LayerRemaps)

(* SuppressState::apply                                                        *)
Blank(r, axes) ==
  [r EXCEPT !.ls = IF "ls" \in axes THEN 0 ELSE @,
            !.rs = IF "rs" \in axes THEN 0 ELSE @,
            !.dpad = IF "dpad" \in axes THEN {} ELSE @,
            !.trig = [t \in Triggers |-> IF t \in axes THEN 0 ELSE @[t]]]

(* Base remaps the loop goes through with: not disabled, not overridden by the *)
(* active layer, and not the NAME of a layer with a tap-hold entry.            *)
(* Mutant: the base remaps stop while any layer is active.                     *)
BaseInForce_NoLayer ==
  {b \in BaseRemaps : config.button_remaps[b].type # "Disabled" /\ ~InLayer}

BaseInForce ==
  {b \in BaseRemaps :
     /\ config.button_remaps[b].type # "Disabled"
     /\ ~(b \in Layers /\ tap_hold[b] # "none")
     /\ b \notin LayerRemaps}

Suppressed_InForce == Masks(BaseInForce \cup LayerRemaps)  \* mutant: after the continue
Suppressed == Masks(BaseRemaps \cup LayerRemaps)

ButtonTargets(remap, from, s) ==
  {remap[b].code : b \in {x \in from \cap s : remap[x].type = "GamepadButton"}}
KeyTargets(remap, from, s) ==
  {remap[b].code : b \in {x \in from \cap s : IsKey(remap[x])}}

(* The tap actions emit_tap is called with.                                    *)
Taps(r) ==
  {config.layers[l].tap : l \in L!Tapped(config.rank, ActiveLayer, Pressed(r))} \ {NoTarget}

(* The remaps are walked in the order of a hash map: of a press and a release  *)
(* of the same code in one report, either may come last.                       *)
Settle_NoRelease(held, down, up) == {held \cup down}  \* mutant: key-ups are lost
Settle(held, down, up) == {((held \ up) \cup down) \ last : last \in SUBSET (down \cap up)}

(* process_layer_dpad: the arrow keys follow the d-pad while it is in arrow    *)
(* mode.                                                                       *)
WantedArrows(r) == IF EffectiveDpad.mode = "arrows" THEN r.dpad ELSE {}

(* The four update_key calls of process_layer_dpad.                            *)
ArrowsAfter_NoRelease(held, want) == held \cup want  \* mutant: return if not active
ArrowsAfter(held, want) == (held \ (dpad_keys \ want)) \cup (want \ dpad_keys)

(* Uinput::emit: only what differs between the two states is sent.             *)
PadAfter(state, prev) ==
  LET codes(btns) == {PadCode(b) : b \in btns}
      axis(old, new, at) == IF old # new THEN new ELSE at
  IN  [btns |-> (pad.btns \ codes(prev.btns \ state.btns))
                  \cup codes(state.btns \ prev.btns),
       trig |-> [t \in Triggers |->
                   axis(prev.trig[t], state.trig[t], pad.trig[t])],
       dpad |-> (pad.dpad \ (prev.dpad \ state.dpad)) \cup (state.dpad \ prev.dpad),
       ls |-> axis(prev.ls, state.ls, pad.ls),
       rs |-> axis(prev.rs, state.rs, pad.rs)]

(* Mutant: emit_prev is prev_state_, as if nothing had been suppressed.        *)
Emit_AgainstRaw(state, prev) == pad' = PadAfter(state, prev_state)
Emit(state, prev) == pad' = PadAfter(state, prev)

(* The gamepad's share of report r.                                            *)
Sent(r, suppressed, injected, axes) ==
  Blank([r EXCEPT !.btns = (@ \ suppressed) \cup injected], axes)

EmitPad(r) ==
  LET taps == {t \in Taps(r) : t.type = "GamepadButton"}
      sent == Sent(r, prev_suppressed', prev_injected', prev_suppress')
  IN  /\ prev_suppressed' = Suppressed'
      /\ prev_injected' = {t.code : t \in taps}
           \cup ButtonTargets(config.button_remaps, BaseInForce', Pressed(r))
           \cup ButtonTargets(LayerRemap', LayerRemaps', Pressed(r))
      /\ prev_suppress' = Suppress'
      /\ Emit(IF EffectiveGyro' = "joystick" THEN [sent EXCEPT !.rs = r.gyro] ELSE sent,
              Sent(prev_state, prev_suppressed, prev_injected, prev_suppress))

(* The keyboard and mouse's share: a tap presses and releases its key at once, *)
(* then the arrow keys, the base remaps and the layer remaps follow, each in   *)
(* its own loop.  A key whose button did not move gets no event.               *)
EmitKeys(r) ==
  LET tapped == {t.code : t \in {x \in Taps(r) : IsKey(x)}}
      want == WantedArrows(r)'
      arrows == ArrowsAfter(keys \ tapped, want)
      down == Pressed(r) \ Pressed(prev_state)
      up == Pressed(prev_state) \ Pressed(r)
  IN  /\ dpad_keys' = want
      /\ \E base \in Settle(arrows, KeyTargets(config.button_remaps, BaseInForce', down),
                                    KeyTargets(config.button_remaps, BaseInForce', up)) :
           keys' \in Settle(base, KeyTargets(LayerRemap', LayerRemaps', down),
                                  KeyTargets(LayerRemap', LayerRemaps', up))

Init ==
  /\ config \in Configs
  /\ tap_hold = [l \in Layers |-> "none"]
  /\ elapsed = [l \in Layers |-> 0]
  /\ toggled = {}
  /\ prev_state = Centred
  /\ prev_suppressed = {} /\ prev_injected = {} /\ prev_suppress = {}
  /\ dpad_keys = {} /\ keys = {}
  /\ pad = [btns |-> {}, trig |-> Centred.trig, dpad |-> {}, ls |-> 0, rs |-> 0]

(* Gamepad::poll on a report of the device.                                    *)
Poll(r) ==
  /\ prev_state' = r
  /\ L!UpdateTapHold(Pressed(r))
  /\ UNCHANGED config
  /\ EmitPad(r)
  /\ IF HasInput THEN EmitKeys(r) ELSE UNCHANGED <<dpad_keys, keys>>

Tick == UNCHANGED <<padVars, dpad_keys, keys>> /\ L!Tick

(* New virtual devices, with nothing pressed, and a zeroed previous report.    *)
NewDevices ==
  /\ prev_state' = Centred
  /\ prev_suppressed' = {} /\ prev_injected' = {} /\ prev_suppress' = {}
  /\ dpad_keys' = {} /\ keys' = {}
  /\ pad' = [btns |-> {}, trig |-> Centred.trig, dpad |-> {}, ls |-> 0, rs |-> 0]

(* The device went away: the virtual devices are destroyed with the Gamepad    *)
(* object and new ones are created when it returns.                            *)
Reopen ==
  /\ NewDevices
  /\ tap_hold' = [l \in Layers |-> "none"]
  /\ elapsed' = [l \in Layers |-> 0]
  /\ toggled' = {}
  /\ UNCHANGED config

PollAny == \E r \in Reports : Poll(r)

Next == PollAny \/ Tick \/ Reopen

Spec == Init /\ [][Next]_vars

--------------------------------------------------------------------------------
(* Properties.                                                                 *)

(* Some configured layer, or the base, drives the right stick from the gyro.   *)
GyroStick(c) ==
  "joystick" \in {c.gyro} \cup {c.layers[l].gyro : l \in Layers}

(* The gamepad shows exactly the last report, less what is suppressed, plus    *)
(* what is injected: no event is lost or sent twice although only differences  *)
(* are sent and suppression comes and goes with the layers.  The right stick   *)
(* does so where no gyro ever drives it.                                       *)
PadShowsReport ==
  LET sent == Sent(prev_state, prev_suppressed, prev_injected, prev_suppress) IN
  /\ pad.btns = {PadCode(b) : b \in sent.btns}
  /\ pad.trig = sent.trig /\ pad.dpad = sent.dpad /\ pad.ls = sent.ls
  /\ GyroStick(config) \/ pad.rs = sent.rs

(* A button disabled in [remap] stays off the gamepad whichever layer is       *)
(* active, unless some remap or tap names it as its target.                    *)
DisabledStaysOffPad ==
  \A b \in Remappable \cap BaseRemaps :
    /\ config.button_remaps[b].type = "Disabled"
    /\ \A t \in Targets(config) : t.type = "GamepadButton" => t.code # b
    => PadCode(b) \notin pad.btns

(* The arrow keys follow the d-pad through every change of layer: none is left *)
(* down when arrow mode ends.  (Where nothing else is mapped to an arrow key.) *)
ArrowKeysFollowDpad ==
  HasInput /\ (\A t \in Targets(config) : IsKey(t) => t.code \notin Arrows)
    => keys \cap Arrows = WantedArrows(prev_state)

(* A key with a single source, a base remap of a button that no layer touches  *)
(* and that is neither the trigger nor the name of one, is down exactly while  *)
(* the button is, whatever the layers do.  (Of a trigger the documents say     *)
(* that its base remap is ignored, which the code does not do: nothing is      *)
(* claimed of it here.)                                                        *)
UntouchedKeyFollowsButton ==
  \A b \in BaseRemaps :
    LET key == config.button_remaps[b].code IN
    /\ IsKey(config.button_remaps[b])
    /\ \A x \in DOMAIN config.button_remaps :
         x = b \/ config.button_remaps[x].code # key
    /\ b \notin Layers /\ key \notin Arrows
    /\ \A l \in Layers : LET layer == config.layers[l] IN
         /\ layer.trigger # b
         /\ b \notin DOMAIN layer.remap
         /\ \A x \in DOMAIN layer.remap : layer.remap[x].code # key
         /\ layer.tap = NoTarget \/ layer.tap.code # key
    => (key \in keys <=> b \in Pressed(prev_state))

(* The keys the remaps in force ask for, given the buttons that are down.      *)
WantedKeys ==
  IF HasInput THEN KeyTargets(config.button_remaps, BaseInForce, Pressed(prev_state))
                   \cup KeyTargets(LayerRemap, LayerRemaps, Pressed(prev_state))
                   \cup WantedArrows(prev_state)
  ELSE {}

(* No two remaps that can be in force together share a key, nor does a tap.    *)
KeysUncontested(c) ==
  LET base == {b \in DOMAIN c.button_remaps : IsKey(c.button_remaps[b])}
      over(l) == {b \in DOMAIN c.layers[l].remap : IsKey(c.layers[l].remap[b])}
      code(l, b) == c.layers[l].remap[b].code
      taken == Arrows \cup {c.button_remaps[b].code : b \in base}
  IN  /\ \A a, b \in base : c.button_remaps[a].code = c.button_remaps[b].code => a = b
      /\ \A b \in base : c.button_remaps[b].code \notin Arrows
      /\ \A l \in Layers : /\ \A a, b \in over(l) : code(l, a) = code(l, b) => a = b
                           /\ \A a \in over(l) : code(l, a) \notin taken
      /\ \A l, m \in Layers :
           c.layers[l].tap # NoTarget =>
             c.layers[l].tap.code \notin taken \cup {code(m, b) : b \in over(m)}

(* Keys go wrong only when the active layer changes (or a tap-hold entry whose *)
(* name is also a remapped button comes or goes): while the same remaps stay   *)
(* in force, a keyboard that is right stays right, whatever the report.        *)
KeysStayRightInLayer ==
  [][PollAny /\ KeysUncontested(config) /\ keys = WantedKeys
       /\ ActiveLayer' = ActiveLayer /\ BaseInForce' = BaseInForce
       => keys' = WantedKeys']_vars

(* openspec/specs/remap-system/spec.md: "WHEN layer trigger button is released *)
(* THEN layer becomes inactive AND layer remaps stop".                         *)
NoKeyOutlivesItsLayer ==
  ~InLayer /\ Pressed(prev_state) = {} /\ prev_state.dpad = {} => keys = {}
================================================================================
