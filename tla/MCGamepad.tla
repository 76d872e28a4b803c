------------------------------- MODULE MCGamepad -------------------------------
(* Gamepad under configurations for buttons, keys and taps and configurations  *)
(* for sticks, d-pad, triggers and gyro; every one meets every report.         *)
EXTENDS Gamepad

AllLayers == {"aim", "M2"}      \* one layer bears the name of a button

MCFace == {"A", "B"}
MCExt == {"LM", "M1", "M2"}
MCPlain == {"HOME"}

Key(code) == [type |-> "Key", code |-> code]
Mouse(code) == [type |-> "MouseButton", code |-> code]
Button(code) == [type |-> "GamepadButton", code |-> code]
Disabled == [type |-> "Disabled", code |-> "none"]

Mode(mode) == [mode |-> mode, suppress_gamepad |-> FALSE]
Only(mode) == [mode |-> mode, suppress_gamepad |-> TRUE]
Base == [emulate_elite |-> FALSE, button_remaps |-> <<>>, gyro |-> "off",
         stick |-> [ls |-> Mode("gamepad"), rs |-> Mode("gamepad")],
         dpad |-> Mode("gamepad")]
Plain == [trigger |-> "", activation |-> "hold", hold_timeout |-> 0, tap |-> NoTarget,
          gyro |-> Inherit, stick |-> [ls |-> Inherit, rs |-> Inherit],
          dpad |-> Inherit, remap |-> <<>>]

Upon(trigger, activation, tap, remap) ==
  [Plain EXCEPT !.trigger = trigger, !.activation = activation, !.tap = tap,
                !.remap = remap]

(* The orders in which the map of layers may be walked: both, where two layers *)
(* have a trigger, and one where only "aim" has.                               *)
Ordered(base, aim, m2) ==
  {[emulate_elite |-> base.emulate_elite, button_remaps |-> base.button_remaps,
    gyro |-> base.gyro, stick |-> base.stick, dpad |-> base.dpad,
    layers |-> [l \in AllLayers |-> IF l = "aim" THEN aim ELSE m2],
    rank |-> r] : r \in {x \in [AllLayers -> 1 .. 2] : x["aim"] # x["M2"]
                               /\ (m2.trigger = "" => x["aim"] = 1)}}

--------------------------------------------------------------------------------
(* Buttons, keys and taps.                                                     *)

Remap1(b, t) == [x \in {b} |-> t]
Remap2(a, s, b, t) == [x \in {a, b} |-> IF x = a THEN s ELSE t]

ButtonConfigs ==
  \* a base key, overridden in one layer; a tap that presses a pad button
  Ordered([Base EXCEPT !.button_remaps = Remap2("A", Key("F13"), "B", Key("F15"))],
          Upon("LM", "hold", Button("M1"), Remap1("A", Mouse("left"))),
          Upon("M1", "toggle", NoTarget, Remap1("M2", Button("A"))))
  \* a disabled button that a layer remaps; a trigger with a base remap, whose
  \* layer bears its name
  \cup Ordered([Base EXCEPT !.button_remaps =
                  Remap2("A", Disabled, "M2", Key("F14"))],
               Upon("LM", "hold", NoTarget, Remap1("A", Key("F13"))),
               Upon("M2", "hold", Key("tab"), <<>>))
  \* two buttons on one key, and a tap on the same key
  \cup Ordered([Base EXCEPT !.button_remaps =
                  Remap2("A", Key("F13"), "M1", Key("F13"))],
               Upon("LM", "hold", Key("F13"), <<>>),
               Plain)
  \* elite emulation with a [remap] section
  \cup Ordered([Base EXCEPT !.emulate_elite = TRUE,
                            !.button_remaps = Remap1("M1", Key("F13"))],
               Upon("LM", "toggle", NoTarget, Remap1("M1", Key("F14"))),
               Plain)

ButtonReports ==
  {[Centred EXCEPT !.btns = s] : s \in SUBSET {"A", "B", "LM", "M1", "M2"}}
  \cup {[Centred EXCEPT !.btns = {"HOME"}]}

--------------------------------------------------------------------------------
(* Sticks, d-pad, triggers and gyro.                                           *)

AxisConfigs ==
  \* mouse and scroll sticks and arrow keys in a layer, arrow keys in the base
  Ordered([Base EXCEPT !.dpad = Only("arrows")],
          [Plain EXCEPT !.trigger = "LM", !.gyro = "mouse",
                        !.stick = [ls |-> Only("scroll"), rs |-> Only("mouse")]],
          [Plain EXCEPT !.trigger = "RT", !.activation = "toggle",
                        !.dpad = Mode("gamepad")])
  \* arrow keys and a remapped trigger in a layer; a layer on that trigger
  \cup Ordered(Base,
               [Plain EXCEPT !.trigger = "LM", !.hold_timeout = 1,
                             !.dpad = Only("arrows"),
                             !.remap = Remap1("LT", Mouse("left"))],
               [Plain EXCEPT !.trigger = "LT", !.activation = "toggle",
                             !.stick = [ls |-> Mode("mouse"), rs |-> Inherit]])
  \* a gyro that drives the right stick while a layer is active
  \cup Ordered([Base EXCEPT !.emulate_elite = TRUE],
               [Plain EXCEPT !.trigger = "LM", !.gyro = "joystick"],
               Plain)
  \* base remap of a trigger
  \cup Ordered([Base EXCEPT !.button_remaps = Remap1("LT", Key("F13"))], Plain, Plain)
  \* a right stick that scrolls
  \cup Ordered([Base EXCEPT !.stick.rs = Mode("scroll")], Plain, Plain)

Axes(lm, lt, rt, dpad, ls, rs, gyro) ==
  [btns |-> lm, trig |-> [t \in Triggers |-> IF t = "LT" THEN lt ELSE rt],
   dpad |-> dpad, ls |-> ls, rs |-> rs, gyro |-> gyro]

AxisReports ==
  {Axes(lm, 0, 0, dpad, ls, 0, 0) :
     lm \in SUBSET {"LM"}, dpad \in {{}, {"up"}, {"up", "right"}}, ls \in 0 .. 1}
  \cup {Axes(lm, lt, rt, {}, 0, 0, 0) :
          lm \in SUBSET {"LM"}, lt \in 0 .. 2, rt \in {0, 2}}
  \cup {Axes(lm, 0, 0, {}, 0, rs, gyro) :
          lm \in SUBSET {"LM"}, rs \in 0 .. 1, gyro \in 0 .. 1}

MCConfigs == ButtonConfigs \cup AxisConfigs
MCReports == ButtonReports \cup AxisReports
================================================================================
