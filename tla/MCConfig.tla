-------------------------------- MODULE MCConfig --------------------------------
(* Config with every pair of settings out of each table, in both emulations:   *)
(* two remapped buttons and a layer that bears the name of a button.           *)
EXTENDS Config

Values == {"disabled", "mouse_left", "A", "KEY_F13", "KEY_HOME", "BTN_SOUTH",
           "KEY_MINUS"}

LayerSettings(section) ==
  {<<<<section, "M2", "trigger">>, b>> : b \in {"LM", "RT"}}
    \cup {<<<<section, "M2", "tap">>, v>> : v \in Values}
    \cup {<<<<section, "M2", "activation">>, "toggle">>}
    \cup {<<<<section, "M2", "remap", "A">>, v>> : v \in Values}
    \cup {<<<<section, "M2", "gyro", "mode">>, "mouse">>,
          <<<<section, "M2", "gyro", "sensitivity">>, "2.0">>}
    \cup {<<<<section, "M2", stick, "mode">>, m>> :
            stick \in {"stick_left", "stick_right"}, m \in {"mouse", "scroll"}}
    \cup {<<<<section, "M2", "dpad", "mode">>, m>> : m \in {"arrows", "gamepad"}}

MCSettings ==
  {<<<<"remap", b>>, v>> : b \in {"A", "M1", "M2", "LT"}, v \in Values}
    \cup {<<<<"gyro", "mode">>, m>> : m \in {"mouse", "joystick", "none"}}
    \cup {<<<<"stick", side, "mode">>, m>> :
            side \in {"left", "right"}, m \in {"mouse", "scroll"}}
    \cup {<<<<"dpad", "mode">>, "arrows">>}
    \cup LayerSettings("layer") \cup LayerSettings("mode_shift")

MCHeld == {"A", "M1", "M2"}

(* The other tables leave the codes of the gamepad alone.                      *)
MCHeldUnder == {"emulate_elite", "remap"}
================================================================================
