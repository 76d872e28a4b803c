--------------------------------- MODULE Config ---------------------------------
(* From the configuration file to the virtual devices: Config::load and        *)
(* parse_remap_target (config.cpp), keycode_from_name (keycodes.cpp), the      *)
(* devices Gamepad::open creates for what was loaded, with the key codes each  *)
(* registers, and the codes the buttons have on the gamepad (uinput.cpp).      *)
(*                                                                             *)
(* A file is a partial function from paths (the tables, then the key) to       *)
(* values.  Numbers of a setting, like sensitivities and timeouts, are left    *)
(* out but for the table they make exist.  Codes are those of                  *)
(* linux/input-event-codes.h; the kernel drops an event whose code the device  *)
(* did not register.                                                           *)
EXTENDS Integers, FiniteSets, SequencesExt

CONSTANTS
  Settings,     \* the <<path, value>> pairs the user may write (bound)
  MaxSettings,  \* how many of them a file holds, emulate_elite apart (bound)
  MaxHeld,      \* how many buttons are held at once (bound)
  HeldUnder,    \* the tables of a file under which buttons are held at all (bound)
  Held,         \* the buttons held (bound)
  Broken,       \* a file toml++ cannot parse, or no file
  NoTarget, Inherit, NoLayer, NoConfig

FaceButtons == {"A", "B", "X", "Y", "LB", "RB", "SELECT", "START", "L3", "R3"}
ExtButtons == {"C", "Z", "M1", "M2", "M3", "M4", "LM", "RM"}
Triggers == {"LT", "RT"}
Remappable == FaceButtons \cup ExtButtons

--------------------------------------------------------------------------------
(* Key codes.                                                                  *)

(* Names whose codes are consecutive, from that of the first of them.          *)
Block(first, names) == [first |-> first, names |-> names]
Place(names, name) == CHOOSE i \in DOMAIN names : names[i] = name
Named(blocks) == UNION {ToSet(b.names) : b \in blocks}

PadBlocks ==
  {Block(304, <<"BTN_SOUTH", "BTN_EAST">>), Block(307, <<"BTN_NORTH", "BTN_WEST">>),
   Block(310, <<"BTN_TL", "BTN_TR">>),
   Block(314, <<"BTN_SELECT", "BTN_START", "BTN_MODE", "BTN_THUMBL", "BTN_THUMBR">>)}

MouseBlock ==
  Block(272, <<"BTN_LEFT", "BTN_RIGHT", "BTN_MIDDLE", "BTN_SIDE", "BTN_EXTRA",
               "BTN_FORWARD", "BTN_BACK">>)

ArrowBlock ==
  Block(102, <<"KEY_HOME", "KEY_UP", "KEY_PAGEUP", "KEY_LEFT", "KEY_RIGHT", "KEY_END",
               "KEY_DOWN", "KEY_PAGEDOWN", "KEY_INSERT", "KEY_DELETE">>)

KeyBlocks ==
  {Block(1, <<"KEY_ESC", "KEY_1", "KEY_2", "KEY_3", "KEY_4", "KEY_5", "KEY_6", "KEY_7",
              "KEY_8", "KEY_9", "KEY_0">>),
   Block(14, <<"KEY_BACKSPACE", "KEY_TAB", "KEY_Q", "KEY_W", "KEY_E", "KEY_R", "KEY_T",
               "KEY_Y", "KEY_U", "KEY_I", "KEY_O", "KEY_P">>),
   Block(28, <<"KEY_ENTER", "KEY_LEFTCTRL", "KEY_A", "KEY_S", "KEY_D", "KEY_F", "KEY_G",
               "KEY_H", "KEY_J", "KEY_K", "KEY_L">>),
   Block(42, <<"KEY_LEFTSHIFT">>),
   Block(44, <<"KEY_Z", "KEY_X", "KEY_C", "KEY_V", "KEY_B", "KEY_N", "KEY_M">>),
   Block(54, <<"KEY_RIGHTSHIFT">>),
   Block(56, <<"KEY_LEFTALT", "KEY_SPACE", "KEY_CAPSLOCK", "KEY_F1", "KEY_F2", "KEY_F3",
               "KEY_F4", "KEY_F5", "KEY_F6", "KEY_F7", "KEY_F8", "KEY_F9", "KEY_F10">>),
   Block(87, <<"KEY_F11", "KEY_F12">>),
   Block(97, <<"KEY_RIGHTCTRL">>), Block(100, <<"KEY_RIGHTALT">>),
   Block(125, <<"KEY_LEFTMETA", "KEY_RIGHTMETA">>),
   Block(183, <<"KEY_F13", "KEY_F14", "KEY_F15", "KEY_F16", "KEY_F17", "KEY_F18",
                "KEY_F19", "KEY_F20", "KEY_F21", "KEY_F22", "KEY_F23", "KEY_F24">>),
   ArrowBlock, MouseBlock} \cup PadBlocks

KEY_TABLE ==
  [name \in Named(KeyBlocks) |->
     LET b == CHOOSE x \in KeyBlocks : name \in ToSet(x.names)
     IN  b.first - 1 + Place(b.names, name)]

PadNames == Named(PadBlocks)
MouseNames == Named({MouseBlock})
Arrows == Named({ArrowBlock})

NoCode == 0   \* an empty optional<int>
keycode_from_name(name) == IF name \in DOMAIN KEY_TABLE THEN KEY_TABLE[name] ELSE NoCode

--------------------------------------------------------------------------------
(* Config::load.                                                               *)

Target(type, code, btn) == [type |-> type, code |-> code, btn |-> btn]

MouseTargets ==
  [mouse_left |-> "BTN_LEFT", mouse_right |-> "BTN_RIGHT", mouse_middle |-> "BTN_MIDDLE",
   mouse_side |-> "BTN_SIDE", mouse_extra |-> "BTN_EXTRA", mouse_forward |-> "BTN_FORWARD",
   mouse_back |-> "BTN_BACK"]

parse_remap_target(value) ==
  IF value = "disabled" THEN Target("Disabled", 0, "")
  ELSE IF value \in DOMAIN MouseTargets
       THEN Target("MouseButton", KEY_TABLE[MouseTargets[value]], "")
  ELSE IF value \in Remappable THEN Target("GamepadButton", 0, value)
  ELSE IF value \in DOMAIN KEY_TABLE THEN Target("Key", keycode_from_name(value), "")
  ELSE NoTarget

(* What a table holds: its keys, and the value at a path where there is one.   *)
Keys(file, path) ==
  {p[Len(path) + 1] : p \in {q \in DOMAIN file : IsStrictPrefix(path, q)}}
At(file, path, default) == IF path \in DOMAIN file THEN file[path] ELSE default

(* A word a mode does not have is the first of its modes.                      *)
Mode(file, path, modes, default) ==
  LET word == At(file, path \o <<"mode">>, default)
  IN  IF word \in modes THEN word ELSE default

Gyro(file, path) == Mode(file, path, {"mouse", "joystick"}, "off")
Stick(file, path) == Mode(file, path, {"mouse", "scroll"}, "gamepad")
Dpad(file, path) == Mode(file, path, {"arrows"}, "gamepad")

(* A remap table: entries that are no string or name no target are left out.   *)
Remaps(file, path) ==
  LET target(b) == parse_remap_target(At(file, path \o <<b>>, "none"))
  IN  [b \in {x \in Keys(file, path) : target(x) # NoTarget} |-> target(b)]

(* A layer overrides what it has a table for, whatever that table says.        *)
parse_layer(file, path) ==
  LET own(key, parse(_, _)) ==
        IF Keys(file, path \o <<key>>) = {} THEN Inherit ELSE parse(file, path \o <<key>>)
  IN  [trigger |-> At(file, path \o <<"trigger">>, ""),
       tap |-> parse_remap_target(At(file, path \o <<"tap">>, "")),
       activation |-> IF At(file, path \o <<"activation">>, "hold") = "toggle"
                      THEN "toggle" ELSE "hold",
       gyro |-> own("gyro", Gyro),
       stick_left |-> own("stick_left", Stick),
       stick_right |-> own("stick_right", Stick),
       dpad |-> own("dpad", Dpad),
       remap |-> Remaps(file, path \o <<"remap">>)]

parse_mode_shift_NoDefault(file, name) ==   \* mutant: its trigger is not defaulted
  parse_layer(file, <<"mode_shift", name>>)
parse_mode_shift(file, name) ==
  LET layer == parse_layer(file, <<"mode_shift", name>>)
  IN  IF layer.trigger = "" THEN [layer EXCEPT !.trigger = name] ELSE layer

(* [mode_shift] is read last and replaces a [layer] of the same name.          *)
LoadLayers(file) ==
  LET shifts == Keys(file, <<"mode_shift">>)
  IN  [name \in Keys(file, <<"layer">>) \cup shifts |->
         IF name \in shifts THEN parse_mode_shift(file, name)
         ELSE parse_layer(file, <<"layer", name>>)]

Load(file) ==
  [emulate_elite |-> At(file, <<"emulate_elite">>, TRUE),
   ext_mappings |-> [b \in ExtButtons |-> keycode_from_name(At(file, <<"remap", b>>, "none"))],
   button_remaps |-> Remaps(file, <<"remap">>),
   gyro |-> Gyro(file, <<"gyro">>),
   stick_left |-> Stick(file, <<"stick", "left">>),
   stick_right |-> Stick(file, <<"stick", "right">>),
   dpad |-> Dpad(file, <<"dpad">>),
   layers |-> LoadLayers(file)]

--------------------------------------------------------------------------------
(* The devices Gamepad::open creates.                                          *)

TRIGGER_HAPPY(n) == 703 + n
DpadCodes == 544 .. 547

(* The codes Uinput::emit uses.                                                *)
PadCodes ==
  [A |-> "BTN_SOUTH", B |-> "BTN_EAST", X |-> "BTN_NORTH", Y |-> "BTN_WEST",
   LB |-> "BTN_TL", RB |-> "BTN_TR", SELECT |-> "BTN_SELECT", START |-> "BTN_START",
   L3 |-> "BTN_THUMBL", R3 |-> "BTN_THUMBR", HOME |-> "BTN_MODE"]
DEFAULT_EXT_CODES_InOrder ==   \* mutant: numbered like the array; LM has the code of O
  [C |-> 1, Z |-> 2, M1 |-> 5, M2 |-> 6, M3 |-> 7, M4 |-> 8, LM |-> 9, RM |-> 4]
DEFAULT_EXT_CODES ==
  [C |-> 1, Z |-> 2, M1 |-> 5, M2 |-> 7, M3 |-> 6, M4 |-> 8, LM |-> 3, RM |-> 4]
EmitOrder ==
  <<"A", "B", "X", "Y", "LB", "RB", "SELECT", "START", "L3", "R3",
    "C", "Z", "M1", "M2", "M3", "M4", "LM", "RM", "O", "HOME">>

Code(c, b) ==
  IF b \in ExtButtons
  THEN IF c.ext_mappings[b] # NoCode THEN c.ext_mappings[b]
       ELSE TRIGGER_HAPPY(DEFAULT_EXT_CODES[b])
  ELSE IF b = "O" THEN TRIGGER_HAPPY(9) ELSE KEY_TABLE[PadCodes[b]]

(* Uinput::create: the codes the gamepad registers.                            *)
UinputCreate(c) ==
  {KEY_TABLE[name] : name \in PadNames} \cup {TRIGGER_HAPPY(n) : n \in 1 .. 10}
    \cup ({c.ext_mappings[b] : b \in ExtButtons} \ {NoCode}) \cup DpadCodes

(* InputDevice::create: the mouse buttons, KEY_ESC to KEY_KPDOT, and others.   *)
OtherKeys ==
  Arrows \cup {"KEY_F11", "KEY_F12", "KEY_RIGHTCTRL", "KEY_RIGHTALT", "KEY_LEFTMETA",
               "KEY_RIGHTMETA"}
InputDeviceCreate ==
  1 .. 83 \cup 183 .. 194 \cup {KEY_TABLE[name] : name \in MouseNames \cup OtherKeys}

IsKey(target) == target # NoTarget /\ target.type \in {"Key", "MouseButton"}

LayerNeedsMouse_NoTap(layer) ==   \* mutant: the tap is not looked at
  \/ layer.gyro = "mouse"
  \/ layer.stick_right = "mouse" \/ layer.stick_left \in {"mouse", "scroll"}
  \/ layer.dpad = "arrows"
  \/ \E b \in DOMAIN layer.remap : IsKey(layer.remap[b])
LayerNeedsMouse(layer) ==
  \/ layer.gyro = "mouse"
  \/ layer.stick_right = "mouse" \/ layer.stick_left \in {"mouse", "scroll"}
  \/ layer.dpad = "arrows"
  \/ \E b \in DOMAIN layer.remap : IsKey(layer.remap[b])
  \/ IsKey(layer.tap)

needs_mouse(c) ==
  \/ c.gyro = "mouse"
  \/ c.stick_left \in {"mouse", "scroll"} \/ c.stick_right = "mouse"
  \/ c.dpad = "arrows"
  \/ ~c.emulate_elite /\ \E b \in DOMAIN c.button_remaps : IsKey(c.button_remaps[b])
  \/ \E l \in DOMAIN c.layers : LayerNeedsMouse(c.layers[l])

(* A section of [layer] or [mode_shift] is a table; what is held has an event. *)
IsPath(p) ==
  /\ p \in Seq(ToSet(p)) /\ Len(p) > 0
  /\ p[1] \in {"layer", "mode_shift"} => Len(p) > 2
ASSUME SettingsAssumption == \A s \in Settings : IsPath(s[1])

ASSUME HeldAssumption == Held \subseteq ToSet(EmitOrder)

--------------------------------------------------------------------------------
VARIABLES
  file,    \* the configuration file
  cfg,     \* cfg of main(), or NoConfig: the daemon does not run
  pad,     \* codes registered by the gamepad, none while there is no controller
  input,   \* codes registered by the InputDevice, none while there is none
  sent,    \* buttons of the state the gamepad was sent last
  down,    \* codes down on the gamepad
  missed   \* auxiliary: buttons whose last change was not written

vars == <<file, cfg, pad, input, sent, down, missed>>

NoDevices == pad' = {} /\ input' = {} /\ sent' = {} /\ down' = {} /\ missed' = {}

Init ==
  /\ file \in {<<>>, [path \in {<<"emulate_elite">>} |-> FALSE]}
  /\ cfg = NoConfig
  /\ pad = {} /\ input = {} /\ sent = {} /\ down = {} /\ missed = {}

(* The user writes the file while the daemon does not run: it is read once.    *)
Write(setting) ==
  /\ cfg = NoConfig /\ file # Broken
  /\ setting[1] \notin DOMAIN file
  /\ Cardinality(DOMAIN file \ {<<"emulate_elite">>}) < MaxSettings
  /\ file' = [path \in {setting[1]} \cup DOMAIN file |->
                IF path = setting[1] THEN setting[2] ELSE file[path]]
  /\ UNCHANGED <<cfg, pad, input, sent, down, missed>>

Break ==
  /\ cfg = NoConfig
  /\ file' = Broken
  /\ UNCHANGED <<cfg, pad, input, sent, down, missed>>

(* main(): a file that does not load leaves the defaults, those of an empty    *)
(* one.                                                                        *)
FileRead == IF file = Broken THEN <<>> ELSE file
Start ==
  /\ cfg = NoConfig
  /\ cfg' = Load(FileRead)
  /\ UNCHANGED <<file, pad, input, sent, down, missed>>

Stop ==
  /\ cfg # NoConfig
  /\ cfg' = NoConfig
  /\ NoDevices
  /\ UNCHANGED file

(* Gamepad::open, when the controller is there.                                *)
Open ==
  /\ cfg # NoConfig /\ pad = {}
  /\ pad' = UinputCreate(cfg)
  /\ input' = IF needs_mouse(cfg) THEN InputDeviceCreate ELSE {}
  /\ UNCHANGED <<file, cfg, sent, down, missed>>

Lose ==
  /\ pad # {}
  /\ NoDevices
  /\ UNCHANGED <<file, cfg>>

(* The codes down after the events of the buttons that moved, one after the    *)
(* other in EmitOrder: of buttons that share a code the last one decides.      *)
EmitButtons_PressOnly(now) ==   \* mutant: if (curr), not if (curr != old)
  down \cup ({Code(cfg, b) : b \in now} \cap pad)
EmitButtons(now) ==
  LET moved == (now \ sent) \cup (sent \ now)
      place(b) == Place(EmitOrder, b)
      last == {b \in moved : \A a \in moved :
                 Code(cfg, a) = Code(cfg, b) => place(a) <= place(b)}
  IN  (down \ {Code(cfg, b) : b \in moved}) \cup ({Code(cfg, b) : b \in last \cap now} \cap pad)

(* Uinput::emit of a state in which the buttons now are down: what suppression *)
(* and injection leave of a report.  Writing the events fails as a whole, and  *)
(* Gamepad::poll takes the state for sent all the same.                        *)
Emit(now) ==
  /\ pad # {}
  /\ sent' = now
  /\ LET moved == (now \ sent) \cup (sent \ now) IN
     \/ /\ down' = EmitButtons(now)
        /\ missed' = missed \ moved
     \/ /\ missed' = missed \cup moved
        /\ UNCHANGED down
  /\ UNCHANGED <<file, cfg, pad, input>>

Next ==
  \/ \E s \in Settings : Write(s)
  \/ Break \/ Start \/ Stop \/ Open \/ Lose
  \/ /\ {path[1] : path \in DOMAIN FileRead} \subseteq HeldUnder
     /\ \E now \in {s \in SUBSET Held : Cardinality(s) <= MaxHeld} : Emit(now)

Spec == Init /\ [][Next]_vars

--------------------------------------------------------------------------------
(* The layers a report can make active, or none.                               *)
Places == {NoLayer} \cup {l \in DOMAIN cfg.layers :
                            cfg.layers[l].trigger \in Remappable \cup Triggers}
InForce(place, setting) ==
  IF place # NoLayer /\ cfg.layers[place][setting] # Inherit
  THEN cfg.layers[place][setting] ELSE cfg[setting]

(* The codes the pipeline sends to the InputDevice, with a layer active or     *)
(* none: those of remaps of buttons there are, the arrow keys, and the tap.    *)
CodesSent(place) ==
  LET layer == IF place = NoLayer THEN <<>> ELSE cfg.layers[place].remap
      base == IF cfg.emulate_elite THEN <<>> ELSE cfg.button_remaps
      codes(remap, names) ==
        {remap[b].code : b \in {x \in names \cap (Remappable \cup Triggers) : IsKey(remap[x])}}
  IN  codes(layer, DOMAIN layer) \cup codes(base, DOMAIN base \ DOMAIN layer)
        \cup {KEY_TABLE[key] : key \in {k \in {"KEY_UP", "KEY_DOWN", "KEY_LEFT", "KEY_RIGHT"} :
                                          InForce(place, "dpad") = "arrows"}}
        \cup {cfg.layers[l].tap.code : l \in {x \in {place} \ {NoLayer} :
                                                IsKey(cfg.layers[x].tap)}}

(* The motion it sends there.                                                  *)
MotionSent(place) ==
  {s \in {"gyro", "stick_left", "stick_right"} : InForce(place, s) \in {"mouse", "scroll"}}

(* Whatever layer a report may make active, the devices created once at the    *)
(* start can send what it asks for.  Two things they cannot: the codes of the  *)
(* gamepad's own buttons, which the kernel drops, so that a button remapped to *)
(* one is dead; and the wheel of the right stick, which gets no device when    *)
(* nothing else wants one.                                                     *)
DevicesForEveryLayer ==
  pad # {} =>
    \A place \in Places :
      /\ \A code \in CodesSent(place) :
           code \notin input <=> \E name \in PadNames : KEY_TABLE[name] = code
      /\ \A s \in MotionSent(place) :
           input # {} \/ (s = "stick_right" /\ InForce(place, s) = "scroll")

(* The key named for a button of the gamepad, by [remap] or by uinput.cpp.     *)
KeyNamed(b) ==
  IF b \in DOMAIN PadCodes THEN PadCodes[b]
  ELSE IF b \in ExtButtons THEN At(FileRead, <<"remap", b>>, "none") ELSE "none"

(* The extra buttons whose code [remap] decides although emulate_elite is set. *)
(* openspec/specs/remap-system/spec.md:14 says that [remap] is ignored then:   *)
(* "(buttons pass to gamepad)".                                                *)
Disputed == {b \in ExtButtons : cfg.emulate_elite /\ KeyNamed(b) \in DOMAIN KEY_TABLE}

(* Two buttons of the gamepad share a code exactly where one key is named for  *)
(* both: two extra buttons, or an extra one and one of the others; with        *)
(* emulate_elite none do.  Nothing is claimed of the codes in dispute.         *)
SharedOnlyWhereNamed ==
  cfg # NoConfig => \A a, b \in ToSet(EmitOrder) \ Disputed :
    a # b => (Code(cfg, a) = Code(cfg, b) <=>
                /\ ~cfg.emulate_elite
                /\ KeyNamed(a) = KeyNamed(b) /\ KeyNamed(a) \in DOMAIN KEY_TABLE)

(* A button that is held has its code down, and no other code is down: but for *)
(* a code two buttons share, which the release of one takes from the other,    *)
(* and for a button whose last change was lost, until it moves again.          *)
PadFollowsButtons ==
  /\ down \subseteq {Code(cfg, b) : b \in sent \cup missed}
  /\ \A b \in sent \ missed :
       \/ Code(cfg, b) \in down
       \/ \E a \in (ToSet(EmitOrder) \ sent) \cup missed : Code(cfg, a) = Code(cfg, b)

(* A file that follows the warning about [mode_shift]: the section renamed, in *)
(* place of a [layer] of that name, and its trigger spelled out.               *)
Renamed(p) == IF p[1] = "mode_shift" THEN [p EXCEPT ![1] = "layer"] ELSE p
Migrated(f) ==
  LET shifts == Keys(f, <<"mode_shift">>)
      kept == {p \in DOMAIN f : ~(p[1] = "layer" /\ p[2] \in shifts)}
      unnamed == {n \in shifts : At(f, <<"mode_shift", n, "trigger">>, "") = ""}
      spelled == {<<"layer", n, "trigger">> : n \in unnamed}
  IN  [p \in spelled \cup {Renamed(q) : q \in kept} |->
         IF p \in spelled THEN p[2] ELSE f[CHOOSE q \in kept : Renamed(q) = p]]

(* Moving a deprecated section into [layer] changes nothing.                   *)
MigrationKeepsMeaning == cfg # NoConfig => Load(Migrated(FileRead)) = cfg
================================================================================
