------------------------------ MODULE ConfigProofs ------------------------------
(* Theorems about Config, for every file, however many settings it holds, and  *)
(* every number of buttons held at once.                                       *)
EXTENDS Config, SequenceTheorems, WellFoundedInduction, TLAPS

--------------------------------------------------------------------------------
(* The table of key names.                                                     *)

Spans(b, first, n) == b.first = first /\ DOMAIN b.names = 1 .. n

(* The blocks, each by its first code and the number of its names.             *)
LEMMA BlockSizes ==
  \A b \in KeyBlocks :
    \/ Spans(b, 1, 11) \/ Spans(b, 14, 12) \/ Spans(b, 28, 11) \/ Spans(b, 42, 1)
    \/ Spans(b, 44, 7) \/ Spans(b, 54, 1) \/ Spans(b, 56, 13) \/ Spans(b, 87, 2)
    \/ Spans(b, 97, 1) \/ Spans(b, 100, 1) \/ Spans(b, 102, 10) \/ Spans(b, 125, 2)
    \/ Spans(b, 183, 12) \/ Spans(b, 272, 7) \/ Spans(b, 304, 2) \/ Spans(b, 307, 2)
    \/ Spans(b, 310, 2) \/ Spans(b, 314, 5)
BY DEF KeyBlocks, PadBlocks, MouseBlock, ArrowBlock, Block, Spans

(* The codes are numbers, and so are the places in a block.                    *)
LEMMA BlockTypes == \A b \in KeyBlocks : b.first \in Int /\ DOMAIN b.names \subseteq Int
BY BlockSizes DEF Spans

(* Name is the i-th of block b.                                                *)
IsAt(name, b, i) == i \in DOMAIN b.names /\ b.names[i] = name

(* No two blocks begin with the same code, or overlap.                         *)
LEMMA BlocksApart ==
  \A b, c \in KeyBlocks : \A i, j :
    i \in DOMAIN b.names /\ j \in DOMAIN c.names /\ b.first + i = c.first + j
      => b = c /\ i = j
<1>1. \A b, c \in KeyBlocks : b.first = c.first => b = c
  BY DEF KeyBlocks, PadBlocks, MouseBlock, ArrowBlock, Block
<1>2. \A b, c \in KeyBlocks : \A i \in DOMAIN b.names, j \in DOMAIN c.names :
        b.first + i = c.first + j => b.first = c.first
  BY BlockSizes, SMTT(60) DEF Spans
<1>3. ASSUME NEW b \in KeyBlocks, NEW c \in KeyBlocks, NEW i, NEW j,
             i \in DOMAIN b.names, j \in DOMAIN c.names, b.first + i = c.first + j
      PROVE  b = c /\ i = j
  <2>1. i \in Int /\ j \in Int /\ b.first \in Int
    BY <1>3, BlockTypes
  <2>2. b.first = c.first
    BY <1>2, <1>3
  <2>3. b.first + i = c.first + j
    BY <1>3
  <2>4. i = j
    BY <2>1, <2>2, <2>3
  <2> QED BY <1>1, <2>2, <2>4
<1> QED BY <1>3

(* Every name has a block, a place in it, and the code of that place.          *)
LEMMA NameHasPlace ==
  ASSUME NEW name \in DOMAIN KEY_TABLE
  PROVE  \E b \in KeyBlocks : \E i : IsAt(name, b, i) /\ KEY_TABLE[name] = b.first - 1 + i
<1> DEFINE b == CHOOSE x \in KeyBlocks : name \in ToSet(x.names)
<1>1. \E x \in KeyBlocks : name \in ToSet(x.names)
  BY DEF KEY_TABLE, Named
<1>2. b \in KeyBlocks /\ name \in ToSet(b.names)
  BY <1>1
<1>3. KEY_TABLE[name] = b.first - 1 + Place(b.names, name)
  BY DEF KEY_TABLE
<1> HIDE DEF b
<1>4. IsAt(name, b, Place(b.names, name))
  BY <1>2 DEF ToSet, Place, IsAt
<1> QED BY <1>2, <1>3, <1>4

(* No two names have the same code.                                            *)
LEMMA KeyTableInjective ==
  \A m, n \in DOMAIN KEY_TABLE : KEY_TABLE[m] = KEY_TABLE[n] => m = n
<1> SUFFICES ASSUME NEW m \in DOMAIN KEY_TABLE, NEW n \in DOMAIN KEY_TABLE,
                    KEY_TABLE[m] = KEY_TABLE[n]
             PROVE  m = n
  OBVIOUS
<1>1. PICK b \in KeyBlocks : \E i : IsAt(m, b, i) /\ KEY_TABLE[m] = b.first - 1 + i
  BY NameHasPlace
<1>2. PICK c \in KeyBlocks : \E i : IsAt(n, c, i) /\ KEY_TABLE[n] = c.first - 1 + i
  BY NameHasPlace
<1>3. PICK x \in Int, i \in Int : x = b.first /\ IsAt(m, b, i) /\ KEY_TABLE[m] = x - 1 + i
  BY <1>1, BlockTypes DEF IsAt
<1>4. PICK y \in Int, j \in Int : y = c.first /\ IsAt(n, c, j) /\ KEY_TABLE[n] = y - 1 + j
  BY <1>2, BlockTypes DEF IsAt
<1>5. x + i = y + j
  <2>1. x - 1 + i = y - 1 + j
    BY <1>3, <1>4
  <2> QED BY <2>1
<1>6. b = c /\ i = j
  BY <1>3, <1>4, <1>5, BlocksApart DEF IsAt
<1> QED BY <1>3, <1>4, <1>6 DEF IsAt

(* The codes are those of keys and buttons, from 1 to 318.                     *)
LEMMA KeyTableRange == \A n \in DOMAIN KEY_TABLE : KEY_TABLE[n] \in 1 .. 318
BY NameHasPlace, BlockSizes DEF Spans, IsAt

(* The keys uinput.cpp names for the buttons have codes, each its own.         *)
LEMMA PadCodesNamed ==
  /\ PadNames \subseteq DOMAIN KEY_TABLE
  /\ \A b \in DOMAIN PadCodes : PadCodes[b] \in PadNames
  /\ \A a, b \in DOMAIN PadCodes : PadCodes[a] = PadCodes[b] => a = b
<1>1. PadNames \subseteq DOMAIN KEY_TABLE
  BY DEF PadNames, KEY_TABLE, Named, KeyBlocks
<1>2. \A b \in DOMAIN PadCodes : PadCodes[b] \in PadNames
  BY DEF PadCodes, PadNames, PadBlocks, Named, Block, ToSet
<1>3. \A a, b \in DOMAIN PadCodes : PadCodes[a] = PadCodes[b] => a = b
  BY DEF PadCodes
<1> QED BY <1>1, <1>2, <1>3

(* A key that is not named has no code.                                        *)
LEMMA NoneIsNoKey == "none" \notin DOMAIN KEY_TABLE
<1>1. \A b \in KeyBlocks : \A i \in DOMAIN b.names : b.names[i] # "none"
  BY DEF KeyBlocks, PadBlocks, MouseBlock, ArrowBlock, Block
<1> QED BY <1>1, NameHasPlace DEF IsAt

(* The buttons that have an event, and their places in the order of these.     *)
LEMMA Buttons == ToSet(EmitOrder) = DOMAIN PadCodes \cup ExtButtons \cup {"O"}
<1>1. DOMAIN EmitOrder = 1 .. 20
  BY DEF EmitOrder
<1>2. \A i \in 1 .. 20 : EmitOrder[i] \in DOMAIN PadCodes \cup ExtButtons \cup {"O"}
  BY DEF EmitOrder, PadCodes, ExtButtons
<1>3. \A b \in DOMAIN PadCodes \cup ExtButtons \cup {"O"} : \E i \in 1 .. 20 : EmitOrder[i] = b
  BY DEF EmitOrder, PadCodes, ExtButtons
<1> QED BY <1>1, <1>2, <1>3 DEF ToSet

--------------------------------------------------------------------------------
(* The codes of the gamepad.                                                   *)

(* The number of the TRIGGER_HAPPY code of a button without a key.             *)
Number(b) == IF b = "O" THEN 9 ELSE DEFAULT_EXT_CODES[b]

(* No two buttons have the same number.                                        *)
LEMMA NumbersDiffer ==
  \A a, b \in ExtButtons \cup {"O"} :
    Number(a) \in 1 .. 9 /\ (Number(a) = Number(b) => a = b)
BY DEF Number, DEFAULT_EXT_CODES, ExtButtons

(* The fields of what is loaded.                                               *)
LEMMA Loaded ==
  \A f :
    /\ Load(f).emulate_elite = At(f, <<"emulate_elite">>, TRUE)
    /\ Load(f).ext_mappings =
         [b \in ExtButtons |-> keycode_from_name(At(f, <<"remap", b>>, "none"))]
    /\ Load(f).button_remaps = Remaps(f, <<"remap">>)
    /\ Load(f).layers = LoadLayers(f)
BY DEF Load

(* A button has the code of the key named for it, else one of TRIGGER_HAPPY.   *)
LEMMA CodeIs ==
  ASSUME cfg = Load(FileRead), NEW b \in ToSet(EmitOrder)
  PROVE  /\ KeyNamed(b) \in DOMAIN KEY_TABLE => Code(cfg, b) = KEY_TABLE[KeyNamed(b)]
         /\ KeyNamed(b) \notin DOMAIN KEY_TABLE =>
              b \in ExtButtons \cup {"O"} /\ Code(cfg, b) = TRIGGER_HAPPY(Number(b))
<1>0. DOMAIN PadCodes \cap (ExtButtons \cup {"O"}) = {} /\ "O" \notin ExtButtons
  BY DEF PadCodes, ExtButtons
<1>1. CASE b \in DOMAIN PadCodes
  BY <1>0, <1>1, PadCodesNamed DEF Code, KeyNamed
<1>2. CASE b \in ExtButtons
  <2> DEFINE name == At(FileRead, <<"remap", b>>, "none")
  <2>1. KeyNamed(b) = name
    BY <1>0, <1>2 DEF KeyNamed
  <2>2. cfg.ext_mappings[b] = keycode_from_name(name)
    BY <1>2, Loaded
  <2> HIDE DEF name
  <2>3. CASE name \in DOMAIN KEY_TABLE
    <3>1. KEY_TABLE[name] # NoCode
      BY <2>3, KeyTableRange DEF NoCode
    <3> QED BY <1>2, <2>1, <2>2, <2>3, <3>1 DEF Code, keycode_from_name
  <2>4. CASE name \notin DOMAIN KEY_TABLE
    BY <1>0, <1>2, <2>1, <2>2, <2>4 DEF Code, keycode_from_name, Number
  <2> QED BY <2>3, <2>4
<1>3. CASE b = "O"
  BY <1>0, <1>3, NoneIsNoKey DEF Code, KeyNamed, Number
<1> QED BY <1>1, <1>2, <1>3, Buttons

(* Two buttons share a code exactly where one key is named for both.           *)
LEMMA SharedCodes ==
  ASSUME cfg = Load(FileRead),
         NEW a \in ToSet(EmitOrder), NEW b \in ToSet(EmitOrder), a # b
  PROVE  Code(cfg, a) = Code(cfg, b) <=>
           KeyNamed(a) = KeyNamed(b) /\ KeyNamed(a) \in DOMAIN KEY_TABLE
<1> DEFINE named(x) == KeyNamed(x) \in DOMAIN KEY_TABLE
<1>1. \A x \in {a, b} : named(x) =>
        Code(cfg, x) = KEY_TABLE[KeyNamed(x)] /\ Code(cfg, x) \in 1 .. 318
  BY CodeIs, KeyTableRange
<1>2. \A x \in {a, b} : ~named(x) =>
        x \in ExtButtons \cup {"O"} /\ Code(cfg, x) = 703 + Number(x) /\ Number(x) \in 1 .. 9
  BY CodeIs, NumbersDiffer DEF TRIGGER_HAPPY
<1>3. CASE named(a) /\ named(b)
  BY <1>1, <1>3, KeyTableInjective
<1>4. CASE ~named(a) /\ ~named(b)
  BY <1>2, <1>4, NumbersDiffer
<1>5. CASE named(a) /\ ~named(b)
  BY <1>1, <1>2, <1>5
<1>6. CASE ~named(a) /\ named(b)
  BY <1>1, <1>2, <1>6
<1> QED BY <1>3, <1>4, <1>5, <1>6

--------------------------------------------------------------------------------
(* The codes of the InputDevice.                                               *)

KeyCodes == {KEY_TABLE[name] : name \in DOMAIN KEY_TABLE}

(* No other block has the name of a button of the gamepad.                     *)
LEMMA PadNamesApart ==
  \A b \in KeyBlocks \ PadBlocks : \A i \in DOMAIN b.names : b.names[i] \notin PadNames
<1>1. PadNames \subseteq {"BTN_SOUTH", "BTN_EAST", "BTN_NORTH", "BTN_WEST", "BTN_TL", "BTN_TR",
                          "BTN_SELECT", "BTN_START", "BTN_MODE", "BTN_THUMBL", "BTN_THUMBR"}
  BY DEF PadNames, Named, PadBlocks, Block, ToSet
<1>2. \A b \in KeyBlocks \ PadBlocks : \A i \in DOMAIN b.names :
        b.names[i] \notin {"BTN_SOUTH", "BTN_EAST", "BTN_NORTH", "BTN_WEST", "BTN_TL", "BTN_TR",
                           "BTN_SELECT", "BTN_START", "BTN_MODE", "BTN_THUMBL", "BTN_THUMBR"}
  BY DEF KeyBlocks, PadBlocks, MouseBlock, ArrowBlock, Block
<1> QED BY <1>1, <1>2

(* The codes of the buttons of the gamepad are those from 304 on.              *)
LEMMA PadCodesHigh ==
  \A name \in DOMAIN KEY_TABLE : name \in PadNames <=> KEY_TABLE[name] >= 304
<1>1. \A b \in KeyBlocks : b \in PadBlocks <=> b.first >= 304
  BY DEF KeyBlocks, PadBlocks, MouseBlock, ArrowBlock, Block
<1>2. \A b \in KeyBlocks : \A i \in DOMAIN b.names : b.first >= 304 <=> b.first - 1 + i >= 304
  BY BlockSizes DEF Spans
<1>3. ASSUME NEW name \in DOMAIN KEY_TABLE PROVE name \in PadNames <=> KEY_TABLE[name] >= 304
  <2>1. PICK b \in KeyBlocks : \E i : IsAt(name, b, i) /\ KEY_TABLE[name] = b.first - 1 + i
    BY NameHasPlace
  <2>2. b \in PadBlocks => name \in PadNames
    BY <2>1 DEF IsAt, PadNames, Named, ToSet
  <2>3. b \notin PadBlocks => name \notin PadNames
    BY <2>1, PadNamesApart DEF IsAt
  <2>4. KEY_TABLE[name] >= 304 <=> b.first >= 304
    BY <1>2, <2>1 DEF IsAt
  <2> QED BY <1>1, <2>2, <2>3, <2>4
<1> QED BY <1>3

(* A named key has a code the InputDevice registers, unless it is a button of  *)
(* the gamepad.                                                                *)
LEMMA Registered ==
  ASSUME NEW name \in DOMAIN KEY_TABLE
  PROVE  KEY_TABLE[name] \in InputDeviceCreate <=> name \notin PadNames
<1> DEFINE others == MouseNames \cup OtherKeys
<1>1. others \subseteq DOMAIN KEY_TABLE /\ others \cap PadNames = {}
  <2>1. MouseNames \cup Arrows \subseteq DOMAIN KEY_TABLE
    BY DEF MouseNames, Arrows, KEY_TABLE, Named, KeyBlocks
  <2>2. (MouseNames \cup Arrows) \cap PadNames = {}
    <3>1. {MouseBlock, ArrowBlock} \subseteq KeyBlocks \ PadBlocks
      BY DEF KeyBlocks, MouseBlock, ArrowBlock, PadBlocks, Block
    <3> QED BY <3>1, PadNamesApart DEF MouseNames, Arrows, Named, ToSet
  <2>3. \A n \in {"KEY_F11", "KEY_F12", "KEY_RIGHTCTRL", "KEY_RIGHTALT", "KEY_LEFTMETA",
                  "KEY_RIGHTMETA"} :
          n \in DOMAIN KEY_TABLE /\ n \notin PadNames
    <3> DEFINE few == {Block(87, <<"KEY_F11", "KEY_F12">>), Block(97, <<"KEY_RIGHTCTRL">>),
                       Block(100, <<"KEY_RIGHTALT">>),
                       Block(125, <<"KEY_LEFTMETA", "KEY_RIGHTMETA">>)}
    <3>1. few \subseteq KeyBlocks \ PadBlocks
      BY DEF KeyBlocks, PadBlocks, Block
    <3>2. \A n \in {"KEY_F11", "KEY_F12", "KEY_RIGHTCTRL", "KEY_RIGHTALT", "KEY_LEFTMETA",
                    "KEY_RIGHTMETA"} :
            \E b \in few : \E i \in DOMAIN b.names : b.names[i] = n
      BY DEF Block
    <3> HIDE DEF few
    <3> QED BY <3>1, <3>2, PadNamesApart DEF KEY_TABLE, Named, ToSet
  <2> QED BY <2>1, <2>2, <2>3 DEF OtherKeys
<1>2. ASSUME name \in PadNames PROVE KEY_TABLE[name] \notin InputDeviceCreate
  <2>1. KEY_TABLE[name] >= 304 /\ KEY_TABLE[name] \in 1 .. 318
    BY <1>2, PadCodesHigh, KeyTableRange
  <2>2. \A n \in others : ~ (KEY_TABLE[n] >= 304)
    BY <1>1, PadCodesHigh
  <2>3. KEY_TABLE[name] \notin 1 .. 83 \cup 183 .. 194
    BY <2>1
  <2>4. KEY_TABLE[name] \notin {KEY_TABLE[n] : n \in others}
    BY <2>1, <2>2
  <2> QED BY <2>3, <2>4 DEF InputDeviceCreate
<1>3. ASSUME name \notin PadNames PROVE KEY_TABLE[name] \in InputDeviceCreate
  <2>1. PICK b \in KeyBlocks : \E i : IsAt(name, b, i) /\ KEY_TABLE[name] = b.first - 1 + i
    BY NameHasPlace
  <2>2. b \notin PadBlocks
    BY <1>3, <2>1 DEF IsAt, PadNames, Named, ToSet
  <2>3. CASE b \in {MouseBlock, ArrowBlock}
    BY <2>1, <2>3 DEF IsAt, MouseNames, Arrows, Named, ToSet, OtherKeys, InputDeviceCreate
  <2>4. CASE b.first \in {87, 97, 100, 125} /\ b \notin {MouseBlock, ArrowBlock}
    <3>1. \A c \in KeyBlocks : c.first \in {87, 97, 100, 125} =>
            \A i \in DOMAIN c.names : c.names[i] \in OtherKeys
      BY DEF KeyBlocks, PadBlocks, MouseBlock, ArrowBlock, Block, OtherKeys
    <3> QED BY <2>1, <2>4, <3>1 DEF IsAt, InputDeviceCreate
  <2>5. CASE b.first \notin {87, 97, 100, 125} /\ b \notin {MouseBlock, ArrowBlock}
    <3>1. \A c \in KeyBlocks \ PadBlocks :
            c \in {MouseBlock, ArrowBlock} \/ c.first \in {87, 97, 100, 125, 183} \/ c.first < 57
      BY DEF KeyBlocks, PadBlocks, MouseBlock, ArrowBlock, Block
    <3>2. \A c \in KeyBlocks : \A i \in DOMAIN c.names :
            c.first < 57 \/ c.first = 183 => c.first - 1 + i \in 1 .. 83 \cup 183 .. 194
      BY BlockSizes DEF Spans
    <3> QED BY <2>1, <2>2, <2>5, <3>1, <3>2 DEF IsAt, InputDeviceCreate
  <2> QED BY <2>3, <2>4, <2>5
<1> QED BY <1>2, <1>3

(* The target of a key has the code of a named key.                            *)
LEMMA TargetCodes == \A v : IsKey(parse_remap_target(v)) => parse_remap_target(v).code \in KeyCodes
<1>1. \A v \in DOMAIN MouseTargets : MouseTargets[v] \in DOMAIN KEY_TABLE
  <2>1. \A v \in DOMAIN MouseTargets : MouseTargets[v] \in ToSet(MouseBlock.names)
    BY DEF MouseTargets, MouseBlock, Block, ToSet
  <2> QED BY <2>1 DEF KEY_TABLE, Named, KeyBlocks
<1> SUFFICES ASSUME NEW v, IsKey(parse_remap_target(v))
             PROVE  parse_remap_target(v).code \in KeyCodes
  OBVIOUS
<1>2. v # "disabled" /\ (v \in DOMAIN MouseTargets \/ v \notin Remappable)
  BY DEF parse_remap_target, IsKey, Target
<1>3. CASE v \in DOMAIN MouseTargets
  <2>1. parse_remap_target(v).code = KEY_TABLE[MouseTargets[v]]
    BY <1>2, <1>3 DEF parse_remap_target, Target
  <2> QED BY <1>1, <1>3, <2>1 DEF KeyCodes
<1>4. CASE v \notin DOMAIN MouseTargets
  <2>1. v \in DOMAIN KEY_TABLE
    BY <1>2, <1>4 DEF parse_remap_target, IsKey
  <2>2. parse_remap_target(v).code = KEY_TABLE[v]
    BY <1>2, <1>4, <2>1 DEF parse_remap_target, keycode_from_name, Target
  <2> QED BY <2>1, <2>2 DEF KeyCodes
<1> QED BY <1>3, <1>4

(* So do those of a remap table.                                               *)
LEMMA RemapCodes ==
  \A f, path : \A b \in DOMAIN Remaps(f, path) :
    IsKey(Remaps(f, path)[b]) => Remaps(f, path)[b].code \in KeyCodes
BY TargetCodes DEF Remaps

(* The fields of a layer that ask for codes.                                   *)
LEMMA LayerFields ==
  \A f, path :
    /\ parse_layer(f, path).trigger = At(f, path \o <<"trigger">>, "")
    /\ parse_layer(f, path).tap = parse_remap_target(At(f, path \o <<"tap">>, ""))
    /\ parse_layer(f, path).remap = Remaps(f, path \o <<"remap">>)
BY DEF parse_layer

(* The keys of a layer are named keys.                                         *)
LEMMA LayerCodes ==
  ASSUME NEW f, NEW l \in DOMAIN LoadLayers(f)
  PROVE  LET layer == LoadLayers(f)[l] IN
         /\ IsKey(layer.tap) => layer.tap.code \in KeyCodes
         /\ \A b \in DOMAIN layer.remap : IsKey(layer.remap[b]) => layer.remap[b].code \in KeyCodes
<1>1. \A path : LET layer == parse_layer(f, path) IN
        /\ IsKey(layer.tap) => layer.tap.code \in KeyCodes
        /\ \A b \in DOMAIN layer.remap : IsKey(layer.remap[b]) => layer.remap[b].code \in KeyCodes
  BY LayerFields, TargetCodes, RemapCodes
<1>2. \A name : /\ parse_mode_shift(f, name).tap = parse_layer(f, <<"mode_shift", name>>).tap
                /\ parse_mode_shift(f, name).remap = parse_layer(f, <<"mode_shift", name>>).remap
  BY DEF parse_mode_shift, parse_layer
<1>3. LoadLayers(f)[l] = parse_mode_shift(f, l) \/ LoadLayers(f)[l] = parse_layer(f, <<"layer", l>>)
  BY DEF LoadLayers
<1> QED BY <1>1, <1>2, <1>3

--------------------------------------------------------------------------------
(* The devices are enough.                                                     *)

FileOK(f) == \A p \in DOMAIN f : IsPath(p)

(* What runs was loaded from the file, and the devices were opened for it.     *)
CfgInv ==
  /\ FileOK(FileRead)
  /\ cfg # NoConfig => cfg = Load(FileRead)
  /\ pad # {} => /\ cfg # NoConfig
                 /\ pad = UinputCreate(cfg)
                 /\ input = IF needs_mouse(cfg) THEN InputDeviceCreate ELSE {}

LEMMA InitCfgInv == Init => CfgInv
<1> SUFFICES ASSUME Init PROVE CfgInv
  OBVIOUS
<1>1. DOMAIN FileRead \subseteq {<<"emulate_elite">>}
  BY DEF Init, FileRead
<1>2. IsPath(<<"emulate_elite">>)
  BY DEF IsPath, ToSet
<1>3. FileOK(FileRead)
  BY <1>1, <1>2 DEF FileOK
<1> QED BY <1>3 DEF Init, CfgInv

(* Every action keeps it: only Start loads, only Open opens.                   *)
LEMMA NextCfgInv == CfgInv /\ [Next]_vars => CfgInv'
<1> SUFFICES ASSUME CfgInv, [Next]_vars PROVE CfgInv'
  OBVIOUS
<1> USE DEF CfgInv
<1>1. ASSUME NEW s \in Settings, Write(s) PROVE CfgInv'
  <2>1. DOMAIN file' = {s[1]} \cup DOMAIN file
    BY <1>1 DEF Write
  <2>2. FileRead = file
    BY <1>1 DEF Write, FileRead
  <2>3. DOMAIN FileRead' \subseteq {s[1]} \cup DOMAIN file
    BY <2>1 DEF FileRead
  <2>4. FileOK(FileRead')
    BY <2>2, <2>3, SettingsAssumption DEF FileOK
  <2> QED BY <1>1, <2>4 DEF Write
<1>2. CASE Break
  <2>1. DOMAIN FileRead' = {}
    BY <1>2 DEF Break, FileRead
  <2> QED BY <1>2, <2>1 DEF Break, FileOK
<1>3. CASE Start
  BY <1>3 DEF Start, FileRead
<1>4. CASE Stop
  BY <1>4 DEF Stop, NoDevices, FileRead
<1>5. CASE Open
  BY <1>5 DEF Open, FileRead
<1>6. CASE Lose
  BY <1>6 DEF Lose, NoDevices, FileRead
<1>7. ASSUME NEW now, Emit(now) PROVE CfgInv'
  BY <1>7 DEF Emit, FileRead
<1>8. CASE UNCHANGED vars
  BY <1>8 DEF vars, FileRead
<1> QED BY <1>1, <1>2, <1>3, <1>4, <1>5, <1>6, <1>7, <1>8 DEF Next

LEMMA CfgInductive == Spec => []CfgInv
BY InitCfgInv, NextCfgInv, PTL DEF Spec

(* Two buttons of the gamepad share a code exactly where the file names one    *)
(* key for both, and with emulate_elite none do; of codes that [remap] decides *)
(* under emulate_elite nothing is said.                                        *)
THEOREM SharedByName == Spec => []SharedOnlyWhereNamed
<1>1. CfgInv => SharedOnlyWhereNamed
  <2> SUFFICES ASSUME CfgInv, cfg # NoConfig,
                      NEW a \in ToSet(EmitOrder) \ Disputed,
                      NEW b \in ToSet(EmitOrder) \ Disputed, a # b
               PROVE  Code(cfg, a) = Code(cfg, b) <=>
                        /\ ~cfg.emulate_elite
                        /\ KeyNamed(a) = KeyNamed(b) /\ KeyNamed(a) \in DOMAIN KEY_TABLE
    BY DEF SharedOnlyWhereNamed
  <2>1. Code(cfg, a) = Code(cfg, b) <=>
          KeyNamed(a) = KeyNamed(b) /\ KeyNamed(a) \in DOMAIN KEY_TABLE
    BY SharedCodes DEF CfgInv
  <2>2. ASSUME cfg.emulate_elite, KeyNamed(a) = KeyNamed(b), KeyNamed(a) \in DOMAIN KEY_TABLE
        PROVE  FALSE
    <3>1. a \notin ExtButtons /\ b \notin ExtButtons
      BY <2>2 DEF Disputed
    <3>2. a \in DOMAIN PadCodes /\ b \in DOMAIN PadCodes
      BY <2>2, <3>1, NoneIsNoKey DEF KeyNamed
    <3>3. PadCodes[a] = PadCodes[b]
      BY <2>2, <3>2 DEF KeyNamed
    <3> QED BY <3>2, <3>3, PadCodesNamed
  <2> QED BY <2>1, <2>2
<1> QED BY <1>1, CfgInductive, PTL
(* What a setting of a layer may be.                                           *)
LEMMA LayerGyro ==
  ASSUME NEW f, NEW l \in DOMAIN LoadLayers(f)
  PROVE  LoadLayers(f)[l].gyro \in {"mouse", "joystick", "off", Inherit}
<1>1. \A path : Gyro(f, path) \in {"mouse", "joystick", "off"}
  BY DEF Gyro, Mode
<1>2. \A path : parse_layer(f, path).gyro \in {"mouse", "joystick", "off", Inherit}
  BY <1>1 DEF parse_layer
<1>3. \A name : parse_mode_shift(f, name).gyro \in {"mouse", "joystick", "off", Inherit}
  BY <1>2 DEF parse_mode_shift, parse_layer
<1> QED BY <1>2, <1>3 DEF LoadLayers

(* What a layer, or the base, asks of the InputDevice has that device created. *)
LEMMA LayerAsks ==
  ASSUME CfgInv, cfg # NoConfig, NEW place \in Places
  PROVE  /\ CodesSent(place) \subseteq KeyCodes
         /\ CodesSent(place) # {} => needs_mouse(cfg)
         /\ \A s \in MotionSent(place) :
              needs_mouse(cfg) \/ (s = "stick_right" /\ InForce(place, s) = "scroll")
<1>1. cfg = Load(FileRead)
  BY DEF CfgInv
<1>2. place # NoLayer => place \in DOMAIN cfg.layers
  BY DEF Places
<1>3. \A l \in DOMAIN cfg.layers : LayerNeedsMouse(cfg.layers[l]) => needs_mouse(cfg)
  BY DEF needs_mouse
<1>4. cfg.layers = LoadLayers(FileRead) /\ cfg.button_remaps = Remaps(FileRead, <<"remap">>)
  BY <1>1, Loaded
<1>5. ASSUME place # NoLayer, NEW b \in DOMAIN cfg.layers[place].remap,
             IsKey(cfg.layers[place].remap[b])
      PROVE  cfg.layers[place].remap[b].code \in KeyCodes /\ needs_mouse(cfg)
  BY <1>2, <1>3, <1>4, <1>5, LayerCodes DEF LayerNeedsMouse
<1>6. ASSUME ~cfg.emulate_elite, NEW b \in DOMAIN cfg.button_remaps, IsKey(cfg.button_remaps[b])
      PROVE  cfg.button_remaps[b].code \in KeyCodes /\ needs_mouse(cfg)
  BY <1>4, <1>6, RemapCodes DEF needs_mouse
<1>7. ASSUME InForce(place, "dpad") = "arrows" PROVE needs_mouse(cfg)
  BY <1>2, <1>3, <1>7 DEF InForce, LayerNeedsMouse, needs_mouse
<1>8. ASSUME place # NoLayer, IsKey(cfg.layers[place].tap)
      PROVE  cfg.layers[place].tap.code \in KeyCodes /\ needs_mouse(cfg)
  BY <1>2, <1>3, <1>4, <1>8, LayerCodes DEF LayerNeedsMouse
<1>9. \A key \in {"KEY_UP", "KEY_DOWN", "KEY_LEFT", "KEY_RIGHT"} : KEY_TABLE[key] \in KeyCodes
  <2>1. \A key \in {"KEY_UP", "KEY_DOWN", "KEY_LEFT", "KEY_RIGHT"} :
          \E i \in DOMAIN ArrowBlock.names : ArrowBlock.names[i] = key
    BY DEF ArrowBlock, Block
  <2>2. ArrowBlock \in KeyBlocks
    BY DEF KeyBlocks
  <2>3. \A key \in {"KEY_UP", "KEY_DOWN", "KEY_LEFT", "KEY_RIGHT"} : key \in DOMAIN KEY_TABLE
    BY <2>1, <2>2 DEF KEY_TABLE, Named, ToSet
  <2> QED BY <2>3 DEF KeyCodes
<1>10. ASSUME NEW code \in CodesSent(place) PROVE code \in KeyCodes /\ needs_mouse(cfg)
  BY <1>5, <1>6, <1>7, <1>8, <1>9, <1>10 DEF CodesSent
<1>11. ASSUME NEW s \in MotionSent(place)
       PROVE  needs_mouse(cfg) \/ (s = "stick_right" /\ InForce(place, s) = "scroll")
  <2>1. CASE s = "gyro"
    <3>1. cfg.gyro # "scroll"
      BY <1>1 DEF Load, Gyro, Mode
    <3>2. place # NoLayer => cfg.layers[place].gyro \in {"mouse", "joystick", "off", Inherit}
      BY <1>2, <1>4, LayerGyro
    <3>3. InForce(place, "gyro") = "mouse"
      BY <1>11, <2>1, <3>1, <3>2 DEF MotionSent, InForce
    <3> QED BY <1>2, <1>3, <3>3 DEF InForce, LayerNeedsMouse, needs_mouse
  <2>2. CASE s = "stick_left"
    BY <1>2, <1>3, <1>11, <2>2 DEF MotionSent, InForce, LayerNeedsMouse, needs_mouse
  <2>3. CASE s = "stick_right"
    BY <1>2, <1>3, <1>11, <2>3 DEF MotionSent, InForce, LayerNeedsMouse, needs_mouse
  <2> QED BY <1>11, <2>1, <2>2, <2>3 DEF MotionSent
<1> QED BY <1>10, <1>11

(* The devices created at the start can send what any layer asks for, but for  *)
(* the gamepad's own buttons and the wheel of the right stick.                 *)
THEOREM DevicesSuffice == Spec => []DevicesForEveryLayer
<1>1. ASSUME CfgInv, pad # {}, NEW place \in Places
      PROVE  /\ \A code \in CodesSent(place) :
                  code \notin input <=> \E name \in PadNames : KEY_TABLE[name] = code
             /\ \A s \in MotionSent(place) :
                  input # {} \/ (s = "stick_right" /\ InForce(place, s) = "scroll")
  <2>1. cfg # NoConfig /\ (needs_mouse(cfg) => input = InputDeviceCreate)
    BY <1>1 DEF CfgInv
  <2>2. InputDeviceCreate # {}
    BY DEF InputDeviceCreate
  <2>3. ASSUME NEW code \in CodesSent(place)
        PROVE  code \notin input <=> \E name \in PadNames : KEY_TABLE[name] = code
    <3>1. input = InputDeviceCreate /\ code \in KeyCodes
      BY <1>1, <2>1, <2>3, LayerAsks
    <3>2. PICK name \in DOMAIN KEY_TABLE : KEY_TABLE[name] = code
      BY <3>1 DEF KeyCodes
    <3> QED BY <3>1, <3>2, Registered, KeyTableInjective, PadCodesNamed
  <2> QED BY <1>1, <2>1, <2>2, <2>3, LayerAsks
<1>2. CfgInv => DevicesForEveryLayer
  BY <1>1 DEF DevicesForEveryLayer
<1> QED BY <1>2, CfgInductive, PTL
--------------------------------------------------------------------------------
(* The gamepad follows its buttons.                                            *)

(* The codes of a set of buttons.                                              *)
Codes(buttons) == {Code(cfg, b) : b \in buttons}

(* A ranked set that is not empty has an element of least rank.                *)
LEMMA FirstExists ==
  ASSUME NEW Ranked, NEW rank \in [Ranked -> Nat], NEW S \in SUBSET Ranked, S # {}
  PROVE  \E l \in S : \A m \in S : rank[l] <= rank[m]
<1> DEFINE R == OpToRel(<, Nat)
           T == {rank[l] : l \in S}
<1>1. IsWellFoundedOn(R, Nat)
  BY NatLessThanWellFounded
<1>2. T \subseteq Nat /\ T # {}
  OBVIOUS
<1>3. PICK x \in T : \A y \in T : ~ (<<y, x>> \in R)
  <2> HIDE DEF R, T
  <2> QED BY <1>1, <1>2, WFMin
<1>4. ASSUME NEW y \in T PROVE x <= y
  <2>1. <<y, x>> \in R <=> y < x
    BY <1>2 DEF OpToRel
  <2>2. x \in Nat /\ y \in Nat /\ ~ (<<y, x>> \in R)
    BY <1>2, <1>3
  <2> HIDE DEF R, T
  <2> QED BY <2>1, <2>2
<1>5. PICK l \in S : x = rank[l]
  BY <1>3
<1> QED BY <1>4, <1>5

(* Of buttons that moved, the last to be sent with a code has one.             *)
LEMMA LastMover ==
  ASSUME NEW moved \in SUBSET ToSet(EmitOrder), NEW b \in moved
  PROVE  \E m \in moved : /\ Code(cfg, m) = Code(cfg, b)
                          /\ \A a \in moved : Code(cfg, a) = Code(cfg, m) =>
                               Place(EmitOrder, a) <= Place(EmitOrder, m)
<1> DEFINE same == {a \in moved : Code(cfg, a) = Code(cfg, b)}
           place(a) == Place(EmitOrder, a)
           rank == [a \in ToSet(EmitOrder) |-> 20 - place(a)]
<1>1. \A a \in ToSet(EmitOrder) : place(a) \in 1 .. 20
  <2>1. DOMAIN EmitOrder = 1 .. 20
    BY DEF EmitOrder
  <2> QED BY <2>1 DEF ToSet, Place
<1>2. rank \in [ToSet(EmitOrder) -> Nat]
  <2> HIDE DEF place
  <2> QED BY <1>1
<1>3. same \in SUBSET ToSet(EmitOrder) /\ same # {}
  OBVIOUS
<1>4. PICK m \in same : \A a \in same : rank[m] <= rank[a]
  <2> HIDE DEF rank, same
  <2> QED BY <1>2, <1>3, FirstExists
<1>5. \A a \in same : place(a) <= place(m)
  <2>1. \A a \in same : 20 - place(m) <= 20 - place(a)
    BY <1>3, <1>4
  <2> HIDE DEF place, same
  <2> QED BY <1>1, <1>3, <2>1
<1> QED BY <1>5

(* Every button has a code the gamepad registers.                              *)
LEMMA ButtonsRegistered ==
  ASSUME cfg = Load(FileRead), NEW b \in ToSet(EmitOrder)
  PROVE  Code(cfg, b) \in UinputCreate(cfg)
<1>0. DOMAIN PadCodes \cap (ExtButtons \cup {"O"}) = {} /\ "O" \notin ExtButtons
  BY DEF PadCodes, ExtButtons
<1>1. CASE b \in DOMAIN PadCodes
  BY <1>0, <1>1, PadCodesNamed DEF Code, UinputCreate
<1>2. CASE b \in ExtButtons
  BY <1>2, NumbersDiffer, <1>0 DEF Code, UinputCreate, Number
<1>3. CASE b = "O"
  BY <1>0, <1>3 DEF Code, UinputCreate
<1> QED BY <1>1, <1>2, <1>3, Buttons

(* Without a gamepad nothing was sent; what was sent are buttons with events.  *)
PadInv ==
  /\ CfgInv
  /\ pad = {} => sent = {} /\ down = {} /\ missed = {}
  /\ sent \subseteq ToSet(EmitOrder) /\ missed \subseteq ToSet(EmitOrder)
  /\ PadFollowsButtons

(* The events of a state were written.                                         *)
LEMMA EmitWritten ==
  ASSUME PadInv, pad # {}, NEW now \in SUBSET ToSet(EmitOrder),
         sent' = now, down' = EmitButtons(now), cfg' = cfg,
         missed' = missed \ ((now \ sent) \cup (sent \ now))
  PROVE  PadFollowsButtons'
<1> DEFINE moved == (now \ sent) \cup (sent \ now)
           last == {b \in moved : \A a \in moved :
                      Code(cfg, a) = Code(cfg, b) => Place(EmitOrder, a) <= Place(EmitOrder, b)}
<1>1. down' = (down \ Codes(moved)) \cup (Codes(last \cap now) \cap pad)
  BY DEF EmitButtons, Codes
<1>2. moved \subseteq ToSet(EmitOrder) /\ missed' = missed \ moved
  BY DEF PadInv
<1>3. last \subseteq moved
  OBVIOUS
<1>4. \A b : Code(cfg', b) = Code(cfg, b)
  OBVIOUS
<1>5. \A b \in ToSet(EmitOrder) : Code(cfg, b) \in pad
  BY ButtonsRegistered DEF PadInv, CfgInv
<1>6. ASSUME NEW b \in moved PROVE \E m \in last : Code(cfg, m) = Code(cfg, b)
  <2> HIDE DEF moved
  <2>1. PICK m \in moved : /\ Code(cfg, m) = Code(cfg, b)
                           /\ \A a \in moved : Code(cfg, a) = Code(cfg, m) =>
                                Place(EmitOrder, a) <= Place(EmitOrder, m)
    BY <1>2, LastMover
  <2>2. m \in last
    BY <2>1
  <2> QED BY <2>1, <2>2
<1> HIDE DEF last
<1>7. ASSUME NEW c \in down' PROVE \E b \in now \cup missed' : Code(cfg, b) = c
  <2>1. CASE c \in Codes(last \cap now)
    BY <2>1 DEF Codes
  <2>2. CASE c \in down /\ c \notin Codes(moved)
    <3>1. PICK b \in sent \cup missed : Code(cfg, b) = c
      BY <2>2 DEF PadInv, PadFollowsButtons
    <3>2. b \notin moved
      BY <2>2, <3>1 DEF Codes
    <3> QED BY <1>2, <3>1, <3>2
  <2> QED BY <1>1, <1>7, <2>1, <2>2
<1>8. ASSUME NEW b \in now \ missed'
      PROVE  \/ Code(cfg, b) \in down'
             \/ \E a \in (ToSet(EmitOrder) \ now) \cup missed' : Code(cfg, a) = Code(cfg, b)
  <2>1. CASE Code(cfg, b) \in Codes(moved)
    <3>1. PICK m \in last : Code(cfg, m) = Code(cfg, b)
      BY <1>6, <2>1 DEF Codes
    <3>2. CASE m \in now
      BY <1>1, <1>2, <1>3, <1>5, <3>1, <3>2 DEF Codes
    <3>3. CASE m \notin now
      BY <1>2, <1>3, <3>1, <3>3
    <3> QED BY <3>2, <3>3
  <2>2. CASE Code(cfg, b) \notin Codes(moved)
    <3>1. \A a : Code(cfg, a) = Code(cfg, b) => a \notin moved
      BY <2>2 DEF Codes
    <3>2. b \in sent \ missed
      BY <1>2, <1>8, <3>1
    <3>3. CASE Code(cfg, b) \in down
      BY <1>1, <2>2, <3>3
    <3>4. CASE \E a \in (ToSet(EmitOrder) \ sent) \cup missed : Code(cfg, a) = Code(cfg, b)
      BY <1>2, <3>1, <3>4
    <3> QED BY <3>2, <3>3, <3>4 DEF PadInv, PadFollowsButtons
  <2> QED BY <2>1, <2>2
<1> QED BY <1>4, <1>7, <1>8 DEF PadFollowsButtons

(* Writing them failed.                                                        *)
LEMMA EmitLost ==
  ASSUME PadInv, NEW now \in SUBSET ToSet(EmitOrder),
         sent' = now, down' = down, cfg' = cfg,
         missed' = missed \cup ((now \ sent) \cup (sent \ now))
  PROVE  PadFollowsButtons'
<1> DEFINE moved == (now \ sent) \cup (sent \ now)
<1>1. \A b : Code(cfg', b) = Code(cfg, b)
  OBVIOUS
<1>2. ASSUME NEW c \in down' PROVE \E b \in now \cup missed' : Code(cfg, b) = c
  BY <1>2 DEF PadInv, PadFollowsButtons
<1>3. ASSUME NEW b \in now \ missed'
      PROVE  \/ Code(cfg, b) \in down'
             \/ \E a \in (ToSet(EmitOrder) \ now) \cup missed' : Code(cfg, a) = Code(cfg, b)
  <2>1. b \in sent \ missed
    BY <1>3
  <2> QED BY <2>1 DEF PadInv, PadFollowsButtons
<1> QED BY <1>1, <1>2, <1>3 DEF PadFollowsButtons

LEMMA InitPadInv == Init => PadInv
BY InitCfgInv DEF Init, PadInv, PadFollowsButtons

(* Every action keeps it: Emit moves buttons, the others clear them.           *)
LEMMA NextPadInv == PadInv /\ [Next]_vars => PadInv'
<1> SUFFICES ASSUME PadInv, [Next]_vars PROVE PadInv'
  OBVIOUS
<1>1. CfgInv'
  BY NextCfgInv DEF PadInv
<1>2. cfg = NoConfig => pad = {}
  BY DEF PadInv, CfgInv
<1>3. ASSUME sent' = {}, down' = {}, missed' = {} PROVE PadInv'
  BY <1>1, <1>3 DEF PadInv, PadFollowsButtons
<1>4. ASSUME cfg = NoConfig, UNCHANGED <<pad, input, sent, down, missed>> PROVE PadInv'
  BY <1>2, <1>3, <1>4 DEF PadInv
<1>5. ASSUME NEW s \in Settings, Write(s) PROVE PadInv'
  BY <1>4, <1>5 DEF Write
<1>6. CASE Break
  BY <1>4, <1>6 DEF Break
<1>7. CASE Start
  BY <1>4, <1>7 DEF Start
<1>8. CASE Stop
  BY <1>3, <1>8 DEF Stop, NoDevices
<1>9. CASE Open
  BY <1>3, <1>9 DEF Open, PadInv
<1>10. CASE Lose
  BY <1>3, <1>10 DEF Lose, NoDevices
<1>11. ASSUME NEW now \in SUBSET Held, Emit(now) PROVE PadInv'
  <2>1. now \in SUBSET ToSet(EmitOrder)
    BY HeldAssumption
  <2>2. PadFollowsButtons'
    BY <1>11, <2>1, EmitWritten, EmitLost DEF Emit
  <2>3. sent' \subseteq ToSet(EmitOrder) /\ missed' \subseteq ToSet(EmitOrder)
    BY <1>11, <2>1 DEF Emit, PadInv
  <2> QED BY <1>1, <1>11, <2>2, <2>3 DEF Emit, PadInv
<1>12. CASE UNCHANGED vars
  BY <1>1, <1>12 DEF vars, PadInv, PadFollowsButtons
<1> QED BY <1>5, <1>6, <1>7, <1>8, <1>9, <1>10, <1>11, <1>12 DEF Next

(* A held button has its code down and no other code is down, but for codes    *)
(* that buttons share and changes that were lost.                              *)
THEOREM PadFollows == Spec => []PadFollowsButtons
<1>1. Spec => []PadInv
  BY InitPadInv, NextPadInv, PTL DEF Spec
<1>2. PadInv => PadFollowsButtons
  BY DEF PadInv
<1> QED BY <1>1, <1>2, PTL
--------------------------------------------------------------------------------
(* Paths and tables of a file.                                                 *)

(* A path begins with another one, and goes on.                                *)
Begins(p, path) == Len(path) < Len(p) /\ \A i \in 1 .. Len(path) : p[i] = path[i]

(* That is what IsStrictPrefix says of sequences.                              *)
LEMMA StrictPrefix ==
  ASSUME NEW S, NEW path \in Seq(S), NEW T, NEW p \in Seq(T)
  PROVE  IsStrictPrefix(path, p) <=> Begins(p, path)
<1> DEFINE n == Len(path)
<1>1. n \in Nat /\ Len(p) \in Nat /\ path \in Seq(S \cup T) /\ p \in Seq(S \cup T)
  BY SeqMonotonic
<1>2. ASSUME n <= Len(p)
      PROVE  SubSeq(path, 1, n) = SubSeq(p, 1, n) <=> \A i \in 1 .. n : p[i] = path[i]
  <2>1. \A i \in 1 .. n : path[i] \in S \cup T /\ p[i] \in S \cup T
    BY <1>1, <1>2, ElementOfSeq
  <2>2. \A s \in {path, p} : /\ SubSeq(s, 1, n) \in Seq(S \cup T)
                             /\ Len(SubSeq(s, 1, n)) = n
                             /\ \A i \in 1 .. n : SubSeq(s, 1, n)[i] = s[i]
    <3>1. ASSUME NEW s, \A i \in 1 .. n : s[i] \in S \cup T
          PROVE  /\ SubSeq(s, 1, n) \in Seq(S \cup T)
                 /\ Len(SubSeq(s, 1, n)) = n
                 /\ \A i \in 1 .. n : SubSeq(s, 1, n)[i] = s[i]
      <4>1. /\ SubSeq(s, 1, n) \in Seq(S \cup T)
            /\ Len(SubSeq(s, 1, n)) = IF 1 <= n THEN n - 1 + 1 ELSE 0
            /\ \A i \in 1 .. n - 1 + 1 : SubSeq(s, 1, n)[i] = s[1 + i - 1]
        BY <1>1, <3>1, SubSeqProperties
      <4> QED BY <1>1, <4>1
    <3> QED BY <2>1, <3>1
  <2>3. ASSUME \A i \in 1 .. n : p[i] = path[i] PROVE SubSeq(path, 1, n) = SubSeq(p, 1, n)
    BY <2>2, <2>3, SeqEqual
  <2> QED BY <2>2, <2>3
<1>3. ASSUME n = Len(p), \A i \in 1 .. n : p[i] = path[i] PROVE path = p
  BY <1>1, <1>3, SeqEqual
<1> QED BY <1>1, <1>2, <1>3 DEF IsStrictPrefix, IsPrefix, Begins

(* The keys of a table.                                                        *)
LEMMA KeysAre ==
  ASSUME NEW f, FileOK(f), NEW S, NEW path \in Seq(S)
  PROVE  Keys(f, path) = {p[Len(path) + 1] : p \in {q \in DOMAIN f : Begins(q, path)}}
<1>1. \A q \in DOMAIN f : IsStrictPrefix(path, q) <=> Begins(q, path)
  BY StrictPrefix DEF FileOK, IsPath
<1> QED BY <1>1 DEF Keys

(* A section renamed.                                                          *)
LEMMA RenamedIs ==
  ASSUME NEW p, IsPath(p)
  PROVE  /\ IsPath(Renamed(p)) /\ Len(Renamed(p)) = Len(p)
         /\ Renamed(p)[1] = IF p[1] = "mode_shift" THEN "layer" ELSE p[1]
         /\ \A i \in 2 .. Len(p) : Renamed(p)[i] = p[i]
<1>1. /\ p \in Seq(ToSet(p)) /\ Len(p) \in Nat /\ 1 \in 1 .. Len(p)
      /\ p[1] \in {"layer", "mode_shift"} => Len(p) > 2
  BY DEF IsPath
<1>2. CASE p[1] = "mode_shift"
  <2> DEFINE r == [p EXCEPT ![1] = "layer"]
  <2>1. p \in Seq(ToSet(p) \cup {"layer"})
    BY <1>1, SeqMonotonic
  <2>2. r \in Seq(ToSet(p) \cup {"layer"}) /\ Len(r) = Len(p)
    BY <1>1, <2>1, ExceptSeq
  <2>3. \A i \in 1 .. Len(p) : r[i] = IF i = 1 THEN "layer" ELSE p[i]
    BY <1>1, <2>1, ExceptSeq
  <2>4. Renamed(p) = r
    BY <1>2 DEF Renamed
  <2> HIDE DEF r
  <2>5. r \in Seq(ToSet(r))
    BY <2>2, LenProperties, SeqDef DEF ToSet
  <2> QED BY <1>1, <1>2, <2>2, <2>3, <2>4, <2>5 DEF IsPath
<1>3. CASE p[1] # "mode_shift"
  BY <1>1, <1>3 DEF Renamed, IsPath
<1> QED BY <1>2, <1>3

--------------------------------------------------------------------------------
(* The migration: which paths stay, and where they go.                         *)

(* The parts of Migrated, by name.                                             *)
Shifts(f) == Keys(f, <<"mode_shift">>)
Kept(f) == {p \in DOMAIN f : ~(p[1] = "layer" /\ p[2] \in Shifts(f))}
Unnamed(f) == {n \in Shifts(f) : At(f, <<"mode_shift", n, "trigger">>, "") = ""}
Spelled(f) == {<<"layer", n, "trigger">> : n \in Unnamed(f)}

(* A path that is kept if the file has it: not of a layer that is replaced.    *)
Stays(f, p) ==
  /\ p[1] = "layer" => p[2] \notin Shifts(f)
  /\ p[1] = "mode_shift" => p[2] \in Shifts(f)

(* A path of a deprecated section names one of its layers.                     *)
LEMMA Shift ==
  ASSUME NEW f, FileOK(f), NEW p \in DOMAIN f, p[1] = "mode_shift"
  PROVE  p[2] \in Shifts(f)
<1>1. /\ <<"mode_shift">> \in Seq({"mode_shift"})
      /\ Len(<<"mode_shift">>) = 1 /\ <<"mode_shift">>[1] = "mode_shift"
  OBVIOUS
<1>2. Len(p) > 2 /\ Len(p) \in Nat
  BY DEF FileOK, IsPath
<1>3. Begins(p, <<"mode_shift">>)
  BY <1>1, <1>2 DEF Begins
<1>4. p[Len(<<"mode_shift">>) + 1] \in Keys(f, <<"mode_shift">>)
  BY <1>1, <1>3, KeysAre
<1> QED BY <1>1, <1>4 DEF Shifts

(* What the file keeps is what stays.                                          *)
LEMMA KeptStay == \A f : FileOK(f) => \A p \in DOMAIN f : p \in Kept(f) <=> Stays(f, p)
BY Shift DEF Kept, Stays

(* Of the paths that stay no two are renamed alike.                            *)
LEMMA RenamedApart ==
  ASSUME NEW f, NEW p, NEW q, IsPath(p), IsPath(q), Stays(f, p), Stays(f, q),
         Renamed(p) = Renamed(q)
  PROVE  p = q
<1>1. /\ p \in Seq(ToSet(p) \cup ToSet(q)) /\ q \in Seq(ToSet(p) \cup ToSet(q))
      /\ Len(p) = Len(q) /\ Len(p) \in Nat /\ Len(p) > 0
  BY RenamedIs, SeqMonotonic DEF IsPath
<1>2. \A i \in 2 .. Len(p) : p[i] = q[i]
  BY <1>1, RenamedIs
<1>3. p[1] = q[1]
  <2>1. (IF p[1] = "mode_shift" THEN "layer" ELSE p[1]) =
          (IF q[1] = "mode_shift" THEN "layer" ELSE q[1])
    BY RenamedIs
  <2>2. p[1] \in {"layer", "mode_shift"} \/ q[1] \in {"layer", "mode_shift"} => p[2] = q[2]
    BY <1>1, <1>2 DEF IsPath
  <2> QED BY <2>1, <2>2 DEF Stays
<1> QED BY <1>1, <1>2, <1>3, SeqEqual

(* What the migrated file holds.                                               *)
LEMMA Migration ==
  ASSUME NEW f, FileOK(f)
  PROVE  /\ DOMAIN Migrated(f) = Spelled(f) \cup {Renamed(q) : q \in Kept(f)}
         /\ FileOK(Migrated(f))
         /\ \A n \in Unnamed(f) : Migrated(f)[<<"layer", n, "trigger">>] = n
         /\ \A q \in Kept(f) : Renamed(q) \notin Spelled(f) => Migrated(f)[Renamed(q)] = f[q]
<1> DEFINE g == [p \in Spelled(f) \cup {Renamed(q) : q \in Kept(f)} |->
                   IF p \in Spelled(f) THEN p[2] ELSE f[CHOOSE q \in Kept(f) : Renamed(q) = p]]
<1>1. Migrated(f) = g
  BY DEF Migrated, Spelled, Unnamed, Kept, Shifts
<1>2. DOMAIN g = Spelled(f) \cup {Renamed(q) : q \in Kept(f)}
  OBVIOUS
<1>3. \A n : IsPath(<<"layer", n, "trigger">>)
  <2>1. \A n : ToSet(<<"layer", n, "trigger">>) = {"layer", n, "trigger"}
    BY DEF ToSet
  <2> QED BY <2>1 DEF IsPath
<1>4. FileOK(g)
  <2>1. \A p \in Spelled(f) : IsPath(p)
    BY <1>3 DEF Spelled
  <2>2. \A q \in Kept(f) : IsPath(Renamed(q))
    BY RenamedIs DEF Kept, FileOK
  <2> QED BY <1>2, <2>1, <2>2 DEF FileOK
<1>5. ASSUME NEW n \in Unnamed(f) PROVE g[<<"layer", n, "trigger">>] = n
  <2>1. <<"layer", n, "trigger">> \in Spelled(f)
    BY DEF Spelled
  <2>2. g[<<"layer", n, "trigger">>] = <<"layer", n, "trigger">>[2]
    BY <2>1
  <2> QED BY <2>2
<1>6. ASSUME NEW q \in Kept(f), Renamed(q) \notin Spelled(f) PROVE g[Renamed(q)] = f[q]
  <2>1. \A r \in Kept(f) : Renamed(r) = Renamed(q) => r = q
    BY KeptStay, RenamedApart DEF Kept, FileOK
  <2>2. (CHOOSE r \in Kept(f) : Renamed(r) = Renamed(q)) = q
    BY <2>1
  <2>3. g[Renamed(q)] = f[CHOOSE r \in Kept(f) : Renamed(r) = Renamed(q)]
    BY <1>6
  <2> QED BY <2>2, <2>3
<1> HIDE DEF g
<1> QED BY <1>1, <1>2, <1>4, <1>5, <1>6

(* A setting that stays is where the section is renamed, and nothing else is.  *)
LEMMA Moved ==
  ASSUME NEW f, FileOK(f), NEW p, IsPath(p), Stays(f, p), Renamed(p) \notin Spelled(f)
  PROVE  /\ Renamed(p) \in DOMAIN Migrated(f) <=> p \in DOMAIN f
         /\ \A d : At(Migrated(f), Renamed(p), d) = At(f, p, d)
<1>1. ASSUME p \in DOMAIN f
      PROVE  Renamed(p) \in DOMAIN Migrated(f) /\ Migrated(f)[Renamed(p)] = f[p]
  BY <1>1, KeptStay, Migration
<1>2. ASSUME Renamed(p) \in DOMAIN Migrated(f) PROVE p \in DOMAIN f
  <2>1. PICK q \in Kept(f) : Renamed(q) = Renamed(p)
    <3>1. DOMAIN Migrated(f) = Spelled(f) \cup {Renamed(q) : q \in Kept(f)}
      BY Migration
    <3> QED BY <1>2, <3>1
  <2>2. q \in DOMAIN f /\ IsPath(q) /\ Stays(f, q)
    BY KeptStay DEF FileOK, Kept
  <2> QED BY <2>1, <2>2, RenamedApart
<1> QED BY <1>1, <1>2 DEF At

(* The keys of a table that stays, below the level of the layers.              *)
LEMMA MovedKeys ==
  ASSUME NEW f, FileOK(f), NEW path, IsPath(path), Stays(f, path)
  PROVE  Keys(Migrated(f), Renamed(path)) = Keys(f, path)
<1> DEFINE g == Migrated(f)
           r == Renamed(path)
           n == Len(path)
<1>1. FileOK(g) /\ DOMAIN g = Spelled(f) \cup {Renamed(q) : q \in Kept(f)}
  BY Migration
<1>2. /\ n \in Nat /\ n > 0 /\ Len(r) = n /\ IsPath(r)
      /\ r[1] = IF path[1] = "mode_shift" THEN "layer" ELSE path[1]
      /\ \A i \in 2 .. n : r[i] = path[i]
      /\ path[1] \in {"layer", "mode_shift"} => n > 2
  BY RenamedIs DEF IsPath
<1>3. /\ Keys(f, path) = {p[n + 1] : p \in {q \in DOMAIN f : Begins(q, path)}}
      /\ Keys(g, r) = {p[n + 1] : p \in {q \in DOMAIN g : Begins(q, r)}}
  <2> HIDE DEF g, r
  <2> QED BY <1>1, <1>2, KeysAre DEF IsPath
<1>4. \A q \in DOMAIN f : /\ IsPath(q) /\ Len(q) \in Nat
                          /\ Len(Renamed(q)) = Len(q)
                          /\ Renamed(q)[1] = IF q[1] = "mode_shift" THEN "layer" ELSE q[1]
                          /\ \A i \in 2 .. Len(q) : Renamed(q)[i] = q[i]
  BY RenamedIs DEF FileOK, IsPath
<1>5. ASSUME NEW q \in DOMAIN f, Begins(q, path)
      PROVE  Renamed(q) \in DOMAIN g /\ Begins(Renamed(q), r) /\ Renamed(q)[n + 1] = q[n + 1]
  <2>1. /\ n < Len(q) /\ q[1] = path[1] /\ \A i \in 2 .. n : q[i] = path[i]
    BY <1>2, <1>5 DEF Begins
  <2>2. Stays(f, q)
    BY <1>2, <2>1 DEF Stays
  <2>3. Renamed(q) \in DOMAIN g
    BY <1>1, <2>2, KeptStay
  <2>4. \A i \in 1 .. n : Renamed(q)[i] = r[i]
    BY <1>2, <1>4, <2>1
  <2> HIDE DEF r, g
  <2> QED BY <1>2, <1>4, <2>1, <2>3, <2>4 DEF Begins
<1>6. ASSUME NEW p \in DOMAIN g, Begins(p, r)
      PROVE  \E q \in DOMAIN f : Begins(q, path) /\ q[n + 1] = p[n + 1]
  <2>1. /\ n < Len(p) /\ \A i \in 1 .. n : p[i] = r[i]
    BY <1>2, <1>6 DEF Begins
  <2>2. p \notin Spelled(f)
    <3>1. \A m : Len(<<"layer", m, "trigger">>) = 3 /\ <<"layer", m, "trigger">>[1] = "layer"
      OBVIOUS
    <3>2. p \in Spelled(f) => Len(p) = 3 /\ p[1] = "layer"
      BY <3>1 DEF Spelled
    <3>3. p[1] = r[1]
      BY <1>2, <2>1
    <3>4. r[1] = "layer" => n > 2
      BY <1>2
    <3> HIDE DEF n, r
    <3>5. n \in Nat /\ n < Len(p)
      BY <1>2, <2>1
    <3>6. p \in Spelled(f) => n > 2
      BY <3>2, <3>3, <3>4
    <3>7. p \in Spelled(f) => n < 3
      BY <3>2, <3>5
    <3> QED BY <3>5, <3>6, <3>7
  <2>3. PICK q \in Kept(f) : p = Renamed(q)
    BY <1>1, <2>2
  <2>4. q \in DOMAIN f /\ Stays(f, q)
    BY KeptStay DEF Kept
  <2>5. Len(q) = Len(p) /\ \A i \in 2 .. n + 1 : q[i] = p[i]
    BY <1>2, <1>4, <2>1, <2>3, <2>4
  <2>6. \A i \in 2 .. n : q[i] = path[i]
    BY <1>2, <2>1, <2>5
  <2>7. q[1] = path[1]
    <3>1. (IF q[1] = "mode_shift" THEN "layer" ELSE q[1])
            = (IF path[1] = "mode_shift" THEN "layer" ELSE path[1])
      BY <1>2, <1>4, <2>1, <2>3, <2>4
    <3>2. path[1] \in {"layer", "mode_shift"} => q[2] = path[2]
      BY <1>2, <2>6
    <3> QED BY <2>4, <3>1, <3>2 DEF Stays
  <2>8. \A i \in 1 .. n : q[i] = path[i]
    BY <1>2, <2>6, <2>7
  <2>9. n < Len(q) /\ q[n + 1] = p[n + 1]
    BY <1>2, <2>1, <2>5
  <2>10. Begins(q, path)
    BY <2>8, <2>9 DEF Begins
  <2> QED BY <2>4, <2>9, <2>10
<1> HIDE DEF g, r, n
<1>7. Keys(f, path) \subseteq Keys(g, r)
  <2>1. \A q \in DOMAIN f : Begins(q, path) =>
          q[n + 1] \in {p[n + 1] : p \in {x \in DOMAIN g : Begins(x, r)}}
    BY <1>5
  <2> QED BY <1>3, <2>1
<1>8. Keys(g, r) \subseteq Keys(f, path)
  <2>1. \A q \in DOMAIN g : Begins(q, r) =>
          q[n + 1] \in {p[n + 1] : p \in {x \in DOMAIN f : Begins(x, path)}}
    BY <1>6
  <2> QED BY <1>3, <2>1
<1> QED BY <1>7, <1>8 DEF g, r

--------------------------------------------------------------------------------
(* What is read of the migrated file.                                          *)

(* A path one key longer.                                                      *)
LEMMA Longer ==
  ASSUME NEW S, NEW s \in Seq(S), NEW t \in Seq(S), Len(t) = Len(s) + 1,
         \A i \in 1 .. Len(s) : t[i] = s[i]
  PROVE  s \o <<t[Len(s) + 1]>> = t
<1> DEFINE k == t[Len(s) + 1]
<1>1. Len(s) \in Nat /\ k \in S
  BY ElementOfSeq
<1> HIDE DEF k
<1>2. <<k>> \in Seq(S) /\ Len(<<k>>) = 1 /\ <<k>>[1] = k
  BY <1>1
<1>3. /\ s \o <<k>> \in Seq(S) /\ Len(s \o <<k>>) = Len(s) + 1
      /\ \A i \in 1 .. Len(s) + 1 :
           (s \o <<k>>)[i] = IF i <= Len(s) THEN s[i] ELSE <<k>>[i - Len(s)]
  BY <1>2, ConcatProperties
<1>4. (s \o <<k>>)[Len(s) + 1] = k
  BY <1>1, <1>2, <1>3
<1>5. \A i \in 1 .. Len(t) : (s \o <<k>>)[i] = t[i]
  BY <1>1, <1>3, <1>4 DEF k
<1>6. s \o <<k>> = t
  BY <1>1, <1>3, <1>5, SeqEqual
<1> QED BY <1>6 DEF k

LEMMA Concat3 == \A s, n, k : <<s, n>> \o <<k>> = <<s, n, k>>
<1> TAKE s, n, k
<1>1. PICK S, u, t : S = {s, n, k} /\ u = <<s, n>> /\ t = <<s, n, k>>
  OBVIOUS
<1>2. /\ u \in Seq(S) /\ t \in Seq(S) /\ Len(u) = 2 /\ Len(t) = 3
      /\ t[1] = u[1] /\ t[2] = u[2] /\ t[3] = k
  BY <1>1
<1>3. Len(t) = Len(u) + 1 /\ Len(u) + 1 = 3 /\ \A i \in 1 .. Len(u) : t[i] = u[i]
  BY <1>2
<1>4. u \o <<t[Len(u) + 1]>> = t
  BY <1>2, <1>3, Longer, Zenon
<1> QED BY <1>1, <1>2, <1>3, <1>4

LEMMA Concat4 == \A s, n, k, m : <<s, n, k>> \o <<m>> = <<s, n, k, m>>
<1> TAKE s, n, k, m
<1>1. PICK S, u, t : S = {s, n, k, m} /\ u = <<s, n, k>> /\ t = <<s, n, k, m>>
  OBVIOUS
<1>2. /\ u \in Seq(S) /\ t \in Seq(S) /\ Len(u) = 3 /\ Len(t) = 4
      /\ t[1] = u[1] /\ t[2] = u[2] /\ t[3] = u[3] /\ t[4] = m
  BY <1>1
<1>3. Len(t) = Len(u) + 1 /\ Len(u) + 1 = 4 /\ \A i \in 1 .. Len(u) : t[i] = u[i]
  BY <1>2
<1>4. u \o <<t[Len(u) + 1]>> = t
  BY <1>2, <1>3, Longer, Zenon
<1> QED BY <1>1, <1>2, <1>3, <1>4

(* The section a layer comes from.                                             *)
Section(f, n) == IF n \in Shifts(f) THEN "mode_shift" ELSE "layer"

(* Paths of a layer, in its old section and in its new one.                    *)
LEMMA TablePath ==
  ASSUME NEW f, NEW n, NEW k, NEW p, p = <<Section(f, n), n, k>>
  PROVE  /\ IsPath(p) /\ Stays(f, p) /\ Renamed(p) = <<"layer", n, k>>
         /\ k # "trigger" => Renamed(p) \notin Spelled(f)
<1>1. PICK s : s = Section(f, n)
  OBVIOUS
<1>2. s \in {"layer", "mode_shift"} /\ p = <<s, n, k>>
  BY <1>1 DEF Section
<1>3. IsPath(p)
  <2>1. ToSet(p) = {s, n, k}
    BY <1>2 DEF ToSet
  <2> QED BY <1>2, <2>1 DEF IsPath
<1>4. Stays(f, p)
  <2>1. p[1] = s /\ p[2] = n
    BY <1>2
  <2> QED BY <1>1, <2>1 DEF Stays, Section
<1>5. Renamed(p) = <<"layer", n, k>>
  BY <1>2 DEF Renamed
<1>6. <<"layer", n, k>> \in Spelled(f) => k = "trigger"
  BY DEF Spelled
<1> QED BY <1>3, <1>4, <1>5, <1>6

(* Paths of an entry of such a table.                                          *)
LEMMA EntryPath ==
  ASSUME NEW f, NEW n, NEW k, NEW m, NEW p, p = <<Section(f, n), n, k, m>>
  PROVE  /\ IsPath(p) /\ Stays(f, p) /\ Renamed(p) = <<"layer", n, k, m>>
         /\ Renamed(p) \notin Spelled(f)
<1>1. PICK s : s = Section(f, n)
  OBVIOUS
<1>2. s \in {"layer", "mode_shift"} /\ p = <<s, n, k, m>>
  BY <1>1 DEF Section
<1>3. IsPath(p)
  <2>1. ToSet(p) = {s, n, k, m}
    BY <1>2 DEF ToSet
  <2> QED BY <1>2, <2>1 DEF IsPath
<1>4. Stays(f, p)
  <2>1. p[1] = s /\ p[2] = n
    BY <1>2
  <2> QED BY <1>1, <2>1 DEF Stays, Section
<1>5. Renamed(p) = <<"layer", n, k, m>>
  BY <1>2 DEF Renamed
<1>6. <<"layer", n, k, m>> \notin Spelled(f)
  BY DEF Spelled
<1> QED BY <1>3, <1>4, <1>5, <1>6

(* A table of one file and one of another hold the same.                       *)
Alike(f, old, g, new) ==
  /\ Keys(g, new) = Keys(f, old)
  /\ \A k, d : At(g, new \o <<k>>, d) = At(f, old \o <<k>>, d)

(* So do two layers, but for their triggers.                                   *)
AlikeButTrigger(f, old, g, new) ==
  /\ \A k, d : k # "trigger" => At(g, new \o <<k>>, d) = At(f, old \o <<k>>, d)
  /\ \A k : Alike(f, old \o <<k>>, g, new \o <<k>>)

(* What the migrated file says of a layer.                                     *)
LEMMA LayerRead ==
  ASSUME NEW f, FileOK(f), NEW n, NEW old, NEW new,
         old = <<Section(f, n), n>>, new = <<"layer", n>>
  PROVE  AlikeButTrigger(f, old, Migrated(f), new)
<1>1. ASSUME NEW k, NEW p, p = old \o <<k>>
      PROVE  /\ IsPath(p) /\ Stays(f, p) /\ Renamed(p) = new \o <<k>>
             /\ k # "trigger" => Renamed(p) \notin Spelled(f)
  <2>1. p = <<Section(f, n), n, k>> /\ new \o <<k>> = <<"layer", n, k>>
    BY <1>1, Concat3, Zenon
  <2> QED BY <2>1, TablePath
<1>3. ASSUME NEW k, NEW d, k # "trigger"
      PROVE  At(Migrated(f), new \o <<k>>, d) = At(f, old \o <<k>>, d)
  <2>1. PICK p : p = old \o <<k>>
    OBVIOUS
  <2>2. IsPath(p) /\ Stays(f, p) /\ Renamed(p) = new \o <<k>> /\ Renamed(p) \notin Spelled(f)
    BY <1>1, <1>3, <2>1, Zenon
  <2>3. At(Migrated(f), Renamed(p), d) = At(f, p, d)
    BY <2>2, Moved
  <2> QED BY <2>1, <2>2, <2>3, Zenon
<1>4. ASSUME NEW k PROVE Alike(f, old \o <<k>>, Migrated(f), new \o <<k>>)
  <2>1. PICK p, q : p = old \o <<k>> /\ q = new \o <<k>>
    OBVIOUS
  <2>2. p = <<Section(f, n), n, k>> /\ q = <<"layer", n, k>>
    BY <2>1, Concat3, Zenon
  <2>3. Keys(Migrated(f), q) = Keys(f, p)
    BY <1>1, <2>1, MovedKeys
  <2>4. ASSUME NEW m, NEW d PROVE At(Migrated(f), q \o <<m>>, d) = At(f, p \o <<m>>, d)
    <3>1. PICK r : r = <<Section(f, n), n, k, m>>
      OBVIOUS
    <3>2. /\ IsPath(r) /\ Stays(f, r) /\ Renamed(r) = <<"layer", n, k, m>>
          /\ Renamed(r) \notin Spelled(f)
      BY <3>1, EntryPath
    <3>3. p \o <<m>> = r /\ q \o <<m>> = <<"layer", n, k, m>>
      BY <2>2, <3>1, Concat4, Zenon
    <3>4. At(Migrated(f), Renamed(r), d) = At(f, r, d)
      BY <3>2, Moved
    <3> QED BY <3>2, <3>3, <3>4, Zenon
  <2> QED BY <2>1, <2>3, <2>4, Zenon DEF Alike
<1> QED BY <1>3, <1>4, Zenon DEF AlikeButTrigger

(* Its trigger is spelled out where the deprecated section has none.           *)
LEMMA TriggerRead ==
  ASSUME NEW f, FileOK(f), NEW n, NEW old, NEW new,
         old = <<Section(f, n), n>>, new = <<"layer", n>>
  PROVE  At(Migrated(f), new \o <<"trigger">>, "") =
           IF n \in Unnamed(f) THEN n ELSE At(f, old \o <<"trigger">>, "")
<1>1. <<"layer", n, "trigger">> \in Spelled(f) <=> n \in Unnamed(f)
  <2>1. \A x : <<"layer", n, "trigger">> = <<"layer", x, "trigger">> => n = x
    OBVIOUS
  <2> QED BY <2>1 DEF Spelled
<1>2. PICK p, q : p = old \o <<"trigger">> /\ q = new \o <<"trigger">>
  OBVIOUS
<1>3. p = <<Section(f, n), n, "trigger">> /\ q = <<"layer", n, "trigger">>
  BY <1>2, Concat3, Zenon
<1>4. CASE n \in Unnamed(f)
  <2>1. q \in DOMAIN Migrated(f) /\ Migrated(f)[q] = n
    BY <1>1, <1>3, <1>4, Migration
  <2> QED BY <1>2, <1>4, <2>1 DEF At
<1>5. CASE n \notin Unnamed(f)
  <2>1. IsPath(p) /\ Stays(f, p) /\ Renamed(p) = q /\ q \notin Spelled(f)
    BY <1>1, <1>3, <1>5, TablePath
  <2>2. At(Migrated(f), q, "") = At(f, p, "")
    BY <2>1, Moved
  <2> QED BY <1>2, <1>5, <2>2
<1> QED BY <1>4, <1>5

(* Tables other than those of layers are kept as they are.                     *)
LEMMA BaseRead ==
  ASSUME NEW f, FileOK(f), NEW p, IsPath(p), p[1] \notin {"layer", "mode_shift"}
  PROVE  /\ \A d : At(Migrated(f), p, d) = At(f, p, d)
         /\ Keys(Migrated(f), p) = Keys(f, p)
<1>1. Renamed(p) = p /\ Stays(f, p)
  BY DEF Renamed, Stays
<1>2. p \notin Spelled(f)
  <2>1. \A x : <<"layer", x, "trigger">>[1] = "layer"
    OBVIOUS
  <2> QED BY <2>1 DEF Spelled
<1> QED BY <1>1, <1>2, Moved, MovedKeys

(* The layers a section names.                                                 *)
LEMMA SectionKeys ==
  ASSUME NEW h, FileOK(h), NEW s, s \in {"layer", "mode_shift"}
  PROVE  Keys(h, <<s>>) = {p[2] : p \in {q \in DOMAIN h : q[1] = s}}
<1>1. PICK path : path = <<s>>
  OBVIOUS
<1>2. path \in Seq({s}) /\ Len(path) = 1 /\ path[1] = s /\ Len(path) + 1 = 2
  BY <1>1
<1>3. Keys(h, path) = {p[Len(path) + 1] : p \in {q \in DOMAIN h : Begins(q, path)}}
  BY <1>2, KeysAre
<1>4. \A q \in DOMAIN h : Begins(q, path) <=> q[1] = s
  BY <1>2 DEF Begins, FileOK, IsPath
<1> QED BY <1>1, <1>2, <1>3, <1>4

(* The names of the layers.                                                    *)
LEMMA NamesRead ==
  ASSUME NEW f, FileOK(f)
  PROVE  /\ Keys(Migrated(f), <<"mode_shift">>) = {}
         /\ Keys(Migrated(f), <<"layer">>) = Keys(f, <<"layer">>) \cup Shifts(f)
<1> DEFINE g == Migrated(f)
<1>1. FileOK(g) /\ DOMAIN g = Spelled(f) \cup {Renamed(q) : q \in Kept(f)}
  BY Migration
<1>2. \A h, s : FileOK(h) /\ s \in {"layer", "mode_shift"} =>
        Keys(h, <<s>>) = {p[2] : p \in {q \in DOMAIN h : q[1] = s}}
  BY SectionKeys
<1>3. \A q \in DOMAIN f : /\ Renamed(q)[1] = IF q[1] = "mode_shift" THEN "layer" ELSE q[1]
                          /\ q[1] \in {"layer", "mode_shift"} => Renamed(q)[2] = q[2]
  BY RenamedIs DEF FileOK, IsPath
<1>4. \A p \in Spelled(f) : p[1] = "layer" /\ p[2] \in Unnamed(f)
  <2>1. \A x : <<"layer", x, "trigger">>[1] = "layer" /\ <<"layer", x, "trigger">>[2] = x
    OBVIOUS
  <2> QED BY <2>1 DEF Spelled
<1>5. Shifts(f) = {p[2] : p \in {q \in DOMAIN f : q[1] = "mode_shift"}}
  BY <1>2 DEF Shifts
<1>6. Kept(f) \subseteq DOMAIN f /\ Unnamed(f) \subseteq Shifts(f)
  BY DEF Kept, Unnamed
<1>7. \A p \in DOMAIN g : p[1] # "mode_shift"
  <2>1. \A q \in Kept(f) : Renamed(q)[1] # "mode_shift"
    BY <1>3, <1>6
  <2> QED BY <1>1, <1>4, <2>1
<1>8. ASSUME NEW p \in DOMAIN g, p[1] = "layer" PROVE p[2] \in Keys(f, <<"layer">>) \cup Shifts(f)
  <2>1. CASE p \in Spelled(f)
    BY <1>4, <1>6, <2>1
  <2>2. ASSUME NEW q \in Kept(f), p = Renamed(q)
        PROVE  p[2] \in Keys(f, <<"layer">>) \cup Shifts(f)
    <3>1. q \in DOMAIN f /\ q[1] \in {"layer", "mode_shift"} /\ q[2] = p[2]
      BY <1>3, <1>6, <1>8, <2>2
    <3> QED BY <1>2, <1>5, <3>1
  <2> QED BY <1>1, <2>1, <2>2
<1>9. ASSUME NEW q \in DOMAIN f, q[1] \in {"layer", "mode_shift"}
      PROVE  \E p \in DOMAIN g : p[1] = "layer" /\ p[2] = q[2]
  <2>1. CASE q \in Kept(f)
    BY <1>1, <1>3, <1>9, <2>1
  <2>2. CASE q \notin Kept(f)
    <3>1. q[2] \in Shifts(f)
      BY <2>2 DEF Kept
    <3>2. PICK r \in DOMAIN f : r[1] = "mode_shift" /\ r[2] = q[2]
      BY <1>5, <3>1
    <3>3. r \in Kept(f)
      BY <3>2 DEF Kept
    <3> QED BY <1>1, <1>3, <3>2, <3>3
  <2> QED BY <2>1, <2>2
<1> HIDE DEF g
<1>10. Keys(g, <<"layer">>) = {p[2] : p \in {q \in DOMAIN g : q[1] = "layer"}}
  BY <1>1, <1>2
<1>11. Keys(g, <<"mode_shift">>) = {}
  BY <1>1, <1>2, <1>7
<1>12. Keys(g, <<"layer">>) \subseteq Keys(f, <<"layer">>) \cup Shifts(f)
  BY <1>8, <1>10
<1>13. Keys(f, <<"layer">>) \cup Shifts(f) \subseteq Keys(g, <<"layer">>)
  <2>1. Keys(f, <<"layer">>) = {p[2] : p \in {q \in DOMAIN f : q[1] = "layer"}}
    BY <1>2
  <2> QED BY <1>5, <1>9, <1>10, <2>1
<1> QED BY <1>11, <1>12, <1>13 DEF g

(* What is read of tables that hold the same.                                  *)
LEMMA TablesRead ==
  ASSUME NEW f, NEW g, NEW old, NEW new, Alike(f, old, g, new)
  PROVE  /\ Keys(g, new) = Keys(f, old)
         /\ Gyro(g, new) = Gyro(f, old) /\ Stick(g, new) = Stick(f, old)
         /\ Dpad(g, new) = Dpad(f, old) /\ Remaps(g, new) = Remaps(f, old)
<1>1. /\ Keys(g, new) = Keys(f, old)
      /\ \A k, d : At(g, new \o <<k>>, d) = At(f, old \o <<k>>, d)
  BY DEF Alike
<1>2. \A modes, d : Mode(g, new, modes, d) = Mode(f, old, modes, d)
  BY <1>1 DEF Mode
<1> QED BY <1>1, <1>2 DEF Gyro, Stick, Dpad, Remaps

(* What is read of the tables of layers that hold the same.                    *)
LEMMA EntriesRead ==
  ASSUME NEW f, NEW g, NEW old, NEW new, AlikeButTrigger(f, old, g, new), NEW k
  PROVE  /\ Keys(g, new \o <<k>>) = Keys(f, old \o <<k>>)
         /\ Gyro(g, new \o <<k>>) = Gyro(f, old \o <<k>>)
         /\ Stick(g, new \o <<k>>) = Stick(f, old \o <<k>>)
         /\ Dpad(g, new \o <<k>>) = Dpad(f, old \o <<k>>)
         /\ Remaps(g, new \o <<k>>) = Remaps(f, old \o <<k>>)
<1>1. PICK p, q : p = old \o <<k>> /\ q = new \o <<k>>
  OBVIOUS
<1>2. Alike(f, p, g, q)
  BY <1>1, Zenon DEF AlikeButTrigger
<1>3. /\ Keys(g, q) = Keys(f, p) /\ Gyro(g, q) = Gyro(f, p) /\ Stick(g, q) = Stick(f, p)
      /\ Dpad(g, q) = Dpad(f, p) /\ Remaps(g, q) = Remaps(f, p)
  BY <1>2, TablesRead
<1> QED BY <1>1, <1>3, Zenon

(* A layer, by its fields.                                                     *)
Layer(trigger, tap, activation, gyro, stick_left, stick_right, dpad, remap) ==
  [trigger |-> trigger, tap |-> tap, activation |-> activation, gyro |-> gyro,
   stick_left |-> stick_left, stick_right |-> stick_right, dpad |-> dpad, remap |-> remap]

LEMMA LayerIs ==
  ASSUME NEW f, NEW path
  PROVE  LET x == parse_layer(f, path) IN
         x = Layer(x.trigger, x.tap, x.activation, x.gyro, x.stick_left, x.stick_right, x.dpad,
                   x.remap)
BY DEF parse_layer, Layer

(* Layers that hold the same are loaded alike, but for their triggers.         *)
LEMMA SameTable ==
  ASSUME NEW f, NEW g, NEW old, NEW new, AlikeButTrigger(f, old, g, new)
  PROVE  parse_layer(g, new) =
           [parse_layer(f, old) EXCEPT !.trigger = parse_layer(g, new).trigger]
<1>1. /\ At(g, new \o <<"tap">>, "") = At(f, old \o <<"tap">>, "")
      /\ At(g, new \o <<"activation">>, "hold") = At(f, old \o <<"activation">>, "hold")
  BY DEF AlikeButTrigger
<1>2. \A k : /\ Keys(g, new \o <<k>>) = Keys(f, old \o <<k>>)
             /\ Gyro(g, new \o <<k>>) = Gyro(f, old \o <<k>>)
             /\ Stick(g, new \o <<k>>) = Stick(f, old \o <<k>>)
             /\ Dpad(g, new \o <<k>>) = Dpad(f, old \o <<k>>)
             /\ Remaps(g, new \o <<k>>) = Remaps(f, old \o <<k>>)
  <2> TAKE k
  <2> QED BY EntriesRead
<1>3. PICK a, b : a = parse_layer(f, old) /\ b = parse_layer(g, new)
  OBVIOUS
<1>4. /\ b.tap = a.tap /\ b.activation = a.activation
      /\ b.gyro = a.gyro /\ b.stick_left = a.stick_left /\ b.stick_right = a.stick_right
      /\ b.dpad = a.dpad /\ b.remap = a.remap
  BY <1>1, <1>2, <1>3 DEF parse_layer
<1>5. b = [a EXCEPT !.trigger = b.trigger]
  <2>1. /\ a = Layer(a.trigger, a.tap, a.activation, a.gyro, a.stick_left, a.stick_right, a.dpad,
                     a.remap)
        /\ b = Layer(b.trigger, b.tap, b.activation, b.gyro, b.stick_left, b.stick_right, b.dpad,
                     b.remap)
    BY <1>3, LayerIs
  <2>2. \A s, t, u, v, w, x, y, z, r :
          [Layer(t, u, v, w, x, y, z, r) EXCEPT !.trigger = s] = Layer(s, u, v, w, x, y, z, r)
    BY DEF Layer
  <2> QED BY <1>4, <2>1, <2>2
<1> QED BY <1>3, <1>5

(* A layer of the migrated file is the one the file loaded.                    *)
LEMMA SameLayer ==
  ASSUME NEW f, FileOK(f), NEW n
  PROVE  parse_layer(Migrated(f), <<"layer", n>>) =
           IF n \in Shifts(f) THEN parse_mode_shift(f, n) ELSE parse_layer(f, <<"layer", n>>)
<1>1. PICK old, new, g : old = <<Section(f, n), n>> /\ new = <<"layer", n>> /\ g = Migrated(f)
  OBVIOUS
<1>2. PICK layer : layer = parse_layer(f, old)
  OBVIOUS
<1>3. /\ layer.trigger = At(f, old \o <<"trigger">>, "")
      /\ layer = [layer EXCEPT !.trigger = layer.trigger]
  <2>1. layer.trigger = At(f, old \o <<"trigger">>, "")
    BY <1>2 DEF parse_layer
  <2>2. layer = Layer(layer.trigger, layer.tap, layer.activation, layer.gyro, layer.stick_left,
                      layer.stick_right, layer.dpad, layer.remap)
    BY <1>2, LayerIs
  <2>3. layer = [layer EXCEPT !.trigger = layer.trigger]
    BY <2>2 DEF Layer
  <2> QED BY <2>1, <2>2, <2>3
<1>4. PICK word : word = IF n \in Unnamed(f) THEN n ELSE layer.trigger
  OBVIOUS
<1>5. parse_layer(g, new) = [layer EXCEPT !.trigger = word]
  <2>1. AlikeButTrigger(f, old, g, new)
    BY <1>1, LayerRead
  <2>2. At(g, new \o <<"trigger">>, "") = word
    <3>1. At(g, new \o <<"trigger">>, "") =
            IF n \in Unnamed(f) THEN n ELSE At(f, old \o <<"trigger">>, "")
      BY <1>1, TriggerRead
    <3> QED BY <1>3, <1>4, <3>1
  <2>3. parse_layer(g, new) = [parse_layer(f, old) EXCEPT !.trigger = parse_layer(g, new).trigger]
    BY <2>1, SameTable
  <2>4. parse_layer(g, new).trigger = word
    BY <2>2 DEF parse_layer
  <2> QED BY <1>2, <2>3, <2>4
<1>6. CASE n \in Shifts(f)
  <2>1. old = <<"mode_shift", n>>
    BY <1>1, <1>6 DEF Section
  <2>2. old \o <<"trigger">> = <<"mode_shift", n, "trigger">>
    BY <2>1, Concat3, Zenon
  <2>3. n \in Unnamed(f) <=> layer.trigger = ""
    BY <1>3, <1>6, <2>2 DEF Unnamed
  <2>4. parse_mode_shift(f, n) = IF layer.trigger = "" THEN [layer EXCEPT !.trigger = n] ELSE layer
    BY <1>2, <2>1 DEF parse_mode_shift
  <2>5. parse_layer(g, new) = parse_mode_shift(f, n)
    BY <1>3, <1>4, <1>5, <2>3, <2>4
  <2> QED BY <1>1, <1>6, <2>5
<1>7. CASE n \notin Shifts(f)
  <2>1. old = <<"layer", n>> /\ n \notin Unnamed(f)
    BY <1>1, <1>7 DEF Section, Unnamed
  <2>2. parse_layer(g, new) = layer
    BY <1>3, <1>4, <1>5, <2>1
  <2> QED BY <1>1, <1>2, <1>7, <2>1, <2>2
<1> QED BY <1>6, <1>7

(* So are all of them, and there are no others.                                *)
LEMMA SameLayers == ASSUME NEW f, FileOK(f) PROVE LoadLayers(Migrated(f)) = LoadLayers(f)
<1> DEFINE g == Migrated(f)
<1>1. Keys(g, <<"mode_shift">>) = {} /\ Keys(g, <<"layer">>) = Keys(f, <<"layer">>) \cup Shifts(f)
  BY NamesRead
<1>2. LoadLayers(g) = [n \in Keys(g, <<"layer">>) |-> parse_layer(g, <<"layer", n>>)]
  BY <1>1 DEF LoadLayers
<1>3. LoadLayers(f) = [n \in Keys(f, <<"layer">>) \cup Shifts(f) |->
                         IF n \in Shifts(f) THEN parse_mode_shift(f, n)
                         ELSE parse_layer(f, <<"layer", n>>)]
  BY DEF LoadLayers, Shifts
<1>4. \A n : parse_layer(g, <<"layer", n>>) =
               IF n \in Shifts(f) THEN parse_mode_shift(f, n) ELSE parse_layer(f, <<"layer", n>>)
  BY SameLayer
<1> HIDE DEF g
<1>5. LoadLayers(g) = LoadLayers(f)
  BY <1>1, <1>2, <1>3, <1>4
<1> QED BY <1>5 DEF g

(* A table outside the sections, and its entries.                              *)
LEMMA BaseTable ==
  ASSUME NEW f, FileOK(f), NEW path, IsPath(path), path[1] \notin {"layer", "mode_shift"}
  PROVE  /\ Gyro(Migrated(f), path) = Gyro(f, path) /\ Stick(Migrated(f), path) = Stick(f, path)
         /\ Dpad(Migrated(f), path) = Dpad(f, path)
         /\ Remaps(Migrated(f), path) = Remaps(f, path)
<1>1. ASSUME NEW k, NEW d PROVE At(Migrated(f), path \o <<k>>, d) = At(f, path \o <<k>>, d)
  <2>1. PICK S, u : S = ToSet(path) \cup {k} /\ u = <<k>>
    OBVIOUS
  <2>2. path \in Seq(S) /\ u \in Seq(S) /\ Len(u) = 1 /\ Len(path) \in Nat /\ Len(path) > 0
    BY <2>1, SeqMonotonic DEF IsPath
  <2>3. PICK p : p = path \o u
    OBVIOUS
  <2>4. p \in Seq(S) /\ Len(p) = Len(path) + 1 /\ p[1] = path[1]
    <3>1. /\ p \in Seq(S) /\ Len(p) = Len(path) + Len(u)
          /\ \A i \in 1 .. Len(path) + Len(u) :
               p[i] = IF i <= Len(path) THEN path[i] ELSE u[i - Len(path)]
      BY <2>2, <2>3, ConcatProperties
    <3> QED BY <2>2, <3>1
  <2>5. p \in Seq(ToSet(p)) /\ Len(p) > 0
    BY <2>2, <2>4, LenProperties, SeqDef DEF ToSet
  <2>6. IsPath(p) /\ p[1] \notin {"layer", "mode_shift"}
    BY <2>4, <2>5 DEF IsPath
  <2>7. At(Migrated(f), p, d) = At(f, p, d)
    BY <2>6, BaseRead
  <2> QED BY <2>1, <2>3, <2>7
<1>2. Keys(Migrated(f), path) = Keys(f, path)
  BY BaseRead
<1>3. Alike(f, path, Migrated(f), path)
  BY <1>1, <1>2, Zenon DEF Alike
<1> QED BY <1>3, TablesRead

(* The migrated file loads as the file does.                                   *)
LEMMA SameMeaning == ASSUME NEW f, FileOK(f) PROVE Load(Migrated(f)) = Load(f)
<1>1. \A a : IsPath(<<a>>) <=> a \notin {"layer", "mode_shift"}
  <2>1. \A a : ToSet(<<a>>) = {a}
    BY DEF ToSet
  <2> QED BY <2>1 DEF IsPath
<1>2. \A a, b : a \notin {"layer", "mode_shift"} => IsPath(<<a, b>>) /\ <<a, b>>[1] = a
  <2> SUFFICES ASSUME NEW a, NEW b, a \notin {"layer", "mode_shift"}
               PROVE  IsPath(<<a, b>>) /\ <<a, b>>[1] = a
    OBVIOUS
  <2>1. PICK p : p = <<a, b>>
    OBVIOUS
  <2>2. p[1] = a /\ Len(p) = 2 /\ p \in Seq({a, b}) /\ ToSet(p) = {a, b}
    BY <2>1 DEF ToSet
  <2>3. IsPath(p)
    BY <2>2 DEF IsPath
  <2> QED BY <2>1, <2>2, <2>3
<1>3. At(Migrated(f), <<"emulate_elite">>, TRUE) = At(f, <<"emulate_elite">>, TRUE)
  BY <1>1, BaseRead
<1>4. \A b : At(Migrated(f), <<"remap", b>>, "none") = At(f, <<"remap", b>>, "none")
  BY <1>2, BaseRead
<1>5. /\ Remaps(Migrated(f), <<"remap">>) = Remaps(f, <<"remap">>)
      /\ Gyro(Migrated(f), <<"gyro">>) = Gyro(f, <<"gyro">>)
      /\ Dpad(Migrated(f), <<"dpad">>) = Dpad(f, <<"dpad">>)
  BY <1>1, BaseTable
<1>6. /\ Stick(Migrated(f), <<"stick", "left">>) = Stick(f, <<"stick", "left">>)
      /\ Stick(Migrated(f), <<"stick", "right">>) = Stick(f, <<"stick", "right">>)
  BY <1>2, BaseTable
<1> QED BY <1>3, <1>4, <1>5, <1>6, SameLayers DEF Load

(* To rename the deprecated sections of a file, and to spell out the triggers  *)
(* they leave out, changes nothing of what is loaded.                          *)
THEOREM MigrationIsSafe == Spec => []MigrationKeepsMeaning
<1>1. CfgInv => MigrationKeepsMeaning
  BY SameMeaning DEF CfgInv, MigrationKeepsMeaning
<1> QED BY <1>1, CfgInductive, PTL
================================================================================
